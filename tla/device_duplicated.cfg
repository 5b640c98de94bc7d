SPECIFICATION Spec
CONSTANTS
  r1 = r1  r2 = r2  u1 = u1  u2 = u2  t1 = t1  t2 = t2
  c1 = c1  c2 = c2  w1 = w1  w2 = w2
  NoUser = NoUser  NoToken = NoToken  NoCode = NoCode  NoPassword = NoPassword
  Replicas <- TwoReplicas
  Users <- OneUser
  Tokens <- TwoTokens
  Codes <- OneCode
  Passwords <- OnePassword
  Operations <- DeviceOperations
  CodeLifetime = 1
  MaxNow = 0
INVARIANTS DeviceUnique
