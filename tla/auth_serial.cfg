SPECIFICATION Spec
CONSTANTS
  r1 = r1  r2 = r2  u1 = u1  u2 = u2  t1 = t1  t2 = t2
  c1 = c1  c2 = c2  w1 = w1  w2 = w2
  NoUser = NoUser  NoToken = NoToken  NoCode = NoCode  NoPassword = NoPassword
  Replicas <- OneReplica
  Users <- TwoUsers
  Tokens <- OneToken
  Codes <- TwoCodes
  Passwords <- TwoPasswords
  Operations <- AllOperations
  CodeLifetime = 1
  MaxNow = 2
SYMMETRY SerialSymmetry
INVARIANTS DeviceUnique PendingAccountHasCode
PROPERTIES RemovedIsFrozen PasswordLoginCurrent
