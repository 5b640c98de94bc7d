SPECIFICATION Spec
CONSTANTS
  r1 = r1  r2 = r2  u1 = u1  u2 = u2  m1 = m1  m2 = m2  m3 = m3
  p1 = p1  p2 = p2  admin = admin
  NoPhone = NoPhone  NoRow = NoRow
  Replicas <- TwoReplicas
  Users <- TwoUsers
  Mails <- ThreeMails
  Phones <- OnePhone
  Roles <- OneRole
SYMMETRY ProfileSymmetry
INVARIANTS TypeOK ContactsUnique StaleHasACause
PROPERTIES AnswersTrue
