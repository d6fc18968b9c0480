SPECIFICATION Spec
CONSTANTS
  p1 = p1
  p2 = p2
  t1 = t1
  t2 = t2
  admin = admin
  clerk = clerk
  post = post
  reset = reset
  Programs = {p1, p2}
  Threads = {t1, t2}
  Roles = {admin, clerk}
  Permissions = {post, reset}
  MaxVersion = 2
  Defaults <- MCDefaults
  Absent = Absent
  Damaged = Damaged
  Nothing = Nothing
  Keep = 1
  MaxSeconds = 1
  MaxCommits = 1
  MaxStarts = 2
  MaxEvents = 2
SYMMETRY Symmetry
CHECK_DEADLOCK FALSE
INVARIANTS
  TypeOK
  WayBack
  AdministratorThere
  LegacyCarried
  
  
  
  UpgradeArrives
