SPECIFICATION Spec
CONSTANTS
  s1 = s1
  s2 = s2
  c1 = c1
  l1 = l1
  l2 = l2
  t1 = t1
  t2 = t2
  Sessions = {s1, s2}
  Challenges = {c1}
  Logins = {l1, l2}
  Txns = {t1, t2}
  MaxAttempts = 2
  MaxChanges = 2
CONSTRAINT InFlight
SYMMETRY Symmetry
INVARIANTS
  TypeOK
  RevokedHasEvent
  RevokedOnce
  RevokedSessionsGone
  OnlyRenamesDeadlock
  ChallengeSingleUse
PROPERTIES
  ClaimedCodeHonoured
CHECK_DEADLOCK FALSE
