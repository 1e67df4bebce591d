SPECIFICATION Spec
CONSTANTS
  Users = {u1, u2}
  MfaUsers = {u2}
  Nobody = Nobody
  Tabs = {t1, t2}
  Browsers = {b1, b2}
  Abandoned = {x1}
  MaxSessions = 2
  MaxChallenges = 1
  MaxClicks = 2
SYMMETRY Symmetry
INVARIANTS TypeOK LandsWhereStarted
PROPERTIES ForgottenOnlyWhenRevoked LastAdminOwnDoing
CHECK_DEADLOCK FALSE
