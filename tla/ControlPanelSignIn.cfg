SPECIFICATION FairSpec
CONSTANTS
  Users = {u1, u2}
  MfaUsers = {}
  Nobody = Nobody
  Tabs = {t1}
  Browsers = {b1}
  Abandoned = {}
  MaxSessions = 2
  MaxChallenges = 1
  MaxClicks = 2
PROPERTIES SignInReachable
CHECK_DEADLOCK FALSE
