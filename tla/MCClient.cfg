SPECIFICATION MCSpec
CONSTANTS
  Session = {s1, s2}
  NoSession = NoSession
  Tries = 3
  MaxLogins = 4
  MaxKeys = 2
  Server = {v1, v2}
  MaxBuild = 3
INVARIANTS FormatsRight SessionFileSound TypeOK LoginBound Pumped LoggedInIsServed SuccessIsLoggedIn
PROPERTY Returns
