\* Two profiles, two racing management requests and two racing creates.
CONSTANTS
  Profiles = {p1, p2}
  Adapters = {a1, a2}
  Sessions = {s1, s2}
  MaxCreds = 3
  Clients = {c1, c2}
SYMMETRY ServiceSymmetry
SPECIFICATION ServiceSpec
INVARIANTS
  CredentialsSound
  RunsSound
CHECK_DEADLOCK FALSE
