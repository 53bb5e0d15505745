SPECIFICATION FairSpec
CONSTANTS
  Callers = {c1, c2}
  MaxSessions = 3
  KeysInOrder = TRUE
INVARIANTS TypeOK RevokedMeansEnded ToastMeansRevoked
PROPERTIES ExpiredMeansEnded RevokedIsTold
