SPECIFICATION HostSpec
CONSTANTS
  GrantCaps <- MCCaps
  Requests <- MCRequests
  Consents <- MCConsents
  Times <- MCTimes
  Ttls <- MCTtls
  Seqs <- MCSeqs
  Layouts <- MCLayouts
  GrantExpiry = 2
  MinTtl = 1
  MaxTtl = 1
  GenMod = 3
  InitGen = 1
  MaxLeases = 2
  MaxInjected = 2
  Keys = {a, b}
  Stoppers = {s1, s2}
INVARIANTS HostTypeOK KeysReleasedAtEnd ResidualBounded OneLeasePerConsent
PROPERTY KeysReleased
CHECK_DEADLOCK FALSE
