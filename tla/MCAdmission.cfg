SPECIFICATION Spec
CONSTANTS
  Nonces = {n1, n2}
  Endpoints = {e1, e2}
  RequestedCaps <- MCRequested
  ConsentedCaps <- MCConsented
  HostPolicy <- MCPolicy
  Times <- MCTimes
  Lifetimes <- MCLifetimes
  MaxRequestTtl = 2
  ClockSkew = 1
  CacheTtl = 1
  MaxEntries = 1
  TicketTtl = 1
  MaxTickets = 2
  MaxGeneration = 2
SYMMETRY Interchangeable
INVARIANTS AdmissionTypeOK AcceptedOnce TicketUsedOnce SessionsConsented
CHECK_DEADLOCK FALSE
