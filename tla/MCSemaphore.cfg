SPECIFICATION SemSpec
CONSTANTS
  r1 = r1
  r2 = r2
  r3 = r3
  v1 = v1
  v2 = v2
  Readers <- MCReaders
  Clients <- MCClients
  MaxPermits = 6
SYMMETRY MCSymmetry
INVARIANT NoLostWakeup
PROPERTY RefinesRwLock
