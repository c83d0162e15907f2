\* Two servers, two answers in flight (of this request or of the one before: the
\* ids start at 1 again), a lease with a T1 of 2 s and no T2, and up to 1.5 s between two checks.
SPECIFICATION LeaseFairSpec
CONSTANTS
  near = near
  far = far
  Servers <- MCServers
  Identifier <- MCIdentifier
  Sender <- MCSender
  NoAddress = NoAddress
  Leases = {3}
  T1s = {2}
  T2s = {0}
  DefaultLease = 900
  Xids = {1}
  Timeout = 1
  ResponseTimeout = 0
  MaxGap = 3
  MaxNet = 2
  MaxXid = 3
INVARIANTS
  AddressIsGranted
  ChipUsesTheLease
PROPERTIES
  RenewNotLate
  RequestReturns
CHECK_DEADLOCK TRUE
