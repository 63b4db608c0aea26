SPECIFICATION FairSpec
CONSTANTS
  p1 = p1
  p2 = p2
  k1 = k1
  k2 = k2
  Procs = {p1}
  LocalKeys = {k1, k2}
  NoLocalKey = NoLocalKey
  BatchSize = 2
  Threshold = 1
  LateRequests = FALSE
  MaxMishaps = 3
  MaxTakes = 1
INVARIANTS
  TypeOK
  PublishedIsServed
  PublishedOPKsWereOffered
  OfferedOPKsAreHeld
  OneKeySealsAllOPKs
  NoUploadIsRefused
  OnlyFlagsMeetRefusal
  OfferedOnce
PROPERTIES
  IdentityIsKept
  EveryUserGetsThrough

