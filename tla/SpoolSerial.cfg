SPECIFICATION FairSpec
CONSTANTS
  c1 = c1 c2 = c2 sw = sw
  alice = alice bob = bob carol = carol
  s1 = s1 s2 = s2 s3 = s3 i1 = i1 i2 = i2 i3 = i3
  None = None
  Conns = {c1}
  Sweepers = {c1}
  Senders = {alice}
  Targets = {bob, carol}
  SHAs = {s1, s2}
  Chunks <- TwoChunks
  Aligned = {s2}
  MaxBytes = 3
  IDs = {i1, i2, i3}
  MaxCrashes = 2
INVARIANTS NoDangling NoLostDelivery CapRespected
PROPERTIES KeepsPromise OrphansReclaimed
