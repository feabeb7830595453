SPECIFICATION FairSpec
CONSTANTS
  c1 = c1 c2 = c2 sw = sw
  alice = alice bob = bob carol = carol
  s1 = s1 s2 = s2 s3 = s3 i1 = i1 i2 = i2 i3 = i3
  None = None
  Conns = {c1, c2}
  Sweepers = {}
  Senders = {alice}
  Targets = {bob}
  SHAs = {s1}
  Chunks <- OneChunk
  Aligned = {}
  MaxBytes = 2
  IDs = {i1, i2}
  MaxCrashes = 0
PROPERTIES RequestsEnd
CHECK_DEADLOCK FALSE
