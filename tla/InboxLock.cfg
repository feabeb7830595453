SPECIFICATION Spec
CONSTANTS
  r1 = r1 r2 = r2 a = a b = b s1 = s1 s2 = s2 n1 = n1 n2 = n2
  None = None
  Receivers = {r1, r2}
  Items = {a, b}
  SHAs = {s1, s2}
  ShaOf <- OneContent
  Chunks <- TwoChunks
  Aligned = {s1}
  Crews <- PairLong
  Inodes = {1, 2, 3, 4, 5, 6, 7}
INVARIANT OneReceiver
CHECK_DEADLOCK FALSE
