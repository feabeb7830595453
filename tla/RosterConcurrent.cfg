SPECIFICATION Spec
CONSTANTS
  c1 = c1 c2 = c2 d1 = d1 d2 = d2 ann = ann
  ben = ben cid = cid k1 = k1 k2 = k2 i1 = i1
  i2 = i2 None = None
  Conns = {c1, c2}
  Tools = {}
  Sweepers = {c1, c2}
  Devices = {d1, d2}
  Names = {ann, ben}
  Codes = {k1}
  Items = {}
  MaxCrashes = 0
  MaxFaults = 0
SYMMETRY ConnSymmetry
INVARIANTS TypeOK SingleUse EditsAreSeen
