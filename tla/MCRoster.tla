------------------------------ MODULE MCRoster ------------------------------
(* Small instances of Roster. *)
EXTENDS Roster, TLC

CONSTANTS c1, c2, d1, d2, ann, ben, cid, k1, k2, i1, i2

DataSymmetry == Permutations(Devices) \cup Permutations(Names)
                \cup Permutations(Codes) \cup Permutations(Items)
ConnSymmetry == DataSymmetry \cup Permutations(Conns)
=============================================================================
