------------------------------ MODULE MCSpool ------------------------------
(* Small instances of Spool. *)
EXTENDS Spool, TLC

CONSTANTS c1, c2, sw, alice, bob, carol, s1, s2, s3, i1, i2, i3

TwoChunks == [s \in SHAs |-> 2]
OneChunk == [s \in SHAs |-> 1]
Mixed == [s \in SHAs |-> IF s = s1 THEN 2 ELSE 1]
ConnSymmetry == Permutations(Conns) \cup Permutations(IDs) \cup Permutations(Targets)
=============================================================================
