------------------------------ MODULE MCInbox ------------------------------
(* Small instances of Inbox. *)
EXTENDS Inbox, TLC

CONSTANTS r1, r2, a, b, s1, s2, n1, n2

OneContent == a :> s1 @@ b :> s1
TwoChunks == [s \in SHAs |-> 2]
SameName == a :> n1 @@ b :> n1
OwnNames == a :> n1 @@ b :> n2

\* One receiver at a time, files of one name: twice broken, or an hour that passes.
Solo == [who : {{r1}}, hours : {0}, breaks : {2}, name : {SameName}, changed : {{}}]
Edited == [who : {{r1}}, hours : {1}, breaks : {1}, name : {SameName}, changed : {{}, {b}}]
\* Two receivers and no hour: within one a lock file keeps its meaning.
Pair == [who : {{r1, r2}}, hours : {0}, breaks : {1}, name : {OwnNames}, changed : {{}}]
\* Two receivers of one content, and an hour.
PairLong == [who : {{r1, r2}}, hours : {1}, breaks : {1}, name : {OwnNames}, changed : {{}}]
SoloOrPair == Solo \cup Edited \cup Pair
=============================================================================
