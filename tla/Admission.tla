----------------------------- MODULE Admission -----------------------------
(***************************************************************************)
(* Who may come in: what the stash's join control promises.  The first     *)
(* member ever founds the mesh; everybody else comes in on an invite, and  *)
(* an invite lets one device in at most.                                   *)
(***************************************************************************)
CONSTANTS Devices, Codes

VARIABLES
  inside, \* devices on the roster
  live,   \* invites that can still be presented
  shown,  \* invites presented by a device that is not inside yet
  issued  \* every invite ever issued

vars == <<inside, live, shown, issued>>

Init == inside = {} /\ live = {} /\ shown = {} /\ issued = {}

\* The first device needs no invite.
Found(d) == inside = {} /\ inside' = {d} /\ UNCHANGED <<live, shown, issued>>

\* An invite is issued once; it may be lost at once, and others with it.
Issue(k) ==
  /\ k \notin issued
  /\ issued' = issued \cup {k}
  /\ live' \subseteq live \cup {k}
  /\ UNCHANGED <<inside, shown>>

\* Presenting an invite uses it up; others may be lost with it.
Show(k) ==
  /\ k \in live
  /\ live' \subseteq live \ {k} /\ shown' = shown \cup {k}
  /\ UNCHANGED <<inside, issued>>

\* The device that presented it comes in.
Enter(d, k) ==
  /\ k \in shown
  /\ shown' = shown \ {k} /\ inside' = inside \cup {d}
  /\ UNCHANGED <<live, issued>>

\* Members leave or are removed.
Leave(D) == inside' = inside \ D /\ UNCHANGED <<live, shown, issued>>

\* Invites expire or are lost.
Lose(K) == live' = live \ K /\ shown' \subseteq shown /\ UNCHANGED <<inside, issued>>

Next ==
  \/ \E d \in Devices : Found(d) \/ \E k \in Codes : Enter(d, k)
  \/ \E k \in Codes : Issue(k) \/ Show(k)
  \/ \E D \in SUBSET Devices : Leave(D)
  \/ \E K \in SUBSET Codes : Lose(K)

Spec == Init /\ [][Next]_vars
=============================================================================
