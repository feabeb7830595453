-------------------------- MODULE SpoolTurnsProofs --------------------------
(***************************************************************************)
(* Theorems about a stash that does one thing at a time: the connections   *)
(* and the sweeper take turns, for any contents, cap and number of crashes *)
(* between any two steps.  What they state fails when two handlers         *)
(* interleave, as the runs with two connections show.                      *)
(***************************************************************************)
EXTENDS SpoolProofs

USE SpoolAssumption, NoneAssumption DEF Procs

\* One process serves every connection and sweeps.
Turns == \A p, q \in Procs : p = q

\* The sidecar a deposit's request asks for.
SidecarOf(r) == [from |-> r.from, target |-> r.target, sha |-> r.sha]

\* Before its sidecar is written, a deposit's id is free;
Unsaved ==
  \A p \in Procs :
    pc[p] \in {"evicting", "sized", "duplicate", "header", "attached", "ready",
               "claimed", "writing", "parked"} => meta[req[p].id] = None

\* ... then it is the deposit's, as a fetched entry is the fetch's;
Saved ==
  \A p \in Procs :
    pc[p] \in {"unconfirmed", "patching", "saved", "deduping", "serving"} =>
      meta[req[p].id] = SidecarOf(req[p])

\* ... and a sidecar is written over a body that is there.
Bodied == \A p \in Procs : pc[p] \in {"attached", "parked"} => body[KeyOf(req[p])] # None

\* Whatever dedup collapses says the same as the entry it keeps;
Collapsing ==
  \A p \in Procs : pc[p] = "deduping" =>
    \A i \in work[p] : i # req[p].id /\ meta[i] = SidecarOf(req[p])

\* ... whatever an ack, a dismissal or the retention deletes is settled;
Settled ==
  \A p \in Procs : pc[p] \in {"acking", "expiring"} =>
    \A i \in work[p] : i \in Parked /\ DeliveryOf(meta[i]) \notin owed

\* ... and no sidecar refers to a body that is about to go.
Unreferenced ==
  \A p \in Procs : doomed[p] # None =>
    pc[p] \in {"acking", "expiring"} /\ References(doomed[p]) = {}

\* The sweep has seen every sidecar there is.
Listed ==
  \A p \in Procs : pc[p] = "sweeping" =>
    \A i \in Parked : \E e \in scan[p] : e.key = KeyOf(meta[i])

TurnsInv ==
  /\ Unsaved /\ Saved /\ Bodied /\ Collapsing /\ Settled /\ Unreferenced /\ Listed
  /\ NoDangling /\ DedupKeepsOne

-----------------------------------------------------------------------------
(***************************************************************************)
(* Every step of the one process keeps TurnsInv.                           *)
(***************************************************************************)

\* What the proofs below know of the one process.
Alone(c) ==
  /\ Typed /\ TurnsInv
  /\ c \in Procs /\ \A p \in Procs : p = c

\* A handler that returns, leaving the directory alone.
LEMMA TurnReturns ==
  ASSUME NEW c, Alone(c), Return(c), UNCHANGED <<meta, body, owed>>
  PROVE  TurnsInv'
<1>1. /\ pc'[c] = "idle" /\ doomed'[c] = None
      /\ \A p \in Procs : p = c
  BY DEF Alone, Return, Typed, TypeOK
<1>2. (NoDangling /\ DedupKeepsOne)'
  BY DEF Alone, TurnsInv, NoDangling, DedupKeepsOne, Parked, Retrievable
<1> QED
  BY <1>1, <1>2
     DEF TurnsInv, Unsaved, Saved, Bodied, Collapsing, Settled, Unreferenced, Listed

\* A deposit that moves on before its sidecar is written, leaving the
\* directory's sidecars and bodies alone.
LEMMA TurnGoes ==
  ASSUME NEW c, Alone(c), NEW l, Goto(c, l), UNCHANGED <<meta, body, owed, req, doomed>>,
         pc[c] \in {"evicting", "sized", "duplicate", "header", "ready", "claimed", "writing"},
         l \in {"evicting", "sized", "duplicate", "header", "ready", "claimed", "writing"}
  PROVE  TurnsInv'
<1>1. /\ pc'[c] = l /\ \A p \in Procs : p = c
  BY DEF Alone, Goto, Typed, TypeOK
<1>2. (NoDangling /\ DedupKeepsOne)'
  BY DEF Alone, TurnsInv, NoDangling, DedupKeepsOne, Parked, Retrievable
<1>3. doomed[c] = None
  BY DEF Alone, TurnsInv, Unreferenced
<1>4. meta[req[c].id] = None
  BY DEF Alone, TurnsInv, Unsaved
<1> QED
  BY <1>1, <1>2, <1>3, <1>4
     DEF TurnsInv, Unsaved, Saved, Bodied, Collapsing, Settled, Unreferenced, Listed

\* A request that arrives takes a free id.
LEMMA TurnProbe ==
  ASSUME NEW c \in Conns, Alone(c), Probe(c)
  PROVE  TurnsInv'
<1>1. PICK from \in Senders, target \in Targets, sha \in SHAs, i \in IDs :
        LET k == [from |-> from, sha |-> sha]
            have == Have(k, target)
            excess == Usage + admitted + Chunks[sha] - have - MaxBytes
            stale == IF excess > 0 THEN StalePartials(k) ELSE {} IN
        /\ target # from
        /\ Free(i)
        /\ req' = [req EXCEPT ![c] =
             [from |-> from, target |-> target, sha |-> sha, id |-> i,
              mode |-> Mode(k, target), have |-> have]]
        /\ usage' = [usage EXCEPT ![c] = Usage]
        /\ over' = [over EXCEPT ![c] = excess]
        /\ scan' = [scan EXCEPT ![c] =
             {[key |-> s, size |-> Size(partial[s])] : s \in stale}]
        /\ Goto(c, IF stale = {} THEN "sized" ELSE "evicting")
  BY Zenon DEF Probe
<1>2. /\ pc[c] = "idle" /\ UNCHANGED <<disk, owed, doomed>>
      /\ pc' = [pc EXCEPT ![c] = "sized"] \/ pc' = [pc EXCEPT ![c] = "evicting"]
  <2>1. pc' = [pc EXCEPT ![c] = "sized"] \/ pc' = [pc EXCEPT ![c] = "evicting"]
    BY DEF Probe, Goto
  <2> QED
    BY <2>1 DEF Probe, ghost
<1>3. \A p \in Procs : p = c
  BY DEF Alone
<1>4. pc'[c] \in {"sized", "evicting"} /\ meta'[req'[c].id] = None
  BY <1>1, <1>2 DEF disk, Alone, Typed, TypeOK, Free
<1>5. (NoDangling /\ DedupKeepsOne)'
  BY <1>2 DEF Alone, TurnsInv, NoDangling, DedupKeepsOne, Parked, Retrievable, disk
<1>6. doomed'[c] = None
  BY <1>2 DEF Alone, TurnsInv, Unreferenced
<1> QED
  BY <1>3, <1>4, <1>5, <1>6
     DEF TurnsInv, Unsaved, Saved, Bodied, Collapsing, Settled, Unreferenced, Listed

\* A sidecar over a body: Saved for the deposit that writes it.
LEMMA TurnSaves ==
  ASSUME NEW c \in Conns, Alone(c), SaveMeta(c), UNCHANGED <<body, req, doomed>>,
         pc[c] \in {"attached", "parked"}, NEW l \in {"saved", "unconfirmed"}, Goto(c, l)
  PROVE  TurnsInv'
<1>1. /\ pc'[c] = l /\ \A p \in Procs : p = c
      /\ req[c] \in Request /\ KeyOf(req[c]) \in Keys /\ body[KeyOf(req[c])] # None
  BY RequestType DEF Alone, Goto, Typed, TypeOK, Requesting, TurnsInv, Bodied
<1>2. doomed[c] = None
  BY DEF Alone, TurnsInv, Unreferenced
<1>3. /\ req[c].id \in IDs /\ meta[req[c].id] = None
      /\ SidecarOf(req[c]) \in Sidecar /\ SidecarOf(req[c]) # None
      /\ KeyOf(SidecarOf(req[c])) = KeyOf(req[c])
      /\ DeliveryOf(SidecarOf(req[c])) = DeliveryOf(req[c])
  BY <1>1 DEF Alone, TurnsInv, Unsaved, Request, Sidecar, SidecarOf, KeyOf, DeliveryOf
<1>4. /\ meta' = [meta EXCEPT ![req[c].id] = SidecarOf(req[c])]
      /\ owed' = owed \cup {DeliveryOf(req[c])}
      /\ meta \in [IDs -> Sidecar \cup {None}]
  BY DEF SaveMeta, SidecarOf, Alone, Typed, TypeOK
<1> HIDE DEF SidecarOf, KeyOf, DeliveryOf
<1>5. meta'[req[c].id] = SidecarOf(req[c]) /\ Parked' = Parked \cup {req[c].id}
  BY <1>3, <1>4 DEF Parked
<1>6. \A i \in Parked : i # req[c].id /\ meta'[i] = meta[i]
  BY <1>3, <1>4 DEF Parked
<1>7. NoDangling'
  BY <1>1, <1>3, <1>5, <1>6 DEF Alone, TurnsInv, NoDangling, Retrievable
<1>8. DedupKeepsOne'
  BY <1>3, <1>4, <1>5, <1>6 DEF Alone, TurnsInv, DedupKeepsOne
<1> QED
  BY <1>1, <1>2, <1>5, <1>7, <1>8
     DEF TurnsInv, Unsaved, Saved, Bodied, Collapsing, Settled, Unreferenced, Listed

\* The partial becomes the body.
LEMMA TurnParks ==
  ASSUME NEW c \in Conns, Alone(c), PutPark(c)
  PROVE  TurnsInv'
<1> DEFINE k == KeyOf(req[c])
<1>1. /\ pc[c] = "writing" /\ pc'[c] = "parked" /\ \A p \in Procs : p = c
      /\ k \in Keys /\ UNCHANGED <<meta, owed, req, doomed>>
  BY PutRequest DEF Alone, PutPark, Goto, Typed, TypeOK, InPut, cleanup, ghost
<1>2. body'[k] # None /\ \A j \in Keys : body[j] # None => body'[j] = body[j]
  BY <1>1 DEF PutPark, Alone, Typed, TypeOK
<1>3. \A i \in Parked : KeyOf(meta[i]) \in Keys
  BY KeyOfType DEF Parked, Alone, Typed, TypeOK
<1>4. NoDangling'
  BY <1>1, <1>2, <1>3 DEF Alone, TurnsInv, NoDangling, Parked, Retrievable
<1>5. DedupKeepsOne' /\ doomed[c] = None /\ meta[req[c].id] = None
  BY <1>1 DEF Alone, TurnsInv, DedupKeepsOne, Parked, Unreferenced, Unsaved
<1> QED
  BY <1>1, <1>2, <1>4, <1>5
     DEF TurnsInv, Unsaved, Saved, Bodied, Collapsing, Settled, Unreferenced, Listed

\* A deposit that attaches has seen the body; one that confirms finds its own
\* sidecar and lists the ones that say the same.
LEMMA TurnConfirms ==
  ASSUME NEW c \in Conns, Alone(c),
         Attach(c) \/ PatchLoad(c) \/ PatchSave(c) \/ Dedup(c)
  PROVE  TurnsInv'
<1>1. /\ \A p \in Procs : p = c
      /\ meta \in [IDs -> Sidecar \cup {None}] /\ pc \in [Procs -> Labels]
      /\ work \in [Procs -> SUBSET IDs] /\ doomed[c] = None
  BY DEF Alone, Typed, TypeOK, Attach, PatchLoad, PatchSave, Dedup, TurnsInv, Unreferenced
<1>2. UNCHANGED <<body, owed, req, doomed>>
  BY DEF Attach, PatchLoad, PatchSave, Dedup, disk, ghost, cleanup
<1>3. UNCHANGED meta
  <2>1. CASE PatchSave(c)
    <3>1. meta[req[c].id] = SidecarOf(req[c])
      BY <2>1 DEF PatchSave, Alone, TurnsInv, Saved
    <3> QED
      BY <1>1, <2>1, <3>1 DEF PatchSave, SidecarOf
  <2> QED
    BY <2>1 DEF Attach, PatchLoad, Dedup, disk
<1>4. (NoDangling /\ DedupKeepsOne)'
  BY <1>2, <1>3 DEF Alone, TurnsInv, NoDangling, DedupKeepsOne, Parked, Retrievable
<1>5. CASE Attach(c)
  <2>1. pc'[c] = "attached" /\ body[KeyOf(req[c])] # None /\ meta[req[c].id] = None
    BY <1>1, <1>5 DEF Attach, Goto, Alone, TurnsInv, Unsaved
  <2> QED
    BY <1>1, <1>2, <1>3, <1>4, <2>1
       DEF TurnsInv, Unsaved, Saved, Bodied, Collapsing, Settled, Unreferenced, Listed
<1>6. CASE PatchLoad(c) \/ PatchSave(c)
  <2>1. pc'[c] \in {"patching", "saved"} /\ meta[req[c].id] = SidecarOf(req[c])
    BY <1>1, <1>6 DEF PatchLoad, PatchSave, Goto, Alone, TurnsInv, Saved
  <2> QED
    BY <1>1, <1>2, <1>3, <1>4, <2>1
       DEF TurnsInv, Unsaved, Saved, Bodied, Collapsing, Settled, Unreferenced, Listed
<1>7. CASE Dedup(c)
  <2>1. /\ pc'[c] = "deduping" /\ work'[c] = Duplicates(c)
        /\ meta[req[c].id] = SidecarOf(req[c])
    BY <1>1, <1>7 DEF Dedup, Goto, Alone, TurnsInv, Saved
  <2>2. ASSUME NEW i \in Duplicates(c) PROVE i # req[c].id /\ meta[i] = SidecarOf(req[c])
    BY <1>1, <2>2 DEF Duplicates, Parked, KeyOf, SidecarOf, Sidecar
  <2> QED
    BY <1>1, <1>2, <1>3, <1>4, <2>1, <2>2
       DEF TurnsInv, Unsaved, Saved, Bodied, Collapsing, Settled, Unreferenced, Listed
<1> QED
  BY <1>5, <1>6, <1>7

\* The deletion of a sidecar: dedup leaves the entry it keeps, and the others
\* delete what is settled; the body goes with its last sidecar.
LEMMA TurnDeletesMeta ==
  ASSUME NEW c, Alone(c), DeleteMeta(c)
  PROVE  TurnsInv'
<1>1. PICK i \in work[c] :
        /\ work' = [work EXCEPT ![c] = @ \ {i}]
        /\ meta' = [meta EXCEPT ![i] = None]
        /\ doomed' = [doomed EXCEPT ![c] =
             IF LastReference(i) THEN KeyOf(meta[i]) ELSE None]
  BY DEF DeleteMeta
<1>2. /\ \A p \in Procs : p = c
      /\ c \in Procs /\ UNCHANGED <<body, owed, pc, req>> /\ doomed[c] = None
      /\ pc[c] \in {"deduping", "acking", "expiring"}
      /\ meta \in [IDs -> Sidecar \cup {None}] /\ work \in [Procs -> SUBSET IDs]
      /\ doomed \in [Procs -> Keys \cup {None}]
  BY DEF Alone, DeleteMeta, Deleting, Typed, TypeOK, ghost
<1>3. i \in IDs /\ meta'[i] = None /\ \A j \in IDs \ {i} : meta'[j] = meta[j]
  BY <1>1, <1>2
<1>4. Parked' = Parked \ {i}
  BY <1>2, <1>3 DEF Parked
<1>5. work'[c] = work[c] \ {i}
  BY <1>1, <1>2
<1>6. NoDangling'
  BY <1>2, <1>3, <1>4 DEF Alone, TurnsInv, NoDangling, Retrievable, Parked
<1>7. doomed'[c] = IF LastReference(i) THEN KeyOf(meta[i]) ELSE None
  BY <1>1, <1>2
<1>8. CASE pc[c] = "deduping"
  <2> DEFINE r == req[c].id
  <2>1. r \in IDs
    BY <1>8, RequestType DEF Alone, Requesting, Request
  <2>2. r # i /\ meta[r] = SidecarOf(req[c]) /\ meta[i] = SidecarOf(req[c])
    BY <1>8 DEF Alone, TurnsInv, Collapsing, Saved
  <2>3. doomed'[c] = None
    BY <1>2, <1>7, <2>1, <2>2 DEF LastReference, References, Parked
  <2>4. DedupKeepsOne'
    <3>1. ASSUME NEW d \in owed PROVE \E j \in Parked' : DeliveryOf(meta'[j]) = d
      <4>1. PICK j \in Parked : DeliveryOf(meta[j]) = d
        BY DEF Alone, TurnsInv, DedupKeepsOne
      <4>2. CASE j # i
        BY <1>3, <1>4, <4>1, <4>2 DEF Parked
      <4>3. CASE j = i
        <5>1. r \in Parked' /\ meta'[r] = meta[i]
          BY <1>3, <1>4, <2>1, <2>2, <4>3 DEF Parked
        <5> QED
          BY <4>1, <4>3, <5>1
      <4> QED
        BY <4>2, <4>3
    <3> QED
      BY <1>2, <3>1 DEF DedupKeepsOne
  <2>5. meta'[r] = SidecarOf(req[c])
    BY <1>3, <2>1, <2>2
  <2>6. \A j \in work'[c] : j # r /\ meta'[j] = SidecarOf(req[c])
    BY <1>2, <1>3, <1>5, <1>8 DEF Alone, TurnsInv, Collapsing
  <2> QED
    BY <1>2, <1>6, <1>8, <2>3, <2>4, <2>5, <2>6
       DEF TurnsInv, Unsaved, Saved, Bodied, Collapsing, Settled, Unreferenced, Listed
<1>9. CASE pc[c] \in {"acking", "expiring"}
  <2>1. i \in Parked /\ DeliveryOf(meta[i]) \notin owed
    BY <1>2, <1>9 DEF Alone, TurnsInv, Settled
  <2>2. DedupKeepsOne'
    <3>1. ASSUME NEW d \in owed PROVE \E j \in Parked' : DeliveryOf(meta'[j]) = d
      <4>1. PICK j \in Parked : DeliveryOf(meta[j]) = d
        BY DEF Alone, TurnsInv, DedupKeepsOne
      <4> QED
        BY <1>3, <1>4, <2>1, <4>1 DEF Parked
    <3> QED
      BY <1>2, <3>1 DEF DedupKeepsOne
  <2>3. \A j \in work'[c] : j \in Parked' /\ DeliveryOf(meta'[j]) \notin owed
    BY <1>2, <1>3, <1>4, <1>5, <1>9 DEF Alone, TurnsInv, Settled, Parked
  <2>4. \A j \in Parked' : KeyOf(meta'[j]) # doomed'[c]
    <3>1. ASSUME NEW j \in Parked', KeyOf(meta'[j]) = doomed'[c] PROVE FALSE
      <4>1. j \in Parked /\ j # i /\ meta'[j] = meta[j] /\ KeyOf(meta[j]) \in Keys
        BY <1>2, <1>3, <1>4, KeyOfType DEF Parked
      <4>2. CASE LastReference(i)
        BY <1>7, <3>1, <4>1, <4>2 DEF LastReference, References
      <4>3. CASE ~LastReference(i)
        BY <1>7, <3>1, <4>1, <4>3
      <4> QED
        BY <4>2, <4>3
    <3> QED
      BY <3>1
  <2> QED
    BY <1>2, <1>6, <1>9, <2>2, <2>3, <2>4
       DEF References, TurnsInv, Unsaved, Saved, Bodied, Collapsing, Settled, Unreferenced, Listed
<1> QED
  BY <1>2, <1>8, <1>9

\* The body that goes had no sidecar left.
LEMMA TurnDeletesBody ==
  ASSUME NEW c, Alone(c), DeleteBody(c)
  PROVE  TurnsInv'
<1>1. /\ \A p \in Procs : p = c
      /\ UNCHANGED <<meta, owed, pc, req, work>> /\ doomed'[c] = None
      /\ pc[c] \in {"acking", "expiring"} /\ References(doomed[c]) = {}
      /\ body' = [body EXCEPT ![doomed[c]] = None]
      /\ body \in [Keys -> (SUBSET Nat) \cup {None}]
  BY DEF Alone, DeleteBody, Deleting, Typed, TypeOK, TurnsInv, Unreferenced, ghost
<1>2. \A i \in Parked : KeyOf(meta[i]) \in Keys /\ KeyOf(meta[i]) # doomed[c]
  BY <1>1, KeyOfType DEF References, Parked, Alone, Typed, TypeOK
<1>3. NoDangling'
  BY <1>1, <1>2 DEF Alone, TurnsInv, NoDangling, Retrievable, Parked
<1>4. DedupKeepsOne' /\ \A i \in work[c] : i \in Parked' /\ DeliveryOf(meta[i]) \notin owed
  BY <1>1 DEF Alone, TurnsInv, DedupKeepsOne, Settled, Parked
<1> QED
  BY <1>1, <1>3, <1>4
     DEF TurnsInv, Unsaved, Saved, Bodied, Collapsing, Settled, Unreferenced, Listed

\* A fetch finds an entry; its ack settles it, as a dismissal or the retention
\* settles what it is about to delete.
LEMMA TurnSettles ==
  ASSUME NEW c, Alone(c),
         (c \in Conns /\ (Fetch(c) \/ Ack(c) \/ Dismiss(c))) \/ (c \in Sweepers /\ Sweep(c))
  PROVE  TurnsInv'
<1>1. /\ \A p \in Procs : p = c
      /\ c \in Procs /\ UNCHANGED <<meta, body, doomed>>
      /\ pc[c] \in {"idle", "serving"} /\ doomed[c] = None
      /\ meta \in [IDs -> Sidecar \cup {None}] /\ pc \in [Procs -> Labels]
      /\ work \in [Procs -> SUBSET IDs] /\ req \in [Procs -> Request \cup {None}]
  BY DEF Alone, Typed, TypeOK, TurnsInv, Unreferenced, Fetch, Ack, Dismiss, Sweep, disk, cleanup
<1>2. NoDangling'
  BY <1>1 DEF Alone, TurnsInv, NoDangling, Retrievable, Parked
<1>3. ASSUME owed' \subseteq owed PROVE DedupKeepsOne'
  BY <1>1, <1>3 DEF Alone, TurnsInv, DedupKeepsOne, Parked
<1>4. CASE Fetch(c)
  <2>1. PICK i \in Retrievable :
          req' = [req EXCEPT ![c] =
            [from |-> meta[i].from, target |-> meta[i].target,
             sha |-> meta[i].sha, id |-> i, mode |-> "fetch", have |-> 0]]
    BY <1>4 DEF Fetch
  <2>2. meta[i] \in Sidecar /\ meta'[req'[c].id] = SidecarOf(req'[c])
    BY <1>1, <2>1 DEF Retrievable, Parked, Sidecar, SidecarOf
  <2>3. pc'[c] = "serving" /\ UNCHANGED owed
    BY <1>1, <1>4 DEF Fetch, Goto, ghost
  <2> QED
    BY <1>1, <1>2, <1>3, <2>2, <2>3
       DEF TurnsInv, Unsaved, Saved, Bodied, Collapsing, Settled, Unreferenced, Listed
<1>5. CASE ~Fetch(c)
  <2>1. pc'[c] \in {"acking", "expiring"} /\ UNCHANGED req /\ owed' \subseteq owed
    BY <1>1, <1>5 DEF Ack, Dismiss, Sweep, Goto
  <2>2. \A i \in work'[c] : i \in Parked /\ DeliveryOf(meta[i]) \notin owed'
    <3>1. CASE Ack(c)
      <4>1. req[c].id \in IDs /\ meta[req[c].id] = SidecarOf(req[c])
            /\ SidecarOf(req[c]) \in Sidecar
        BY <1>1, <3>1, RequestType
           DEF Ack, Requesting, Request, Sidecar, SidecarOf, Alone, TurnsInv, Saved
      <4>2. req[c].id \in Parked /\ DeliveryOf(meta[req[c].id]) = DeliveryOf(req[c])
        BY <4>1 DEF Parked, SidecarOf, DeliveryOf
      <4> QED
        BY <1>1, <3>1, <4>2 DEF Ack
    <3>2. CASE Dismiss(c)
      BY <1>1, <3>2 DEF Dismiss, Retrievable
    <3>3. CASE Sweep(c)
      BY <1>1, <3>3 DEF Sweep
    <3> QED
      BY <1>5, <3>1, <3>2, <3>3
  <2> QED
    BY <1>1, <1>2, <1>3, <2>1, <2>2
       DEF TurnsInv, Unsaved, Saved, Bodied, Collapsing, Settled, Unreferenced, Listed, Parked
<1> QED
  BY <1>4, <1>5

\* The sweep lists every sidecar and spares the bodies they refer to.
LEMMA TurnSweeps ==
  ASSUME NEW c \in Sweepers, Alone(c), SweepList(c) \/ SweepBodies(c)
  PROVE  TurnsInv'
<1>1. /\ \A p \in Procs : p = c
      /\ UNCHANGED <<meta, owed, req, work, doomed>> /\ doomed[c] = None
      /\ pc \in [Procs -> Labels] /\ meta \in [IDs -> Sidecar \cup {None}]
      /\ scan \in [Procs -> SUBSET [key : Keys, size : Nat]]
  BY DEF Alone, Typed, TypeOK, TurnsInv, Unreferenced, SweepList, SweepBodies, disk, ghost
<1>2. DedupKeepsOne'
  BY <1>1 DEF Alone, TurnsInv, DedupKeepsOne, Parked
<1>3. CASE SweepList(c)
  <2>1. pc'[c] = "sweeping" /\ UNCHANGED body
        /\ scan'[c] = {[key |-> KeyOf(meta[i]), size |-> 0] : i \in Parked}
    BY <1>1, <1>3 DEF SweepList, Goto, disk
  <2>2. ASSUME NEW i \in Parked PROVE \E e \in scan'[c] : e.key = KeyOf(meta[i])
    <3> DEFINE e == [key |-> KeyOf(meta[i]), size |-> 0]
    <3>1. e \in scan'[c] /\ e.key = KeyOf(meta[i])
      BY <2>1
    <3> HIDE DEF e
    <3> QED
      BY <3>1
  <2>3. NoDangling'
    BY <1>1, <2>1 DEF Alone, TurnsInv, NoDangling, Retrievable, Parked
  <2> QED
    BY <1>1, <1>2, <2>1, <2>2, <2>3
       DEF TurnsInv, Unsaved, Saved, Bodied, Collapsing, Settled, Unreferenced, Listed, Parked
<1>4. CASE SweepBodies(c)
  <2>1. pc'[c] = "expunging" /\ pc[c] = "sweeping"
        /\ body' = [k \in Keys |-> IF k \in {e.key : e \in scan[c]} THEN body[k] ELSE None]
    BY <1>1, <1>4 DEF SweepBodies, SweptBodies, Goto
  <2>2. ASSUME NEW i \in Parked PROVE body'[KeyOf(meta[i])] = body[KeyOf(meta[i])]
    <3>1. KeyOf(meta[i]) \in Keys
      BY <1>1, KeyOfType DEF Parked
    <3>2. PICK e \in scan[c] : e.key = KeyOf(meta[i])
      BY <2>1 DEF Alone, TurnsInv, Listed
    <3> QED
      BY <2>1, <3>1, <3>2
  <2>3. NoDangling'
    BY <1>1, <2>2 DEF Alone, TurnsInv, NoDangling, Retrievable, Parked
  <2> QED
    BY <1>1, <1>2, <2>1, <2>3
       DEF TurnsInv, Unsaved, Saved, Bodied, Collapsing, Settled, Unreferenced, Listed, Parked
<1> QED
  BY <1>3, <1>4

\* A crash forgets what the process was doing.
LEMMA TurnCrashes ==
  ASSUME NEW c, Alone(c), Crash
  PROVE  TurnsInv'
<1>1. /\ \A p \in Procs : pc'[p] = "idle" /\ doomed'[p] = None
      /\ UNCHANGED <<disk, owed>>
  BY DEF Crash
<1>2. (NoDangling /\ DedupKeepsOne)'
  BY <1>1 DEF Alone, TurnsInv, NoDangling, DedupKeepsOne, Parked, Retrievable, disk
<1> QED
  BY <1>1, <1>2
     DEF TurnsInv, Unsaved, Saved, Bodied, Collapsing, Settled, Unreferenced, Listed

\* A step of a deposit.
LEMMA TurnDeposits ==
  ASSUME NEW c \in Conns, Alone(c), Deposit(c)
  PROVE  TurnsInv'
<1>1. CASE EvictPartial(c)
  <2>1. \E l \in {"evicting", "sized"} : Goto(c, l)
    BY <1>1 DEF EvictPartial
  <2> QED
    BY <1>1, <2>1, TurnGoes DEF EvictPartial, ghost
<1>2. CASE Admit(c)
  <2>1. req[c].mode \in {"duplicate", "header", "full"}
    BY <1>2 DEF Admit, Alone, Typed, Requests, Requesting, Request
  <2>2. \E l \in {"ready", "duplicate", "header"} : Goto(c, l)
    BY <1>2, <2>1 DEF Admit
  <2> QED
    BY <1>2, <2>2, TurnGoes DEF Admit, disk, cleanup, ghost
<1>3. CASE Claim(c) \/ PutOpen(c)
  BY <1>3, TurnGoes DEF Claim, PutOpen, disk, cleanup, ghost
<1>4. CASE PutFrame(c)
  <2>1. Goto(c, "writing")
    BY <1>4 DEF PutFrame, Goto, Alone, Typed, TypeOK
  <2> QED
    BY <1>4, <2>1, TurnGoes DEF PutFrame, cleanup, ghost
<1>5. CASE \/ Refuse(c) \/ ConfirmDuplicate(c) \/ AttachVanished(c) \/ GiveUp(c) \/ Confirm(c)
           \/ PutVanished(c) \/ PutFail(c) \/ PutSaveFail(c)
  BY <1>5, TurnReturns
     DEF Refuse, ConfirmDuplicate, AttachVanished, GiveUp, Confirm, PutVanished, PutFail,
         PutSaveFail, disk, ghost
<1>6. CASE AttachSave(c) \/ PutSave(c)
  BY <1>6, TurnSaves DEF AttachSave, PutSave, cleanup
<1>7. CASE PutPark(c)
  BY <1>7, TurnParks
<1>8. CASE Attach(c) \/ PatchLoad(c) \/ PatchSave(c) \/ Dedup(c)
  BY <1>8, TurnConfirms
<1> QED
  BY <1>1, <1>2, <1>3, <1>4, <1>5, <1>6, <1>7, <1>8 DEF Deposit

\* Every step of a stash that takes turns.
LEMMA TurnsNext == ASSUME Turns PROVE Typed /\ TurnsInv /\ [Next]_vars => TurnsInv'
<1> SUFFICES ASSUME Typed, TurnsInv, [Next]_vars PROVE TurnsInv'
  OBVIOUS
<1>1. \A c \in Procs : Alone(c)
  BY DEF Alone, Turns
<1>2. ASSUME NEW c \in Conns,
             Probe(c) \/ Fetch(c) \/ Dismiss(c) \/ Deposit(c) \/ Serve(c)
      PROVE  TurnsInv'
  <2>1. CASE FetchLost(c) \/ Acked(c)
    BY <1>1, <2>1, TurnReturns DEF FetchLost, Acked, disk, ghost
  <2> QED
    BY <1>1, <1>2, <2>1, TurnProbe, TurnSettles, TurnDeposits DEF Serve
<1>3. ASSUME NEW c \in Procs, Delete(c) PROVE TurnsInv'
  BY <1>1, <1>3, TurnDeletesMeta, TurnDeletesBody DEF Delete
<1>4. ASSUME NEW s \in Sweepers, Sweep(s) \/ SweepOn(s) PROVE TurnsInv'
  <2>1. CASE SweepPartials(s)
    BY <1>1, <2>1, TurnReturns DEF SweepPartials, ghost
  <2> QED
    BY <1>1, <1>4, <2>1, TurnSettles, TurnSweeps DEF SweepOn
<1>5. CASE Crash
  <2>1. CASE Procs = {}
    <3>1. Typed' /\ UNCHANGED <<disk, owed>>
      BY <1>5, TypedNext DEF Crash
    <3> QED
      BY <1>5, <2>1, <3>1 DEF Crash, TurnsInv, NoDangling, DedupKeepsOne, Parked, Retrievable,
         disk, Unsaved, Saved, Bodied, Collapsing, Settled, Unreferenced, Listed
  <2>2. CASE Procs # {}
    BY <1>1, <1>5, <2>2, TurnCrashes
  <2> QED
    BY <2>1, <2>2
<1>6. CASE UNCHANGED vars
  BY <1>6 DEF vars, disk, local, TurnsInv, NoDangling, DedupKeepsOne, Parked, Retrievable,
     References, Unsaved, Saved, Bodied, Collapsing, Settled, Unreferenced, Listed
<1> QED
  BY <1>2, <1>3, <1>4, <1>5, <1>6 DEF Next

\* The first state.
LEMMA TurnsInit == Init => TurnsInv
BY DEF Init, TurnsInv, Unsaved, Saved, Bodied, Collapsing, Settled, Unreferenced, Listed,
       NoDangling, DedupKeepsOne, Parked, Retrievable

\* The invariant of a stash that takes turns.
THEOREM TurnsInvariance == ASSUME Turns PROVE Spec => [](Typed /\ TurnsInv)
<1>1. Init => Typed /\ TurnsInv
  BY TypedInit, TurnsInit
<1>2. Typed /\ TurnsInv /\ [Next]_vars => (Typed /\ TurnsInv)'
  BY TypedNext, TurnsNext
<1> QED
  BY <1>1, <1>2, PTL DEF Spec

\* Where handlers take turns every sidecar has the body it refers to, whatever
\* was deposited, attached, collapsed, acked, dismissed, expired or swept and
\* wherever the process died: delete takes a body only with its last sidecar,
\* and no sidecar is written without one.
THEOREM SidecarsHaveBodies == ASSUME Turns PROVE Spec => []NoDangling
<1>1. Typed /\ TurnsInv => NoDangling
  BY DEF TurnsInv
<1> QED
  BY TurnsInvariance, <1>1, PTL

\* ... and a recorded delivery can be fetched until it is acked, dismissed or
\* expired.
THEOREM DeliveriesAreKept == ASSUME Turns PROVE Spec => []NoLostDelivery
<1>1. Typed /\ TurnsInv => NoLostDelivery
  BY DEF TurnsInv, NoDangling, DedupKeepsOne, NoLostDelivery
<1> QED
  BY TurnsInvariance, <1>1, PTL

-----------------------------------------------------------------------------
(***************************************************************************)
(* The mailbox.                                                            *)
(***************************************************************************)

Pending == {DeliveryOf(meta[i]) : i \in Retrievable}

\* What a step does to sidecars and deliveries: it writes a new sidecar,
\* deletes one, settles deliveries, or does nothing to them.
LEMMA TurnKinds ==
  ASSUME Turns, Typed, TurnsInv, [Next]_vars
  PROVE  \/ UNCHANGED meta /\ owed' \subseteq owed
         \/ \E c \in Conns : pc[c] \in {"attached", "parked"} /\ SaveMeta(c)
         \/ \E p \in Procs : DeleteMeta(p)
<1>1. ASSUME NEW c \in Conns, Deposit(c)
      PROVE  \/ UNCHANGED <<meta, owed>>
             \/ pc[c] \in {"attached", "parked"} /\ SaveMeta(c)
  <2>1. CASE PatchSave(c)
    <3>1. meta[req[c].id] = SidecarOf(req[c])
      BY <2>1 DEF PatchSave, TurnsInv, Saved
    <3> QED
      BY <2>1, <3>1 DEF PatchSave, SidecarOf, ghost, Typed, TypeOK
  <2>2. CASE AttachSave(c) \/ PutSave(c)
    BY <2>2 DEF AttachSave, PutSave
  <2>3. CASE \/ EvictPartial(c) \/ Admit(c) \/ Refuse(c) \/ ConfirmDuplicate(c) \/ Attach(c)
             \/ AttachVanished(c) \/ Claim(c) \/ PutOpen(c) \/ PutVanished(c) \/ PutFrame(c)
    BY <2>3 DEF EvictPartial, Admit, Refuse, ConfirmDuplicate, Attach, AttachVanished, Claim,
                PutOpen, PutVanished, PutFrame, disk, ghost
  <2>4. CASE \/ PutFail(c) \/ PutPark(c) \/ PutSaveFail(c) \/ PatchLoad(c) \/ GiveUp(c)
             \/ Dedup(c) \/ Confirm(c)
    BY <2>4 DEF PutFail, PutPark, PutSaveFail, PatchLoad, GiveUp, Dedup, Confirm, disk, ghost
  <2> QED
    BY <1>1, <2>1, <2>2, <2>3, <2>4 DEF Deposit
<1>2. ASSUME NEW c \in Conns, Probe(c) \/ Fetch(c) \/ Dismiss(c) \/ Serve(c)
      PROVE  UNCHANGED meta /\ owed' \subseteq owed
  BY <1>2 DEF Probe, Fetch, Dismiss, Serve, Ack, FetchLost, Acked, disk, ghost
<1>3. ASSUME NEW p \in Procs, DeleteBody(p) PROVE UNCHANGED <<meta, owed>>
  BY <1>3 DEF DeleteBody, ghost
<1>4. ASSUME NEW s \in Sweepers, Sweep(s) \/ SweepOn(s)
      PROVE  UNCHANGED meta /\ owed' \subseteq owed
  BY <1>4 DEF Sweep, SweepOn, SweepList, SweepBodies, SweepPartials, disk, ghost
<1>5. CASE Crash
  BY <1>5 DEF Crash, disk
<1>6. CASE UNCHANGED vars
  BY <1>6 DEF vars, disk
<1> QED
  BY <1>1, <1>2, <1>3, <1>4, <1>5, <1>6 DEF Next, Delete

\* Every step of the spool is a step of the mailbox or leaves it alone.
LEMMA MailboxStep ==
  ASSUME Turns, Typed, Typed', TurnsInv, TurnsInv', [Next]_vars
  PROVE  [Promise!Next]_(Promise!vars)
<1>1. /\ Pending = {DeliveryOf(meta[i]) : i \in Parked}
      /\ Pending' = {DeliveryOf(meta'[i]) : i \in Parked'}
  BY DEF Pending, TurnsInv, NoDangling, Retrievable
<1>2. meta \in [IDs -> Sidecar \cup {None}] /\ owed \subseteq Delivery
  BY DEF Typed, TypeOK
<1>3. SUFFICES \/ \E d \in Delivery : Pending' = Pending \cup {d} /\ owed' = owed \cup {d}
               \/ \E D \in SUBSET Delivery : owed' = owed \ D /\ Pending' = Pending
               \/ \E D \in SUBSET Delivery :
                    D \cap owed = {} /\ Pending' = Pending \ D /\ owed' = owed
  BY DEF Promise!Next, Promise!Record, Promise!Settle, Promise!Forget, Pending
<1>4. CASE UNCHANGED meta /\ owed' \subseteq owed
  <2>1. Pending' = Pending
    BY <1>1, <1>4 DEF Parked
  <2>2. owed \ owed' \in SUBSET Delivery /\ owed' = owed \ (owed \ owed')
    BY <1>2, <1>4
  <2> QED
    BY <2>1, <2>2
<1>5. ASSUME NEW c \in Conns, pc[c] \in {"attached", "parked"}, SaveMeta(c)
      PROVE  \E d \in Delivery : Pending' = Pending \cup {d} /\ owed' = owed \cup {d}
  <2> DEFINE i == req[c].id
             d == DeliveryOf(req[c])
  <2>1. req[c] \in Request /\ meta[i] = None
    BY <1>5, RequestType DEF Requesting, TurnsInv, Unsaved
  <2>2. i \in IDs /\ d \in Delivery /\ SidecarOf(req[c]) \in Sidecar
    BY <2>1 DEF Request, Sidecar, Delivery, DeliveryOf, SidecarOf
  <2>3. meta' = [meta EXCEPT ![i] = SidecarOf(req[c])] /\ owed' = owed \cup {d}
    BY <1>5 DEF SaveMeta, SidecarOf
  <2>4. Parked' = Parked \cup {i} /\ i \notin Parked
    BY <1>2, <2>1, <2>2, <2>3 DEF Parked
  <2>5. DeliveryOf(meta'[i]) = d /\ \A j \in Parked : meta'[j] = meta[j]
    BY <1>2, <2>2, <2>3, <2>4 DEF DeliveryOf, SidecarOf, Parked
  <2>6. Pending' = Pending \cup {d}
    BY <1>1, <2>4, <2>5
  <2> QED
    BY <2>2, <2>3, <2>6
<1>6. ASSUME NEW p \in Procs, DeleteMeta(p)
      PROVE  \E D \in SUBSET Delivery :
               D \cap owed = {} /\ Pending' = Pending \ D /\ owed' = owed
  <2>1. PICK i \in work[p] : meta' = [meta EXCEPT ![i] = None]
    BY <1>6 DEF DeleteMeta
  <2>2. /\ i \in IDs /\ owed' = owed
        /\ Parked' = Parked \ {i} /\ \A j \in Parked' : meta'[j] = meta[j]
    BY <1>2, <1>6, <2>1 DEF DeleteMeta, Typed, TypeOK, Parked, ghost
  <2> DEFINE D == Pending \ Pending'
  <2>3. Pending' \subseteq Pending
    BY <1>1, <2>2
  <2>4. owed \subseteq Pending'
    BY <1>1, <2>2 DEF TurnsInv, DedupKeepsOne
  <2>5. Pending \subseteq Delivery
    BY <1>1, <1>2 DEF Parked, Sidecar, Delivery, DeliveryOf
  <2>6. D \in SUBSET Delivery /\ D \cap owed = {} /\ Pending' = Pending \ D
    BY <2>3, <2>4, <2>5
  <2> QED
    BY <2>2, <2>6
<1> QED
  BY <1>4, <1>5, <1>6, TurnKinds

\* Where handlers take turns the spool is a store-and-forward mailbox: a
\* deposit records, an ack, a dismissal or the retention settles, and only what
\* is settled is forgotten, whatever else the handlers do to files, and however
\* often the process dies.
THEOREM MailboxKept == ASSUME Turns PROVE Spec => KeepsPromise
<1>1. Init => Promise!Init
  BY DEF Init, Promise!Init, Retrievable, Parked
<1>2. /\ Typed /\ TurnsInv /\ (Typed /\ TurnsInv)' /\ [Next]_vars
      => [Promise!Next]_(Promise!vars)
  BY MailboxStep
<1> QED
  BY TurnsInvariance, <1>1, <1>2, PTL DEF Spec, KeepsPromise, Promise!Spec

-----------------------------------------------------------------------------
(***************************************************************************)
(* The cap.                                                                *)
(***************************************************************************)

\* What a deposit was admitted with still fits beside what is on disk: the
\* frames it is to bring, then the ones it has not written yet.
Fitting ==
  /\ CapRespected /\ usage \in [Procs -> Nat]
  /\ \A p \in Procs :
       /\ pc[p] \in {"evicting", "sized"} => Usage <= usage[p]
       /\ pc[p] \in {"ready", "claimed"} => Usage + Need(req[p]) <= MaxBytes
       /\ pc[p] = "writing" => Usage + (Chunks[req[p].sha] - at[p]) <= MaxBytes
       /\ pc[p] \in {"ready", "claimed", "writing"} => req[p].mode = "full"

\* There are finitely many names for files.
LEMMA KeysFinite == IsFiniteSet(Keys)
<1> DEFINE g == [s \in Senders \X SHAs |-> [from |-> s[1], sha |-> s[2]]]
<1>1. IsFiniteSet(Senders \X SHAs)
  BY FiniteAssumption, FS_Product
<1>2. g \in [Senders \X SHAs -> Keys]
  BY DEF Keys
<1>3. \A k \in Keys : \E s \in Senders \X SHAs : g[s] = k
  <2> TAKE k \in Keys
  <2>1. <<k.from, k.sha>> \in Senders \X SHAs /\ g[<<k.from, k.sha>>] = k
    BY DEF Keys
  <2> QED
    BY <2>1
<1> HIDE DEF g
<1>4. g \in Surjection(Senders \X SHAs, Keys)
  BY <1>2, <1>3 DEF Surjection
<1> QED
  BY <1>1, <1>4, FS_Surjection

\* Files that shrink take no more room.
LEMMA SizesShrink ==
  ASSUME NEW f, NEW g, \A k \in Keys : Size(f[k]) \in Nat /\ Size(g[k]) \in Nat,
         \A k \in Keys : Size(g[k]) <= Size(f[k])
  PROVE  SizeOf(f) \in Nat /\ SizeOf(g) \in Nat /\ SizeOf(g) <= SizeOf(f)
<1> DEFINE F == [k \in Keys |-> Size(f[k])]
           G == [k \in Keys |-> Size(g[k])]
<1>1. SizeOf(f) = Cardinality(Blocks(F, Keys)) /\ SizeOf(g) = Cardinality(Blocks(G, Keys))
  BY KeysFinite, SizesCount
<1>2. \A k \in Keys : F[k] \in Nat /\ G[k] \in Nat /\ G[k] <= F[k]
  OBVIOUS
<1> HIDE DEF F, G
<1>3. Blocks(G, Keys) \subseteq Blocks(F, Keys)
  BY <1>2 DEF Blocks
<1>4. /\ IsFiniteSet(Blocks(F, Keys)) /\ Cardinality(Blocks(F, Keys)) \in Nat
      /\ Cardinality(Blocks(G, Keys)) \in Nat
  BY <1>2, KeysFinite, BlocksFinite
<1> QED
  BY <1>1, <1>3, <1>4, FS_Subset

\* One file that changes changes the sum by as much.
LEMMA SizesMove ==
  ASSUME NEW f, NEW g, \A k \in Keys : Size(f[k]) \in Nat /\ Size(g[k]) \in Nat,
         NEW k \in Keys, \A j \in Keys \ {k} : g[j] = f[j]
  PROVE  SizeOf(g) + Size(f[k]) = SizeOf(f) + Size(g[k])
<1> DEFINE F == [j \in Keys |-> Size(f[j])]
           G == [j \in Keys |-> Size(g[j])]
<1>1. SizeOf(f) = Cardinality(Blocks(F, Keys)) /\ SizeOf(g) = Cardinality(Blocks(G, Keys))
  BY KeysFinite, SizesCount
<1>2. /\ \A j \in Keys : F[j] \in Nat /\ G[j] \in Nat
      /\ \A j \in Keys \ {k} : F[j] = G[j]
      /\ F[k] = Size(f[k]) /\ G[k] = Size(g[k])
  OBVIOUS
<1> HIDE DEF F, G
<1>3. Blocks(F, Keys \ {k}) = Blocks(G, Keys \ {k})
  BY <1>2 DEF Blocks
<1>4. /\ Cardinality(Blocks(F, Keys)) = F[k] + Cardinality(Blocks(F, Keys \ {k}))
      /\ Cardinality(Blocks(G, Keys)) = G[k] + Cardinality(Blocks(G, Keys \ {k}))
  BY <1>2, KeysFinite, BlocksAdd
<1>5. Cardinality(Blocks(F, Keys \ {k})) \in Nat
  <2>1. IsFiniteSet(Keys \ {k}) /\ \A j \in Keys \ {k} : F[j] \in Nat
    BY <1>2, KeysFinite, FS_Subset
  <2> QED
    BY <2>1, BlocksFinite
<1> QED
  BY <1>1, <1>2, <1>3, <1>4, <1>5

\* The sizes of the files there are.
LEMMA SizesType ==
  ASSUME IInv
  PROVE  /\ \A k \in Keys : Size(partial[k]) \in Nat /\ Size(body[k]) \in Nat
         /\ SizeOf(partial) \in Nat /\ SizeOf(body) \in Nat /\ Usage \in Nat
<1>1. ASSUME NEW k \in Keys PROVE Size(partial[k]) \in Nat /\ Size(body[k]) \in Nat
  BY SizeType DEF IInv, Typed, TypeOK, Whole, BodyWhole
<1>2. SizeOf(partial) \in Nat /\ SizeOf(body) \in Nat
  BY <1>1, SizesShrink
<1> QED
  BY <1>1, <1>2 DEF Usage

\* The sum of the next state.
LEMMA UsageMeans == Usage' = SizeOf(partial') + SizeOf(body')
BY DEF Usage, SizeOf, Size, MapThenSumSet, MapThenFoldSet

\* Files of the next state have sizes too.
LEMMA SizesTypeNext ==
  ASSUME IInv'
  PROVE  \A k \in Keys : Size(partial'[k]) \in Nat /\ Size(body'[k]) \in Nat
BY SizeType DEF IInv, Typed, TypeOK, Whole, BodyWhole

\* A step that makes no file longer takes no more room.
LEMMA UsageShrinks ==
  ASSUME IInv, IInv',
         \A k \in Keys : /\ Size(partial'[k]) <= Size(partial[k])
                         /\ Size(body'[k]) <= Size(body[k])
  PROVE  Usage' \in Nat /\ Usage \in Nat /\ Usage' <= Usage
<1>1. /\ \A k \in Keys : Size(partial[k]) \in Nat /\ Size(body[k]) \in Nat
      /\ \A k \in Keys : Size(partial'[k]) \in Nat /\ Size(body'[k]) \in Nat
  BY SizesType, SizesTypeNext
<1>2. /\ SizeOf(partial') \in Nat /\ SizeOf(partial) \in Nat
      /\ SizeOf(partial') <= SizeOf(partial)
  BY <1>1, SizesShrink
<1>3. SizeOf(body') \in Nat /\ SizeOf(body) \in Nat /\ SizeOf(body') <= SizeOf(body)
  BY <1>1, SizesShrink
<1>4. Usage' = SizeOf(partial') + SizeOf(body') /\ Usage = SizeOf(partial) + SizeOf(body)
  BY UsageMeans DEF Usage
<1> QED
  BY <1>2, <1>3, <1>4

\* ... as no step outside put does, nor a crash.
LEMMA AsideShrinks ==
  ASSUME IInv, IInv', Aside \/ Crash
  PROVE  Usage' \in Nat /\ Usage \in Nat /\ Usage' <= Usage
<1>1. \A k \in Keys : Size(partial[k]) \in Nat /\ Size(body[k]) \in Nat
  BY SizesType
<1>2. \A k \in Keys : partial'[k] \in {None, partial[k]} /\ body'[k] \in {None, body[k]}
  BY DEF Aside, Crash, disk
<1>3. Size(None) = 0
  BY DEF Size
<1>4. \A k \in Keys : /\ Size(partial'[k]) <= Size(partial[k])
                      /\ Size(body'[k]) <= Size(body[k])
  BY <1>1, <1>2, <1>3
<1> QED
  BY <1>4, UsageShrinks

\* Nothing is reserved below zero.
LEMMA AdmittedType ==
  ASSUME Budgeted
  PROVE  admitted \in Nat
BY ReservedNeeds, PromisedType, ExactMeans DEF Budgeted

\* What the proofs below know of the one process.
Lone(c) ==
  /\ IInv /\ IInv' /\ Budgeted /\ Fitting
  /\ c \in Procs /\ \A p \in Procs : p = c

\* A request is sized by what is on disk, and admitted if it fits.
LEMMA FitsAdmission ==
  ASSUME NEW c \in Conns, Lone(c), Probe(c) \/ EvictPartial(c) \/ Admit(c)
  PROVE  Fitting'
<1>1. /\ pc \in [Procs -> Labels] /\ usage \in [Procs -> Nat] /\ \A p \in Procs : p = c
      /\ c \in Procs
  BY DEF Lone, IInv, Typed, TypeOK, Fitting
<1>2. Usage' \in Nat /\ Usage \in Nat /\ Usage' <= Usage
  <2>1. Aside
    BY ServeAside, DepositAside
       DEF Lone, IInv, Deposit, Put, Claim, PutOpen, PutVanished, PutFrame, PutFail, PutPark,
           PutSave, PutSaveFail, EvictPartial, Admit
  <2> QED
    BY <2>1, AsideShrinks DEF Lone
<1>3. CapRespected'
  BY <1>2 DEF Lone, Fitting, CapRespected
<1>4. CASE Probe(c)
  <2>1. usage' = [usage EXCEPT ![c] = Usage] /\ UNCHANGED disk
    BY <1>4 DEF Probe
  <2>2. pc' = [pc EXCEPT ![c] = "sized"] \/ pc' = [pc EXCEPT ![c] = "evicting"]
    BY <1>4 DEF Probe, Goto
  <2> QED
    BY <1>1, <1>2, <1>3, <2>1, <2>2 DEF Fitting
<1>5. CASE EvictPartial(c)
  <2>1. /\ pc[c] = "evicting" /\ body' = body
        /\ \/ usage' = usage
           \/ usage' = [usage EXCEPT ![c] = SizeOf(partial') + SizeOf(body)]
    BY <1>1, <1>5 DEF EvictPartial
  <2>2. pc' = [pc EXCEPT ![c] = "evicting"] \/ pc' = [pc EXCEPT ![c] = "sized"]
    BY <1>5 DEF EvictPartial, Goto
  <2>3. usage'[c] = usage[c] \/ usage'[c] = Usage'
    BY <1>1, <2>1, UsageMeans
  <2>4. usage' \in [Procs -> Nat]
    BY <1>1, <1>2, <2>1, UsageMeans
  <2>5. Usage <= usage[c]
    BY <1>1, <2>1 DEF Lone, Fitting
  <2>6. Usage' <= usage'[c]
    BY <1>1, <1>2, <2>3, <2>5
  <2> QED
    BY <1>1, <1>3, <2>2, <2>4, <2>6 DEF Fitting
<1>6. CASE Admit(c)
  <2>1. /\ pc[c] = "sized" /\ usage[c] + admitted + Need(req[c]) <= MaxBytes
        /\ UNCHANGED <<req, usage>>
        /\ pc' = [pc EXCEPT ![c] = IF req[c].mode = "full" THEN "ready" ELSE req[c].mode]
    BY <1>6 DEF Admit, Fits, Goto, budget
  <2>2. Usage <= usage[c] /\ admitted \in Nat /\ Need(req[c]) \in Int
    BY <1>1, <2>1, AdmittedType, RequestType DEF Lone, Fitting, IInv, Requesting
  <2>3. Usage' + Need(req[c]) <= MaxBytes
    BY <1>1, <1>2, <2>1, <2>2
  <2>4. req[c].mode \in {"duplicate", "header", "full"}
    BY <2>1 DEF Lone, IInv, Typed, Requests, Requesting, Request
  <2>5. \/ pc'[c] = "ready" /\ req[c].mode = "full"
        \/ pc'[c] \in {"duplicate", "header"}
    BY <1>1, <2>1, <2>4
  <2> QED
    BY <1>1, <1>3, <2>1, <2>3, <2>5 DEF Fitting
<1> QED
  BY <1>4, <1>5, <1>6

\* A step that takes no more room fits, if its label asks for nothing more.
LEMMA FitsQuietly ==
  ASSUME NEW c, Lone(c), Usage' \in Nat, Usage' <= Usage,
         usage' \in [Procs -> Nat],
         pc'[c] \notin {"evicting", "sized", "ready", "claimed", "writing"}
  PROVE  Fitting'
<1>1. /\ \A p \in Procs : p = c
      /\ Usage \in Nat /\ Usage <= MaxBytes /\ MaxBytes \in Nat
  BY SizesType DEF Lone, Fitting, CapRespected
<1>2. CapRespected'
  BY <1>1 DEF CapRespected
<1> QED
  BY <1>1, <1>2 DEF Fitting

\* What the proofs of put know of its request and of the files.
LEMMA PutFacts ==
  ASSUME NEW c \in Conns, Lone(c), Put(c)
  PROVE  /\ req[c] \in Request /\ KeyOf(req[c]) \in Keys
         /\ KeyOf(req[c]).sha = req[c].sha /\ Chunks[req[c].sha] \in Nat
         /\ req[c].have \in 0 .. Chunks[req[c].sha] /\ Need(req[c]) \in Int
         /\ pc \in [Procs -> Labels] /\ usage \in [Procs -> Nat] /\ at \in [Procs -> Nat]
         /\ partial \in [Keys -> (SUBSET Nat) \cup {None}]
         /\ body \in [Keys -> (SUBSET Nat) \cup {None}]
         /\ \A p \in Procs : p = c
<1>1. Typed
  BY DEF Lone, IInv
<1>2. pc[c] = "ready" \/ InPut(c)
  BY DEF Put, InPut, Claim, PutOpen, PutVanished, PutFrame, PutFail, PutPark, PutSave,
         PutSaveFail
<1>3. /\ pc \in [Procs -> Labels] /\ usage \in [Procs -> Nat] /\ at \in [Procs -> Nat]
      /\ partial \in [Keys -> (SUBSET Nat) \cup {None}]
      /\ body \in [Keys -> (SUBSET Nat) \cup {None}]
      /\ \A p \in Procs : p = c
  BY <1>1 DEF Typed, TypeOK, Lone, Fitting
<1> QED
  BY <1>1, <1>2, <1>3, PutRequest, NeedType

\* A file that is cut back or dropped gets no longer.
LEMMA CutSize ==
  ASSUME NEW k \in Keys, NEW f, f # None => f \subseteq Frames(k), NEW g,
         g = None \/ g = {} \/ (f # None /\ g \subseteq f)
  PROVE  Size(g) <= Size(f)
<1>1. Size(f) \in Nat /\ Size(None) = 0 /\ Size({}) = 0
  BY SizeType, FS_EmptySet DEF Size
<1> HIDE SpoolAssumption, NoneAssumption
<1>2. CASE f # None /\ g \subseteq f
  <2>1. Chunks[k.sha] \in Nat
    BY ChunksType DEF Keys
  <2>2. IsFiniteSet(Frames(k))
    BY <2>1, FS_Interval DEF Frames
  <2>3. f \subseteq Frames(k) /\ g \subseteq Frames(k)
    BY <1>2
  <2>4. IsFiniteSet(f) /\ g # None
    <3>1. IsFiniteSet(f)
      BY <2>2, <2>3, FS_Subset
    <3>2. g # None
      BY <2>3, NoneAssumption
    <3> QED
      BY <3>1, <3>2
  <2>5. Cardinality(g) <= Cardinality(f)
    BY <1>2, <2>4, FS_Subset
  <2> QED
    BY <1>2, <2>4, <2>5 DEF Size
<1> QED
  BY <1>1, <1>2

\* A deposit claims a partial and opens it where it was told to resume.
LEMMA FitsOpening ==
  ASSUME NEW c \in Conns, Lone(c), Claim(c) \/ PutOpen(c)
  PROVE  Fitting'
<1> DEFINE k == KeyOf(req[c])
<1>1. /\ req[c] \in Request /\ k \in Keys /\ Chunks[req[c].sha] \in Nat
      /\ req[c].have \in 0 .. Chunks[req[c].sha] /\ Need(req[c]) \in Int
      /\ pc \in [Procs -> Labels] /\ usage \in [Procs -> Nat] /\ at \in [Procs -> Nat]
      /\ partial \in [Keys -> (SUBSET Nat) \cup {None}] /\ \A p \in Procs : p = c
  BY PutFacts DEF Put
<1>2. \A j \in Keys : Size(partial'[j]) <= Size(partial[j]) /\ Size(body'[j]) <= Size(body[j])
  <2>1. \A j \in Keys : Size(partial[j]) \in Nat /\ Size(body[j]) \in Nat
    BY SizesType DEF Lone
  <2>2. UNCHANGED body
    BY DEF Claim, PutOpen, disk
  <2>3. CASE Claim(c)
    <3>1. UNCHANGED <<partial, body>>
      BY <2>3 DEF Claim, disk
    <3> QED
      BY <2>1, <3>1
  <2>4. CASE PutOpen(c)
    <3>1. partial' = [partial EXCEPT ![k] = {f \in Opened(k) : f < req[c].have}]
      BY <2>4 DEF PutOpen
    <3>2. /\ \A j \in Keys \ {k} : partial'[j] = partial[j]
          /\ partial'[k] = {f \in Opened(k) : f < req[c].have}
      BY <1>1, <3>1
    <3>3. partial'[k] = {} \/ (partial[k] # None /\ partial'[k] \subseteq partial[k])
      BY <3>2 DEF Opened
    <3>4. partial[k] # None => partial[k] \subseteq Frames(k)
      BY <1>1 DEF Lone, IInv, Typed, TypeOK
    <3>5. Size(partial'[k]) <= Size(partial[k])
      BY <1>1, <3>3, <3>4, CutSize
    <3>6. body' = body
      BY <2>2
    <3>7. ASSUME NEW j \in Keys PROVE Size(partial'[j]) <= Size(partial[j])
      <4>1. CASE j = k
        BY <3>5, <4>1
      <4>2. CASE j # k
        <5>1. partial'[j] = partial[j]
          BY <3>2, <4>2
        <5>2. Size(partial[j]) \in Nat
          BY <2>1
        <5> QED
          BY <5>1, <5>2
      <4> QED
        BY <4>1, <4>2
    <3> QED
      BY <2>1, <3>6, <3>7
  <2> QED
    BY <2>3, <2>4
<1>3. Usage' \in Nat /\ Usage \in Nat /\ Usage' <= Usage
  BY <1>2, UsageShrinks DEF Lone
<1>4. /\ pc[c] \in {"ready", "claimed"} /\ UNCHANGED <<req, usage>>
  BY DEF Claim, PutOpen, budget
<1>5. Usage + Need(req[c]) <= MaxBytes /\ req[c].mode = "full"
  BY <1>1, <1>4 DEF Lone, Fitting
<1>6. Usage' + Need(req[c]) <= MaxBytes
  BY <1>1, <1>3, <1>5
<1>7. CapRespected'
  BY <1>3 DEF Lone, Fitting, CapRespected
<1>8. CASE Claim(c)
  <2>1. pc'[c] = "claimed"
    BY <1>1, <1>8 DEF Claim, Goto
  <2> QED
    BY <1>1, <1>4, <1>5, <1>6, <1>7, <2>1 DEF Fitting
<1>9. CASE PutOpen(c)
  <2>1. pc'[c] = "writing" /\ at'[c] = req[c].have
    BY <1>1, <1>9 DEF PutOpen, Goto
  <2>2. Need(req[c]) = Chunks[req[c].sha] - req[c].have
    BY <1>5 DEF Need
  <2>3. Usage' + (Chunks[req'[c].sha] - at'[c]) <= MaxBytes
    BY <1>4, <1>6, <2>1, <2>2
  <2> QED
    BY <1>1, <1>4, <1>5, <1>7, <2>1, <2>3 DEF Fitting
<1> QED
  BY <1>8, <1>9

\* A deposit that is writing spends what it was admitted with.
LEMMA FitsWriting ==
  ASSUME NEW c \in Conns, Lone(c), PutFrame(c)
  PROVE  Fitting'
<1> DEFINE k == KeyOf(req[c])
           n == Chunks[req[c].sha]
<1>1. /\ k \in Keys /\ n \in Nat /\ pc \in [Procs -> Labels] /\ usage \in [Procs -> Nat]
      /\ at \in [Procs -> Nat] /\ partial \in [Keys -> (SUBSET Nat) \cup {None}]
      /\ \A p \in Procs : p = c
  BY PutFacts DEF Put
<1>2. /\ pc[c] = "writing" /\ UNCHANGED <<body, pc, req, usage>>
      /\ at' = [at EXCEPT ![c] = @ + 1]
      /\ partial' = [partial EXCEPT ![k] = IF @ = None THEN None ELSE @ \cup {at[c]}]
      /\ at[c] < n
  BY DEF PutFrame, FramesLeft, budget
<1>3. Usage + (n - at[c]) <= MaxBytes /\ req[c].mode = "full"
  BY <1>1, <1>2 DEF Lone, Fitting
<1>4. /\ \A j \in Keys : Size(partial[j]) \in Nat /\ Size(partial'[j]) \in Nat
      /\ SizeOf(partial) \in Nat /\ SizeOf(body) \in Nat
  BY SizesType, SizesTypeNext DEF Lone
<1>5. Size(partial'[k]) <= Size(partial[k]) + 1
  <2>1. CASE partial[k] = None
    BY <1>1, <1>2, <1>4, <2>1
  <2>2. CASE partial[k] # None
    <3>1. partial[k] = 0 .. at[c] - 1 /\ at[c] \in Nat
      BY <1>1, <1>2, <2>2 DEF Lone, IInv, Whole, Writing
    <3>2. partial'[k] = 0 .. at[c]
      BY <1>1, <1>2, <2>2, <3>1
    <3>3. Cardinality(0 .. at[c] - 1) = at[c] /\ Cardinality(0 .. at[c]) = at[c] + 1
      <4>1. at[c] - 1 \in Int /\ 0 \in Int /\ at[c] \in Int
        BY <3>1
      <4>2. Cardinality(0 .. at[c]) = at[c] + 1
        BY <3>1, <4>1, FS_Interval
      <4>3. Cardinality(0 .. at[c] - 1) = IF 0 > at[c] - 1 THEN 0 ELSE at[c] - 1 - 0 + 1
        BY <4>1, FS_Interval
      <4> QED
        BY <3>1, <4>2, <4>3
    <3>4. partial'[k] # None
      <4>1. partial'[k] \subseteq Frames(k)
        BY <1>1, <1>2, <3>1, <3>2 DEF Frames, KeyOf
      <4> QED
        BY <1>1, <4>1
    <3> QED
      BY <2>2, <3>1, <3>2, <3>3, <3>4 DEF Size
  <2> QED
    BY <2>1, <2>2
<1>6. SizeOf(partial') + Size(partial[k]) = SizeOf(partial) + Size(partial'[k])
  <2>1. \A j \in Keys \ {k} : partial'[j] = partial[j]
    BY <1>1, <1>2
  <2> QED
    BY <1>1, <1>4, <2>1, SizesMove
<1>7. SizeOf(partial') \in Nat
  BY <1>4, SizesShrink
<1>8. Usage' = SizeOf(partial') + SizeOf(body) /\ Usage = SizeOf(partial) + SizeOf(body)
  BY <1>2, UsageMeans DEF Usage
<1>9. Usage' <= Usage + 1 /\ Usage \in Nat /\ Usage' \in Nat
  BY <1>1, <1>4, <1>5, <1>6, <1>7, <1>8
<1>10. at'[c] = at[c] + 1 /\ at[c] \in Nat
  BY <1>1, <1>2
<1>11. Usage' + (n - at'[c]) <= MaxBytes /\ Usage' <= MaxBytes
  BY <1>1, <1>2, <1>3, <1>9, <1>10
<1> QED
  BY <1>1, <1>2, <1>3, <1>11 DEF Fitting, CapRespected

\* A partial that becomes the body takes the room it took; one that finds the
\* body there is dropped.
LEMMA FitsParking ==
  ASSUME NEW c \in Conns, Lone(c), PutPark(c)
  PROVE  Fitting'
<1> DEFINE k == KeyOf(req[c])
<1>1. /\ k \in Keys /\ pc \in [Procs -> Labels] /\ usage \in [Procs -> Nat]
      /\ partial \in [Keys -> (SUBSET Nat) \cup {None}]
      /\ body \in [Keys -> (SUBSET Nat) \cup {None}]
      /\ \A p \in Procs : p = c
  BY PutFacts DEF Put
<1>2. /\ UNCHANGED <<req, usage>> /\ pc' = [pc EXCEPT ![c] = "parked"]
      /\ body' = [body EXCEPT ![k] = IF @ = None THEN partial[k] ELSE @]
      /\ partial' = [partial EXCEPT ![k] = None]
  BY DEF PutPark, Goto, budget
<1>3. /\ \A j \in Keys : Size(partial[j]) \in Nat /\ Size(partial'[j]) \in Nat
      /\ \A j \in Keys : Size(body[j]) \in Nat /\ Size(body'[j]) \in Nat
      /\ SizeOf(partial) \in Nat /\ SizeOf(body) \in Nat
  BY SizesType, SizesTypeNext DEF Lone
<1>4. SizeOf(partial') \in Nat /\ SizeOf(body') \in Nat
  BY <1>3, SizesShrink
<1>5. SizeOf(partial') + Size(partial[k]) = SizeOf(partial) + Size(partial'[k])
  <2>1. \A j \in Keys \ {k} : partial'[j] = partial[j]
    BY <1>1, <1>2
  <2> QED
    BY <1>1, <1>3, <2>1, SizesMove
<1>6. SizeOf(body') + Size(body[k]) = SizeOf(body) + Size(body'[k])
  <2>1. \A j \in Keys \ {k} : body'[j] = body[j]
    BY <1>1, <1>2
  <2> QED
    BY <1>1, <1>3, <2>1, SizesMove
<1>7. Size(partial'[k]) + Size(body'[k]) <= Size(partial[k]) + Size(body[k])
  <2>1. Size(None) = 0 /\ partial'[k] = None
        /\ body'[k] = IF body[k] = None THEN partial[k] ELSE body[k]
    BY <1>1, <1>2 DEF Size
  <2> QED
    BY <1>1, <1>3, <2>1
<1>8. Usage' = SizeOf(partial') + SizeOf(body') /\ Usage = SizeOf(partial) + SizeOf(body)
  BY UsageMeans DEF Usage
<1>9. Usage' \in Nat /\ Usage' <= Usage
  BY <1>1, <1>3, <1>4, <1>5, <1>6, <1>7, <1>8
<1>10. pc'[c] = "parked" /\ usage' \in [Procs -> Nat]
  BY <1>1, <1>2
<1> QED
  BY <1>9, <1>10, FitsQuietly

\* A deposit that leaves put takes no more room.
LEMMA FitsLeaving ==
  ASSUME NEW c \in Conns, Lone(c), PutVanished(c) \/ PutFail(c) \/ PutSave(c) \/ PutSaveFail(c)
  PROVE  Fitting'
<1> DEFINE k == KeyOf(req[c])
<1>1. /\ k \in Keys /\ pc \in [Procs -> Labels] /\ usage \in [Procs -> Nat]
      /\ partial \in [Keys -> (SUBSET Nat) \cup {None}] /\ \A p \in Procs : p = c
      /\ c \in Procs
  BY PutFacts DEF Put
<1>2. \A j \in Keys : Size(partial[j]) \in Nat /\ Size(body[j]) \in Nat
  BY SizesType DEF Lone
<1>3. UNCHANGED body /\ (UNCHANGED partial \/ partial' = [partial EXCEPT ![k] = Opened(k)])
  BY DEF PutVanished, PutFail, PutSave, PutSaveFail, disk
<1>4. Size(Opened(k)) <= Size(partial[k])
  <2>1. Opened(k) = {} \/ (partial[k] # None /\ Opened(k) \subseteq partial[k])
    BY DEF Opened
  <2>2. partial[k] # None => partial[k] \subseteq Frames(k)
    BY <1>1 DEF Lone, IInv, Typed, TypeOK
  <2> QED
    BY <1>1, <2>1, <2>2, CutSize
<1>5. \A j \in Keys : Size(partial'[j]) <= Size(partial[j]) /\ Size(body'[j]) <= Size(body[j])
  BY <1>1, <1>2, <1>3, <1>4
<1>6. Usage' \in Nat /\ Usage' <= Usage
  BY <1>5, UsageShrinks DEF Lone
<1>7. pc'[c] \in {"idle", "unconfirmed"} /\ usage' \in [Procs -> Nat]
  BY <1>1 DEF PutVanished, PutFail, PutSave, PutSaveFail, Return, Goto, budget
<1> QED
  BY <1>6, <1>7, FitsQuietly

\* The steps that ask for no room: answers, deletes, fetches and the sweep.
LEMMA FitsElsewhere ==
  ASSUME NEW c \in Procs, Lone(c),
         \/ c \in Conns /\ (Fetch(c) \/ Dismiss(c) \/ Serve(c))
         \/ c \in Conns /\ Deposit(c) /\ ~Put(c) /\ ~EvictPartial(c) /\ ~Admit(c)
         \/ Delete(c)
         \/ c \in Sweepers /\ (Sweep(c) \/ SweepOn(c))
  PROVE  Fitting'
<1>1. Typed /\ pc \in [Procs -> Labels] /\ usage \in [Procs -> Nat]
  BY DEF Lone, IInv, Typed, TypeOK, Fitting
<1>2. Aside
  BY <1>1, DepositAside, ServeAside, DeleteAside, SweepAside
<1>3. Usage' \in Nat /\ Usage' <= Usage
  BY <1>2, AsideShrinks DEF Lone
<1> DEFINE Quiet == /\ usage' \in [Procs -> Nat]
                    /\ pc'[c] \notin {"evicting", "sized", "ready", "claimed", "writing"}
<1>4. Return(c) => Quiet
  BY <1>1 DEF Return
<1>5. ASSUME NEW l \in {"attached", "saved", "patching", "deduping", "serving", "acking",
                        "expiring", "sweeping", "expunging"}
      PROVE  pc' = [pc EXCEPT ![c] = l] /\ usage' = usage => Quiet
  BY <1>1, <1>5
<1> HIDE DEF Quiet
<1> SUFFICES Quiet
  BY <1>3, FitsQuietly DEF Quiet
<1>6. CASE c \in Conns /\ (Fetch(c) \/ Dismiss(c) \/ Serve(c))
  BY <1>4, <1>5, <1>6 DEF Fetch, Dismiss, Serve, Ack, FetchLost, Acked, budget, Goto
<1>7. CASE c \in Conns /\ Deposit(c) /\ ~Put(c) /\ ~EvictPartial(c) /\ ~Admit(c)
  <2>1. CASE Refuse(c) \/ ConfirmDuplicate(c) \/ AttachVanished(c) \/ GiveUp(c) \/ Confirm(c)
    BY <1>4, <2>1 DEF Refuse, ConfirmDuplicate, AttachVanished, GiveUp, Confirm
  <2>2. CASE Attach(c) \/ AttachSave(c) \/ PatchLoad(c) \/ PatchSave(c) \/ Dedup(c)
    BY <1>5, <2>2 DEF Attach, AttachSave, PatchLoad, PatchSave, Dedup, budget, Goto
  <2> QED
    BY <1>7, <2>1, <2>2 DEF Deposit, Put
<1>8. CASE Delete(c)
  <2>1. pc' = pc /\ usage' = usage /\ pc[c] \in Deleting
    BY <1>8 DEF Delete, DeleteMeta, DeleteBody, budget
  <2> QED
    BY <1>1, <2>1 DEF Quiet, Deleting
<1>9. CASE c \in Sweepers /\ (Sweep(c) \/ SweepOn(c))
  BY <1>4, <1>5, <1>9 DEF Sweep, SweepOn, SweepList, SweepBodies, SweepPartials, budget,
                          Goto
<1> QED
  BY <1>6, <1>7, <1>8, <1>9

\* After a crash nothing is asked for.
LEMMA FitsCrash ==
  ASSUME IInv, IInv', Fitting, Crash
  PROVE  Fitting'
<1>1. Usage' \in Nat /\ Usage \in Nat /\ Usage' <= Usage
  BY AsideShrinks
<1>2. CapRespected'
  BY <1>1 DEF Fitting, CapRespected
<1>3. pc' = [p \in Procs |-> "idle"] /\ usage' = [p \in Procs |-> 0]
  BY DEF Crash
<1> QED
  BY <1>2, <1>3 DEF Fitting

\* What was admitted fits, step after step.
LEMMA FittingNext ==
  ASSUME Turns, IInv, IInv', Budgeted, Fitting, [Next]_vars
  PROVE  Fitting'
<1>1. ASSUME NEW c \in Procs PROVE Lone(c)
  BY DEF Turns, Lone
<1>2. ASSUME NEW c \in Conns, Probe(c) \/ Fetch(c) \/ Dismiss(c) \/ Deposit(c) \/ Serve(c)
      PROVE  Fitting'
  <2>1. c \in Procs /\ Lone(c)
    BY <1>1
  <2>2. CASE Probe(c) \/ EvictPartial(c) \/ Admit(c)
    BY <2>1, <2>2, FitsAdmission
  <2>3. CASE Put(c)
    BY <2>1, <2>3, FitsOpening, FitsWriting, FitsParking, FitsLeaving DEF Put
  <2> QED
    BY <1>2, <2>1, <2>2, <2>3, FitsElsewhere
<1>3. ASSUME NEW p \in Procs, Delete(p) PROVE Fitting'
  BY <1>1, <1>3, FitsElsewhere
<1>4. ASSUME NEW s \in Sweepers, Sweep(s) \/ SweepOn(s) PROVE Fitting'
  <2>1. s \in Procs
    OBVIOUS
  <2> QED
    BY <1>1, <1>4, <2>1, FitsElsewhere
<1>5. CASE Crash
  BY <1>5, FitsCrash
<1>6. CASE UNCHANGED vars
  <2>1. UNCHANGED <<partial, body, pc, req, usage, at>>
    BY <1>6 DEF vars, disk, local
  <2>2. Usage' = Usage
    BY <2>1, UsageMeans DEF Usage
  <2> QED
    BY <2>1, <2>2 DEF Fitting, CapRespected, Need
<1> QED
  BY <1>2, <1>3, <1>4, <1>5, <1>6 DEF Next

\* An empty spool fits.
LEMMA FittingInit == Init => Fitting
<1> SUFFICES ASSUME Init PROVE Fitting
  OBVIOUS
<1>1. IInv
  BY IInvInit
<1>2. \A k \in Keys : Size(partial[k]) = 0 /\ Size(body[k]) = 0
  BY DEF Init, Size
<1>3. SizeOf(partial) = 0 /\ SizeOf(body) = 0
  <2> DEFINE F == [k \in Keys |-> Size(partial[k])]
             G == [k \in Keys |-> Size(body[k])]
  <2>1. \A k \in Keys : Size(partial[k]) \in Nat /\ Size(body[k]) \in Nat
    BY <1>2
  <2>2. /\ SizeOf(partial) = Cardinality(Blocks(F, Keys))
        /\ SizeOf(body) = Cardinality(Blocks(G, Keys))
    BY <2>1, KeysFinite, SizesCount
  <2>3. \A k \in Keys : F[k] = 0 /\ G[k] = 0
    BY <1>2
  <2> HIDE DEF F, G
  <2>4. Blocks(F, Keys) = {} /\ Blocks(G, Keys) = {}
    BY <2>3 DEF Blocks
  <2> QED
    BY <2>2, <2>4, FS_EmptySet
<1>4. CapRespected
  BY <1>3 DEF Usage, CapRespected
<1> QED
  BY <1>4 DEF Init, Fitting

\* Where handlers take turns the partials and bodies on disk never take more
\* room than the cap, whatever is admitted, evicted, resumed, cut or left
\* behind by a crash: opSend admits a deposit against what it read on disk and
\* what is reserved, and put writes no frame the reservation does not cover.
THEOREM CapIsRespected == ASSUME Turns PROVE Spec => []CapRespected
<1>1. Init => IInv /\ Budgeted /\ Fitting
  BY IInvInit, BudgetedInit, FittingInit
<1>2. IInv /\ Budgeted /\ Fitting /\ [Next]_vars => (IInv /\ Budgeted /\ Fitting)'
  BY IInvNext, BudgetedNext, FittingNext
<1>3. Fitting => CapRespected
  BY DEF Fitting
<1> QED
  BY <1>1, <1>2, <1>3, PTL DEF Spec
=============================================================================
