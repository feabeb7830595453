---------------------------- MODULE SpoolProofs ----------------------------
(***************************************************************************)
(* Theorems about Spool, for any connections, contents, cap and number of  *)
(* crashes.  The inductive invariant is built from named parts; each part  *)
(* is shown to survive every step by a lemma of its own.                   *)
(***************************************************************************)
EXTENDS Spool, Counting, FiniteSetTheorems, TLAPS

USE SpoolAssumption, NoneAssumption DEF Procs

\* Labels at which a handler works on the request it received.
Requesting ==
  {"evicting", "sized", "duplicate", "header", "attached", "ready", "claimed",
   "writing", "parked", "unconfirmed", "patching", "saved", "deduping", "serving"}

\* Such a handler has its request, with a resume point inside the file.
Requests ==
  \A p \in Procs : pc[p] \in Requesting =>
    /\ req[p] \in Request
    /\ req[p].have <= Chunks[req[p].sha]
    /\ req[p].mode = "fetch" => pc[p] = "serving"

Typed == TypeOK /\ Requests

-----------------------------------------------------------------------------
\* The key of a sidecar, or of a request, is a key.
LEMMA KeyOfType ==
  ASSUME NEW m, m \in Sidecar \cup Request
  PROVE  KeyOf(m) \in Keys
BY DEF KeyOf, Keys, Sidecar, Request

\* A content has a number of frames.
LEMMA ChunksType == \A s \in SHAs : Chunks[s] \in Nat
OBVIOUS

\* A file of some of its content's frames has a size.
LEMMA SizeType ==
  ASSUME NEW k \in Keys, NEW f, f # None => f \subseteq Frames(k)
  PROVE  Size(f) \in Nat
<1>1. CASE f = None
  BY <1>1 DEF Size
<1>2. CASE f # None
  <2>1. Chunks[k.sha] \in Nat
    BY DEF Keys
  <2>2. IsFiniteSet(Frames(k))
    BY <2>1, FS_Interval DEF Frames
  <2>3. Cardinality(f) \in Nat
    BY <1>2, <2>2, FS_Subset, FS_CardinalityType
  <2> QED
    BY <1>2, <2>3 DEF Size
<1> QED
  BY <1>1, <1>2

\* The resume point of a retry lies inside the file.
LEMMA ResumeHaveType ==
  ASSUME TypeOK, NEW k \in Keys
  PROVE  ResumeHave(k) \in Nat /\ ResumeHave(k) <= Chunks[k.sha]
<1>1. Size(partial[k]) \in Nat
  BY SizeType DEF TypeOK
<1>2. Chunks[k.sha] \in Nat
  BY DEF Keys
<1> QED
  BY <1>1, <1>2 DEF ResumeHave, FullFrames

\* What a deposit reserves is an integer.
LEMMA NeedType ==
  ASSUME NEW r \in Request
  PROVE  Need(r) \in Int
BY DEF Need, Request

-----------------------------------------------------------------------------
\* The first state is typed.
LEMMA TypedInit == Init => Typed
<1> SUFFICES ASSUME Init PROVE Typed
  OBVIOUS
<1>1. TypeOK
  BY DEF Init, TypeOK, Labels
<1>2. Requests
  BY DEF Init, Requests, Requesting
<1> QED
  BY <1>1, <1>2 DEF Typed

\* A handler that returns leaves its variables typed.
LEMMA ReturnTyped ==
  ASSUME Typed, NEW p \in Procs, Return(p)
  PROVE  /\ pc' \in [Procs -> Labels]
         /\ req' \in [Procs -> Request \cup {None}]
         /\ at' \in [Procs -> Nat]
         /\ cut' \in [Procs -> BOOLEAN]
         /\ work' \in [Procs -> SUBSET IDs]
         /\ doomed' \in [Procs -> Keys \cup {None}]
         /\ scan' \in [Procs -> SUBSET [key : Keys, size : Nat]]
         /\ Requests'
<1>1. pc' \in [Procs -> Labels] /\ req' \in [Procs -> Request \cup {None}]
  BY DEF Typed, TypeOK, Return, Labels
<1>2. at' \in [Procs -> Nat] /\ cut' \in [Procs -> BOOLEAN]
  BY DEF Typed, TypeOK, Return
<1>3. work' \in [Procs -> SUBSET IDs] /\ doomed' \in [Procs -> Keys \cup {None}]
  BY DEF Typed, TypeOK, Return
<1>4. scan' \in [Procs -> SUBSET [key : Keys, size : Nat]]
  BY DEF Typed, TypeOK, Return
<1>5. Requests'
  BY DEF Typed, TypeOK, Return, Requests, Requesting
<1> QED
  BY <1>1, <1>2, <1>3, <1>4, <1>5

-----------------------------------------------------------------------------
(***************************************************************************)
(* Every step keeps the state typed: a lemma per group of actions.         *)
(***************************************************************************)

\* A request that arrives is typed.
LEMMA ProbeTyped ==
  ASSUME Typed, NEW c \in Conns, Probe(c)
  PROVE  Typed'
<1> USE DEF Typed
<1>1. PICK from \in Senders, target \in Targets, sha \in SHAs, i \in IDs :
        LET k == [from |-> from, sha |-> sha]
            have == Have(k, target)
            excess == Usage + admitted + Chunks[sha] - have - MaxBytes
            stale == IF excess > 0 THEN StalePartials(k) ELSE {} IN
        /\ target # from
        /\ Free(i)
        /\ req' = [req EXCEPT ![c] =
             [from |-> from, target |-> target, sha |-> sha, id |-> i,
              mode |-> Mode(k, target), have |-> have]]
        /\ usage' = [usage EXCEPT ![c] = Usage]
        /\ over' = [over EXCEPT ![c] = excess]
        /\ scan' = [scan EXCEPT ![c] =
             {[key |-> s, size |-> Size(partial[s])] : s \in stale}]
        /\ Goto(c, IF stale = {} THEN "sized" ELSE "evicting")
  BY Zenon DEF Probe
<1> DEFINE k == [from |-> from, sha |-> sha]
           r == [from |-> from, target |-> target, sha |-> sha, id |-> i,
                 mode |-> Mode(k, target), have |-> Have(k, target)]
<1>2. k \in Keys /\ k.sha = sha
  BY DEF Keys
<1>3. Mode(k, target) \in {"duplicate", "header", "full"}
  BY DEF Mode
<1>4. Have(k, target) \in Nat /\ Have(k, target) <= Chunks[sha]
  BY <1>2, ResumeHaveType, ChunksType DEF Have
<1>5. r \in Request /\ r.have <= Chunks[r.sha] /\ r.mode # "fetch"
  BY <1>3, <1>4 DEF Request
<1>6. req' = [req EXCEPT ![c] = r]
  BY <1>1
<1>7. PICK S \in SUBSET Keys :
        scan' = [scan EXCEPT ![c] = {[key |-> s, size |-> Size(partial[s])] : s \in S}]
  BY <1>1 DEF StalePartials
<1>8. \A s \in Keys : Size(partial[s]) \in Nat
  BY SizeType DEF TypeOK
<1>9. scan' \in [Procs -> SUBSET [key : Keys, size : Nat]]
  BY <1>7, <1>8 DEF TypeOK
<1>10. pc' = [pc EXCEPT ![c] = "sized"] \/ pc' = [pc EXCEPT ![c] = "evicting"]
  BY <1>1 DEF Goto
<1>11. UNCHANGED <<disk, memory, at, cut, work, doomed, ghost>>
  BY DEF Probe
<1> HIDE DEF r
<1>12. TypeOK'
  BY <1>5, <1>6, <1>9, <1>10, <1>11 DEF TypeOK, Labels, disk, memory, ghost
<1>13. Requests'
  BY <1>5, <1>6, <1>10 DEF TypeOK, Requests, Requesting
<1> QED
  BY <1>12, <1>13

\* A request that a handler works on.
LEMMA RequestType ==
  ASSUME Typed, NEW p \in Procs, pc[p] \in Requesting
  PROVE  /\ req[p] \in Request
         /\ KeyOf(req[p]) \in Keys
         /\ Need(req[p]) \in Int
         /\ Chunks[req[p].sha] \in Nat
         /\ req[p].have <= Chunks[req[p].sha]
<1>1. req[p] \in Request /\ req[p].have <= Chunks[req[p].sha]
  BY DEF Typed, Requests
<1>2. Chunks[req[p].sha] \in Nat
  BY <1>1 DEF Request
<1> QED
  BY <1>1, <1>2, KeyOfType, NeedType

\* So is the state after an eviction, an admission or a refusal.
LEMMA AdmissionTyped ==
  ASSUME Typed, NEW c \in Conns,
         EvictPartial(c) \/ Admit(c) \/ Refuse(c)
  PROVE  Typed'
<1> USE DEF Typed
<1>1. CASE EvictPartial(c)
  BY <1>1 DEF TypeOK, Requests, Requesting, Labels, EvictPartial, Goto, memory, ghost
<1>2. CASE Admit(c)
  <2>1. Need(req[c]) \in Int /\ req[c] \in Request
    BY <1>2, RequestType DEF Admit, Requesting
  <2>2. admitted' \in Int
    BY <1>2, <2>1 DEF Admit, TypeOK
  <2>3. req[c].mode # "fetch"
    BY <1>2 DEF Admit, Requests, Requesting
  <2>4. \E l \in {"ready", "duplicate", "header"} : pc' = [pc EXCEPT ![c] = l]
    BY <1>2, <2>1, <2>3 DEF Admit, Goto, Request
  <2>5. pc' \in [Procs -> Labels] /\ Requests'
    BY <1>2, <2>1, <2>3, <2>4 DEF Admit, TypeOK, Labels, Requests, Requesting
  <2> QED
    BY <1>2, <2>2, <2>5 DEF TypeOK, Admit, disk, locks, cleanup, ghost
<1>3. CASE Refuse(c)
  BY <1>3, ReturnTyped DEF TypeOK, Refuse, disk, memory, ghost
<1> QED
  BY <1>1, <1>2, <1>3

\* ... after a deposit that needs no bytes,
LEMMA HeaderTyped ==
  ASSUME Typed, NEW c \in Conns,
         ConfirmDuplicate(c) \/ Attach(c) \/ AttachVanished(c) \/ AttachSave(c)
  PROVE  Typed'
<1> USE DEF Typed
<1>1. CASE ConfirmDuplicate(c)
  <2>1. Need(req[c]) \in Int
    BY <1>1, RequestType DEF ConfirmDuplicate, Requesting
  <2> QED
    BY <1>1, <2>1, ReturnTyped DEF TypeOK, ConfirmDuplicate, Unreserve, disk, locks, ghost
<1>2. CASE Attach(c)
  BY <1>2 DEF TypeOK, Requests, Requesting, Labels, Attach, Goto, disk, memory, cleanup, ghost
<1>3. CASE AttachVanished(c)
  <2>1. Need(req[c]) \in Int
    BY <1>3, RequestType DEF AttachVanished, Requesting
  <2> QED
    BY <1>3, <2>1, ReturnTyped DEF TypeOK, AttachVanished, Unreserve, disk, locks, ghost
<1>4. CASE AttachSave(c)
  <2>1. req[c] \in Request
    BY <1>4, RequestType DEF AttachSave, Requesting
  <2>2. meta' \in [IDs -> Sidecar \cup {None}] /\ owed' \subseteq Delivery
    BY <1>4, <2>1 DEF AttachSave, SaveMeta, TypeOK, Request, Sidecar, Delivery, DeliveryOf
  <2> QED
    BY <1>4, <2>2 DEF TypeOK, Requests, Requesting, Labels, AttachSave, Goto, memory, cleanup
<1> QED
  BY <1>1, <1>2, <1>3, <1>4

\* ... after a step of put,
LEMMA PutTyped ==
  ASSUME Typed, NEW c \in Conns,
         \/ Claim(c) \/ PutOpen(c) \/ PutVanished(c) \/ PutFrame(c)
         \/ PutFail(c) \/ PutPark(c) \/ PutSave(c) \/ PutSaveFail(c)
  PROVE  Typed'
<1> USE DEF Typed
<1> DEFINE k == KeyOf(req[c])
<1>1. /\ req[c] \in Request /\ k \in Keys /\ k.sha = req[c].sha
      /\ Need(req[c]) \in Int /\ Chunks[req[c].sha] \in Nat
      /\ req[c].have \in Nat /\ req[c].have <= Chunks[req[c].sha]
  <2>1. pc[c] \in Requesting
    BY DEF Requesting, Claim, PutOpen, PutVanished, PutFrame, PutFail, PutPark, PutSave, PutSaveFail
  <2> QED
    BY <2>1, RequestType DEF KeyOf, Request
<1>2. /\ Unreserve(c) => admitted' \in Int
      /\ ReleasePut(c) => /\ active' \in [Keys -> Conns \cup {None}]
                          /\ putMu' \in [Keys -> Conns \cup {None}]
  BY <1>1 DEF Unreserve, ReleasePut, Release, Unlock, TypeOK
<1>3. CASE Claim(c)
  BY <1>1, <1>3 DEF TypeOK, Requests, Requesting, Labels, Claim, Goto, disk, cleanup, ghost
<1>4. CASE PutOpen(c)
  <2>1. {f \in Opened(k) : f < req[c].have} \in SUBSET Nat
    BY <1>1 DEF Opened, TypeOK
  <2>2. {f \in Opened(k) : f < req[c].have} \subseteq Frames(k)
    BY <1>1 DEF Opened, TypeOK
  <2>3. /\ partial' \in [Keys -> (SUBSET Nat) \cup {None}]
        /\ \A j \in Keys : partial'[j] # None => partial'[j] \subseteq Frames(j)
    BY <1>1, <1>4, <2>1, <2>2 DEF PutOpen, TypeOK
  <2> QED
    BY <1>1, <1>4, <2>3 DEF TypeOK, Requests, Requesting, Labels, PutOpen, Goto, cleanup, ghost
<1>5. CASE PutVanished(c)
  <2>1. Opened(k) \in SUBSET Nat /\ Opened(k) \subseteq Frames(k)
    BY <1>1 DEF Opened, TypeOK, Frames
  <2>2. /\ partial' \in [Keys -> (SUBSET Nat) \cup {None}]
        /\ \A j \in Keys : partial'[j] # None => partial'[j] \subseteq Frames(j)
    BY <1>1, <1>5, <2>1 DEF PutVanished, TypeOK
  <2> QED
    BY <1>2, <1>5, <2>2, ReturnTyped DEF TypeOK, PutVanished, ghost
<1>6. CASE PutFrame(c)
  <2>1. at[c] \in Frames(k)
    BY <1>1, <1>6 DEF PutFrame, FramesLeft, TypeOK, Frames
  <2>2. /\ partial' \in [Keys -> (SUBSET Nat) \cup {None}]
        /\ \A j \in Keys : partial'[j] # None => partial'[j] \subseteq Frames(j)
    BY <1>1, <1>6, <2>1 DEF PutFrame, TypeOK
  <2> QED
    BY <1>6, <2>2 DEF TypeOK, Requests, Requesting, PutFrame, memory, cleanup, ghost
<1>7. CASE PutFail(c)
  BY <1>2, <1>7, ReturnTyped DEF TypeOK, PutFail, disk, ghost
<1>8. CASE PutPark(c)
  BY <1>1, <1>8 DEF TypeOK, Requests, Requesting, Labels, PutPark, Goto, memory, cleanup, ghost
<1>9. CASE PutSave(c)
  <2>1. meta' \in [IDs -> Sidecar \cup {None}] /\ owed' \subseteq Delivery
    BY <1>1, <1>9 DEF PutSave, SaveMeta, TypeOK, Request, Sidecar, Delivery, DeliveryOf
  <2> QED
    BY <1>2, <1>9, <2>1 DEF TypeOK, Requests, Requesting, Labels, PutSave, Goto, cleanup
<1>10. CASE PutSaveFail(c)
  BY <1>2, <1>10, ReturnTyped DEF TypeOK, PutSaveFail, disk, ghost
<1> QED
  BY <1>3, <1>4, <1>5, <1>6, <1>7, <1>8, <1>9, <1>10

\* ... after a step that records, collapses and confirms,
LEMMA ConfirmTyped ==
  ASSUME Typed, NEW c \in Conns,
         PatchLoad(c) \/ PatchSave(c) \/ GiveUp(c) \/ Dedup(c) \/ Confirm(c)
  PROVE  Typed'
<1> USE DEF Typed
<1>1. req[c] \in Request /\ Need(req[c]) \in Int
  <2>1. pc[c] \in Requesting
    BY DEF Requesting, PatchLoad, PatchSave, GiveUp, Dedup, Confirm
  <2> QED
    BY <2>1, RequestType
<1>2. Unreserve(c) => admitted' \in Int
  BY <1>1 DEF Unreserve, TypeOK
<1>3. CASE PatchLoad(c)
  BY <1>3 DEF TypeOK, Requests, Requesting, Labels, PatchLoad, Goto, disk, memory, cleanup, ghost
<1>4. CASE PatchSave(c)
  <2>1. meta' \in [IDs -> Sidecar \cup {None}]
    BY <1>1, <1>4 DEF PatchSave, TypeOK, Request, Sidecar
  <2> QED
    BY <1>4, <2>1 DEF TypeOK, Requests, Requesting, Labels, PatchSave, Goto, memory, cleanup, ghost
<1>5. CASE GiveUp(c)
  BY <1>2, <1>5, ReturnTyped DEF TypeOK, GiveUp, disk, locks, ghost
<1>6. CASE Dedup(c)
  <2>1. Duplicates(c) \subseteq IDs
    BY DEF Duplicates, Parked
  <2> QED
    BY <1>6, <2>1 DEF TypeOK, Requests, Requesting, Labels, Dedup, Goto, disk, ghost
<1>7. CASE Confirm(c)
  BY <1>2, <1>7, ReturnTyped DEF TypeOK, Confirm, disk, ghost
<1> QED
  BY <1>3, <1>4, <1>5, <1>6, <1>7

\* ... after a step of a deletion,
LEMMA DeleteTyped ==
  ASSUME Typed, NEW p \in Procs, Delete(p)
  PROVE  Typed'
<1> USE DEF Typed
<1>1. CASE DeleteMeta(p)
  <2>1. PICK i \in work[p] :
          /\ work' = [work EXCEPT ![p] = @ \ {i}]
          /\ meta' = [meta EXCEPT ![i] = None]
          /\ doomed' = [doomed EXCEPT ![p] =
               IF LastReference(i) THEN KeyOf(meta[i]) ELSE None]
    BY <1>1 DEF DeleteMeta
  <2>2. i \in IDs
    BY <2>1 DEF TypeOK
  <2>3. LastReference(i) => KeyOf(meta[i]) \in Keys
    BY <2>2, KeyOfType DEF LastReference, TypeOK
  <2>4. doomed' \in [Procs -> Keys \cup {None}]
    BY <2>1, <2>3 DEF TypeOK
  <2> QED
    BY <1>1, <2>1, <2>2, <2>4 DEF TypeOK, Requests, DeleteMeta, memory, ghost
<1>2. CASE DeleteBody(p)
  BY <1>2 DEF TypeOK, Requests, DeleteBody, memory, ghost
<1> QED
  BY <1>1, <1>2 DEF Delete

\* ... after a fetch, an ack or a dismissal,
LEMMA FetchTyped ==
  ASSUME Typed, NEW c \in Conns,
         Fetch(c) \/ Ack(c) \/ FetchLost(c) \/ Acked(c) \/ Dismiss(c)
  PROVE  Typed'
<1> USE DEF Typed
<1>1. CASE Fetch(c)
  <2>1. PICK i \in Retrievable :
          req' = [req EXCEPT ![c] =
            [from |-> meta[i].from, target |-> meta[i].target,
             sha |-> meta[i].sha, id |-> i, mode |-> "fetch", have |-> 0]]
    BY <1>1 DEF Fetch
  <2> DEFINE r == [from |-> meta[i].from, target |-> meta[i].target,
                   sha |-> meta[i].sha, id |-> i, mode |-> "fetch", have |-> 0]
  <2>2. i \in IDs /\ meta[i] \in Sidecar
    BY DEF Retrievable, Parked, TypeOK
  <2>3. r \in Request /\ r.have <= Chunks[r.sha]
    BY <2>2, ChunksType DEF Request, Sidecar
  <2>4. req' = [req EXCEPT ![c] = r]
    BY <2>1
  <2> HIDE DEF r
  <2>5. TypeOK'
    BY <1>1, <2>3, <2>4 DEF TypeOK, Labels, Fetch, Goto, disk, memory, cleanup, ghost
  <2>6. Requests'
    BY <1>1, <2>3, <2>4 DEF TypeOK, Requests, Requesting, Fetch, Goto
  <2> QED
    BY <2>5, <2>6
<1>2. CASE Ack(c)
  <2>1. req[c] \in Request
    BY <1>2, RequestType DEF Ack, Requesting
  <2> QED
    BY <1>2, <2>1 DEF TypeOK, Requests, Requesting, Labels, Ack, Goto, disk, memory, Request
<1>3. CASE FetchLost(c)
  BY <1>3, ReturnTyped DEF TypeOK, FetchLost, disk, memory, ghost
<1>4. CASE Acked(c)
  BY <1>4, ReturnTyped DEF TypeOK, Acked, disk, memory, ghost
<1>5. CASE Dismiss(c)
  BY <1>5 DEF TypeOK, Requests, Requesting, Labels, Dismiss, Goto, disk, memory, Retrievable, Parked
<1> QED
  BY <1>1, <1>2, <1>3, <1>4, <1>5

\* ... after a step of the sweep,
LEMMA SweepTyped ==
  ASSUME Typed, NEW s \in Sweepers,
         Sweep(s) \/ SweepList(s) \/ SweepBodies(s) \/ SweepPartials(s)
  PROVE  Typed'
<1> USE DEF Typed
<1>1. CASE Sweep(s)
  BY <1>1 DEF TypeOK, Requests, Requesting, Labels, Sweep, Goto, disk, memory, Parked
<1>2. CASE SweepList(s)
  <2>1. \A i \in Parked : KeyOf(meta[i]) \in Keys
    BY KeyOfType DEF Parked, TypeOK
  <2>2. scan' \in [Procs -> SUBSET [key : Keys, size : Nat]]
    BY <1>2, <2>1 DEF SweepList, TypeOK
  <2> QED
    BY <1>2, <2>2 DEF TypeOK, Requests, Requesting, Labels, SweepList, Goto, disk, memory, ghost
<1>3. CASE SweepBodies(s)
  <2>1. body' \in [Keys -> (SUBSET Nat) \cup {None}]
    BY <1>3 DEF SweepBodies, SweptBodies, TypeOK
  <2>2. scan' \in [Procs -> SUBSET [key : Keys, size : Nat]]
    BY <1>3 DEF SweepBodies, TypeOK
  <2> QED
    BY <1>3, <2>1, <2>2 DEF TypeOK, Requests, Requesting, Labels, SweepBodies, Goto, memory, ghost
<1>4. CASE SweepPartials(s)
  <2>1. /\ partial' \in [Keys -> (SUBSET Nat) \cup {None}]
        /\ \A k \in Keys : partial'[k] # None => partial'[k] \subseteq Frames(k)
    BY <1>4 DEF SweepPartials, TypeOK
  <2> QED
    BY <1>4, <2>1, ReturnTyped DEF TypeOK, SweepPartials, memory, ghost
<1> QED
  BY <1>1, <1>2, <1>3, <1>4

\* ... and after a crash.
LEMMA CrashTyped ==
  ASSUME Typed, Crash
  PROVE  Typed'
BY DEF Typed, TypeOK, Requests, Requesting, Labels, Crash, disk

\* Every step keeps the state typed.
LEMMA TypedNext == Typed /\ [Next]_vars => Typed'
<1> SUFFICES ASSUME Typed, [Next]_vars PROVE Typed'
  OBVIOUS
<1>1. ASSUME NEW c \in Conns,
             Probe(c) \/ Fetch(c) \/ Dismiss(c) \/ Deposit(c) \/ Serve(c)
      PROVE  Typed'
  BY <1>1, ProbeTyped, AdmissionTyped, HeaderTyped, PutTyped, ConfirmTyped,
     FetchTyped DEF Deposit, Serve
<1>2. ASSUME NEW p \in Procs, Delete(p) PROVE Typed'
  BY <1>2, DeleteTyped
<1>3. ASSUME NEW s \in Sweepers, Sweep(s) \/ SweepOn(s) PROVE Typed'
  BY <1>3, SweepTyped DEF SweepOn
<1>4. CASE Crash
  BY <1>4, CrashTyped
<1>5. CASE UNCHANGED vars
  BY <1>5 DEF Typed, TypeOK, Requests, vars, disk, memory, local
<1> QED
  BY <1>1, <1>2, <1>3, <1>4, <1>5 DEF Next

\* The type invariant holds for every instance of the spool: whatever the
\* handlers, the sweeper and crashes do to the directory, files hold frames of
\* their content, sidecars are complete and locks are held by connections.
THEOREM TypeCorrect == Spec => []TypeOK
<1>1. Typed => TypeOK
  BY DEF Typed
<1> QED
  BY TypedInit, TypedNext, <1>1, PTL DEF Spec

-----------------------------------------------------------------------------
(***************************************************************************)
(* The inductive invariant.                                                *)
(***************************************************************************)

\* Whoever has a partial open for writing holds its mutex.
Locked == \A c \in Conns : Holds(c) => putMu[KeyOf(req[c])] = c

\* A partial is a prefix of its content: there is no hole a resume could jump.
Prefixes ==
  \A k \in Keys : partial[k] # None =>
    \E n \in 0 .. Chunks[k.sha] : partial[k] = 0 .. n - 1

\* A partial that is being written ends where its writer stands, or has been
\* unlinked.
Writing ==
  \A c \in Conns : pc[c] = "writing" =>
    /\ at[c] \in 0 .. Chunks[req[c].sha]
    /\ partial[KeyOf(req[c])] \in {None, 0 .. at[c] - 1}

Whole == Prefixes /\ Writing /\ BodyWhole

IInv == Typed /\ Locked /\ ClaimsAreCurrent /\ Whole

\* A step of anything but put: the claims, the mutexes and the deposits inside
\* put stay as they are, and files only disappear.
Aside ==
  /\ UNCHANGED <<active, putMu>>
  /\ \A c \in Conns :
       /\ InPut(c) => pc'[c] = pc[c]
       /\ InPut(c)' => /\ pc'[c] = pc[c] /\ req'[c] = req[c]
                       /\ at'[c] = at[c] /\ cut'[c] = cut[c]
  /\ \A k \in Keys :
       partial'[k] \in {None, partial[k]} /\ body'[k] \in {None, body[k]}

Put(c) ==
  \/ Claim(c) \/ PutOpen(c) \/ PutVanished(c) \/ PutFrame(c)
  \/ PutFail(c) \/ PutPark(c) \/ PutSave(c) \/ PutSaveFail(c)

\* A handler that returns from outside put steps aside.
LEMMA ReturnAside ==
  ASSUME Typed, NEW p \in Procs, ~InPut(p), Return(p), UNCHANGED <<active, putMu, disk>>
  PROVE  Aside
BY DEF Typed, TypeOK, Return, Aside, InPut, disk

\* Every action outside put is a step aside.
LEMMA DepositAside ==
  ASSUME Typed, NEW c \in Conns, Deposit(c), ~Put(c)
  PROVE  Aside
<1> USE DEF Typed, TypeOK
<1>1. CASE EvictPartial(c)
  BY <1>1 DEF EvictPartial, Goto, Aside, InPut, memory
<1>2. CASE Admit(c)
  <2>1. req[c].mode = "full" \/ req[c].mode \in {"duplicate", "header"}
    BY <1>2 DEF Admit, Requests, Requesting, Request
  <2> QED
    BY <1>2, <2>1 DEF Admit, Goto, Aside, InPut, disk, locks
<1>3. CASE Refuse(c)
  BY <1>3, ReturnAside DEF Refuse, memory, InPut
<1>4. CASE ConfirmDuplicate(c) \/ AttachVanished(c)
  BY <1>4, ReturnAside DEF ConfirmDuplicate, AttachVanished, locks, InPut
<1>5. CASE Attach(c) \/ AttachSave(c)
  BY <1>5 DEF Attach, AttachSave, Goto, Aside, InPut, disk, memory
<1>6. CASE PatchLoad(c) \/ PatchSave(c)
  BY <1>6 DEF PatchLoad, PatchSave, Goto, Aside, InPut, disk, memory
<1>7. CASE GiveUp(c)
  BY <1>7, ReturnAside DEF GiveUp, locks, InPut
<1>8. CASE Dedup(c)
  BY <1>8 DEF Dedup, Goto, Aside, InPut, disk
<1>9. CASE Confirm(c)
  BY <1>9, ReturnAside DEF Confirm, InPut
<1> QED
  BY <1>1, <1>2, <1>3, <1>4, <1>5, <1>6, <1>7, <1>8, <1>9 DEF Deposit, Put

\* A fetch or a dismissal stays out of the way of put.
LEMMA ServeAside ==
  ASSUME Typed, NEW c \in Conns,
         Probe(c) \/ Fetch(c) \/ Dismiss(c) \/ Serve(c)
  PROVE  Aside
<1> USE DEF Typed, TypeOK
<1>1. CASE Probe(c)
  <2>1. pc' = [pc EXCEPT ![c] = "sized"] \/ pc' = [pc EXCEPT ![c] = "evicting"]
    BY <1>1 DEF Probe, Goto
  <2>2. \A d \in Conns : d # c => req'[d] = req[d]
    BY <1>1 DEF Probe
  <2>3. pc[c] = "idle" /\ UNCHANGED <<disk, memory, at, cut>>
    BY <1>1 DEF Probe
  <2> QED
    BY <2>1, <2>2, <2>3 DEF Aside, InPut, disk, memory
<1>2. CASE Fetch(c)
  BY <1>2 DEF Fetch, Goto, Aside, InPut, disk, memory
<1>3. CASE Dismiss(c) \/ Ack(c)
  BY <1>3 DEF Dismiss, Ack, Goto, Aside, InPut, disk, memory
<1>4. CASE FetchLost(c) \/ Acked(c)
  BY <1>4, ReturnAside DEF FetchLost, Acked, memory, InPut
<1> QED
  BY <1>1, <1>2, <1>3, <1>4 DEF Serve

\* So does a deletion,
LEMMA DeleteAside ==
  ASSUME Typed, NEW p \in Procs, Delete(p)
  PROVE  Aside
BY DEF Typed, TypeOK, Delete, DeleteMeta, DeleteBody, Aside, InPut, memory

\* ... and the sweep.
LEMMA SweepAside ==
  ASSUME Typed, NEW s \in Sweepers, Sweep(s) \/ SweepOn(s)
  PROVE  Aside
<1> USE DEF Typed, TypeOK
<1>1. CASE Sweep(s) \/ SweepList(s)
  BY <1>1 DEF Sweep, SweepList, Goto, Aside, InPut, disk, memory
<1>2. CASE SweepBodies(s)
  BY <1>2 DEF SweepBodies, SweptBodies, Goto, Aside, InPut, memory
<1>3. CASE SweepPartials(s)
  BY <1>3 DEF SweepPartials, Return, Aside, InPut, memory
<1> QED
  BY <1>1, <1>2, <1>3 DEF SweepOn

\* So every step is a step of put, a crash, or a step aside.
LEMMA StepKinds ==
  ASSUME Typed, [Next]_vars
  PROVE  Aside \/ Crash \/ \E c \in Conns : Put(c)
<1>1. UNCHANGED vars => Aside
  BY DEF vars, disk, memory, local, Aside, InPut
<1> QED
  BY <1>1, DepositAside, ServeAside, DeleteAside, SweepAside DEF Next

-----------------------------------------------------------------------------
\* A deposit inside put has its request, and so a key.
LEMMA PutRequest ==
  ASSUME Typed, NEW c \in Conns, pc[c] = "ready" \/ InPut(c)
  PROVE  /\ req[c] \in Request
         /\ KeyOf(req[c]) \in Keys
         /\ KeyOf(req[c]).sha = req[c].sha
         /\ Chunks[req[c].sha] \in Nat
         /\ req[c].have \in 0 .. Chunks[req[c].sha]
<1>1. pc[c] \in Requesting
  BY DEF InPut, Requesting
<1> QED
  BY <1>1, RequestType DEF KeyOf, Request

\* The mutex: PutOpen takes it only when it is free, and every way out of put
\* gives back the one it took.
LEMMA LockedNext ==
  ASSUME Typed, Locked, [Next]_vars
  PROVE  Locked'
<1> USE DEF Locked, Holds
<1>1. CASE Aside
  BY <1>1 DEF Aside, InPut
<1>2. CASE Crash
  BY <1>2 DEF Crash
<1>3. ASSUME NEW c \in Conns, Put(c) PROVE Locked'
  <2>1. req[c] \in Request /\ KeyOf(req[c]) \in Keys
    BY <1>3, PutRequest
       DEF Put, InPut, Claim, PutOpen, PutVanished, PutFrame, PutFail, PutPark, PutSave, PutSaveFail
  <2>2. \A d \in Conns : Holds(d) => KeyOf(req[d]) \in Keys
    BY PutRequest DEF InPut
  <2>3. CASE Claim(c)
    BY <2>3 DEF Claim, Goto, Typed, TypeOK
  <2>4. CASE PutOpen(c)
    BY <2>1, <2>2, <2>4 DEF PutOpen, Unlocked, Goto, Typed, TypeOK
  <2>5. CASE PutVanished(c)
    BY <2>1, <2>2, <2>5 DEF PutVanished, Unlocked, ReleasePut, Unlock, Return, Typed, TypeOK
  <2>6. CASE PutFrame(c)
    BY <2>6 DEF PutFrame, memory
  <2>7. CASE PutFail(c) \/ PutSaveFail(c)
    BY <2>1, <2>2, <2>7 DEF PutFail, PutSaveFail, ReleasePut, Unlock, Return, Typed, TypeOK
  <2>8. CASE PutPark(c)
    BY <2>8 DEF PutPark, Goto, memory, Typed, TypeOK
  <2>9. CASE PutSave(c)
    BY <2>1, <2>2, <2>9 DEF PutSave, ReleasePut, Unlock, Goto, Typed, TypeOK
  <2> QED
    BY <1>3, <2>3, <2>4, <2>5, <2>6, <2>7, <2>8, <2>9 DEF Put
<1> QED
  BY <1>1, <1>2, <1>3, StepKinds

\* The claim: a newer deposit that takes it over cuts the older one, and only
\* the deposit that still holds it drops it.
LEMMA ClaimsNext ==
  ASSUME Typed, ClaimsAreCurrent, [Next]_vars
  PROVE  ClaimsAreCurrent'
<1> USE DEF ClaimsAreCurrent, Open
<1>1. CASE Aside
  BY <1>1 DEF Aside, InPut, Typed, TypeOK
<1>2. CASE Crash
  BY <1>2 DEF Crash, InPut
<1>3. ASSUME NEW c \in Conns, Put(c) PROVE ClaimsAreCurrent'
  <2>1. req[c] \in Request /\ KeyOf(req[c]) \in Keys
    BY <1>3, PutRequest
       DEF Put, InPut, Claim, PutOpen, PutVanished, PutFrame, PutFail, PutPark, PutSave, PutSaveFail
  <2>2. \A d \in Conns : InPut(d) => KeyOf(req[d]) \in Keys
    BY PutRequest
  <2>3. CASE Claim(c)
    <3> DEFINE k == KeyOf(req[c])
    <3>1. /\ active' = [active EXCEPT ![k] = c] /\ req' = req
          /\ pc[c] = "ready" /\ pc' = [pc EXCEPT ![c] = "claimed"]
      BY <2>3 DEF Claim, Goto
    <3>2. \A d \in Conns : ~cut'[d] => ~cut[d] /\ d # active[k]
      BY <2>3 DEF Claim
    <3>3. (\A j \in Keys : active[j] # None =>
            InPut(active[j]) /\ KeyOf(req[active[j]]) = j)'
      BY <2>1, <3>1 DEF InPut, Typed, TypeOK
    <3>4. ASSUME NEW d \in Conns, InPut(d)', ~cut'[d]
          PROVE  active'[KeyOf(req'[d])] = d
      <4>1. CASE d = c
        BY <2>1, <3>1, <4>1 DEF Typed, TypeOK
      <4>2. CASE d # c
        <5>1. InPut(d) /\ ~cut[d] /\ d # active[k]
          BY <3>1, <3>2, <3>4, <4>2 DEF InPut, Typed, TypeOK
        <5>2. active[KeyOf(req[d])] = d
          BY <5>1
        <5> QED
          BY <3>1, <5>1, <5>2, <2>2 DEF Typed, TypeOK
      <4> QED
        BY <4>1, <4>2
    <3> QED
      BY <3>3, <3>4
  <2>4. CASE PutOpen(c)
    BY <2>4 DEF PutOpen, Goto, InPut, Typed, TypeOK
  <2>5. CASE PutVanished(c)
    BY <2>1, <2>2, <2>5 DEF PutVanished, ReleasePut, Release, Return, InPut, Typed, TypeOK
  <2>6. CASE PutFrame(c)
    BY <2>6 DEF PutFrame, memory, InPut
  <2>7. CASE PutFail(c) \/ PutSaveFail(c)
    <3>1. ReleasePut(c) /\ Return(c)
      BY <2>7 DEF PutFail, PutSaveFail
    <3> QED
      BY <2>1, <2>2, <3>1 DEF ReleasePut, Release, Return, InPut, Typed, TypeOK
  <2>8. CASE PutPark(c)
    BY <2>8 DEF PutPark, Goto, memory, InPut, Typed, TypeOK
  <2>9. CASE PutSave(c)
    BY <2>1, <2>2, <2>9 DEF PutSave, ReleasePut, Release, Goto, InPut, Typed, TypeOK
  <2> QED
    BY <1>3, <2>3, <2>4, <2>5, <2>6, <2>7, <2>8, <2>9 DEF Put
<1> QED
  BY <1>1, <1>2, <1>3, StepKinds

\* The body.  PutOpen cuts the partial back to the resume point it finds
\* covered, frames are appended one by one under the mutex, and only a writer
\* at the end of the content parks: so a body has every frame.
LEMMA WholeNext ==
  ASSUME Typed, Locked, Whole, [Next]_vars
  PROVE  Whole'
<1> USE DEF Whole
<1>1. CASE Aside
  <2>1. Prefixes' /\ BodyWhole'
    BY <1>1 DEF Aside, Prefixes, BodyWhole
  <2>2. ASSUME NEW d \in Conns, pc'[d] = "writing"
        PROVE  /\ at'[d] \in 0 .. Chunks[req'[d].sha]
               /\ partial'[KeyOf(req'[d])] \in {None, 0 .. at'[d] - 1}
    <3>1. pc[d] = "writing" /\ req'[d] = req[d] /\ at'[d] = at[d]
      BY <1>1, <2>2 DEF Aside, InPut
    <3>2. KeyOf(req[d]) \in Keys
      BY <3>1, PutRequest DEF InPut
    <3> QED
      BY <1>1, <3>1, <3>2 DEF Aside, Writing
  <2> QED
    BY <2>1, <2>2 DEF Writing
<1>2. CASE Crash
  BY <1>2 DEF Crash, Prefixes, Writing, BodyWhole, disk
<1>3. ASSUME NEW c \in Conns, Put(c) PROVE Whole'
  <2> DEFINE k == KeyOf(req[c])
  <2>1. /\ k \in Keys /\ k.sha = req[c].sha /\ Chunks[k.sha] \in Nat
        /\ req[c].have \in 0 .. Chunks[k.sha]
    BY <1>3, PutRequest
       DEF Put, InPut, Claim, PutOpen, PutVanished, PutFrame, PutFail, PutPark, PutSave, PutSaveFail
  <2>2. \A d \in Conns : pc[d] = "writing" =>
          putMu[KeyOf(req[d])] = d /\ KeyOf(req[d]) \in Keys
    BY PutRequest DEF Locked, Holds, InPut
  <2>3. CASE Claim(c)
    BY <2>3 DEF Claim, Goto, Prefixes, Writing, BodyWhole, disk, Typed, TypeOK
  <2>4. CASE PutOpen(c)
    <3>1. PICK n \in 0 .. Chunks[k.sha] : Opened(k) = 0 .. n - 1
      <4>1. {} = 0 .. 0 - 1
        OBVIOUS
      <4> QED
        BY <2>1, <4>1 DEF Opened, Prefixes
    <3>2. Cardinality(Opened(k)) = n
      BY <2>1, <3>1, FS_Interval
    <3>3. {f \in Opened(k) : f < req[c].have} = 0 .. req[c].have - 1
      BY <2>1, <2>4, <3>1, <3>2 DEF PutOpen, Reaches
    <3>4. partial' = [partial EXCEPT ![k] = 0 .. req[c].have - 1]
      BY <2>4, <3>3 DEF PutOpen
    <3>5. Prefixes'
      BY <2>1, <3>4 DEF Prefixes, Typed, TypeOK
    <3>6. Writing'
      BY <2>1, <2>2, <2>4, <3>4 DEF PutOpen, Unlocked, Goto, Writing, Typed, TypeOK
    <3>7. BodyWhole'
      BY <2>4 DEF PutOpen, BodyWhole
    <3> QED
      BY <3>5, <3>6, <3>7
  <2>5. CASE PutVanished(c)
    <3>1. Prefixes'
      <4>1. {} = 0 .. 0 - 1
        OBVIOUS
      <4> QED
        BY <2>1, <2>5, <4>1 DEF PutVanished, Opened, Prefixes, Typed, TypeOK
    <3>2. Writing'
      BY <2>1, <2>2, <2>5 DEF PutVanished, Unlocked, Return, Writing, Typed, TypeOK
    <3>3. BodyWhole'
      BY <2>5 DEF PutVanished, BodyWhole
    <3> QED
      BY <3>1, <3>2, <3>3
  <2>6. CASE PutFrame(c)
    <3>1. at[c] \in 0 .. Chunks[k.sha] - 1 /\ partial[k] \in {None, 0 .. at[c] - 1}
      BY <2>1, <2>6 DEF PutFrame, FramesLeft, Writing, Typed, TypeOK
    <3>2. (0 .. at[c] - 1) \cup {at[c]} = 0 .. (at[c] + 1) - 1
      BY <3>1
    <3>3. partial' = [partial EXCEPT ![k] =
            IF @ = None THEN None ELSE 0 .. (at[c] + 1) - 1]
      BY <2>1, <2>6, <3>1, <3>2 DEF PutFrame, Typed, TypeOK
    <3>4. at[c] + 1 \in 0 .. Chunks[k.sha]
      BY <2>1, <3>1
    <3>5. Prefixes'
      BY <2>1, <3>3, <3>4 DEF Prefixes, Typed, TypeOK
    <3>6. Writing'
      BY <2>1, <2>2, <2>6, <3>3, <3>4 DEF PutFrame, Writing, Typed, TypeOK
    <3>7. BodyWhole'
      BY <2>6 DEF PutFrame, BodyWhole
    <3> QED
      BY <3>5, <3>6, <3>7
  <2>7. CASE PutFail(c) \/ PutSaveFail(c)
    <3>1. UNCHANGED disk /\ Return(c)
      BY <2>7 DEF PutFail, PutSaveFail
    <3>2. Prefixes' /\ BodyWhole'
      BY <3>1 DEF Prefixes, BodyWhole, disk
    <3>3. Writing'
      BY <3>1 DEF Return, Writing, disk, Typed, TypeOK
    <3> QED
      BY <3>2, <3>3
  <2>8. CASE PutPark(c)
    <3>1. partial[k] # None => partial[k] = Frames(k)
      BY <2>1, <2>8 DEF PutPark, Writing, Frames
    <3>2. BodyWhole'
      BY <2>1, <2>8, <3>1 DEF PutPark, BodyWhole, Typed, TypeOK
    <3>3. partial' = [partial EXCEPT ![k] = None] /\ pc' = [pc EXCEPT ![c] = "parked"]
      BY <2>8 DEF PutPark, Goto
    <3>4. Prefixes'
      BY <3>3 DEF Prefixes, Typed, TypeOK
    <3>5. Writing'
      BY <2>1, <2>2, <2>8, <3>3 DEF PutPark, Writing, Typed, TypeOK
    <3> QED
      BY <3>2, <3>4, <3>5
  <2>9. CASE PutSave(c)
    BY <2>9 DEF PutSave, Goto, Prefixes, Writing, BodyWhole, Typed, TypeOK
  <2> QED
    BY <1>3, <2>3, <2>4, <2>5, <2>6, <2>7, <2>8, <2>9 DEF Put
<1> QED
  BY <1>1, <1>2, <1>3, StepKinds

-----------------------------------------------------------------------------
\* The first state satisfies the inductive invariant.
LEMMA IInvInit == Init => IInv
<1> SUFFICES ASSUME Init PROVE IInv
  OBVIOUS
<1>1. Typed
  BY TypedInit
<1>2. Locked /\ ClaimsAreCurrent
  BY DEF Init, Locked, Holds, ClaimsAreCurrent, InPut
<1>3. Whole
  BY DEF Init, Whole, Prefixes, Writing, BodyWhole
<1> QED
  BY <1>1, <1>2, <1>3 DEF IInv

\* Every step preserves it.
LEMMA IInvNext == IInv /\ [Next]_vars => IInv'
BY TypedNext, LockedNext, ClaimsNext, WholeNext DEF IInv

\* The inductive invariant holds in every reachable state.
THEOREM Invariance == Spec => []IInv
BY IInvInit, IInvNext, PTL DEF Spec

\* A body that exists is complete, whatever was resumed, cut, evicted, swept
\* or lost in a crash: bodyParked may ask a sender for the header alone.
THEOREM BodiesAreWhole == Spec => []BodyWhole
<1>1. IInv => BodyWhole
  BY DEF IInv, Whole
<1> QED
  BY Invariance, <1>1, PTL

\* put's mutex keeps a partial with one writer, however many deposits of the
\* same content arrive.
THEOREM WritersExclude == Spec => []OneWriter
<1>1. IInv => OneWriter
  BY DEF IInv, Locked, OneWriter
<1> QED
  BY Invariance, <1>1, PTL

\* claim and release: the connection a newer deposit closes is one that is
\* inside put for the same content, and an uncut writer's partial is claimed.
THEOREM ClaimsStayCurrent == Spec => []ClaimsAreCurrent
<1>1. IInv => ClaimsAreCurrent
  BY DEF IInv
<1> QED
  BY Invariance, <1>1, PTL

-----------------------------------------------------------------------------
(***************************************************************************)
(* The budget.  Its sums over files and deposits are folds; each counts    *)
(* the blocks of a set.                                                    *)
(***************************************************************************)
\* The fold of what requests r reserve counts blocks.
LEMMA NeedsCount ==
  ASSUME NEW r, NEW S, IsFiniteSet(S), \A c \in S : Need(r[c]) \in Nat
  PROVE  MapThenSumSet(LAMBDA c : Need(r[c]), S)
           = Cardinality(Blocks([c \in S |-> Need(r[c])], S))
<1> DEFINE f == [c \in S |-> Need(r[c])]
           Is(iter) == iter = [T \in SUBSET S |->
             IF T = {} THEN 0
             ELSE LET x == CHOOSE x \in T : TRUE IN Need(r[x]) + iter[T \ {x}]]
           g == [T \in SUBSET S |-> Cardinality(Blocks(f, T))]
           sum == CHOOSE iter : Is(iter)
<1>1. MapThenSumSet(LAMBDA c : Need(r[c]), S) = sum[S]
  BY DEF MapThenSumSet, MapThenFoldSet
<1>2. \A y \in S : f[y] \in Nat
  OBVIOUS
<1>3. SumsUp(g, f, S)
  BY <1>2, CountingSumsUp
<1>4. Is(g)
  <2>1. ASSUME NEW T \in SUBSET S
        PROVE  g[T] = IF T = {} THEN 0
                      ELSE LET x == CHOOSE x \in T : TRUE IN Need(r[x]) + g[T \ {x}]
    <3>1. T # {} => (CHOOSE x \in T : TRUE) \in T
      OBVIOUS
    <3> HIDE DEF g
    <3> QED
      BY <1>3, <3>1 DEF SumsUp
  <2> QED
    BY <2>1
<1>5. Is(sum)
  <2> HIDE DEF g, Is
  <2> QED
    BY <1>4
<1>6. SumsUp(sum, f, S)
  <2> HIDE DEF sum
  <2> SUFFICES ASSUME NEW T \in SUBSET S
               PROVE  sum[T] = IF T = {} THEN 0
                        ELSE LET x == CHOOSE x \in T : TRUE IN f[x] + sum[T \ {x}]
    BY DEF SumsUp
  <2>1. T # {} => (CHOOSE x \in T : TRUE) \in T
    OBVIOUS
  <2> QED
    BY <1>5, <2>1
<1> QED
  BY <1>1, <1>2, <1>6, SumCounts

\* The fold of what files hold counts blocks, in the same way.
LEMMA SizesCount ==
  ASSUME NEW files, IsFiniteSet(Keys), \A k \in Keys : Size(files[k]) \in Nat
  PROVE  SizeOf(files) = Cardinality(Blocks([k \in Keys |-> Size(files[k])], Keys))
<1> DEFINE S == Keys
           f == [k \in S |-> Size(files[k])]
           Is(iter) == iter = [T \in SUBSET S |->
             IF T = {} THEN 0
             ELSE LET x == CHOOSE x \in T : TRUE IN Size(files[x]) + iter[T \ {x}]]
           g == [T \in SUBSET S |-> Cardinality(Blocks(f, T))]
           sum == CHOOSE iter : Is(iter)
<1>1. SizeOf(files) = sum[S]
  BY DEF SizeOf, MapThenSumSet, MapThenFoldSet
<1> HIDE DEF S
<1>2. IsFiniteSet(S) /\ \A y \in S : Size(files[y]) \in Nat
  BY DEF S
<1>3. \A y \in S : f[y] \in Nat
  BY <1>2
<1>4. SumsUp(g, f, S)
  BY <1>2, <1>3, CountingSumsUp
<1>5. Is(g)
  <2>1. ASSUME NEW T \in SUBSET S
        PROVE  g[T] = IF T = {} THEN 0
                      ELSE LET x == CHOOSE x \in T : TRUE IN Size(files[x]) + g[T \ {x}]
    <3>1. T # {} => (CHOOSE x \in T : TRUE) \in T
      OBVIOUS
    <3> HIDE DEF g
    <3> QED
      BY <1>4, <3>1 DEF SumsUp
  <2> QED
    BY <2>1
<1>6. Is(sum)
  <2> HIDE DEF g, Is
  <2> QED
    BY <1>5
<1>7. SumsUp(sum, f, S)
  <2> HIDE DEF sum
  <2> SUFFICES ASSUME NEW T \in SUBSET S
               PROVE  sum[T] = IF T = {} THEN 0
                        ELSE LET x == CHOOSE x \in T : TRUE IN f[x] + sum[T \ {x}]
    BY DEF SumsUp
  <2>1. T # {} => (CHOOSE x \in T : TRUE) \in T
    OBVIOUS
  <2> QED
    BY <1>6, <2>1
<1> QED
  BY <1>1, <1>2, <1>3, <1>7, SumCounts DEF S

-----------------------------------------------------------------------------
(***************************************************************************)
(* The deposits under way.                                                 *)
(***************************************************************************)

\* Who has not asked for anything has no request, a fetch reserves nothing, and
\* a resume point lies inside the file for as long as the request lasts.
Bookings ==
  \A p \in Procs :
    /\ pc[p] \in {"idle", "expiring", "sweeping", "expunging"} => req[p] = None
    /\ pc[p] \in {"serving", "acking"} => req[p] = None \/ req[p].mode = "fetch"
    /\ req[p] # None => req[p].have <= Chunks[req[p].sha]

\* What the requests r of the deposits S reserve together.
Promised(r, S) == MapThenSumSet(LAMBDA c : Need(r[c]), S)

\* A deposit under way reserves a number of frames.
LEMMA ReservedNeeds ==
  ASSUME Typed, Bookings
  PROVE  IsFiniteSet(Reserved) /\ \A c \in Reserved : Need(req[c]) \in Nat
<1>1. IsFiniteSet(Reserved)
  BY FiniteAssumption, FS_Subset DEF Reserved
<1>2. ASSUME NEW c \in Reserved PROVE Need(req[c]) \in Nat
  <2>1. req[c] \in Request /\ req[c].have <= Chunks[req[c].sha]
    BY DEF Reserved, Bookings, Typed, TypeOK
  <2>2. Chunks[req[c].sha] \in Nat /\ req[c].have \in Nat
    BY <2>1 DEF Request
  <2> QED
    BY <2>1, <2>2 DEF Need
<1> QED
  BY <1>1, <1>2

\* Without one deposit the others reserve what they did.
LEMMA PromisedSplit ==
  ASSUME NEW r, NEW q, NEW S, IsFiniteSet(S), NEW c \in S,
         \A d \in S : Need(r[d]) \in Nat, \A d \in S \ {c} : q[d] = r[d]
  PROVE  Promised(r, S) = Need(r[c]) + Promised(q, S \ {c})
<1> DEFINE f == [d \in S |-> Need(r[d])]
           g == [d \in S \ {c} |-> Need(q[d])]
<1>1. IsFiniteSet(S \ {c})
  BY FS_Subset
<1>2. Promised(r, S) = Cardinality(Blocks(f, S))
  BY NeedsCount DEF Promised
<1>3. Promised(q, S \ {c}) = Cardinality(Blocks(g, S \ {c}))
  BY <1>1, NeedsCount DEF Promised
<1>4. Blocks(f, S \ {c}) = Blocks(g, S \ {c})
  BY DEF Blocks
<1>5. (\A y \in S : f[y] \in Nat) /\ f[c] = Need(r[c])
  OBVIOUS
<1> HIDE DEF f, g
<1>6. Cardinality(Blocks(f, S)) = f[c] + Cardinality(Blocks(f, S \ {c}))
  BY <1>5, BlocksAdd
<1> QED
  BY <1>2, <1>3, <1>4, <1>5, <1>6

\* Deposits that keep their requests keep what they reserve.
LEMMA PromisedSame ==
  ASSUME NEW r, NEW q, NEW S, IsFiniteSet(S),
         \A d \in S : Need(r[d]) \in Nat, \A d \in S : q[d] = r[d]
  PROVE  Promised(q, S) = Promised(r, S)
<1> DEFINE f == [d \in S |-> Need(r[d])]
           g == [d \in S |-> Need(q[d])]
<1>1. f = g
  OBVIOUS
<1>2. Promised(r, S) = Cardinality(Blocks(f, S))
  BY NeedsCount DEF Promised
<1>3. Promised(q, S) = Cardinality(Blocks(g, S))
  BY NeedsCount DEF Promised
<1> QED
  BY <1>1, <1>2, <1>3

\* What is promised is a number of frames.
LEMMA PromisedType ==
  ASSUME NEW r, NEW S, IsFiniteSet(S), \A d \in S : Need(r[d]) \in Nat
  PROVE  Promised(r, S) \in Nat
<1> DEFINE f == [d \in S |-> Need(r[d])]
<1>1. Promised(r, S) = Cardinality(Blocks(f, S))
  BY NeedsCount DEF Promised
<1>2. \A y \in S : f[y] \in Nat
  OBVIOUS
<1> QED
  BY <1>1, <1>2, BlocksFinite

-----------------------------------------------------------------------------
\* What a step does to the budget: nothing, or c leaves it or joins it.
Steady ==
  /\ UNCHANGED admitted /\ Reserved' = Reserved
  /\ \A d \in Reserved : req'[d] = req[d]
Leaves(c) ==
  /\ admitted' = admitted - Need(req[c])
  /\ c \in Reserved /\ Reserved' = Reserved \ {c}
  /\ \A d \in Reserved \ {c} : req'[d] = req[d]
Joins(c) ==
  /\ admitted' = admitted + Need(req'[c]) /\ Need(req'[c]) \in Nat
  /\ c \notin Reserved /\ Reserved' = Reserved \cup {c}
  /\ \A d \in Reserved : req'[d] = req[d]

\* A handler that returns drops its own request and nobody else's.
LEMMA ReturnLeaves ==
  ASSUME Typed, NEW p \in Procs, Return(p)
  PROVE  /\ Reserved' = Reserved \ {p}
         /\ \A d \in Reserved \ {p} : req'[d] = req[d]
         /\ Bookings => Bookings'
<1>1. /\ pc' = [pc EXCEPT ![p] = "idle"] /\ req' = [req EXCEPT ![p] = None]
      /\ pc \in [Procs -> Labels] /\ req \in [Procs -> Request \cup {None}]
  BY DEF Return, Typed, TypeOK
<1> QED
  BY <1>1 DEF Reserved, Bookings

\* A handler that moves on keeps everyone's request and booking.
LEMMA GotoKeeps ==
  ASSUME Typed, NEW p \in Procs, NEW l, Goto(p, l), UNCHANGED req,
         pc[p] # "idle", pc[p] \notin {"sized", "evicting"} <=> l \notin {"sized", "evicting"}
  PROVE  /\ Reserved' = Reserved
         /\ \A d \in Reserved : req'[d] = req[d]
         /\ Bookings /\ l \in Requesting \ {"serving"} => Bookings'
<1>1. /\ pc' = [pc EXCEPT ![p] = l] /\ req' = req
      /\ pc \in [Procs -> Labels] /\ req \in [Procs -> Request \cup {None}]
  BY DEF Goto, Typed, TypeOK
<1> QED
  BY <1>1 DEF Reserved, Bookings, Requesting

Booked == Bookings' /\ (Steady \/ \E c \in Conns : Leaves(c) \/ Joins(c))

\* A deposit books in Admit, and gives back what it booked on every way out.
LEMMA DepositBooked ==
  ASSUME Typed, Bookings, NEW c \in Conns, Deposit(c)
  PROVE  Booked
<1>1. /\ pc \in [Procs -> Labels] /\ req \in [Procs -> Request \cup {None}]
      /\ pc[c] \in Requesting => req[c] \in Request
  BY DEF Typed, TypeOK, Requests
<1>2. ASSUME pc[c] \in Requesting \ {"sized", "evicting"} PROVE c \in Reserved
  <2>1. req[c] # None
    BY <1>1, <1>2 DEF Bookings, Typed, Requests
  <2> QED
    BY <1>1, <1>2, <2>1 DEF Reserved
<1>3. CASE EvictPartial(c)
  BY <1>1, <1>3 DEF EvictPartial, Goto, memory, Booked, Steady, Reserved, Bookings
<1>4. CASE Admit(c)
  <2>1. /\ pc[c] = "sized" /\ UNCHANGED req /\ admitted' = admitted + Need(req[c])
        /\ pc' = [pc EXCEPT ![c] = IF req[c].mode = "full" THEN "ready" ELSE req[c].mode]
    BY <1>4 DEF Admit, Goto
  <2>2. req[c] \in Request /\ req[c].have <= Chunks[req[c].sha] /\ req[c].mode # "fetch"
    BY <2>1 DEF Typed, Requests, Requesting
  <2>3. pc'[c] \in {"ready", "duplicate", "header"} /\ \A d \in Procs \ {c} : pc'[d] = pc[d]
    BY <1>1, <2>1, <2>2 DEF Request
  <2>4. Need(req[c]) \in Nat
    <3>1. Chunks[req[c].sha] \in Nat /\ req[c].have \in Nat
      BY <2>2 DEF Request
    <3> QED
      BY <2>2, <3>1 DEF Need
  <2>5. c \notin Reserved /\ req[c] # None
    BY <2>1, <2>2 DEF Reserved, Bookings
  <2>6. Reserved' = Reserved \cup {c}
    BY <2>1, <2>3, <2>5 DEF Reserved
  <2>7. Bookings'
    BY <2>1, <2>3 DEF Bookings
  <2> QED
    BY <2>1, <2>4, <2>5, <2>6, <2>7 DEF Booked, Joins
<1>5. CASE Refuse(c)
  BY <1>1, <1>5, ReturnLeaves DEF Refuse, memory, Booked, Steady, Reserved
<1>6. CASE ConfirmDuplicate(c) \/ AttachVanished(c) \/ GiveUp(c) \/ Confirm(c)
  <2>1. Return(c) /\ Unreserve(c) /\ pc[c] \in Requesting \ {"sized", "evicting"}
    BY <1>6 DEF ConfirmDuplicate, AttachVanished, GiveUp, Confirm, Requesting
  <2> QED
    BY <1>2, <2>1, ReturnLeaves DEF Unreserve, Booked, Leaves
<1>7. CASE PutVanished(c) \/ PutFail(c) \/ PutSaveFail(c)
  <2>1. Return(c) /\ Unreserve(c) /\ pc[c] \in Requesting \ {"sized", "evicting"}
    BY <1>7 DEF PutVanished, PutFail, PutSaveFail, Requesting
  <2> QED
    BY <1>2, <2>1, ReturnLeaves DEF Unreserve, Booked, Leaves
<1>8. CASE Attach(c) \/ AttachSave(c) \/ Claim(c) \/ PutOpen(c)
  <2>1. /\ Goto(c, "attached") \/ Goto(c, "saved") \/ Goto(c, "claimed") \/ Goto(c, "writing")
        /\ UNCHANGED <<req, admitted>>
        /\ pc[c] \notin {"idle", "sized", "evicting"}
    BY <1>8 DEF Attach, AttachSave, Claim, PutOpen, memory
  <2> QED
    BY <2>1, GotoKeeps DEF Booked, Steady, Requesting
<1>9. CASE PutPark(c) \/ PutSave(c) \/ PatchLoad(c) \/ PatchSave(c) \/ Dedup(c)
  <2>1. /\ \/ Goto(c, "parked") \/ Goto(c, "unconfirmed") \/ Goto(c, "patching")
           \/ Goto(c, "saved") \/ Goto(c, "deduping")
        /\ UNCHANGED <<req, admitted>>
        /\ pc[c] \notin {"idle", "sized", "evicting"}
    BY <1>9 DEF PutPark, PutSave, PatchLoad, PatchSave, Dedup, memory
  <2> QED
    BY <2>1, GotoKeeps DEF Booked, Steady, Requesting
<1>10. CASE PutFrame(c)
  BY <1>10 DEF PutFrame, memory, Booked, Steady, Reserved, Bookings
<1> QED
  BY <1>3, <1>4, <1>5, <1>6, <1>7, <1>8, <1>9, <1>10 DEF Deposit

\* A request that arrives has booked nothing yet; a fetch never does.
LEMMA RequestBooked ==
  ASSUME Typed, Bookings, NEW c \in Conns,
         Probe(c) \/ Fetch(c) \/ Dismiss(c) \/ Serve(c)
  PROVE  Booked
<1>1. pc \in [Procs -> Labels] /\ req \in [Procs -> Request \cup {None}]
  BY DEF Typed, TypeOK
<1>2. CASE Probe(c)
  <2>1. Typed'
    BY <1>2, ProbeTyped
  <2>2. /\ pc[c] = "idle" /\ UNCHANGED admitted
        /\ pc' = [pc EXCEPT ![c] = "sized"] \/ pc' = [pc EXCEPT ![c] = "evicting"]
        /\ \A d \in Procs \ {c} : req'[d] = req[d]
    <3>1. \A d \in Procs \ {c} : req'[d] = req[d]
      BY <1>1, <1>2 DEF Probe
    <3>2. pc' = [pc EXCEPT ![c] = "sized"] \/ pc' = [pc EXCEPT ![c] = "evicting"]
      BY <1>2 DEF Probe, Goto
    <3> QED
      BY <1>2, <3>1, <3>2 DEF Probe, memory
  <2>3. pc'[c] \in {"sized", "evicting"} /\ \A d \in Procs \ {c} : pc'[d] = pc[d]
    BY <1>1, <2>2
  <2>4. req'[c].have <= Chunks[req'[c].sha]
    BY <2>1, <2>3 DEF Typed, Requests, Requesting
  <2>5. c \notin Reserved
    BY <2>2 DEF Reserved, Bookings
  <2>6. Reserved' = Reserved
    BY <1>1, <2>2, <2>3, <2>5 DEF Reserved
  <2>7. Bookings'
    BY <2>2, <2>3, <2>4 DEF Bookings
  <2> QED
    BY <2>2, <2>5, <2>6, <2>7 DEF Booked, Steady, Reserved
<1>3. CASE Fetch(c)
  <2>1. Typed'
    BY <1>3, FetchTyped
  <2>2. PICK i \in Retrievable :
          req' = [req EXCEPT ![c] =
            [from |-> meta[i].from, target |-> meta[i].target,
             sha |-> meta[i].sha, id |-> i, mode |-> "fetch", have |-> 0]]
    BY <1>3 DEF Fetch
  <2>3. /\ pc[c] = "idle" /\ UNCHANGED admitted /\ pc' = [pc EXCEPT ![c] = "serving"]
    BY <1>3 DEF Fetch, Goto, memory
  <2>4. c \notin Reserved /\ req'[c].mode = "fetch" /\ req'[c] # None
    BY <1>1, <2>1, <2>2, <2>3 DEF Reserved, Bookings, Typed, Requests, Requesting
  <2>5. \A d \in Procs \ {c} : pc'[d] = pc[d] /\ req'[d] = req[d]
    BY <1>1, <2>2, <2>3
  <2>6. Reserved' = Reserved \cup {c}
    BY <1>1, <2>3, <2>4, <2>5 DEF Reserved
  <2>7. Bookings'
    <3>1. req'[c].have <= Chunks[req'[c].sha]
      BY <1>1, <2>1, <2>3 DEF Typed, Requests, Requesting
    <3> QED
      BY <1>1, <2>3, <2>4, <2>5, <3>1 DEF Bookings
  <2>8. Need(req'[c]) = 0 /\ \A d \in Reserved : req'[d] = req[d]
    BY <2>4, <2>5 DEF Need, Reserved, Procs
  <2>9. Joins(c)
    BY <2>3, <2>4, <2>6, <2>8 DEF Joins, Typed, TypeOK
  <2> QED
    BY <2>7, <2>9 DEF Booked
<1>4. CASE Dismiss(c)
  <2>1. pc[c] = "idle" /\ UNCHANGED <<req, admitted>> /\ pc' = [pc EXCEPT ![c] = "acking"]
    BY <1>4 DEF Dismiss, Goto, memory
  <2> QED
    BY <1>1, <2>1 DEF Booked, Steady, Reserved, Bookings
<1>5. CASE Ack(c)
  <2>1. pc[c] = "serving" /\ UNCHANGED <<req, admitted>> /\ pc' = [pc EXCEPT ![c] = "acking"]
    BY <1>5 DEF Ack, Goto, memory
  <2> QED
    BY <1>1, <2>1 DEF Booked, Steady, Reserved, Bookings
<1>6. CASE FetchLost(c) \/ Acked(c)
  <2>1. Return(c) /\ UNCHANGED admitted /\ (req[c] = None \/ req[c].mode = "fetch")
    BY <1>6 DEF FetchLost, Acked, memory, Bookings
  <2>2. CASE c \in Reserved
    <3>1. Need(req[c]) = 0
      BY <2>1, <2>2 DEF Need, Reserved
    <3> QED
      BY <2>1, <2>2, <3>1, ReturnLeaves DEF Booked, Leaves, Typed, TypeOK
  <2>3. CASE c \notin Reserved
    BY <2>1, <2>3, ReturnLeaves DEF Booked, Steady
  <2> QED
    BY <2>2, <2>3
<1> QED
  BY <1>2, <1>3, <1>4, <1>5, <1>6 DEF Serve

\* Deletions and the sweep leave the budget alone.
LEMMA SweepBooked ==
  ASSUME Typed, Bookings, NEW p \in Procs,
         Delete(p) \/ (p \in Sweepers /\ (Sweep(p) \/ SweepOn(p)))
  PROVE  Booked
<1>1. pc \in [Procs -> Labels] /\ req \in [Procs -> Request \cup {None}]
  BY DEF Typed, TypeOK
<1>2. CASE Delete(p)
  BY <1>2 DEF Delete, DeleteMeta, DeleteBody, memory, Booked, Steady, Reserved, Bookings
<1>3. CASE Sweep(p) \/ SweepList(p) \/ SweepBodies(p)
  <2>1. /\ pc[p] \in {"idle", "expiring", "sweeping"} /\ UNCHANGED <<req, admitted>>
        /\ \E l \in {"expiring", "sweeping", "expunging"} : pc' = [pc EXCEPT ![p] = l]
    BY <1>3 DEF Sweep, SweepList, SweepBodies, Goto, memory
  <2> QED
    BY <1>1, <2>1 DEF Booked, Steady, Reserved, Bookings
<1>4. CASE SweepPartials(p)
  <2>1. Return(p) /\ UNCHANGED admitted /\ p \notin Reserved
    BY <1>4 DEF SweepPartials, memory, Bookings, Reserved
  <2> QED
    BY <2>1, ReturnLeaves DEF Booked, Steady
<1> QED
  BY <1>2, <1>3, <1>4 DEF SweepOn

-----------------------------------------------------------------------------
Budgeted == Typed /\ Bookings /\ AdmittedExact

\* Nothing is admitted at the start, nor after a crash.
LEMMA NothingPromised ==
  ASSUME NEW r, NEW S, S = {} PROVE Promised(r, S) = 0
<1>1. ASSUME NEW T, IsFiniteSet(T), \A c \in T : Need(r[c]) \in Nat
      PROVE  Promised(r, T) = Cardinality(Blocks([c \in T |-> Need(r[c])], T))
  BY <1>1, NeedsCount DEF Promised
<1>2. IsFiniteSet(S) /\ \A c \in S : Need(r[c]) \in Nat
  BY FS_EmptySet
<1>3. \A f : Blocks(f, S) = {}
  BY DEF Blocks
<1> QED
  BY <1>1, <1>2, <1>3, FS_EmptySet

\* The property in terms of what is promised, now and after a step.
LEMMA ExactMeans ==
  /\ AdmittedExact <=> admitted = Promised(req, Reserved)
  /\ AdmittedExact' <=> admitted' = Promised(req', Reserved')
<1>1. AdmittedExact <=> admitted = Promised(req, Reserved)
  BY DEF AdmittedExact, Promised
<1>2. AdmittedExact' <=> admitted' = Promised(req', Reserved')
  BY DEF AdmittedExact, Promised, MapThenSumSet, MapThenFoldSet, Need
<1> QED
  BY <1>1, <1>2

\* The first state satisfies the budget's invariant.
LEMMA BudgetedInit == Init => Budgeted
<1> SUFFICES ASSUME Init PROVE Budgeted
  OBVIOUS
<1>1. Typed /\ Bookings
  BY TypedInit DEF Init, Bookings
<1>2. Reserved = {} /\ admitted = 0
  BY DEF Init, Reserved
<1> QED
  BY <1>1, <1>2, NothingPromised, ExactMeans DEF Budgeted

\* A booked step keeps what is admitted equal to what is promised.
LEMMA BookedExact ==
  ASSUME Typed, Bookings, AdmittedExact, Booked
  PROVE  AdmittedExact'
<1> HIDE SpoolAssumption, NoneAssumption
<1>1. admitted = Promised(req, Reserved) /\ admitted \in Int
  BY ExactMeans DEF Typed, TypeOK
<1>2. SUFFICES admitted' = Promised(req', Reserved')
  BY ExactMeans
<1>3. IsFiniteSet(Reserved) /\ \A c \in Reserved : Need(req[c]) \in Nat
  BY ReservedNeeds
<1>4. CASE Steady
  <2>1. Promised(req', Reserved) = Promised(req, Reserved)
    BY <1>3, <1>4, PromisedSame DEF Steady
  <2> QED
    BY <1>1, <1>4, <2>1 DEF Steady
<1>5. ASSUME NEW c \in Conns, Leaves(c)
      PROVE  admitted' = Promised(req', Reserved')
  <2>0. c \in Reserved /\ \A d \in Reserved \ {c} : req'[d] = req[d]
    BY <1>5 DEF Leaves
  <2>1. Promised(req, Reserved) = Need(req[c]) + Promised(req', Reserved \ {c})
    BY <1>3, <2>0, PromisedSplit
  <2>2. IsFiniteSet(Reserved \ {c}) /\ \A d \in Reserved \ {c} : Need(req'[d]) \in Nat
    BY <1>3, <1>5, FS_Subset DEF Leaves
  <2>3. Promised(req', Reserved \ {c}) \in Nat /\ Need(req[c]) \in Nat
    BY <1>3, <1>5, <2>2, PromisedType DEF Leaves
  <2>4. Reserved' = Reserved \ {c} /\ admitted' = admitted - Need(req[c])
    BY <1>5 DEF Leaves
  <2> QED
    BY <1>1, <2>1, <2>3, <2>4
<1>6. ASSUME NEW c \in Conns, Joins(c)
      PROVE  admitted' = Promised(req', Reserved')
  <2> DEFINE S == Reserved \cup {c}
  <2>1. IsFiniteSet(S) /\ c \in S /\ S \ {c} = Reserved /\ Reserved' = S
    BY <1>3, <1>6, FS_AddElement DEF Joins
  <2>2. \A d \in S : Need(req'[d]) \in Nat
    BY <1>3, <1>6 DEF Joins
  <2>3. \A d \in S \ {c} : req[d] = req'[d]
    BY <1>6 DEF Joins
  <2> HIDE DEF S
  <2>4. Promised(req', S) = Need(req'[c]) + Promised(req, S \ {c})
    BY <2>1, <2>2, <2>3, PromisedSplit
  <2> QED
    <3>1. admitted' = Promised(req, Reserved) + Need(req'[c])
      BY <1>1, <1>6 DEF Joins
    <3>2. Promised(req, Reserved) \in Nat /\ Need(req'[c]) \in Nat
      BY <1>3, <1>6, PromisedType DEF Joins
    <3>3. S \ {c} = Reserved /\ Reserved' = S
      BY <2>1
    <3>4. Promised(req', S) = Need(req'[c]) + Promised(req, Reserved)
      BY <2>4, <3>3
    <3>5. Promised(req', Reserved') = Promised(req', S)
      BY <3>3
    <3> QED
      BY <3>1, <3>2, <3>4, <3>5
<1> QED
  BY <1>4, <1>5, <1>6 DEF Booked

\* Every step keeps the budget's invariant.
LEMMA BudgetedNext == Budgeted /\ [Next]_vars => Budgeted'
<1> SUFFICES ASSUME Typed, Bookings, AdmittedExact, [Next]_vars
             PROVE  Budgeted'
  BY DEF Budgeted
<1>1. Typed'
  BY TypedNext
<1>2. CASE Crash
  <2>1. Bookings' /\ Reserved' = {} /\ admitted' = 0
    BY <1>2 DEF Crash, Bookings, Reserved
  <2> QED
    BY <1>1, <2>1, NothingPromised, ExactMeans DEF Budgeted
<1>3. CASE UNCHANGED vars
  <2>1. UNCHANGED <<pc, req, admitted>>
    BY <1>3 DEF vars, memory, local
  <2>2. Bookings' /\ Reserved' = Reserved
    BY <2>1 DEF Bookings, Reserved
  <2> QED
    BY <1>1, <2>1, <2>2, ExactMeans DEF Budgeted
<1>4. ASSUME ~Crash, Next PROVE Booked
  BY <1>4, DepositBooked, RequestBooked, SweepBooked DEF Next
<1> QED
  BY <1>1, <1>2, <1>3, <1>4, BookedExact DEF Budgeted, Booked

\* What is reserved against the cap is exactly what the deposits under way may
\* still write, however they interleave, fail, are cut or crash: no exit path
\* of opSend keeps its reservation or gives it back twice.
THEOREM ReservationsExact == Spec => []AdmittedExact
<1>1. Budgeted => AdmittedExact
  BY DEF Budgeted
<1> QED
  BY BudgetedInit, BudgetedNext, <1>1, PTL DEF Spec
=============================================================================
