------------------------------- MODULE Spool -------------------------------
(***************************************************************************)
(* The stash's spool: deposits parked on disk for members that were not    *)
(* listening, and the connections and the sweeper that work on them at the *)
(* same time (catbox/spool.go, the deposit, fetch and dismiss handlers of  *)
(* catbox/serve.go, sweepPartials of catbox/partial.go).                   *)
(*                                                                         *)
(* A deposit of some content to some target is a sidecar (meta) that       *)
(* refers to a body.  A body belongs to its sender's content, so the       *)
(* deliveries of one file to several targets share it.  A body grows as a  *)
(* partial, which an interrupted deposit leaves for the retry.             *)
(*                                                                         *)
(* The grain: one step is one effect on shared state together with the     *)
(* reads in front of it, so that whatever another goroutine can do between *)
(* two system calls that matter is a step of its own.  A connection may be *)
(* lost at any read.  Sizes are counted in whole frames.                   *)
(***************************************************************************)
EXTENDS Integers, FiniteSets, FiniteSetsExt

CONSTANTS
  Conns,      \* the open connections, each served by a goroutine of its own
  Sweepers,   \* the goroutine of runServe's ticker: at most one process.
              \* A process that is in both sets takes turns: it models a
              \* stash that does one thing at a time.
  Senders,    \* member names that send
  Targets,    \* member names that are sent to
  SHAs,       \* content hashes
  Chunks,     \* the number of frames of each content; an empty file has none
  Aligned,    \* contents whose last frame is as long as the others
  MaxBytes,   \* the spool's cap (--max), in frames
  IDs,        \* sidecar ids: the bound on sidecars and deposits at a time
  MaxCrashes, \* the bound on crashes of the stash process
  None

ASSUME SpoolAssumption ==
  /\ Chunks \in [SHAs -> Nat]
  /\ Aligned \subseteq SHAs
  /\ MaxBytes \in Nat
  /\ MaxCrashes \in Nat

\* At any time there are finitely many connections, sidecars, members and contents.
ASSUME FiniteAssumption ==
  IsFiniteSet(Conns) /\ IsFiniteSet(IDs) /\ IsFiniteSet(Senders) /\ IsFiniteSet(SHAs)

Procs == Conns \cup Sweepers
Keys == [from : Senders, sha : SHAs]   \* what a body and a partial are named by
Frames(k) == 0 .. Chunks[k.sha] - 1
KeyOf(m) == [from |-> m.from, sha |-> m.sha]

Delivery == [target : Targets, sha : SHAs]
DeliveryOf(m) == [target |-> m.target, sha |-> m.sha]

Sidecar == [from : Senders, target : Targets, sha : SHAs]

\* What a request holds on to while its handler runs.
Request == [from : Senders, target : Targets, sha : SHAs, id : IDs,
            mode : {"duplicate", "header", "full", "fetch"},
            have : Nat]

\* None is no process, key, sidecar, request or file.
ASSUME NoneAssumption ==
  /\ None \notin Conns \cup Sweepers /\ None \notin Keys
  /\ None \notin Sidecar /\ None \notin Request
  /\ \A k \in Keys : \A files \in SUBSET Frames(k) : files # None

VARIABLES
  \* the data directory: it survives a crash
  meta,     \* sidecars, <id>.json
  partial,  \* .part-b-* files: the frames each holds
  body,     \* *.body files
  \* the stash process
  admitted, \* frames admitted and not yet settled
  active,   \* spool.active: the deposit writing each partial
  putMu,    \* spool.putMu: the holder of each partial's mutex
  mu,       \* stash.mu, where it is held over file operations
  \* the goroutines
  pc, req,
  usage,    \* the spool's frames as the deposit read them
  over,     \* by how much the deposit does not fit, as far as it knows
  at,       \* the writer's position, in frames
  cut,      \* the connection was closed by a newer deposit
  work,     \* ids still to delete
  doomed,   \* the body the delete in progress is about to remove
  scan,     \* what the last directory listing found
  \* for the bounds and the properties
  crashes,
  owed      \* deliveries recorded and neither delivered, refused nor expired

disk == <<meta, partial, body>>
memory == <<admitted, active, putMu, mu>>
local == <<pc, req, usage, over, at, cut, work, doomed, scan>>
\* Groups that many steps leave alone.
budget == <<usage, over>>
locks == <<active, putMu, mu>>
cleanup == <<work, doomed, scan>>
ghost == <<crashes, owed>>
vars == <<disk, memory, local, crashes, owed>>

-----------------------------------------------------------------------------
Size(f) == IF f = None THEN 0 ELSE Cardinality(f)

SizeOf(files) == MapThenSumSet(LAMBDA k : Size(files[k]), Keys)
Usage == SizeOf(partial) + SizeOf(body)

Parked == {i \in IDs : meta[i] # None}
ParkedFor(target, sha) ==
  \E i \in Parked : meta[i].target = target /\ meta[i].sha = sha
References(k) == {i \in Parked : KeyOf(meta[i]) = k}

\* Frames of full length at the front of a partial: a shorter last one is torn
\* for all the code can tell.
FullFrames(k) ==
  IF Size(partial[k]) = Chunks[k.sha] /\ Chunks[k.sha] > 0 /\ k.sha \notin Aligned
    THEN Chunks[k.sha] - 1 ELSE Size(partial[k])

\* A retry continues behind them; a partial as big as the file is corrupt and
\* starts over.
ResumeHave(k) == IF FullFrames(k) >= Chunks[k.sha] THEN 0 ELSE FullFrames(k)

Free(i) ==
  /\ meta[i] = None
  /\ \A p \in Procs : i \notin work[p] /\ (req[p] # None => req[p].id # i)

\* Frames a deposit reserves in the budget: none unless it brings the body.
Need(r) == IF r.mode = "full" THEN Chunks[r.sha] - r.have ELSE 0

\* The connection still delivers what its client sends.
Open(c) == ~cut[c]

Init ==
  /\ meta = [i \in IDs |-> None]
  /\ partial = [k \in Keys |-> None]
  /\ body = [k \in Keys |-> None]
  /\ admitted = 0
  /\ active = [k \in Keys |-> None]
  /\ putMu = [k \in Keys |-> None]
  /\ mu = None
  /\ pc = [p \in Procs |-> "idle"]
  /\ req = [p \in Procs |-> None]
  /\ usage = [p \in Procs |-> 0]
  /\ over = [p \in Procs |-> 0]
  /\ at = [p \in Procs |-> 0]
  /\ cut = [p \in Procs |-> FALSE]
  /\ work = [p \in Procs |-> {}]
  /\ doomed = [p \in Procs |-> None]
  /\ scan = [p \in Procs |-> {}]
  /\ crashes = 0
  /\ owed = {}

-----------------------------------------------------------------------------
\* Pieces of steps.

Goto(p, l) == pc' = [pc EXCEPT ![p] = l]

\* The handler returns: its locals are gone.
Return(p) ==
  /\ pc' = [pc EXCEPT ![p] = "idle"]
  /\ req' = [req EXCEPT ![p] = None]
  /\ usage' = [usage EXCEPT ![p] = 0]
  /\ over' = [over EXCEPT ![p] = 0]
  /\ at' = [at EXCEPT ![p] = 0]
  /\ cut' = [cut EXCEPT ![p] = FALSE]
  /\ work' = [work EXCEPT ![p] = {}]
  /\ doomed' = [doomed EXCEPT ![p] = None]
  /\ scan' = [scan EXCEPT ![p] = {}]

\* The deferred decrement of opSend; the bug gives back the whole size.
Unreserve_bug(c) == admitted' = admitted - Chunks[req[c].sha]
Unreserve(c) == admitted' = admitted - Need(req[c])

\* The deferred unlock of put; the bug returns without it.
Unlock_bug(k) == UNCHANGED putMu
Unlock(k) == putMu' = [putMu EXCEPT ![k] = None]

\* release drops the claim, unless a newer deposit has replaced it; the bug
\* drops whatever claim it finds.
Release_bug(k, c) == active' = [active EXCEPT ![k] = None]
Release(k, c) == active' = [active EXCEPT ![k] = IF @ = c THEN None ELSE @]

\* put returns.
ReleasePut(c) == Unlock(KeyOf(req[c])) /\ Release(KeyOf(req[c]), c)

\* A sidecar appears by an atomic rename.
SaveMeta(c) ==
  /\ meta' = [meta EXCEPT ![req[c].id] =
       [from |-> req[c].from, target |-> req[c].target, sha |-> req[c].sha]]
  /\ owed' = owed \cup {DeliveryOf(req[c])}

-----------------------------------------------------------------------------
(***************************************************************************)
(* opSend.                                                                 *)
(***************************************************************************)

\* Stale partials an over-full spool may drop: not the deposit's own resume
\* point, not one that is being written.
StalePartials(keep) ==
  {k \in Keys \ {keep} : partial[k] # None /\ active[k] = None}

\* What the sender still has to bring of a content: nothing if it is parked for
\* the target, the header if its body is parked for another one.  An empty file
\* has no bytes to save and is always brought whole.
Mode(k, target) ==
  IF Chunks[k.sha] = 0 THEN "full"
  ELSE IF ParkedFor(target, k.sha) THEN "duplicate"
  ELSE IF body[k] # None THEN "header" ELSE "full"
Have(k, target) ==
  IF Mode(k, target) = "full" THEN ResumeHave(k) ELSE Chunks[k.sha]

\* The request arrives: usage, resume point, parked items and parked body are
\* read from the directory, and what is missing is compared with the cap.
Probe(c) ==
  /\ pc[c] = "idle"
  /\ \E from \in Senders, target \in Targets, sha \in SHAs, i \in IDs :
       LET k == [from |-> from, sha |-> sha]
           have == Have(k, target)
           excess == Usage + admitted + Chunks[sha] - have - MaxBytes
           stale == IF excess > 0 THEN StalePartials(k) ELSE {}
       IN
       /\ target # from
       /\ Free(i)
       /\ req' = [req EXCEPT ![c] =
            [from |-> from, target |-> target, sha |-> sha, id |-> i,
             mode |-> Mode(k, target), have |-> have]]
       /\ usage' = [usage EXCEPT ![c] = Usage]
       /\ over' = [over EXCEPT ![c] = excess]
       /\ scan' = [scan EXCEPT ![c] =
            {[key |-> s, size |-> Size(partial[s])] : s \in stale}]
       /\ Goto(c, IF stale = {} THEN "sized" ELSE "evicting")
  /\ UNCHANGED <<disk, memory, at, cut, work, doomed, ghost>>

\* evictPartials removes the next candidate; once enough is reclaimed the
\* usage is read again.
EvictPartial(c) ==
  /\ pc[c] = "evicting"
  /\ \E s \in scan[c] :
       LET excess == over[c] - IF partial[s.key] = None THEN 0 ELSE s.size
           left == scan[c] \ {s}
           more == excess > 0 /\ left # {}
       IN
       /\ partial' = [partial EXCEPT ![s.key] = None]
       /\ scan' = [scan EXCEPT ![c] = IF more THEN left ELSE {}]
       /\ over' = [over EXCEPT ![c] = excess]
       /\ usage' = [usage EXCEPT ![c] =
            IF excess > 0 THEN @ ELSE SizeOf(partial') + SizeOf(body)]
       /\ Goto(c, IF more THEN "evicting" ELSE "sized")
  /\ UNCHANGED <<meta, body, memory, req, at, cut, work, doomed, ghost>>

\* The missing frames fit beside what is on disk and what is reserved; the bug
\* forgets what is on disk.
Fits_bug(c) == admitted + Need(req[c]) <= MaxBytes
Fits(c) == usage[c] + admitted + Need(req[c]) <= MaxBytes

\* Under stash.mu: the budget is checked and the missing frames are reserved.
Admit(c) ==
  /\ pc[c] = "sized"
  /\ mu = None
  /\ Fits(c)
  /\ admitted' = admitted + Need(req[c])
  /\ Goto(c, IF req[c].mode = "full" THEN "ready" ELSE req[c].mode)
  /\ UNCHANGED <<disk, locks, req, budget, at, cut, cleanup, ghost>>

\* Under stash.mu: "spool full".
Refuse(c) ==
  /\ pc[c] = "sized"
  /\ mu = None
  /\ ~Fits(c)
  /\ Return(c)
  /\ UNCHANGED <<disk, memory, ghost>>

\* The content is parked for this target already: opSent, then OK.
ConfirmDuplicate(c) ==
  /\ pc[c] = "duplicate"
  /\ Return(c)
  /\ Unreserve(c)
  /\ UNCHANGED <<disk, locks, ghost>>

\* Only the header is missing.  The body is looked up again before the header
\* is read; the sidecar is not written yet.
Attach(c) ==
  /\ pc[c] = "header"
  /\ body[KeyOf(req[c])] # None
  /\ Goto(c, "attached")
  /\ UNCHANGED <<disk, memory, req, budget, at, cut, cleanup, ghost>>

\* "parked body vanished"
AttachVanished(c) ==
  /\ pc[c] = "header"
  /\ body[KeyOf(req[c])] = None
  /\ Return(c)
  /\ Unreserve(c)
  /\ UNCHANGED <<disk, locks, ghost>>

\* opSent arrives: the sidecar over the shared body is written.
AttachSave(c) ==
  /\ pc[c] = "attached"
  /\ SaveMeta(c)
  /\ Goto(c, "saved")
  /\ UNCHANGED <<partial, body, memory, req, budget, at, cut, cleanup, crashes>>

\* claim: the newest deposit of this content closes the connection of the one
\* that is writing it.
Claim(c) ==
  LET k == KeyOf(req[c]) IN
  /\ pc[c] = "ready"
  /\ active' = [active EXCEPT ![k] = c]
  /\ cut' = [p \in Procs |-> cut[p] \/ p = active[k]]
  /\ Goto(c, "claimed")
  /\ UNCHANGED <<disk, admitted, putMu, mu, req, budget, at, cleanup, ghost>>

\* What put finds under the partial's name once it is open: a missing file is
\* created empty.
Opened(k) == IF partial[k] = None THEN {} ELSE partial[k]

\* The partial's mutex can be taken; the bug writes without it.
Unlocked_bug(k) == TRUE
Unlocked(k) == putMu[k] = None

\* The partial still reaches to the advertised resume point; the bug trusts
\* the advertisement.
Reaches_bug(k, have) == TRUE
Reaches(k, have) == Cardinality(Opened(k)) >= have

\* put takes the partial's mutex and drops what lies behind the resume point.
PutOpen(c) ==
  LET k == KeyOf(req[c]) IN
  /\ pc[c] = "claimed"
  /\ Unlocked(k) /\ Reaches(k, req[c].have)
  /\ putMu' = [putMu EXCEPT ![k] = c]
  /\ partial' = [partial EXCEPT ![k] = {f \in Opened(k) : f < req[c].have}]
  /\ at' = [at EXCEPT ![c] = req[c].have]
  /\ Goto(c, "writing")
  /\ UNCHANGED <<meta, body, admitted, active, mu, req, budget, cut, cleanup,
                 ghost>>

\* "deposit partial vanished; retry from zero": the file it created stays.
PutVanished(c) ==
  LET k == KeyOf(req[c]) IN
  /\ pc[c] = "claimed"
  /\ Unlocked(k) /\ ~Reaches(k, req[c].have)
  /\ partial' = [partial EXCEPT ![k] = Opened(k)]
  /\ ReleasePut(c)
  /\ Unreserve(c)
  /\ Return(c)
  /\ UNCHANGED <<meta, body, mu, ghost>>

\* The stream has frames left; the bug copies one too many.
FramesLeft_bug(c) == at[c] <= Chunks[req[c].sha]
FramesLeft(c) == at[c] < Chunks[req[c].sha]

\* relayFrames copies the next frame.  A partial unlinked under the writer
\* grows without a name.
PutFrame(c) ==
  LET k == KeyOf(req[c]) IN
  /\ pc[c] = "writing" /\ Open(c)
  /\ FramesLeft(c)
  /\ at' = [at EXCEPT ![c] = @ + 1]
  /\ partial' = [partial EXCEPT ![k] = IF @ = None THEN None ELSE @ \cup {at[c]}]
  /\ UNCHANGED <<meta, body, memory, pc, req, budget, cut, cleanup, ghost>>

\* The stream breaks off, and the partial stays for the retry; or it has ended
\* and the partial cannot be renamed because it was unlinked.
PutFail(c) ==
  /\ pc[c] = "writing"
  /\ ReleasePut(c)
  /\ Unreserve(c)
  /\ Return(c)
  /\ UNCHANGED <<disk, mu, ghost>>

\* The terminator arrived.  The partial becomes the body, unless another
\* target's deposit has parked the same body: then ours is dropped.
PutPark(c) ==
  LET k == KeyOf(req[c]) IN
  /\ pc[c] = "writing" /\ Open(c)
  /\ at[c] = Chunks[req[c].sha]
  /\ body[k] # None \/ partial[k] # None
  /\ body' = [body EXCEPT ![k] = IF @ = None THEN partial[k] ELSE @]
  /\ partial' = [partial EXCEPT ![k] = None]
  /\ Goto(c, "parked")
  /\ UNCHANGED <<meta, memory, req, budget, at, cut, cleanup, ghost>>

\* The sidecar is written; put is done.
PutSave(c) ==
  /\ pc[c] = "parked"
  /\ SaveMeta(c)
  /\ ReleasePut(c)
  /\ Goto(c, "unconfirmed")
  /\ UNCHANGED <<partial, body, admitted, mu, req, budget, at, cut, cleanup,
                 crashes>>

\* The sidecar cannot be written: the deposit fails, the body stays.
PutSaveFail(c) ==
  /\ pc[c] = "parked"
  /\ ReleasePut(c)
  /\ Unreserve(c)
  /\ Return(c)
  /\ UNCHANGED <<disk, mu, ghost>>

\* opSent arrives and patchMeta reads the sidecar back.
PatchLoad(c) ==
  /\ pc[c] = "unconfirmed" /\ Open(c)
  /\ meta[req[c].id] # None
  /\ Goto(c, "patching")
  /\ UNCHANGED <<disk, memory, req, budget, at, cut, cleanup, ghost>>

\* patchMeta writes it, or fails and the client is told to send again.
PatchSave(c) ==
  /\ pc[c] = "patching"
  /\ meta' = [meta EXCEPT ![req[c].id] =
       [from |-> req[c].from, target |-> req[c].target, sha |-> req[c].sha]]
  /\ Goto(c, "saved")
  /\ UNCHANGED <<partial, body, memory, req, budget, at, cut, cleanup, ghost>>

\* The client goes away, times out or sends something else; or the sidecar to
\* patch is gone or cannot be written ("send again").
GiveUp(c) ==
  /\ pc[c] \in {"duplicate", "header", "attached", "ready", "unconfirmed", "patching"}
  /\ Unreserve(c)
  /\ Return(c)
  /\ UNCHANGED <<disk, locks, ghost>>

\* The sender's other entries with the content and the target of this one; the
\* first bug forgets the target, the second does not spare this entry.
Duplicates_bug(c) == {i \in Parked \ {req[c].id} : KeyOf(meta[i]) = KeyOf(req[c])}
Collapse_bug(c) ==
  {i \in Parked : KeyOf(meta[i]) = KeyOf(req[c]) /\ meta[i].target = req[c].target}
Duplicates(c) ==
  {i \in Parked \ {req[c].id} :
     KeyOf(meta[i]) = KeyOf(req[c]) /\ meta[i].target = req[c].target}

\* dedup takes stash.mu and lists them.
Dedup(c) ==
  /\ pc[c] = "saved"
  /\ mu = None
  /\ mu' = c
  /\ work' = [work EXCEPT ![c] = Duplicates(c)]
  /\ Goto(c, "deduping")
  /\ UNCHANGED <<disk, admitted, active, putMu, req, budget, at, cut, doomed,
                 scan, ghost>>

\* Nothing is left to collapse: the mutex is released and the client told OK.
Confirm(c) ==
  /\ pc[c] = "deduping" /\ work[c] = {} /\ doomed[c] = None
  /\ mu' = None
  /\ Unreserve(c)
  /\ Return(c)
  /\ UNCHANGED <<disk, active, putMu, ghost>>

-----------------------------------------------------------------------------
(***************************************************************************)
(* spool.delete, shared by dedup, ack, dismiss and the sweep.              *)
(***************************************************************************)

Deleting == {"deduping", "acking", "expiring"}

\* No other sidecar refers to this one's body; the bug does not look.
LastReference_bug(i) == meta[i] # None
LastReference(i) == meta[i] # None /\ References(KeyOf(meta[i])) = {i}

\* The sidecar goes; the remaining ones decide whether the body was its last.
DeleteMeta(p) ==
  /\ pc[p] \in Deleting /\ doomed[p] = None
  /\ \E i \in work[p] :
       /\ work' = [work EXCEPT ![p] = @ \ {i}]
       /\ meta' = [meta EXCEPT ![i] = None]
       /\ doomed' = [doomed EXCEPT ![p] =
            IF LastReference(i) THEN KeyOf(meta[i]) ELSE None]
  /\ UNCHANGED <<partial, body, memory, pc, req, budget, at, cut, scan, ghost>>

\* The body the last sidecar referred to goes.
DeleteBody(p) ==
  /\ pc[p] \in Deleting /\ doomed[p] # None
  /\ body' = [body EXCEPT ![doomed[p]] = None]
  /\ doomed' = [doomed EXCEPT ![p] = None]
  /\ UNCHANGED <<meta, partial, memory, pc, req, budget, at, cut, work, scan,
                 ghost>>

-----------------------------------------------------------------------------
(***************************************************************************)
(* opFetch and opDismiss.                                                  *)
(***************************************************************************)

\* Entries spool.open can open.
Retrievable == {i \in Parked : body[KeyOf(meta[i])] # None}

\* The target asks for an entry: the body is opened and streamed.
Fetch(c) ==
  /\ pc[c] = "idle"
  /\ \E i \in Retrievable :
       req' = [req EXCEPT ![c] =
         [from |-> meta[i].from, target |-> meta[i].target, sha |-> meta[i].sha,
          id |-> i, mode |-> "fetch", have |-> 0]]
  /\ Goto(c, "serving")
  /\ UNCHANGED <<disk, memory, budget, at, cut, cleanup, ghost>>

\* The receiver verified the file and acks.
Ack(c) ==
  /\ pc[c] = "serving"
  /\ work' = [work EXCEPT ![c] = {req[c].id}]
  /\ owed' = owed \ {DeliveryOf(req[c])}
  /\ Goto(c, "acking")
  /\ UNCHANGED <<disk, memory, req, budget, at, cut, doomed, scan, crashes>>

\* The stream or the ack does not come through.
FetchLost(c) ==
  /\ pc[c] = "serving"
  /\ Return(c)
  /\ UNCHANGED <<disk, memory, ghost>>

\* The target refuses an entry unread.
Dismiss(c) ==
  /\ pc[c] = "idle"
  /\ \E i \in Retrievable :
       /\ work' = [work EXCEPT ![c] = {i}]
       /\ owed' = owed \ {DeliveryOf(meta[i])}
  /\ Goto(c, "acking")
  /\ UNCHANGED <<disk, memory, req, budget, at, cut, doomed, scan, crashes>>

Acked(c) ==
  /\ pc[c] = "acking" /\ work[c] = {} /\ doomed[c] = None
  /\ Return(c)
  /\ UNCHANGED <<disk, memory, ghost>>

-----------------------------------------------------------------------------
(***************************************************************************)
(* The sweep, at boot and every hour.                                      *)
(***************************************************************************)

\* Entries older than the retention are deleted.  It is weeks, so an entry some
\* request is working on is younger.
Sweep(s) ==
  /\ pc[s] = "idle"
  /\ \E old \in SUBSET {i \in Parked : \A p \in Procs : req[p] # None => req[p].id # i} :
       /\ work' = [work EXCEPT ![s] = old]
       /\ owed' = owed \ {DeliveryOf(meta[i]) : i \in old}
  /\ Goto(s, "expiring")
  /\ UNCHANGED <<disk, memory, req, budget, at, cut, doomed, scan, crashes>>

\* sweepBodies lists the sidecars ...
SweepList(s) ==
  /\ pc[s] = "expiring" /\ work[s] = {} /\ doomed[s] = None
  /\ scan' = [scan EXCEPT ![s] = {[key |-> KeyOf(meta[i]), size |-> 0] : i \in Parked}]
  /\ Goto(s, "sweeping")
  /\ UNCHANGED <<disk, memory, req, budget, at, cut, work, doomed, ghost>>

\* The bodies that stay; the bug is the sweep before it looked at bodies.
SweptBodies_bug(live) == body
SweptBodies(live) == [k \in Keys |-> IF k \in live THEN body[k] ELSE None]

\* ... and removes the bodies none of them refers to; then sweepPartials
\* lists the partials nobody has written for an hour.
SweepBodies(s) ==
  LET live == {e.key : e \in scan[s]} IN
  /\ pc[s] = "sweeping"
  /\ body' = SweptBodies(live)
  /\ \E old \in SUBSET {k \in Keys : partial[k] # None /\ putMu[k] = None} :
       scan' = [scan EXCEPT ![s] = {[key |-> k, size |-> 0] : k \in old}]
  /\ Goto(s, "expunging")
  /\ UNCHANGED <<meta, partial, memory, req, budget, at, cut, work, doomed,
                 ghost>>

\* sweepPartials removes them.
SweepPartials(s) ==
  LET old == {e.key : e \in scan[s]} IN
  /\ pc[s] = "expunging"
  /\ partial' = [k \in Keys |-> IF k \in old THEN None ELSE partial[k]]
  /\ Return(s)
  /\ UNCHANGED <<meta, body, memory, ghost>>

-----------------------------------------------------------------------------
\* The stash process dies and starts again over the same data directory.
Crash ==
  /\ crashes < MaxCrashes
  /\ crashes' = crashes + 1
  /\ admitted' = 0
  /\ active' = [k \in Keys |-> None]
  /\ putMu' = [k \in Keys |-> None]
  /\ mu' = None
  /\ pc' = [p \in Procs |-> "idle"]
  /\ req' = [p \in Procs |-> None]
  /\ usage' = [p \in Procs |-> 0]
  /\ over' = [p \in Procs |-> 0]
  /\ at' = [p \in Procs |-> 0]
  /\ cut' = [p \in Procs |-> FALSE]
  /\ work' = [p \in Procs |-> {}]
  /\ doomed' = [p \in Procs |-> None]
  /\ scan' = [p \in Procs |-> {}]
  /\ UNCHANGED <<disk, owed>>

Deposit(c) ==
  \/ EvictPartial(c) \/ Admit(c) \/ Refuse(c) \/ ConfirmDuplicate(c)
  \/ Attach(c) \/ AttachVanished(c) \/ AttachSave(c)
  \/ Claim(c) \/ PutOpen(c) \/ PutVanished(c) \/ PutFrame(c) \/ PutFail(c)
  \/ PutPark(c) \/ PutSave(c) \/ PutSaveFail(c)
  \/ PatchLoad(c) \/ PatchSave(c) \/ GiveUp(c) \/ Dedup(c) \/ Confirm(c)

Delete(p) == DeleteMeta(p) \/ DeleteBody(p)
Serve(c) == Ack(c) \/ FetchLost(c) \/ Acked(c)
SweepOn(s) == SweepList(s) \/ SweepBodies(s) \/ SweepPartials(s)

Next ==
  \/ \E c \in Conns : Probe(c) \/ Fetch(c) \/ Dismiss(c) \/ Deposit(c) \/ Serve(c)
  \/ \E p \in Procs : Delete(p)
  \/ \E s \in Sweepers : Sweep(s) \/ SweepOn(s)
  \/ Crash

Spec == Init /\ [][Next]_vars

\* Every read a handler blocks on ends, by data, a closed connection or the
\* idle deadline; Go's mutexes starve no waiter; the ticker keeps ticking.
\* Clients need not ask for anything.
Fairness ==
  /\ \A c \in Conns :
       /\ WF_vars(Deposit(c) \/ Serve(c) \/ Delete(c))
       /\ SF_vars(PutOpen(c) \/ PutVanished(c))
       /\ SF_vars(Admit(c) \/ Refuse(c) \/ Dedup(c))
  /\ \A s \in Sweepers : SF_vars(Sweep(s)) /\ WF_vars(SweepOn(s) \/ Delete(s))

FairSpec == Spec /\ Fairness

-----------------------------------------------------------------------------
(***************************************************************************)
(* Properties.                                                             *)
(***************************************************************************)

Labels ==
  {"idle", "evicting", "sized", "duplicate", "header", "attached", "ready",
   "claimed", "writing", "parked", "unconfirmed", "patching", "saved", "deduping",
   "serving", "acking", "expiring", "sweeping", "expunging"}

\* Type invariant; usage and over are sums over the directory.
TypeOK ==
  /\ meta \in [IDs -> Sidecar \cup {None}]
  /\ partial \in [Keys -> (SUBSET Nat) \cup {None}]
  /\ body \in [Keys -> (SUBSET Nat) \cup {None}]
  /\ \A k \in Keys : partial[k] # None => partial[k] \subseteq Frames(k)
  /\ admitted \in Int
  /\ active \in [Keys -> Conns \cup {None}]
  /\ putMu \in [Keys -> Conns \cup {None}]
  /\ mu \in Conns \cup {None}
  /\ pc \in [Procs -> Labels]
  /\ req \in [Procs -> Request \cup {None}]
  /\ at \in [Procs -> Nat] /\ cut \in [Procs -> BOOLEAN]
  /\ work \in [Procs -> SUBSET IDs]
  /\ doomed \in [Procs -> Keys \cup {None}]
  /\ scan \in [Procs -> SUBSET [key : Keys, size : Nat]]
  /\ crashes \in 0 .. MaxCrashes
  /\ owed \subseteq Delivery

\* A body's existence means it is whole, whatever was resumed, evicted, swept
\* or cut on the way (bodyParked relies on it to ask for the header alone).
BodyWhole == \A k \in Keys : body[k] # None => body[k] = Frames(k)

\* Inside put: the claim is taken and not yet released.
InPut(c) == pc[c] \in {"claimed", "writing", "parked"}
Holds(c) == pc[c] \in {"writing", "parked"}

\* At most one deposit has a partial open for writing.
OneWriter ==
  \A c, d \in Conns : Holds(c) /\ Holds(d) /\ KeyOf(req[c]) = KeyOf(req[d]) => c = d

\* A claim belongs to a deposit inside put, so that closing its connection
\* hits no other request; and a deposit inside put that no newer one has cut
\* holds the claim that keeps eviction off its partial.
ClaimsAreCurrent ==
  /\ \A k \in Keys : active[k] # None =>
       InPut(active[k]) /\ KeyOf(req[active[k]]) = k
  /\ \A c \in Conns : InPut(c) /\ Open(c) => active[KeyOf(req[c])] = c

\* What is reserved is exactly what the deposits under way still may write:
\* no exit path keeps its reservation or gives it back twice.
Reserved == {c \in Conns : req[c] # None /\ pc[c] \notin {"sized", "evicting"}}
AdmittedExact == admitted = MapThenSumSet(LAMBDA c : Need(req[c]), Reserved)

\* Every sidecar has the body it refers to.
NoDangling == Parked \subseteq Retrievable

\* A recorded delivery stays retrievable until it is acked, dismissed or
\* expired.
NoLostDelivery == owed \subseteq {DeliveryOf(meta[i]) : i \in Retrievable}

\* Identical deposits collapse to one entry, never to none: a recorded delivery
\* keeps a sidecar until it is acked, dismissed or expired (what dedup states).
DedupKeepsOne == owed \subseteq {DeliveryOf(meta[i]) : i \in Parked}

\* The spool is a mailbox: the deliveries it can hand out are the entries
\* whose body is there.
Promise == INSTANCE Mailbox WITH pending <- {DeliveryOf(meta[i]) : i \in Retrievable}
KeepsPromise == Promise!Spec

\* A body that no sidecar and no request knows of, as a crash between the
\* body's rename and its sidecar leaves it, is reclaimed in the end.
Orphan(k) ==
  /\ body[k] # None /\ References(k) = {}
  /\ \A p \in Procs : req[p] = None \/ KeyOf(req[p]) # k
OrphansReclaimed == \A k \in Keys : Orphan(k) ~> ~Orphan(k)

\* No request waits for ever, neither for a partial's mutex nor for the
\* stash's, whoever holds it and however its own deposit ends.
RequestsEnd == \A c \in Conns : pc[c] # "idle" ~> pc[c] = "idle"

\* The spool's cap bounds the bytes of partials and bodies.
CapRespected == Usage <= MaxBytes
=============================================================================
