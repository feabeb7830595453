------------------------------- MODULE Inbox -------------------------------
(***************************************************************************)
(* The download directory of one catbox peer (client.go, recv.go,          *)
(* partial.go): what a pull (`recv`) and the connections of a running      *)
(* `listen` do to it, and the `send` at the other end that tries the       *)
(* listener first and deposits at the stash when that fails.               *)
(*                                                                         *)
(* Files are inodes, so that a path can be unlinked or renamed while a     *)
(* receiver still has it open.  The stash is the set of items it holds.    *)
(***************************************************************************)
EXTENDS Naturals, FiniteSets, FiniteSetsExt, Sequences, Functions

CONSTANTS
    Receivers,  \* goroutines: one pull or one direct connection each
    Items,      \* files that are sent to this peer
    SHAs,       \* their contents
    ShaOf,      \* item -> content
    Chunks,     \* content -> number of chunks, at least one
    Aligned,    \* contents whose last chunk is a full one
    Crews,      \* the situations a run looks at, see crew
    Inodes,     \* enough file numbers
    None

ASSUME InboxAssumption ==
    /\ ShaOf \in [Items -> SHAs]
    /\ Chunks \in [SHAs -> Nat \ {0}]
    /\ IsFiniteSet(Receivers) /\ IsFiniteSet(SHAs)
    /\ None \notin Receivers \cup Items \cup Inodes
    /\ \A c \in Crews : c.who \subseteq Receivers /\ c.hours \in Nat

VARIABLES
    crew,      \* never changes.  who: receivers that may run; hours, breaks:
               \* bounds on passing hours and on lines that break or fall silent,
               \* lost answers, kills and expiries; name: item -> file name; changed: items
               \* whose file is edited after it was hashed
    parked,    \* items the stash holds for this peer
    send,      \* item -> state of the `send` command at the other end
    dropped,   \* items dismissed here or expired at the stash
    up,        \* `listen` is running
    peerLock,  \* receiver that holds client.lock
    lockfile,  \* content -> "none", "new" or "old" (`.part-*.lock`)
    holder,    \* content -> receiver whose flock is on the current lock file
    part,      \* content -> inode of `.part-*`, or None
    stale,     \* contents whose `.part-*` was last written over an hour ago
    inbox,     \* <<name, copy>> -> inode of a delivered file
    data,      \* inode -> chunks in the file
    rx,        \* receiver -> what its goroutine has on its stack
    todo,      \* items the pull under way still has to fetch
    hours, breaks

vars == <<crew, parked, send, dropped, up, peerLock, lockfile, holder, part,
          stale, inbox, data, rx, todo, hours, breaks>>

Idle == [pc |-> "idle", via |-> "pull", item |-> None, fd |-> None,
         hashed |-> <<>>, dst |-> None, line |-> "up"]

NameOf(i) == crew.name[i]

\* A line is up, down (broken, which the next read or write notices) or silent.
\* A silent direct sender is cut off at a deadline; a pull's reads have none.
Live(r) == rx[r].line = "up"

(***************************************************************************)
(* Contents                                                                *)
(***************************************************************************)
Whole(s) == [k \in 1..Chunks[s] |-> <<s, k>>]

\* What the sender reads: an edited file differs from what was hashed.
Frame(i, k) ==
    <<ShaOf[i], IF i \in crew.changed /\ k = Chunks[ShaOf[i]] THEN 0 ELSE k>>

\* What partialFor keeps of a partial: whole chunks, none if there are too many.
Boundary(s, d) ==
    CASE Len(d) > Chunks[s] -> <<>>
      [] Len(d) = Chunks[s] /\ s \notin Aligned -> SubSeq(d, 1, Len(d) - 1)
      [] OTHER -> d

\* Where a sender continues: only a prefix of a smaller file can be trusted.
resumeOffset(have, s) == IF have >= Chunks[s] THEN 0 ELSE have

FreeInode == CHOOSE n \in Inodes :
    n \notin Range(part) \cup Range(inbox) \cup {rx[r].fd : r \in Receivers}

uniquePath_bug(name) == <<name, 0>>
uniquePath(name) ==
    <<name, Min({k \in 0..Cardinality(DOMAIN inbox) : <<name, k>> \notin DOMAIN inbox})>>

Delivered(i) == \E p \in DOMAIN inbox :
    p[1] = NameOf(i) /\ data[inbox[p]] = Whole(ShaOf[i])

Init ==
    /\ crew \in Crews
    /\ parked = {} /\ dropped = {} /\ todo = {}
    /\ send = [i \in Items |-> "new"]
    /\ up = FALSE
    /\ peerLock = None
    /\ lockfile = [s \in SHAs |-> "none"]
    /\ holder = [s \in SHAs |-> None]
    /\ part = [s \in SHAs |-> None]
    /\ stale = {}
    /\ inbox = <<>>
    /\ data = [n \in Inodes |-> <<>>]
    /\ rx = [r \in Receivers |-> Idle]
    /\ hours = 0 /\ breaks = 0

Content(r) == ShaOf[rx[r].item]
Step(r, pc) == rx' = [rx EXCEPT ![r].pc = pc]

MayBreak == breaks < crew.breaks /\ breaks' = breaks + 1

directory == <<lockfile, part, stale, inbox, data>>
environment == <<crew, dropped, up, hours>>

(***************************************************************************)
(* Locks and sweeping                                                      *)
(***************************************************************************)
\* Closing the lock file's descriptor frees its flock; the file stays.
Released(r) == [s \in SHAs |-> IF holder[s] = r THEN None ELSE holder[s]]

\* lockPartial that succeeds: the lock file's time is that of its creation.
lockPartial_bug(r, s) ==
    /\ holder' = [holder EXCEPT ![s] = r]
    /\ lockfile' = [lockfile EXCEPT ![s] = IF @ = "none" THEN "new" ELSE @]
lockPartial(r, s) ==
    /\ holder[s] = None
    /\ holder' = [holder EXCEPT ![s] = r]
    /\ lockfile' = [lockfile EXCEPT ![s] = IF @ = "none" THEN "new" ELSE @]

\* Every `.part-*` older than an hour goes, the lock files with them.
sweepPartials ==
    /\ part' = [s \in SHAs |-> IF s \in stale THEN None ELSE part[s]]
    /\ stale' = {}
    /\ lockfile' = [s \in SHAs |-> IF lockfile[s] = "old" THEN "none" ELSE lockfile[s]]
    /\ holder' = [s \in SHAs |-> IF lockfile[s] = "old" THEN None ELSE holder[s]]

\* An hour passes.  A partial that is being received stays fresh, unless its
\* pull waits for a silent stash.  A lock file ages in any case.
Silenced(r) == rx[r].line = "silent" /\ rx[r].pc \in {"opened", "stream"}
Hour ==
    /\ hours < crew.hours
    /\ hours' = hours + 1
    /\ stale' = {s \in SHAs : part[s] # None /\ \A r \in Receivers :
                                 rx[r].item # None => Content(r) # s \/ Silenced(r)}
    /\ lockfile' = [s \in SHAs |-> IF lockfile[s] = "none" THEN "none" ELSE "old"]
    /\ UNCHANGED <<crew, parked, send, dropped, up, peerLock, holder, part, inbox,
                   data, rx, todo, breaks>>

(***************************************************************************)
(* The end of a receiver: its locks die with it.  A pull also gives up     *)
(* client.lock and the items it has not come to; the sender of a direct    *)
(* receive learns from the closed connection.                              *)
(***************************************************************************)
End(r) ==
    /\ rx' = [rx EXCEPT ![r] = Idle]
    /\ holder' = Released(r)
    /\ IF rx[r].via = "pull"
       THEN /\ peerLock' = IF peerLock = r THEN None ELSE peerLock
            /\ todo' = IF peerLock = r THEN {} ELSE todo
            /\ UNCHANGED send
       ELSE /\ send' = IF Live(r) THEN [send EXCEPT ![rx[r].item] = "stash"] ELSE send
            /\ UNCHANGED <<peerLock, todo>>

(***************************************************************************)
(* recv: sweep, take client.lock, ask what is pending, fetch each          *)
(***************************************************************************)
Recv(r) ==
    /\ rx[r].pc = "idle"
    /\ rx' = [rx EXCEPT ![r] = [Idle EXCEPT !.pc = "wait"]]
    /\ sweepPartials
    /\ UNCHANGED <<environment, parked, send, peerLock, inbox, data, todo, breaks>>

\* Everything that is pending, or the ids named on the command line.
Pending(r) ==
    /\ rx[r].pc = "wait" /\ peerLock = None
    /\ peerLock' = r
    /\ \E ids \in {parked} \cup {{i} : i \in parked} : todo' = ids
    /\ Step(r, "next")
    /\ UNCHANGED <<environment, directory, parked, send, holder, breaks>>

\* An item that another receiver is writing is left parked.
Skip(r) ==
    /\ rx[r].pc = "next"
    /\ \E i \in todo : holder[ShaOf[i]] # None /\ todo' = todo \ {i}
    /\ UNCHANGED <<environment, directory, parked, send, peerLock, holder, rx, breaks>>

Take(r) ==
    /\ rx[r].pc = "next"
    /\ \E i \in todo :
        /\ lockPartial(r, ShaOf[i])
        /\ todo' = todo \ {i}
        /\ rx' = [rx EXCEPT ![r].pc = "locked", ![r].item = i, ![r].hashed = <<>>]
    /\ UNCHANGED <<environment, parked, send, peerLock, part, stale, inbox, data, breaks>>

PullDone_bug(r) ==
    /\ rx[r].pc = "next" /\ todo = {}
    /\ rx' = [rx EXCEPT ![r] = Idle]
    /\ UNCHANGED <<environment, directory, parked, send, peerLock, holder, todo, breaks>>
PullDone(r) ==
    /\ rx[r].pc = "next" /\ todo = {}
    /\ End(r)
    /\ UNCHANGED <<environment, directory, parked, breaks>>

(***************************************************************************)
(* listen and the direct receives                                          *)
(***************************************************************************)
Listen ==
    /\ ~up /\ up' = TRUE
    /\ sweepPartials
    /\ UNCHANGED <<crew, dropped, hours, parked, send, peerLock, inbox, data, rx, todo, breaks>>

\* Shutting down kills what is in flight, whatever it was doing.
ListenStop ==
    /\ up /\ up' = FALSE
    /\ LET direct == {r \in Receivers : rx[r].pc # "idle" /\ rx[r].via = "direct"}
       IN  /\ rx' = [r \in Receivers |-> IF r \in direct THEN Idle ELSE rx[r]]
           /\ holder' = [s \in SHAs |-> IF holder[s] \in direct THEN None ELSE holder[s]]
           /\ send' = [i \in Items |->
                IF \E r \in direct : rx[r].item = i /\ Live(r) THEN "stash" ELSE send[i]]
    /\ UNCHANGED <<crew, dropped, hours, directory, parked, peerLock, todo, breaks>>

Direct(r) ==
    /\ up /\ rx[r].pc = "idle"
    /\ \E i \in Items :
        /\ send[i] = "new"
        /\ lockPartial(r, ShaOf[i])
        /\ send' = [send EXCEPT ![i] = "direct"]
        /\ rx' = [rx EXCEPT ![r] = [Idle EXCEPT !.pc = "locked", !.via = "direct", !.item = i]]
    /\ UNCHANGED <<environment, parked, peerLock, part, stale, inbox, data, todo, breaks>>

(***************************************************************************)
(* One transfer, pulled or direct                                          *)
(***************************************************************************)
\* partialFor: open or create the partial, cut its tail, hash what is kept.
Open(r) ==
    /\ rx[r].pc = "locked"
    /\ LET s == Content(r)
           n == IF part[s] = None THEN FreeInode ELSE part[s]
           kept == IF part[s] = None THEN <<>> ELSE Boundary(s, data[n])
       IN  /\ part' = [part EXCEPT ![s] = n]
           /\ data' = [data EXCEPT ![n] = kept]
           /\ stale' = stale \ {s}
           /\ rx' = [rx EXCEPT ![r].pc = "opened", ![r].fd = n, ![r].hashed = kept]
    /\ UNCHANGED <<environment, parked, send, peerLock, lockfile, holder, inbox, todo, breaks>>

\* opFetch: the stash decides where the stream starts; what it rejects is cut.
Fetch(r) ==
    /\ rx[r].pc = "opened" /\ rx[r].via = "pull" /\ Live(r)
    /\ rx[r].item \in parked
    /\ LET kept == SubSeq(rx[r].hashed, 1, resumeOffset(Len(rx[r].hashed), Content(r)))
       IN  /\ data' = [data EXCEPT ![rx[r].fd] = kept]
           /\ rx' = [rx EXCEPT ![r].pc = "stream", ![r].hashed = kept]
    /\ UNCHANGED <<environment, parked, send, peerLock, lockfile, holder, part, stale,
                   inbox, todo, breaks>>

\* The item has left the stash since it was listed: the whole pull stops.
FetchGone(r) ==
    /\ rx[r].pc = "opened" /\ rx[r].via = "pull" /\ Live(r)
    /\ rx[r].item \notin parked
    /\ End(r)
    /\ UNCHANGED <<environment, directory, parked, breaks>>

\* opReady: the sender checks the offset it is given; the listener does not
\* hear of a rejection and cannot open the frames that come.
Ready(r) ==
    /\ rx[r].pc = "opened" /\ rx[r].via = "direct" /\ Live(r)
    /\ LET have == Len(rx[r].hashed)
       IN IF resumeOffset(have, Content(r)) = have
          THEN Step(r, "stream") /\ UNCHANGED <<send, peerLock, holder, todo>>
          ELSE End(r)
    /\ UNCHANGED <<environment, directory, parked, breaks>>

\* A frame is opened, appended to the file and added to the running hash.
Receive(r) ==
    /\ rx[r].pc = "stream" /\ Live(r)
    /\ LET k == Len(rx[r].hashed) + 1
           frame == Frame(rx[r].item, k)
       IN  /\ data' = [data EXCEPT ![rx[r].fd] = Append(@, frame)]
           /\ stale' = IF part[Content(r)] = rx[r].fd THEN stale \ {Content(r)} ELSE stale
           /\ rx' = [rx EXCEPT ![r].hashed = Append(@, frame),
                               ![r].pc = IF k = Chunks[Content(r)] THEN "streamed" ELSE @]
    /\ UNCHANGED <<environment, parked, send, peerLock, lockfile, holder, part, inbox,
                   todo, breaks>>

Intact_bug(r) == Len(rx[r].hashed) = Chunks[Content(r)]
Intact(r) == rx[r].hashed = Whole(Content(r))

Verify_bug(r) ==
    /\ rx[r].pc = "streamed" /\ Intact(r)
    /\ rx[r].via = "direct" => Live(r)
    /\ rx' = [rx EXCEPT ![r].pc = "verified", ![r].dst = uniquePath(NameOf(rx[r].item))]
    /\ parked' = parked \ {rx[r].item}
    /\ UNCHANGED <<environment, directory, send, peerLock, holder, todo, breaks>>
\* The hash agrees: a free name is looked up now, not before the bytes.
Verify(r) ==
    /\ rx[r].pc = "streamed" /\ Intact(r)
    /\ rx[r].via = "direct" => Live(r)
    /\ rx' = [rx EXCEPT ![r].pc = "verified", ![r].dst = uniquePath(NameOf(rx[r].item))]
    /\ UNCHANGED <<environment, directory, parked, send, peerLock, holder, todo, breaks>>

\* It does not: the partial goes, and with a pull every item after this one.
Mismatch(r) ==
    /\ rx[r].pc = "streamed" /\ ~Intact(r)
    /\ rx[r].via = "direct" => Live(r)
    /\ part' = [part EXCEPT ![Content(r)] = None]
    /\ stale' = stale \ {Content(r)}
    /\ End(r)
    /\ UNCHANGED <<environment, parked, lockfile, inbox, data, breaks>>

\* The rename moves whatever the partial's path names at that moment.
Rename(r) ==
    /\ rx[r].pc = "verified" /\ part[Content(r)] # None
    /\ LET p == rx[r].dst IN
       inbox' = [q \in DOMAIN inbox \cup {p} |-> IF q = p THEN part[Content(r)] ELSE inbox[q]]
    /\ part' = [part EXCEPT ![Content(r)] = None]
    /\ stale' = stale \ {Content(r)}
    /\ Step(r, "landed")
    /\ UNCHANGED <<environment, parked, send, peerLock, lockfile, holder, data, todo, breaks>>

RenameFails(r) ==
    /\ rx[r].pc = "verified" /\ part[Content(r)] = None
    /\ End(r)
    /\ UNCHANGED <<environment, directory, parked, breaks>>

Ack(r) ==
    /\ rx[r].pc = "landed" /\ rx[r].via = "pull" /\ Live(r)
    /\ parked' = parked \ {rx[r].item}
    /\ rx' = [rx EXCEPT ![r] = [Idle EXCEPT !.pc = "next"]]
    /\ holder' = Released(r)
    /\ UNCHANGED <<environment, directory, send, peerLock, todo, breaks>>

\* opDone: the sender, if it is still there, reports success.
Reply(r) ==
    /\ rx[r].pc = "landed" /\ rx[r].via = "direct"
    /\ rx' = [rx EXCEPT ![r] = Idle]
    /\ holder' = Released(r)
    /\ send' = IF Live(r) THEN [send EXCEPT ![rx[r].item] = "sent"] ELSE send
    /\ UNCHANGED <<environment, directory, parked, peerLock, todo, breaks>>

(***************************************************************************)
(* What goes wrong                                                         *)
(***************************************************************************)
\* The connection dies; a direct sender notices and goes to the stash.
Break(r) ==
    /\ MayBreak
    /\ rx[r].pc \notin {"idle", "wait"} /\ rx[r].line # "down"
    /\ rx' = [rx EXCEPT ![r].line = "down"]
    /\ send' = IF rx[r].via = "direct" THEN [send EXCEPT ![rx[r].item] = "stash"] ELSE send
    /\ UNCHANGED <<environment, directory, parked, peerLock, holder, todo>>

\* The stash falls silent under a pull, before or after it has an ack.
Silence(r) ==
    /\ MayBreak
    /\ rx[r].pc \notin {"idle", "wait"} /\ rx[r].via = "pull" /\ Live(r)
    /\ rx' = [rx EXCEPT ![r].line = "silent"]
    /\ \/ UNCHANGED parked
       \/ rx[r].pc = "landed" /\ parked' = parked \ {rx[r].item}
    /\ UNCHANGED <<environment, directory, send, peerLock, holder, todo>>

\* The receiver notices when it next reads or writes; the partial stays.
Abort(r) ==
    /\ rx[r].line = "down"
    /\ \/ rx[r].pc \in {"opened", "stream"}
       \/ rx[r].pc = "streamed" /\ rx[r].via = "direct"
       \/ rx[r].pc = "landed" /\ rx[r].via = "pull"
    /\ End(r)
    /\ UNCHANGED <<environment, directory, parked, breaks>>

\* The stash has the ack, the peer not the answer to it.
AckLost(r) ==
    /\ MayBreak
    /\ rx[r].pc = "landed" /\ rx[r].via = "pull" /\ Live(r)
    /\ parked' = parked \ {rx[r].item}
    /\ End(r)
    /\ UNCHANGED <<environment, directory>>

\* Ctrl-C while bytes flow removes the partial; a kill removes nothing.
Cancel(r) ==
    /\ MayBreak
    /\ rx[r].pc = "stream" /\ rx[r].via = "pull"
    /\ part' = [part EXCEPT ![Content(r)] = None]
    /\ stale' = stale \ {Content(r)}
    /\ End(r)
    /\ UNCHANGED <<environment, parked, lockfile, inbox, data>>

Kill(r) ==
    /\ MayBreak
    /\ rx[r].pc # "idle" /\ rx[r].via = "pull"
    /\ End(r)
    /\ UNCHANGED <<environment, directory, parked>>

(***************************************************************************)
(* The other end, and the stash as far as a peer sees it                   *)
(***************************************************************************)
sender == <<environment, directory, peerLock, holder, rx, todo>>

\* No address in the cache, a dial that fails, or a busy partial: the stash.
Miss(i) ==
    /\ send[i] = "new"
    /\ send' = [send EXCEPT ![i] = "stash"]
    /\ UNCHANGED <<sender, parked, breaks>>

\* parkedFor: when the peer has that content parked already, from whomever and
\* under whatever name, the sender is told OK and no entry is made.
Offer(i) ==
    /\ send[i] = "stash"
    /\ send' = [send EXCEPT ![i] =
         IF \E j \in parked : ShaOf[j] = ShaOf[i] THEN "known" ELSE "deposit"]
    /\ UNCHANGED <<sender, parked, breaks>>

\* The deposit as Spool models it, its entry made at the end: two senders that
\* offer one content at once both make theirs.  (What one sender's deposits of
\* one content do to each other is Spool's.)
Deposit(i) ==
    /\ send[i] = "deposit"
    /\ parked' = parked \cup {i}
    /\ send' = [send EXCEPT ![i] = "sent"]
    /\ UNCHANGED <<sender, breaks>>

\* The stash is down, the stream breaks, or the last answer is lost; the user
\* tries again.
DepositFails(i) ==
    /\ MayBreak
    /\ send[i] \in {"stash", "deposit"}
    /\ \/ UNCHANGED parked
       \/ send[i] = "deposit" /\ parked' = parked \cup {i}
    /\ send' = [send EXCEPT ![i] = "new"]
    /\ UNCHANGED sender

Expire(i) ==
    /\ MayBreak
    /\ i \in parked
    /\ parked' = parked \ {i} /\ dropped' = dropped \cup {i}
    /\ UNCHANGED <<crew, up, hours, directory, send, peerLock, holder, rx, todo>>

\* An argument is an id, or a name that only one pending item has.
resolveDismiss(arg) ==
    {i \in parked : i = arg} \cup
    {i \in parked : arg = NameOf(i) /\ \A j \in parked : NameOf(j) = arg => j = i}

Dismiss ==
    /\ peerLock = None
    /\ \E arg \in Items \cup Range(crew.name) : \E i \in resolveDismiss(arg) :
        parked' = parked \ {i} /\ dropped' = dropped \cup {i}
    /\ UNCHANGED <<crew, up, hours, directory, send, peerLock, holder, rx, todo, breaks>>

Progress(r) ==
    \/ Pending(r) \/ Skip(r) \/ Take(r) \/ PullDone(r)
    \/ Open(r) \/ Fetch(r) \/ FetchGone(r) \/ Ready(r) \/ Receive(r)
    \/ Verify(r) \/ Mismatch(r) \/ Rename(r) \/ RenameFails(r)
    \/ Ack(r) \/ Reply(r) \/ Abort(r)

Next ==
    \/ \E r \in crew.who :
        \/ Progress(r) \/ Recv(r) \/ Direct(r)
        \/ Break(r) \/ Silence(r) \/ AckLost(r) \/ Cancel(r) \/ Kill(r)
    \/ \E i \in Items : Miss(i) \/ Offer(i) \/ Deposit(i) \/ DepositFails(i) \/ Expire(i)
    \/ Listen \/ ListenStop \/ Dismiss \/ Hour

\* Each receiver's goroutine runs on: a line that is up delivers, and one that is
\* down ends the next read or write.  Nothing ends a pull on a silent line.
Fairness == \A r \in Receivers : WF_vars(r \in crew.who /\ Progress(r))

Spec == Init /\ [][Next]_vars
FairSpec == Spec /\ Fairness

(***************************************************************************)
(* Properties                                                              *)
(***************************************************************************)
\* A file in the download directory is one whole content, the one its name
\* belongs to: whatever resumes, breaks, changes under way or is received
\* twice at once, nothing torn or doubled is ever delivered
\* (client.go:953, :968, partial.go:133, recv.go:350).
InboxWhole == \A p \in DOMAIN inbox : \E i \in Items :
    p[1] = NameOf(i) /\ data[inbox[p]] = Whole(ShaOf[i])

\* What a sender was told is sent is at the stash or in the directory, unless
\* it was dismissed or expired: an ack never comes before the file, and the
\* fallback from a direct send loses nothing (client.go:976-984, recv.go:359-375).
\* A sender whose content was parked already is told so of that other item, and
\* it is that item that is kept (serve.go:577-581, 638-645).
Kept(i) == i \in parked \cup dropped \/ Delivered(i)
SentIsKept == \A i \in Items :
    /\ send[i] = "sent" => Kept(i)
    /\ send[i] = "known" => \E j \in Items : ShaOf[j] = ShaOf[i] /\ Kept(j)

\* One receiver per content at a time, across processes (partial.go:34).
OneReceiver == \A r, q \in Receivers :
    r # q /\ rx[r].fd # None /\ rx[q].fd # None => Content(r) # Content(q)

\* Received files never overwrite each other (client.go:1050).
NeverOverwritten == [][
    \A p \in DOMAIN inbox : p \in DOMAIN inbox' /\ inbox'[p] = inbox[p]]_vars

\* A pull that has client.lock ends and lets the next command run, whatever the
\* listener, the partials and a broken line do to it (client.go:26-33); only a
\* stash that falls silent keeps it (client.go:80-105 sets no deadline).
PullsEnd == \A r \in Receivers : peerLock = r ~> peerLock # r \/ rx[r].line = "silent"
=============================================================================
