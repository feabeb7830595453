------------------------------- MODULE Roster -------------------------------
(***************************************************************************)
(* The stash as the roster's authority: who is a member, under which name, *)
(* who is an admin, which invites are live, and whose parked files follow  *)
(* a rename or go with a removal (catbox/serve.go, catbox/roster.go,       *)
(* catbox/invite.go).                                                      *)
(*                                                                         *)
(* The roster and the invites live twice, in memory under stash.mu and in  *)
(* a file of their own.  Handlers change memory under the mutex and save   *)
(* the copy they took there after releasing it; the stash-side commands    *)
(* (catbox remove and admin with --data) change the file from a process of *)
(* their own, and the stash takes the file over with the next message once *)
(* it is newer.                                                            *)
(*                                                                         *)
(* The grain: one step is one section under the mutex or one change of a   *)
(* file, together with the reads in front of it.                           *)
(***************************************************************************)
EXTENDS Naturals, FiniteSets

CONSTANTS
  Conns,      \* the open connections, each served by a goroutine of its own
  Tools,      \* stash-side command processes
  Sweepers,   \* the goroutine of runServe's ticker
              \* A process in several of these sets takes turns.
  Devices,    \* dial keys
  Names,      \* member names
  Codes,      \* invite codes: the bound on invites
  Items,      \* parked files: the bound on deposits
  MaxCrashes, \* the bound on crashes of the stash
  MaxFaults,  \* the bound on saves that fail
  None

ASSUME RosterAssumption ==
  /\ MaxCrashes \in Nat /\ MaxFaults \in Nat
  /\ None \notin Devices \cup Names \cup Codes

Procs == Conns \cup Tools \cup Sweepers

Member == [name : Names, dev : Devices, admin : BOOLEAN]

\* None is no roster.
ASSUME NoneAssumption == \A R \in SUBSET Member : R # None

VARIABLES
  \* the data directory
  roster,   \* roster.json: None while there is no file
  invites,  \* invites.json
  parked,   \* the target in each parked file's sidecar
  \* the stash process
  members,  \* stash.roster
  codes,    \* stash.invites
  newer,    \* roster.json is newer than stash.rosterMod
  \* the goroutines and the commands
  pc, req,
  snap,     \* the roster as loaded or about to be saved
  held,     \* the invites about to be saved
  clean,    \* roster.json is no newer than at the reload's stat
  late,     \* saves under way whose temporary file may be older than roster.json
  crossed,  \* the last save has put an older time on roster.json
  work,     \* parked files still to repoint or delete
  \* for the bounds and the properties
  minted,   \* codes ever minted
  expired,  \* codes past their 24 hours
  uses,     \* how many joins each code has admitted
  astray,   \* parked files a re-join with an unreadable key gave to a name of nobody
  crashes, faults

disk == <<roster, invites, parked>>
memory == <<members, codes, newer>>
stamps == <<clean, late, crossed>>
local == <<pc, req, snap, held, stamps, work>>
time == <<minted, expired>>
bounds == <<crashes, faults>>
vars == <<disk, memory, local, time, uses, astray, bounds>>

-----------------------------------------------------------------------------
\* loadRoster: a missing file is an empty roster.
Loaded == IF roster = None THEN {} ELSE roster

NamesOf(R) == {m.name : m \in R}
DevicesOf(R) == {m.dev : m \in R}
Entries(dev) == {m \in members : m.dev = dev}

\* removeMember
Without(R, name) == {m \in R : m.name # name}

\* The entry a rename rewrites is found by its name.
Renamed(R, old, new) == {[m EXCEPT !.name = IF @ = old THEN new ELSE @] : m \in R}

\* grantAdmin
Promoted(R, name) == {[m EXCEPT !.admin = @ \/ m.name = name] : m \in R}

NoRequest == [op |-> "none", dev |-> None, name |-> None, old |-> None,
              code |-> None, admin |-> FALSE, gone |-> {}]

Init ==
  /\ roster = None /\ invites = {} /\ parked = [i \in Items |-> None]
  /\ members = {} /\ codes = {} /\ newer = FALSE
  /\ pc = [p \in Procs |-> "idle"]
  /\ req = [p \in Procs |-> NoRequest]
  /\ snap = [p \in Procs |-> {}]
  /\ held = [p \in Procs |-> {}]
  /\ clean = [p \in Procs |-> FALSE] /\ late = {} /\ crossed = FALSE
  /\ work = [p \in Procs |-> {}]
  /\ minted = {} /\ expired = {}
  /\ uses = [k \in Codes |-> 0] /\ astray = {}
  /\ crashes = 0 /\ faults = 0

-----------------------------------------------------------------------------
\* Pieces of steps.

Goto(p, l) == pc' = [pc EXCEPT ![p] = l]

\* The handler has answered.
Return(p) ==
  /\ Goto(p, "idle")
  /\ req' = [req EXCEPT ![p] = NoRequest]
  /\ snap' = [snap EXCEPT ![p] = {}]
  /\ held' = [held EXCEPT ![p] = {}]
  /\ clean' = [clean EXCEPT ![p] = FALSE]
  /\ late' = late \ {p}
  /\ work' = [work EXCEPT ![p] = {}]
  /\ UNCHANGED crossed

\* The temporary file becomes roster.json, with the time it was written at: newer
\* than what anybody has looked at, unless another save came in between.  The
\* bug: a reload under way remembers a time it did not look at.
WriteRoster_bug(p, R) ==
  /\ roster' = R /\ newer' = TRUE
  /\ late' = {q \in Procs \ {p} : pc[q] \in {"saving", "editing"}}
  /\ crossed' = FALSE
  /\ UNCHANGED clean
WriteRoster(p, R) ==
  /\ roster' = R
  /\ late' = {q \in Procs \ {p} : pc[q] \in {"saving", "editing"}}
  /\ \/ newer' = TRUE /\ clean' = [q \in Procs |-> FALSE] /\ crossed' = FALSE
     \/ p \in late /\ crossed' = TRUE /\ UNCHANGED <<newer, clean>>

\* Under stash.mu: the roster changes and the copy to save is taken; the bug
\* copies before the change.
Update_bug(c, R) ==
  /\ members' = R
  /\ snap' = [snap EXCEPT ![c] = members]
  /\ Goto(c, "saving")
Update(c, R) ==
  /\ members' = R
  /\ snap' = [snap EXCEPT ![c] = R]
  /\ Goto(c, "saving")

\* Likewise for the invites; the bug saves what was there before.
UpdateCodes_bug(p, K) == codes' = K /\ held' = [held EXCEPT ![p] = codes]
UpdateCodes(p, K) == codes' = K /\ held' = [held EXCEPT ![p] = K]

Request(c, r) == req' = [req EXCEPT ![c] = r]

-----------------------------------------------------------------------------
(***************************************************************************)
(* Every message first brings the roster up to date (reloadRoster).        *)
(***************************************************************************)

\* A message arrives; a newer file is read.
Receive(c) ==
  /\ pc[c] = "idle"
  /\ IF newer
     THEN /\ snap' = [snap EXCEPT ![c] = Loaded]
          /\ clean' = [clean EXCEPT ![c] = TRUE]
          /\ Goto(c, "reloading")
     ELSE Goto(c, "received") /\ UNCHANGED <<snap, clean>>
  /\ UNCHANGED <<disk, memory, req, held, late, crossed, work, time, uses, astray, bounds>>

\* What the reload leaves in memory; the bug keeps what it had.
Adopted_bug(c) == members
Adopted(c) == snap[c]

\* ... and replaces the roster in memory.
Reload(c) ==
  /\ pc[c] = "reloading"
  /\ members' = Adopted(c)
  /\ newer' = ~clean[c]
  /\ snap' = [snap EXCEPT ![c] = {}]
  /\ clean' = [clean EXCEPT ![c] = FALSE]
  /\ Goto(c, "received")
  /\ UNCHANGED <<disk, codes, req, held, late, crossed, work, time, uses, astray, bounds>>

\* Messages that change nothing here: pending lists, refused requests.
Answer(c) ==
  /\ pc[c] = "received"
  /\ Return(c)
  /\ UNCHANGED <<disk, memory, time, uses, astray, bounds>>

-----------------------------------------------------------------------------
(***************************************************************************)
(* opJoin of a device that is not a member.                                *)
(***************************************************************************)

\* The name is free; the bug does not look.
NameFree_bug(name) == TRUE
NameFree(name) == name \notin NamesOf(members)

JoinAsk(c) ==
  /\ pc[c] = "received"
  /\ \E dev \in Devices, name \in Names :
       /\ Entries(dev) = {} /\ NameFree(name)
       /\ Request(c, [NoRequest EXCEPT !.op = "join", !.dev = dev, !.name = name])
  /\ Goto(c, "asking")
  /\ UNCHANGED <<disk, memory, snap, held, stamps, work, time, uses, astray, bounds>>

\* An empty roster bootstraps its admin.
Bootstrap(c) ==
  /\ pc[c] = "asking"
  /\ members = {}
  /\ Request(c, [req[c] EXCEPT !.admin = TRUE])
  /\ Goto(c, "admitted")
  /\ UNCHANGED <<disk, memory, snap, held, stamps, work, time, uses, astray, bounds>>

\* Codes a join may present.
Usable == codes \ expired

\* What is left of the invites once a code is taken; the bug leaves it there.
Burned_bug(k) == codes
Burned(k) == codes \ {k}

\* takeInvite, under stash.mu: the code is burned.
TakeInvite(c) ==
  /\ pc[c] = "asking"
  /\ members # {}
  /\ \E k \in Usable :
       /\ UpdateCodes(c, Burned(k))
       /\ Request(c, [req[c] EXCEPT !.code = k])
  /\ Goto(c, "burning")
  /\ UNCHANGED <<disk, members, newer, snap, stamps, work, time, uses, astray, bounds>>

\* The burn is saved, or logged as not saved.
SaveBurn(c) ==
  /\ pc[c] = "burning"
  /\ \/ invites' = held[c] /\ UNCHANGED faults
     \/ faults < MaxFaults /\ faults' = faults + 1 /\ UNCHANGED invites
  /\ held' = [held EXCEPT ![c] = {}]
  /\ Goto(c, "admitted")
  /\ UNCHANGED <<roster, parked, memory, req, snap, stamps, work, time, uses, astray, crashes>>

\* "join requires an invite code"
JoinRefused(c) ==
  /\ pc[c] = "asking"
  /\ members # {}
  /\ Return(c)
  /\ UNCHANGED <<disk, memory, time, uses, astray, bounds>>

\* Under stash.mu: the device is on the roster.
Append(c) ==
  /\ pc[c] = "admitted"
  /\ Update(c, members \cup
       {[name |-> req[c].name, dev |-> req[c].dev, admin |-> req[c].admin]})
  /\ uses' = [k \in Codes |-> uses[k] + (IF k = req[c].code THEN 1 ELSE 0)]
  /\ UNCHANGED <<disk, codes, newer, req, held, stamps, work, time, astray, bounds>>

-----------------------------------------------------------------------------
(***************************************************************************)
(* opJoin of a member (re-join, rename), opInvite, opRemove.               *)
(***************************************************************************)

\* The name a re-join goes on with; the bug takes the empty one for a name.
NewName_bug(me, asked) == asked
NewName(me, asked) == IF asked = None THEN me.name ELSE asked

\* A re-join keeps its name or asks for a free one.
RejoinAsk(c) ==
  /\ pc[c] = "received"
  /\ \E dev \in Devices, asked \in Names \cup {None} : \E me \in Entries(dev) :
       /\ asked \in {None, me.name} \/ NameFree(asked)
       /\ Request(c, [NoRequest EXCEPT !.op = "rejoin", !.old = me.name,
                                       !.name = NewName(me, asked)])
  /\ Goto(c, "renaming")
  /\ UNCHANGED <<disk, memory, snap, held, stamps, work, time, uses, astray, bounds>>

\* Under stash.mu: the entry is rewritten.
Rename(c) ==
  /\ pc[c] = "renaming"
  /\ Update(c, Renamed(members, req[c].old, req[c].name))
  /\ UNCHANGED <<disk, codes, newer, req, held, stamps, work, time, uses, astray, bounds>>

\* The key of the re-join does not parse: the roster stays as it is, and the
\* parked files follow the new name all the same.
Retarget(c) ==
  /\ pc[c] = "renaming"
  /\ IF req[c].old = req[c].name
     THEN Return(c)
     ELSE /\ Goto(c, "listing") /\ Request(c, [req[c] EXCEPT !.op = "retarget"])
          /\ UNCHANGED <<snap, held, stamps, work>>
  /\ UNCHANGED <<disk, memory, time, uses, astray, bounds>>

\* An admin asks for an invite: a code is minted and recorded under stash.mu.
Mint(c) ==
  /\ pc[c] = "received"
  /\ \E m \in members, k \in Codes \ minted :
       /\ m.admin
       /\ UpdateCodes(c, codes \cup {k})
       /\ minted' = minted \cup {k}
       /\ Request(c, [NoRequest EXCEPT !.op = "invite", !.code = k])
  /\ Goto(c, "inviting")
  /\ UNCHANGED <<disk, members, newer, snap, stamps, work, expired, uses, astray, bounds>>

\* The invites are saved, or logged as not saved, and the code is handed out.
SaveMint(c) ==
  /\ pc[c] = "inviting"
  /\ \/ invites' = held[c] /\ UNCHANGED faults
     \/ faults < MaxFaults /\ faults' = faults + 1 /\ UNCHANGED invites
  /\ Return(c)
  /\ UNCHANGED <<roster, parked, memory, time, uses, astray, crashes>>

\* A member leaves, or an admin removes another member.
RemoveAsk(c) ==
  /\ pc[c] = "received"
  /\ \E me \in members, name \in NamesOf(members) :
       /\ name = me.name \/ me.admin
       /\ Request(c, [NoRequest EXCEPT !.op = "remove", !.name = name])
  /\ Goto(c, "removing")
  /\ UNCHANGED <<disk, memory, snap, held, stamps, work, time, uses, astray, bounds>>

\* Under stash.mu: the name is off the roster.
Remove(c) ==
  LET gone == DevicesOf(members) \ DevicesOf(Without(members, req[c].name)) IN
  /\ pc[c] = "removing"
  /\ req[c].name \in NamesOf(members)
  /\ Update(c, Without(members, req[c].name))
  /\ Request(c, [req[c] EXCEPT !.gone = gone])
  /\ UNCHANGED <<disk, codes, newer, held, stamps, work, time, uses, astray, bounds>>

\* "unknown member": it left in the meantime.
RemoveRefused(c) ==
  /\ pc[c] = "removing"
  /\ req[c].name \notin NamesOf(members)
  /\ Return(c)
  /\ UNCHANGED <<disk, memory, time, uses, astray, bounds>>

-----------------------------------------------------------------------------
(***************************************************************************)
(* What follows a change of the roster: the save, then the parked files.   *)
(***************************************************************************)

\* A join is answered; a rename and a removal go on with the spool.
SaveRoster(c) ==
  /\ pc[c] = "saving"
  /\ WriteRoster(c, snap[c])
  /\ snap' = [snap EXCEPT ![c] = {}]
  /\ IF req[c].op = "join" \/ req[c].old = req[c].name
     THEN Goto(c, "idle") /\ Request(c, NoRequest)
     ELSE Goto(c, "listing") /\ Request(c, [req[c] EXCEPT !.gone = {}])
  /\ UNCHANGED <<invites, parked, members, codes, held, work, time, uses, astray, bounds>>

\* "saving the roster failed": memory keeps the change and the handler ends;
\* the bug goes on with the spool.
GiveUp_bug(c) ==
  /\ Goto(c, "listing") /\ late' = late \ {c}
  /\ UNCHANGED <<req, snap, held, clean, crossed, work>>
GiveUp(c) == Return(c)
SaveFails(c) ==
  /\ pc[c] = "saving"
  /\ faults < MaxFaults /\ faults' = faults + 1
  /\ GiveUp(c)
  /\ UNCHANGED <<disk, memory, time, uses, astray, crashes>>

\* Parked files follow a member to its new name; after a removal they go.
Follows(r) == r.op \in {"rejoin", "retarget"}

\* The parked files of the old name, or of the member that is gone; the bug
\* looks for the new name.
FilesOf_bug(r) == {i \in Items : parked[i] = r.name}
FilesOf(r) ==
  {i \in Items : parked[i] = IF Follows(r) THEN r.old ELSE r.name}

\* retargetSpool or the removal lists them ...
ListFiles(p) ==
  /\ pc[p] = "listing"
  /\ work' = [work EXCEPT ![p] = FilesOf(req[p])]
  /\ Goto(p, "settling")
  /\ UNCHANGED <<disk, memory, req, snap, held, stamps, time, uses, astray, bounds>>

\* ... and repoints or deletes one after the other.
SettleFile(p) ==
  /\ pc[p] = "settling"
  /\ \E i \in work[p] :
       /\ work' = [work EXCEPT ![p] = @ \ {i}]
       /\ parked' = [parked EXCEPT ![i] =
            IF Follows(req[p]) /\ @ # None THEN req[p].name ELSE None]
       /\ astray' = (astray \ {i}) \cup {j \in {i} : req[p].op = "retarget"}
  /\ UNCHANGED <<roster, invites, memory, pc, req, snap, held, stamps, time, uses, bounds>>

Settled(p) ==
  /\ pc[p] = "settling" /\ work[p] = {}
  /\ Return(p)
  /\ UNCHANGED <<disk, memory, time, uses, astray, bounds>>

-----------------------------------------------------------------------------
(***************************************************************************)
(* Deposits and deliveries, as far as the roster is concerned.             *)
(***************************************************************************)

\* A member sends to another; the target's name is looked up now ...
SendAsk(c) ==
  /\ pc[c] = "received"
  /\ \E i \in Items : parked[i] = None \* the bound on deposits
  /\ \E me, m \in members :
       /\ m.name # me.name
       /\ Request(c, [NoRequest EXCEPT !.op = "send", !.name = m.name])
  /\ Goto(c, "depositing")
  /\ UNCHANGED <<disk, memory, snap, held, stamps, work, time, uses, astray, bounds>>

\* ... and written to the sidecar when the stream has ended.
Park(c) ==
  /\ pc[c] = "depositing"
  /\ \E i \in Items :
       /\ parked[i] = None
       /\ \A p \in Procs : i \notin work[p] \* ids are fresh
       /\ parked' = [parked EXCEPT ![i] = req[c].name]
       /\ astray' = astray \ {i}
  /\ Return(c)
  /\ UNCHANGED <<roster, invites, memory, time, uses, bounds>>

\* The stream breaks off.
SendLost(c) ==
  /\ pc[c] = "depositing"
  /\ Return(c)
  /\ UNCHANGED <<disk, memory, time, uses, astray, bounds>>

\* The target fetches and acks a file, or dismisses it.
Take(c) ==
  /\ pc[c] = "received"
  /\ \E me \in members, i \in Items :
       /\ parked[i] = me.name
       /\ parked' = [parked EXCEPT ![i] = None]
  /\ Return(c)
  /\ UNCHANGED <<roster, invites, memory, time, uses, astray, bounds>>

-----------------------------------------------------------------------------
(***************************************************************************)
(* The stash-side commands and the hourly sweep of the invites.            *)
(***************************************************************************)

\* catbox admin and catbox remove with --data: the file is read ...
ToolLoad(t) ==
  /\ pc[t] = "idle"
  /\ \E m \in Loaded :
       \/ /\ ~m.admin
          /\ snap' = [snap EXCEPT ![t] = Promoted(Loaded, m.name)]
          /\ Request(t, [NoRequest EXCEPT !.op = "grant", !.name = m.name])
       \/ /\ snap' = [snap EXCEPT ![t] = Without(Loaded, m.name)]
          /\ Request(t, [NoRequest EXCEPT !.op = "remove", !.name = m.name,
               !.gone = DevicesOf(Loaded) \ DevicesOf(Without(Loaded, m.name))])
  /\ Goto(t, "editing")
  /\ UNCHANGED <<disk, memory, held, stamps, work, time, uses, astray, bounds>>

\* ... and written.
ToolSave(t) ==
  /\ pc[t] = "editing"
  /\ WriteRoster(t, snap[t])
  /\ snap' = [snap EXCEPT ![t] = {}]
  /\ IF req[t].op = "remove"
     THEN Goto(t, "listing") /\ Request(t, [req[t] EXCEPT !.gone = {}])
     ELSE Goto(t, "idle") /\ Request(t, NoRequest)
  /\ UNCHANGED <<invites, parked, members, codes, held, work, time, uses, astray, bounds>>

\* The write fails: the command reports it.
ToolFails(t) ==
  /\ pc[t] = "editing"
  /\ faults < MaxFaults /\ faults' = faults + 1
  /\ Return(t)
  /\ UNCHANGED <<disk, memory, time, uses, astray, crashes>>

\* sweepInvites: expired codes are pruned under stash.mu ...
SweepInvites(s) ==
  /\ pc[s] = "idle"
  /\ UpdateCodes(s, codes \ expired)
  /\ Goto(s, "pruning")
  /\ UNCHANGED <<disk, members, newer, req, snap, stamps, work, time, uses, astray, bounds>>

\* ... and the rest is saved.
SavePruned(s) ==
  /\ pc[s] = "pruning"
  /\ \/ invites' = held[s] /\ UNCHANGED faults
     \/ faults < MaxFaults /\ faults' = faults + 1 /\ UNCHANGED invites
  /\ Return(s)
  /\ UNCHANGED <<roster, parked, memory, time, uses, astray, crashes>>

\* 24 hours pass.
Expire ==
  /\ \E k \in minted \ expired : expired' = expired \cup {k}
  /\ UNCHANGED <<disk, memory, local, minted, uses, astray, bounds>>

\* The stash dies and boots from its files.
Crash ==
  /\ crashes < MaxCrashes
  /\ crashes' = crashes + 1
  /\ members' = Loaded
  /\ codes' = invites \ expired
  /\ newer' = (roster # None)
  /\ pc' = [p \in Procs |-> IF p \in Conns \cup Sweepers THEN "idle" ELSE pc[p]]
  /\ req' = [p \in Procs |-> IF p \in Conns \cup Sweepers THEN NoRequest ELSE req[p]]
  /\ snap' = [p \in Procs |-> IF p \in Conns \cup Sweepers THEN {} ELSE snap[p]]
  /\ held' = [p \in Procs |-> {}]
  /\ clean' = [p \in Procs |-> FALSE]
  /\ late' = late \ (Conns \cup Sweepers) /\ crossed' = FALSE
  /\ work' = [p \in Procs |-> IF p \in Conns \cup Sweepers THEN {} ELSE work[p]]
  /\ UNCHANGED <<disk, time, uses, astray, faults>>

-----------------------------------------------------------------------------
Join(c) ==
  \/ JoinAsk(c) \/ Bootstrap(c) \/ TakeInvite(c) \/ SaveBurn(c)
  \/ JoinRefused(c) \/ Append(c) \/ RejoinAsk(c) \/ Rename(c)
  \/ Retarget(c)
Manage(c) == Mint(c) \/ SaveMint(c) \/ RemoveAsk(c) \/ Remove(c) \/ RemoveRefused(c)
Spooled(c) == SendAsk(c) \/ Park(c) \/ SendLost(c) \/ Take(c)
Settle(p) == ListFiles(p) \/ SettleFile(p) \/ Settled(p)
Tool(t) == ToolLoad(t) \/ ToolSave(t) \/ ToolFails(t)

Next ==
  \/ \E c \in Conns :
       \/ Receive(c) \/ Reload(c) \/ Answer(c)
       \/ Join(c) \/ Manage(c) \/ Spooled(c) \/ SaveRoster(c) \/ SaveFails(c)
  \/ \E p \in Conns \cup Tools : Settle(p)
  \/ \E t \in Tools : Tool(t)
  \/ \E s \in Sweepers : SweepInvites(s) \/ SavePruned(s)
  \/ Expire
  \/ Crash

Spec == Init /\ [][Next]_vars

-----------------------------------------------------------------------------
(***************************************************************************)
(* Properties.                                                             *)
(***************************************************************************)

Labels == {"idle", "reloading", "received", "asking", "burning", "admitted",
           "renaming", "inviting", "removing", "saving", "listing", "settling",
           "depositing", "editing", "pruning"}

Requests == [op : {"none", "join", "rejoin", "retarget", "invite", "remove", "send", "grant"},
             dev : Devices \cup {None}, name : Names \cup {None},
             old : Names \cup {None}, code : Codes \cup {None},
             admin : BOOLEAN, gone : SUBSET Devices]

\* Type correctness: a roster, in memory, in its file or about to be saved,
\* has entries with a name (opJoin reads an empty one as no change), and only
\* minted codes are ever recorded.
TypeOK ==
  /\ roster \in (SUBSET Member) \cup {None}
  /\ parked \in [Items -> Names \cup {None}]
  /\ members \in SUBSET Member /\ newer \in BOOLEAN
  /\ minted \in SUBSET Codes /\ expired \in SUBSET minted
  /\ invites \in SUBSET minted /\ codes \in SUBSET minted
  /\ pc \in [Procs -> Labels] /\ req \in [Procs -> Requests]
  /\ snap \in [Procs -> SUBSET Member] /\ held \in [Procs -> SUBSET minted]
  /\ clean \in [Procs -> BOOLEAN] /\ late \in SUBSET Procs /\ crossed \in BOOLEAN
  /\ work \in [Procs -> SUBSET Items] /\ uses \in [Codes -> Nat] /\ astray \subseteq Items
  /\ crashes \in Nat /\ faults \in Nat

\* As long as the stash does not restart, an invite code lets one device in at
\* most, whatever requests interleave (takeInvite: "validates and burns a join
\* code: single use").
SingleUse == crashes = 0 => \A k \in Codes : uses[k] <= 1

\* The roster in memory is the file's, unless the next message will reload it,
\* a save is under way or one has failed: reloadRoster never takes an edit for
\* one it has already read.  (After two saves have crossed, roster.json may carry
\* a time before the one the stash remembers, and no message reloads it.)
EditsAreSeen ==
  (~newer /\ faults = 0 /\ ~crossed /\ \A p \in Procs : pc[p] # "saving") => members = Loaded

\* A device has one entry and a name stands for one device (opJoin's checks).
OneEntryEach ==
  \A R \in {members, Loaded} : \A m, n \in R :
    m.name = n.name \/ m.dev = n.dev => m = n

\* When requests take turns and no save has failed, roster.json gains a device
\* only with the save of that device's own join and loses one only with the save
\* of its own removal, by a message or a stash-side command, across crashes:
\* whoever was told that it joined stays, and whoever was removed stays out.
OwnChange ==
  /\ \A d \in DevicesOf(Loaded') \ DevicesOf(Loaded) :
       \E c \in Conns : pc[c] = "saving" /\ req[c].op = "join" /\ req[c].dev = d
  /\ \A d \in DevicesOf(Loaded) \ DevicesOf(Loaded') :
       \E p \in Conns \cup Tools : pc[p] \in {"saving", "editing"} /\ d \in req[p].gone
OwnChangesOnly == [][faults = 0 => OwnChange]_vars

Resting == \A p \in Procs : pc[p] = "idle"
AddressesMembers ==
  \A i \in Items \ astray :
    parked[i] \in NamesOf(Loaded) \cup NamesOf(members) \cup {None}

\* Between requests every parked file is addressed to a member, as long as
\* nothing failed (retargetSpool; opRemove: a member's parked items go with it).
\* The files that a re-join with an unreadable key and a new name has moved are
\* left out: the roster keeps the old name and theirs is nobody's.
ParkedForMember == (crashes = 0 /\ faults = 0 /\ Resting) => AddressesMembers

\* retargetSpool: "so a rename never orphans them".  It does once a save has
\* failed: memory keeps the new name, a later save makes it durable, and no
\* rename is left to repoint the files.  (Nobody is missing from roster.json, so
\* no removal explains the orphan.)
RenameOrphansNone ==
  (crashes = 0 /\ Resting /\ DevicesOf(Loaded) = Devices) => AddressesMembers

\* Nobody but its recipient deletes a parked file while the name it is parked
\* for is in roster.json (opRemove: "the removal is not durable: don't sweep
\* the member's files").
FilesStay ==
  \A i \in Items : parked[i] \in NamesOf(Loaded) /\ parked'[i] = None =>
    \E c \in Conns : pc[c] = "received"
FilesStayWithMember == [][FilesStay]_vars

\* What the join control promises: an invite is presented once it is off the
\* file, and its device is in once the roster is saved.
Door ==
  INSTANCE Admission WITH
    inside <- DevicesOf(Loaded),
    live <- invites,
    shown <- {req[p].code : p \in {q \in Conns : /\ req[q].op = "join"
                                                 /\ req[q].code # None
                                                 /\ pc[q] \in {"admitted", "saving"}}},
    issued <- {k \in minted : \A p \in Procs : pc[p] = "inviting" => req[p].code # k}

\* A stash that serves one request at a time keeps that promise, across crashes
\* and until a save fails: a burned code that is not saved comes back.
KeepsDoor == Door!Init /\ [][faults' = 0 => [Door!Next]_(Door!vars)]_vars
=============================================================================
