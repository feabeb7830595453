-------------------------------- MODULE Peer --------------------------------
(***************************************************************************)
(* One catbox machine and its membership (main.go, identity.go, client.go, *)
(* recv.go): the commands that run on it as processes of their own, the    *)
(* identity file and the cached stash address they share, client.lock, and *)
(* a listener.  The stash is the part of its roster that concerns this     *)
(* machine; Roster models it in full.  Somebody else is always a member.   *)
(***************************************************************************)
EXTENDS Naturals, FiniteSets

CONSTANTS
    Procs,     \* one-shot commands
    Listener,  \* the process of `listen`
    Names, Keys,
    Crews,     \* the situations a run looks at, see crew
    None

VARIABLES
    crew,      \* never changes.  who: processes that run; ops: their commands;
               \* member: joined at the start; kills, losses, moves: bounds on
               \* killed processes, unreachable stashes and lost answers, and
               \* changes of the relay
    identity,  \* identity.json: [name, key, addr, baked], or None
    cache,     \* stash-resolved.json: "none", "resolved" or "stale"
    lock,      \* process that holds client.lock
    roster,    \* key -> [name, addr], or None
    codes,     \* unspent invites
    used,      \* keys generated so far
    pr,        \* process -> what it has on its stack
    kills, losses, moves

vars == <<crew, identity, cache, lock, roster, codes, used, pr, kills, losses, moves>>

All == Procs \cup {Listener}
Idle == [pc |-> "idle", op |-> "status", id |-> None, created |-> FALSE, ok |-> FALSE]
Budgets == <<kills, losses, moves>>

Init ==
    /\ crew \in Crews
    /\ LET n == CHOOSE n \in Names : TRUE
           k == CHOOSE k \in Keys : TRUE
       IN IF crew.member
          THEN /\ identity = [name |-> n, key |-> k, addr |-> "raw", baked |-> FALSE]
               /\ roster = [q \in Keys |-> IF q = k THEN [name |-> n, addr |-> ""] ELSE None]
               /\ used = {k}
          ELSE /\ identity = None /\ roster = [q \in Keys |-> None] /\ used = {}
    /\ cache = "none" /\ lock = None /\ codes = 2
    /\ pr = [p \in All |-> Idle]
    /\ kills = 0 /\ losses = 0 /\ moves = 0

(***************************************************************************)
(* The stash address                                                       *)
(***************************************************************************)
\* resolvedStash: the cached resolution of the raw address, else a fresh one,
\* else the raw address.  An address that embeds its relay stays as it is.
resolvedStash(raw) ==
    IF raw # "raw" THEN {<<raw, cache>>}
    ELSE IF cache # "none" THEN {<<cache, cache>>}
    ELSE {<<"resolved", "resolved">>, <<"raw", "none">>}

\* The relay of the stash moves: addresses that embed it go stale.
Moved(addr) == IF addr = "resolved" THEN "stale" ELSE addr
RelayMoves ==
    /\ moves < crew.moves /\ moves' = moves + 1
    /\ cache' = Moved(cache)
    /\ identity' = IF identity = None THEN None ELSE [identity EXCEPT !.addr = Moved(@)]
    /\ pr' = [p \in All |-> IF pr[p].id = None THEN pr[p]
                            ELSE [pr[p] EXCEPT !.id.addr = Moved(@)]]
    /\ UNCHANGED <<crew, lock, roster, codes, used, kills, losses>>

(***************************************************************************)
(* Requests, as the stash answers them (Roster: JoinNew, Rejoin, Remove)   *)
(***************************************************************************)
NameFree(k, n) == \A q \in Keys \ {k} : roster[q] # None => roster[q].name # n

Joined(id, addr) == roster' = [roster EXCEPT ![id.key] = [name |-> id.name, addr |-> addr]]

Accepts(id) == roster[id.key] # None /\ NameFree(id.key, id.name)
Admits(id) == roster[id.key] = None /\ codes > 0 /\ NameFree(id.key, id.name)

\* A join of a known key is a refresh or a rename; a new one spends an invite,
\* which only the join command has.
joinReq(p, id, addr) ==
    \/ /\ Accepts(id)
       /\ Joined(id, addr)
       /\ pr' = [pr EXCEPT ![p].pc = "answer", ![p].ok = TRUE]
       /\ UNCHANGED codes
    \/ /\ pr[p].op = "join" /\ Admits(id)
       /\ Joined(id, addr)
       /\ codes' = codes - 1
       /\ pr' = [pr EXCEPT ![p].pc = "answer", ![p].ok = TRUE]
    \/ /\ ~Accepts(id)
       /\ pr' = [pr EXCEPT ![p].pc = "answer"]
       /\ UNCHANGED <<roster, codes>>

clientRemove(p, id) ==
    /\ roster' = [roster EXCEPT ![id.key] = None]
    /\ pr' = [pr EXCEPT ![p].pc = "answer", ![p].ok = roster[id.key] # None]
    /\ UNCHANGED codes

(***************************************************************************)
(* Commands: read the identity, take the lock, dial, ask, finish           *)
(***************************************************************************)
\* loadPeerID of an existing identity.  A rename asks under the new name.
Load(p, op) ==
    /\ identity # None
    /\ \E r \in resolvedStash(identity.addr), n \in Names :
        /\ op # "rename" => n = identity.name
        /\ cache' = r[2]
        /\ pr' = [pr EXCEPT ![p] = [Idle EXCEPT !.op = op,
                    !.pc = IF op = "listen" THEN "bake" ELSE "lock",
                    !.id = [identity EXCEPT !.addr = r[1], !.name = n]]]
    /\ UNCHANGED <<identity, used>>

\* The first join makes the identity, before it waits for the lock.
Create(p) ==
    /\ identity = None
    /\ \E k \in Keys \ used, n \in Names, r \in resolvedStash("raw") :
        LET id == [name |-> n, key |-> k, addr |-> "raw", baked |-> FALSE] IN
        /\ identity' = id
        /\ used' = used \cup {k}
        /\ cache' = r[2]
        /\ pr' = [pr EXCEPT ![p] = [Idle EXCEPT !.op = "join", !.pc = "lock", !.created = TRUE,
                                                !.id = [id EXCEPT !.addr = r[1]]]]

Start(p) ==
    /\ pr[p].pc = "idle"
    /\ \E op \in crew.ops :
        /\ (op = "listen") <=> (p = Listener)
        /\ Load(p, op) \/ (op = "join" /\ Create(p))
    /\ UNCHANGED <<crew, lock, roster, codes, Budgets>>

lockPeer(p) ==
    /\ pr[p].pc = "lock" /\ lock = None
    /\ lock' = p
    /\ pr' = [pr EXCEPT ![p].pc = "dial"]
    /\ UNCHANGED <<crew, identity, cache, roster, codes, used, Budgets>>

clientConn(p) ==
    /\ pr[p].pc = "dial" /\ pr[p].id.addr # "stale"
    /\ pr' = [pr EXCEPT ![p].pc = "request"]
    /\ UNCHANGED <<crew, identity, cache, lock, roster, codes, used, Budgets>>

\* A dial that fails drops the cached address.
Unreachable(p) ==
    /\ pr[p].pc = "dial"
    /\ IF pr[p].id.addr = "stale" THEN UNCHANGED losses
       ELSE losses < crew.losses /\ losses' = losses + 1
    /\ cache' = "none"
    /\ pr' = [pr EXCEPT ![p].pc = "answer"]
    /\ UNCHANGED <<crew, identity, lock, roster, codes, used, kills, moves>>

Ask(p) ==
    CASE pr[p].op \in {"join", "rename"} -> joinReq(p, pr[p].id, "")
      [] pr[p].op = "listen" -> joinReq(p, pr[p].id, "up")
      [] pr[p].op = "unlisten" -> joinReq(p, pr[p].id, "")
      [] pr[p].op = "reset" -> clientRemove(p, pr[p].id)
      [] pr[p].op = "status" -> pr' = [pr EXCEPT ![p].pc = "answer"] /\ UNCHANGED <<roster, codes>>

Request(p) ==
    /\ pr[p].pc = "request"
    /\ Ask(p)
    /\ UNCHANGED <<crew, identity, cache, lock, used, Budgets>>

\* The stash has done what it was asked, the command takes it for a failure.
AnswerLost(p) ==
    /\ losses < crew.losses /\ losses' = losses + 1
    /\ pr[p].pc = "answer" /\ pr[p].ok
    /\ pr' = [pr EXCEPT ![p].ok = FALSE]
    /\ UNCHANGED <<crew, identity, cache, lock, roster, codes, used, kills, moves>>

Unlocked(p) == IF lock = p THEN None ELSE lock

\* What the command does with the answer, up to giving back the lock.  A rename
\* saves the identity it loaded, the resolved address with it.
Finish_bug(p) ==
    /\ pr[p].pc = "answer" /\ pr[p].op \in {"join", "rename", "reset", "status"}
    /\ lock' = Unlocked(p)
    /\ identity' = IF pr[p].op = "rename" THEN pr[p].id ELSE identity
    /\ pr' = [pr EXCEPT ![p] =
            IF pr[p].op = "reset" \/ (pr[p].created /\ ~pr[p].ok)
            THEN [pr[p] EXCEPT !.pc = "wipe"] ELSE Idle]
    /\ UNCHANGED <<crew, cache, roster, codes, used, Budgets>>
RollBackAlways_bug(p) ==
    /\ pr[p].pc = "answer" /\ pr[p].op \in {"join", "rename", "reset", "status"}
    /\ lock' = Unlocked(p)
    /\ identity' = IF pr[p].op = "rename" /\ pr[p].ok THEN pr[p].id ELSE identity
    /\ pr' = [pr EXCEPT ![p] = IF pr[p].op = "reset" \/ pr[p].created
                               THEN [pr[p] EXCEPT !.pc = "wipe"] ELSE Idle]
    /\ UNCHANGED <<crew, cache, roster, codes, used, Budgets>>
Finish(p) ==
    /\ pr[p].pc = "answer" /\ pr[p].op \in {"join", "rename", "reset", "status"}
    /\ lock' = Unlocked(p)
    /\ identity' = IF pr[p].op = "rename" /\ pr[p].ok THEN pr[p].id ELSE identity
    /\ pr' = [pr EXCEPT ![p] =
            IF pr[p].op = "reset" \/ (pr[p].created /\ ~pr[p].ok)
            THEN [pr[p] EXCEPT !.pc = "wipe"] ELSE Idle]
    /\ UNCHANGED <<crew, cache, roster, codes, used, Budgets>>

\* reset, and the rollback of a first join: after the lock is given back.
resetPeer(p) ==
    /\ pr[p].pc = "wipe"
    /\ identity' = None /\ cache' = "none"
    /\ pr' = [pr EXCEPT ![p] = Idle]
    /\ UNCHANGED <<crew, lock, roster, codes, used, Budgets>>

(***************************************************************************)
(* The listener dials without the lock                                     *)
(***************************************************************************)
ensureListenerIdentity ==
    /\ pr[Listener].pc = "bake"
    /\ LET id == [pr[Listener].id EXCEPT !.baked = TRUE] IN
        /\ identity' = IF pr[Listener].id.baked THEN identity ELSE id
        /\ pr' = [pr EXCEPT ![Listener].id = id, ![Listener].pc = "dial"]
    /\ UNCHANGED <<crew, cache, lock, roster, codes, used, Budgets>>

\* Registered: it listens.  Not registered, or deregistered: it is over.
Listening ==
    /\ pr[Listener].pc = "answer"
    /\ pr' = [pr EXCEPT ![Listener] =
            IF pr[Listener].op = "listen" /\ pr[Listener].ok
            THEN [pr[Listener] EXCEPT !.pc = "up", !.ok = FALSE] ELSE Idle]
    /\ UNCHANGED <<crew, identity, cache, lock, roster, codes, used, Budgets>>

\* Ctrl-C: the address is withdrawn under the name that was read at the start.
Shutdown_bug ==
    /\ pr[Listener].pc = "up"
    /\ pr' = [pr EXCEPT ![Listener] = Idle]
    /\ UNCHANGED <<crew, identity, cache, lock, roster, codes, used, Budgets>>
Shutdown ==
    /\ pr[Listener].pc = "up"
    /\ pr' = [pr EXCEPT ![Listener].pc = "dial", ![Listener].op = "unlisten"]
    /\ UNCHANGED <<crew, identity, cache, lock, roster, codes, used, Budgets>>

Kill(p) ==
    /\ kills < crew.kills /\ kills' = kills + 1
    /\ pr[p].pc # "idle"
    /\ pr' = [pr EXCEPT ![p] = Idle]
    /\ lock' = Unlocked(p)
    /\ UNCHANGED <<crew, identity, cache, roster, codes, used, losses, moves>>

Next ==
    \/ \E p \in crew.who :
        \/ Start(p) \/ lockPeer(p) \/ clientConn(p) \/ Unreachable(p) \/ Request(p)
        \/ AnswerLost(p) \/ Finish(p) \/ resetPeer(p) \/ Kill(p)
    \/ ensureListenerIdentity \/ Listening \/ Shutdown
    \/ RelayMoves

Spec == Init /\ [][Next]_vars

(***************************************************************************)
(* Properties                                                              *)
(***************************************************************************)
\* No ghost member survives: whatever entry the stash has of this machine, the
\* identity on disk is its key, so that the machine can use it, rename it and
\* leave, also when a command was killed at any step (main.go:661, :716).  The
\* answer to a first join is the exception: lost, it leaves a ghost (main.go:740).
NoGhost == losses = 0 => \A k \in Keys :
    roster[k] # None => identity # None /\ identity.key = k

\* Once its commands are over, none of them killed and no answer lost, the
\* machine goes by the name the stash has for it: a refused rename changes
\* neither (main.go:294-306).
NamesAgree ==
    /\ kills = 0 /\ losses = 0 /\ identity # None
    /\ \A p \in All : pr[p].pc \in {"idle", "up"}
    => (roster[identity.key] # None => roster[identity.key].name = identity.name)

\* A listener that was shut down while the stash could be reached has no
\* address in the roster for senders to waste their dial on (recv.go:105).
Withdrawn ==
    /\ kills = 0 /\ losses = 0 /\ pr[Listener].pc = "idle"
    => \A k \in Keys : roster[k] # None => roster[k].addr = ""
=============================================================================
