----------------------------- MODULE PeerProofs -----------------------------
(***************************************************************************)
(* Theorems about Peer: one machine and its membership, for any processes, *)
(* names, keys and bounds.  Its commands run one after another, or those   *)
(* that run side by side make no identity and delete none, and do not      *)
(* rename what a listener goes by.                                         *)
(***************************************************************************)
EXTENDS Peer, TLAPS

Identities == [name : Names, key : Keys, addr : {"raw", "resolved", "stale"}, baked : BOOLEAN]
Entries == [name : Names, addr : {"", "up"}]
Stacks ==
  [pc : {"idle", "bake", "lock", "dial", "request", "answer", "up", "wipe"},
   op : {"join", "rename", "reset", "status", "listen", "unlisten"},
   id : Identities \cup {None}, created : BOOLEAN, ok : BOOLEAN]

\* Without the stash a reset wipes the machine all the same, and a listener that
\* was shut down stays listed: where there is either, the relay stays where it is.
OneByOne(c) == \E p \in All : c.who = {p}
Tidy(c) ==
  /\ c.who \subseteq All /\ c.moves \in Nat
  /\ c.ops \subseteq {"join", "rename", "reset", "status", "listen"}
  /\ \/ OneByOne(c)
     \/ c.ops \subseteq {"rename", "status"}
     \/ c.ops \subseteq {"listen", "status"}
  /\ {"reset", "listen"} \cap c.ops # {} => c.moves = 0
TidyCrews ==
  /\ Names # {} /\ Keys # {} /\ None \notin Identities \cup Entries \cup All
  /\ \A c \in Crews : Tidy(c)

PeerTyped ==
  /\ crew \in Crews /\ cache \in {"none", "resolved", "stale"}
  /\ identity \in Identities \cup {None}
  /\ roster \in [Keys -> Entries \cup {None}]
  /\ pr \in [All -> Stacks]
  /\ kills \in Nat /\ losses \in Nat /\ moves \in Nat

\* No address is stale unless the relay moved.
Current == crew.moves = 0 =>
  /\ cache # "stale" /\ (identity # None => identity.addr # "stale")
  /\ \A p \in All : pr[p].id # None => pr[p].id.addr # "stale"

\* What a command has on its stack, and who holds client.lock.
Busy(p) == pr[p].pc # "idle"
Stacked(p) ==
  /\ p \in crew.who /\ pr[p].id \in Identities
  /\ p = Listener =>
       /\ "listen" \in crew.ops /\ pr[p].op \in {"listen", "unlisten"}
       /\ pr[p].pc \in {"bake", "dial", "request", "answer", "up"}
       /\ pr[p].pc \in {"bake", "up"} => pr[p].op = "listen"
  /\ p # Listener =>
       /\ pr[p].op \in crew.ops \ {"listen"}
       /\ pr[p].pc \in {"lock", "dial", "request", "answer", "wipe"}
       /\ pr[p].pc \in {"dial", "request", "answer"} => lock = p
  /\ pr[p].created => pr[p].op = "join"
  /\ pr[p].ok => pr[p].pc \in {"answer", "wipe"}
  /\ pr[p].pc = "wipe" => pr[p].op = "reset" \/ (pr[p].created /\ ~pr[p].ok)

\* The identity on disk is the one a command goes by, but for a new name.
Own(p) ==
  /\ identity # None /\ pr[p].id.key = identity.key
  /\ pr[p].op \notin {"rename", "status"} => pr[p].id.name = identity.name
Commands == \A p \in All : Busy(p) => Stacked(p) /\ Own(p)

\* A command that will wipe the machine leaves no entry behind.
Leaves(p) ==
  \/ pr[p].created /\ ~pr[p].ok
  \/ pr[p].op = "reset" /\ pr[p].pc \in {"answer", "wipe"}
NoTrace == losses = 0 => \A p \in All : Busy(p) /\ Leaves(p) => roster[pr[p].id.key] = None

\* Between the answer to a rename and its save the new name is on the stack.
Renamed(p) == pr[p].pc = "answer" /\ pr[p].op = "rename" /\ pr[p].ok
OneName == kills = 0 /\ losses = 0 /\ identity # None /\ roster[identity.key] # None =>
  /\ \A p \in All : Renamed(p) => roster[identity.key].name = pr[p].id.name
  /\ (\A p \in All : ~Renamed(p)) => roster[identity.key].name = identity.name

\* The listener may have its address in the roster.
MayListen ==
  \/ pr[Listener].op = "unlisten" /\ pr[Listener].pc \in {"dial", "request"}
  \/ pr[Listener].op = "listen" /\ pr[Listener].pc = "up"
  \/ pr[Listener].op = "listen" /\ pr[Listener].pc = "answer" /\ pr[Listener].ok
NotListed == kills = 0 /\ losses = 0 /\ ~MayListen =>
  \A k \in Keys : roster[k] # None => roster[k].addr = ""

PeerInv ==
  PeerTyped /\ Current /\ Commands /\ NoGhost /\ NoTrace /\ OneName /\ NotListed

\* Peer's first state satisfies the invariant.
LEMMA PeerInit == ASSUME TidyCrews, Init PROVE PeerInv
<1> DEFINE n == CHOOSE n \in Names : TRUE
           k == CHOOSE k \in Keys : TRUE
<1>1. n \in Names /\ k \in Keys
  BY DEF TidyCrews
<1> HIDE DEF n, k
<1>2. /\ crew \in Crews /\ cache = "none" /\ kills = 0 /\ losses = 0 /\ moves = 0
      /\ pr = [p \in All |-> Idle]
      /\ \/ /\ identity = [name |-> n, key |-> k, addr |-> "raw", baked |-> FALSE]
            /\ roster = [q \in Keys |-> IF q = k THEN [name |-> n, addr |-> ""] ELSE None]
         \/ identity = None /\ roster = [q \in Keys |-> None]
  BY DEF Init, n, k
<1> DEFINE first == [name |-> n, key |-> k, addr |-> "raw", baked |-> FALSE]
           entry == [name |-> n, addr |-> ""]
<1>3. first \in Identities /\ first.addr = "raw" /\ first.key = k /\ first.name = n
  BY <1>1 DEF Identities
<1>4. entry \in Entries /\ entry.name = n /\ entry.addr = ""
  BY <1>1 DEF Entries
<1>5. \/ identity = first /\ roster = [q \in Keys |-> IF q = k THEN entry ELSE None]
      \/ identity = None /\ roster = [q \in Keys |-> None]
  BY <1>2
<1>6. None \notin Identities
  BY DEF TidyCrews
<1> HIDE DEF first, entry
<1>7. Idle \in Stacks /\ Idle.pc = "idle" /\ Idle.id = None
  BY DEF Idle, Stacks
<1>8. /\ identity \in Identities \cup {None} /\ (identity # None => identity.addr = "raw")
      /\ \A q \in Keys : roster[q] # None => /\ identity # None /\ identity.key = q
                                              /\ roster[q].name = identity.name
                                              /\ roster[q].addr = ""
  <2>1. CASE identity = None /\ roster = [q \in Keys |-> None]
    BY <2>1
  <2>2. CASE identity = first /\ roster = [q \in Keys |-> IF q = k THEN entry ELSE None]
    BY <1>1, <1>3, <1>4, <1>6, <2>2
  <2> QED
    BY <1>5, <2>1, <2>2
<1>9. roster \in [Keys -> Entries \cup {None}]
  BY <1>4, <1>5
<1>10. PeerTyped
  BY <1>2, <1>7, <1>8, <1>9 DEF PeerTyped
<1>11. \A p \in All : ~Busy(p) /\ ~Renamed(p) /\ pr[p].id = None
  BY <1>2, <1>7 DEF Busy, Renamed
<1>12. Current
  <2>1. cache # "stale" /\ (identity # None => identity.addr # "stale")
    BY <1>2, <1>8
  <2> QED
    BY <1>11, <2>1 DEF Current
<1>13. NoGhost /\ OneName /\ NotListed
  <2>1. NoGhost /\ NotListed
    BY <1>8 DEF NoGhost, NotListed
  <2>2. identity # None => identity.key \in Keys
    BY <1>8 DEF Identities
  <2>3. OneName
    BY <1>8, <1>11, <2>2 DEF OneName
  <2> QED
    BY <2>1, <2>3
<1> QED
  BY <1>10, <1>11, <1>12, <1>13 DEF PeerInv, Commands, NoTrace

\* Commands that run side by side make no identity and delete none, and none of
\* them renames what another goes by.
LEMMA SideBySide ==
  ASSUME TidyCrews, PeerInv, NEW p \in All, NEW q \in All, p # q, Busy(p), Busy(q)
  PROVE  /\ pr[p].op \in {"rename", "status", "listen", "unlisten"} /\ ~Leaves(p)
         /\ pr[p].op = "rename" => pr[q].op \in {"rename", "status"}
         /\ pr[p].pc # "wipe"
<1>1. crew \in Crews /\ Tidy(crew) /\ Stacked(p) /\ Stacked(q)
  BY DEF PeerInv, PeerTyped, TidyCrews, Commands
<1>2. ~OneByOne(crew)
  BY <1>1 DEF Stacked, OneByOne
<1>3. crew.ops \subseteq {"rename", "status"} \/ crew.ops \subseteq {"listen", "status"}
  BY <1>1, <1>2 DEF Tidy
<1> QED
  BY <1>1, <1>3 DEF Stacked, Leaves

\* client.lock keeps renames apart.
LEMMA OneRename ==
  ASSUME PeerInv, NEW p \in All, NEW q \in All, p # q, Busy(p), pr[p].op = "rename",
         pr[p].pc \in {"request", "answer"}
  PROVE  ~Renamed(q)
<1> SUFFICES ASSUME Renamed(q) PROVE FALSE
  OBVIOUS
<1>1. Stacked(p) /\ Stacked(q)
  BY DEF PeerInv, Commands, Busy, Renamed
<1> QED
  BY <1>1 DEF Stacked, Renamed

\* A step that changes no more than the stack of its own command.
LEMMA PeerAside ==
  ASSUME PeerInv, NEW p \in All, pr' \in [All -> Stacks],
         \A q \in All \ {p} : pr'[q] = pr[q],
         UNCHANGED <<crew, identity, roster, moves>>, cache' \in {"none", "resolved", "stale"},
         kills' \in Nat, losses' \in Nat, kills' = 0 => kills = 0, losses' = 0 => losses = 0,
         \A q \in All \ {p} : lock = q => lock' = q,
         Current', Busy(p)' => Stacked(p)' /\ Own(p)',
         losses' = 0 /\ Busy(p)' /\ Leaves(p)' => roster[pr'[p].id.key] = None,
         kills' = 0 /\ losses' = 0 => ~Renamed(p) /\ ~Renamed(p)',
         kills' = 0 /\ losses' = 0 /\ ~MayListen' =>
           ~MayListen \/ \A k \in Keys : roster[k] # None => roster[k].addr = ""
  PROVE  PeerInv'
<1>1. PeerTyped'
  BY DEF PeerInv, PeerTyped
<1>2. \A q \in All \ {p} : Busy(q)' => Busy(q) /\ Stacked(q)' /\ Own(q)'
  <2> SUFFICES ASSUME NEW q \in All \ {p}, Busy(q)' PROVE Busy(q) /\ Stacked(q)' /\ Own(q)'
    OBVIOUS
  <2>1. pr'[q] = pr[q] /\ Busy(q)
    BY DEF Busy
  <2>2. Stacked(q) /\ Own(q)
    BY <2>1 DEF PeerInv, Commands
  <2> QED
    BY <2>1, <2>2 DEF Stacked, Own
<1>3. Commands'
  BY <1>2 DEF Commands
<1>4. NoGhost'
  BY DEF PeerInv, NoGhost
<1>5. NoTrace'
  <2> SUFFICES ASSUME losses' = 0, NEW q \in All, Busy(q)', Leaves(q)'
               PROVE  roster'[pr'[q].id.key] = None
    BY DEF NoTrace
  <2>1. CASE q = p
    BY <2>1
  <2>2. CASE q # p
    BY <2>2 DEF PeerInv, NoTrace, Busy, Leaves
  <2> QED
    BY <2>1, <2>2
<1>6. OneName'
  <2>1. \A q \in All \ {p} : Renamed(q)' <=> Renamed(q)
    BY DEF Renamed
  <2> QED
    BY <2>1 DEF PeerInv, OneName
<1>7. NotListed'
  BY DEF PeerInv, NotListed
<1> QED
  BY <1>1, <1>3, <1>4, <1>5, <1>6, <1>7 DEF PeerInv

\* A command begins with an identity that is there,
LEMMA LoadKeeps ==
  ASSUME TidyCrews, PeerInv, NEW p \in crew.who, p \in All, pr[p].pc = "idle",
         NEW op \in crew.ops, (op = "listen") <=> (p = Listener), Load(p, op),
         UNCHANGED <<crew, lock, roster, codes, Budgets>>
  PROVE  PeerInv'
<1>1. PeerTyped /\ Current /\ Tidy(crew)
  BY DEF PeerInv, PeerTyped, TidyCrews
<1>2. identity \in Identities /\ identity # None
  BY <1>1 DEF PeerTyped, Load
<1>3. PICK r \in resolvedStash(identity.addr), n \in Names :
        /\ op # "rename" => n = identity.name
        /\ cache' = r[2]
        /\ pr' = [pr EXCEPT ![p] = [Idle EXCEPT !.op = op,
                    !.pc = IF op = "listen" THEN "bake" ELSE "lock",
                    !.id = [identity EXCEPT !.addr = r[1], !.name = n]]]
        /\ identity' = identity
  BY DEF Load
<1>4. /\ r[1] \in {"raw", "resolved", "stale"} /\ r[2] \in {"none", "resolved", "stale"}
      /\ crew.moves = 0 => r[1] # "stale" /\ r[2] # "stale"
  BY <1>1, <1>2 DEF resolvedStash, PeerTyped, Current, Identities
<1> DEFINE id == [identity EXCEPT !.addr = r[1], !.name = n]
<1>5. id \in Identities /\ id.key = identity.key /\ id.name = n /\ id.addr = r[1]
  BY <1>2, <1>4 DEF Identities
<1> HIDE DEF id
<1>6. op \in {"join", "rename", "reset", "status", "listen"}
  BY <1>1 DEF Tidy
<1>7. /\ pr'[p] = [pc |-> IF op = "listen" THEN "bake" ELSE "lock", op |-> op, id |-> id,
                   created |-> FALSE, ok |-> FALSE]
      /\ \A q \in All \ {p} : pr'[q] = pr[q] /\ pr' = [pr EXCEPT ![p] = pr'[p]]
  BY <1>1, <1>3 DEF PeerTyped, Idle, id
<1>8. /\ pr'[p] \in Stacks /\ pr'[p].op = op /\ pr'[p].id = id
      /\ pr'[p].created = FALSE /\ pr'[p].ok = FALSE
      /\ pr'[p].pc = IF op = "listen" THEN "bake" ELSE "lock"
  BY <1>5, <1>6, <1>7 DEF Stacks
<1>9. pr' \in [All -> Stacks]
  BY <1>1, <1>3, <1>8 DEF PeerTyped
<1>10. Current'
  BY <1>1, <1>3, <1>4, <1>5, <1>7 DEF Current
<1>11. Stacked(p)' /\ Own(p)'
  <2>1. Own(p)'
    BY <1>2, <1>3, <1>5, <1>8 DEF Own
  <2>2. crew' = crew /\ lock' = lock
    OBVIOUS
  <2>3. Stacked(p)'
    BY <1>5, <1>6, <1>8, <2>2 DEF Stacked
  <2> QED
    BY <2>1, <2>3
<1>12. /\ ~Renamed(p) /\ ~Renamed(p)' /\ ~Leaves(p)'
       /\ MayListen => MayListen'
  <2>1. ~Renamed(p) /\ ~Renamed(p)' /\ ~Leaves(p)'
    BY <1>8 DEF Renamed, Leaves
  <2>2. CASE p = Listener
    BY <2>1, <2>2 DEF MayListen
  <2>3. CASE p # Listener
    BY <1>7, <2>1, <2>3 DEF MayListen, All
  <2> QED
    BY <2>1, <2>2, <2>3
<1>13. UNCHANGED <<kills, losses, moves>> /\ kills \in Nat /\ losses \in Nat
  BY <1>1 DEF Budgets, PeerTyped
<1> QED
  BY <1>3, <1>4, <1>7, <1>9, <1>10, <1>11, <1>12, <1>13, PeerAside

\* ... waits for the lock, and reaches the stash
LEMMA GoesOn ==
  ASSUME TidyCrews, PeerInv, NEW p \in All, lockPeer(p) \/ clientConn(p)
  PROVE  PeerInv'
<1>1. PeerTyped /\ Busy(p) /\ Stacked(p) /\ Own(p) /\ NoTrace
  BY DEF PeerInv, Commands, Busy, lockPeer, clientConn
<1>2. /\ UNCHANGED <<crew, identity, cache, roster, kills, losses, moves>>
      /\ \/ pr[p].pc = "lock" /\ lock = None /\ lock' = p /\ pr' = [pr EXCEPT ![p].pc = "dial"]
         \/ pr[p].pc = "dial" /\ lock' = lock /\ pr' = [pr EXCEPT ![p].pc = "request"]
  BY DEF lockPeer, clientConn, Budgets
<1>3. /\ pr'[p].op = pr[p].op /\ pr'[p].id = pr[p].id /\ pr'[p].created = pr[p].created
      /\ pr'[p].ok = pr[p].ok /\ \A q \in All \ {p} : pr'[q] = pr[q]
      /\ \/ pr[p].pc = "lock" /\ pr'[p].pc = "dial" /\ lock = None /\ lock' = p
         \/ pr[p].pc = "dial" /\ pr'[p].pc = "request" /\ lock' = lock
  BY <1>1, <1>2 DEF PeerTyped, Stacks
<1>4. pr' \in [All -> Stacks]
  BY <1>1, <1>2 DEF PeerTyped, Stacks
<1>5. Current'
  BY <1>2, <1>3 DEF PeerInv, Current
<1>6. Stacked(p)' /\ Own(p)'
  BY <1>1, <1>2, <1>3 DEF Stacked, Own
<1>7. ~Renamed(p) /\ ~Renamed(p)' /\ (Leaves(p)' => Leaves(p))
  BY <1>3 DEF Renamed, Leaves
<1>8. MayListen => MayListen'
  BY <1>1, <1>3 DEF MayListen, All
<1>9. \A q \in All \ {p} : lock = q => lock' = q
  BY <1>3 DEF TidyCrews
<1> QED
  BY <1>1, <1>2, <1>3, <1>4, <1>5, <1>6, <1>7, <1>8, <1>9, PeerAside DEF NoTrace, PeerTyped

\* ... or does not, or does not hear of it.
LEMMA GoesWrong ==
  ASSUME TidyCrews, PeerInv, NEW p \in All, Unreachable(p) \/ AnswerLost(p)
  PROVE  PeerInv'
<1>1. PeerTyped /\ Busy(p) /\ Stacked(p) /\ Own(p) /\ NoTrace /\ Tidy(crew) /\ Current
  BY DEF PeerInv, PeerTyped, TidyCrews, Commands, Busy, Unreachable, AnswerLost
<1>2. /\ UNCHANGED <<crew, identity, roster, lock, kills, moves>>
      /\ \/ /\ pr[p].pc = "dial" /\ cache' = "none" /\ pr' = [pr EXCEPT ![p].pc = "answer"]
            /\ losses' = losses + 1 \/ (losses' = losses /\ pr[p].id.addr = "stale")
         \/ /\ pr[p].pc = "answer" /\ pr[p].ok /\ cache' = cache
            /\ pr' = [pr EXCEPT ![p].ok = FALSE]
            /\ losses' = losses + 1
  BY DEF Unreachable, AnswerLost
<1>3. /\ pr'[p].op = pr[p].op /\ pr'[p].id = pr[p].id /\ pr'[p].created = pr[p].created
      /\ \A q \in All \ {p} : pr'[q] = pr[q]
      /\ \/ pr[p].pc = "dial" /\ pr'[p].pc = "answer" /\ pr'[p].ok = pr[p].ok
         \/ pr[p].pc = "answer" /\ pr'[p].pc = "answer" /\ pr'[p].ok = FALSE
            /\ losses' = losses + 1
  BY <1>1, <1>2 DEF PeerTyped, Stacks
<1>4. pr' \in [All -> Stacks]
  <2>1. [pr[p] EXCEPT !.pc = "answer"] \in Stacks /\ [pr[p] EXCEPT !.ok = FALSE] \in Stacks
    BY <1>1 DEF PeerTyped, Stacks
  <2> QED
    BY <1>1, <1>2, <2>1 DEF PeerTyped
<1>5. losses \in Nat /\ losses' \in Nat /\ (losses' = 0 => losses = 0)
  BY <1>1, <1>2 DEF PeerTyped
<1>6. ASSUME losses' = 0
      PROVE  /\ pr[p].pc = "dial" /\ pr'[p].pc = "answer" /\ pr'[p].ok = pr[p].ok
             /\ pr[p].op \notin {"reset", "listen", "unlisten"}
  <2>1. pr[p].pc = "dial" /\ pr[p].id.addr = "stale"
    BY <1>1, <1>2, <1>6 DEF PeerTyped
  <2>2. crew.moves # 0
    BY <1>1, <2>1 DEF Current, Stacked, TidyCrews
  <2>3. pr[p].op # "reset" /\ p # Listener
    BY <1>1, <2>2 DEF Tidy, Stacked
  <2>4. pr[p].op \notin {"reset", "listen", "unlisten"}
    BY <1>1, <2>3 DEF Tidy, Stacked
  <2> QED
    BY <1>3, <1>5, <1>6, <2>1, <2>4
<1>7. Current'
  BY <1>1, <1>2, <1>3 DEF Current
<1>8. Stacked(p)' /\ Own(p)'
  BY <1>1, <1>2, <1>3 DEF Stacked, Own
<1>9. ASSUME losses' = 0
      PROVE  ~Renamed(p) /\ ~Renamed(p)' /\ (Leaves(p)' => Leaves(p)) /\ p # Listener
  BY <1>1, <1>3, <1>6, <1>9 DEF Renamed, Leaves, Stacked
<1>10. ASSUME losses' = 0 PROVE MayListen => MayListen'
  BY <1>3, <1>9, <1>10 DEF MayListen, All
<1>11. ASSUME losses' = 0, Leaves(p)' PROVE roster[pr'[p].id.key] = None
  BY <1>1, <1>3, <1>5, <1>9, <1>11 DEF NoTrace
<1>12. cache' \in {"none", "resolved", "stale"} /\ kills \in Nat
  BY <1>1, <1>2 DEF PeerTyped
<1> QED
  BY <1>2, <1>3, <1>4, <1>5, <1>7, <1>8, <1>9, <1>10, <1>11, <1>12, PeerAside

\* A command that is over, or killed, or goes on to wipe the machine.
LEMMA EndKeeps ==
  ASSUME TidyCrews, PeerInv, NEW p \in All, Finish(p) \/ Kill(p),
         Finish(p) => pr[p].op # "rename" \/ ~pr[p].ok
  PROVE  PeerInv'
<1>1. PeerTyped /\ Busy(p) /\ Stacked(p) /\ Own(p) /\ NoTrace /\ Current
  BY DEF PeerInv, Commands, Busy, Finish, Kill
<1>2. /\ UNCHANGED <<crew, identity, cache, roster, losses, moves>> /\ lock' = Unlocked(p)
      /\ \/ Finish(p) /\ kills' = kills
         \/ Kill(p) /\ kills' = kills + 1
      /\ \/ pr' = [pr EXCEPT ![p] = Idle]
         \/ /\ kills' = kills /\ pr[p].pc = "answer" /\ pr' = [pr EXCEPT ![p].pc = "wipe"]
            /\ pr[p].op = "reset" \/ (pr[p].created /\ ~pr[p].ok)
  BY DEF Finish, Kill, Budgets
<1>3. Idle \in Stacks /\ Idle.pc = "idle" /\ Idle.id = None
  BY DEF Idle, Stacks
<1>4. pr' \in [All -> Stacks]
  <2>1. [pr[p] EXCEPT !.pc = "wipe"] \in Stacks
    BY <1>1 DEF PeerTyped, Stacks
  <2> QED
    BY <1>1, <1>2, <1>3, <2>1 DEF PeerTyped
<1>5. /\ \A q \in All \ {p} : pr'[q] = pr[q]
      /\ \/ pr'[p] = Idle
         \/ /\ pr[p].pc = "answer" /\ pr'[p].pc = "wipe" /\ pr'[p].op = pr[p].op
            /\ pr'[p].id = pr[p].id /\ pr'[p].created = pr[p].created /\ pr'[p].ok = pr[p].ok
            /\ pr[p].op = "reset" \/ (pr[p].created /\ ~pr[p].ok)
            /\ kills' = kills
  BY <1>1, <1>2 DEF PeerTyped, Stacks
<1>6. Current'
  BY <1>1, <1>2, <1>3, <1>5 DEF Current
<1>7. Busy(p)' => Stacked(p)' /\ Own(p)' /\ (Leaves(p)' => Leaves(p))
  <2> SUFFICES ASSUME Busy(p)' PROVE Stacked(p)' /\ Own(p)' /\ (Leaves(p)' => Leaves(p))
    OBVIOUS
  <2>1. /\ pr[p].pc = "answer" /\ pr'[p].pc = "wipe" /\ pr'[p].op = pr[p].op
        /\ pr'[p].id = pr[p].id /\ pr'[p].created = pr[p].created /\ pr'[p].ok = pr[p].ok
        /\ pr[p].op = "reset" \/ (pr[p].created /\ ~pr[p].ok)
    BY <1>3, <1>5 DEF Busy
  <2>2. p # Listener
    BY <1>1, <2>1 DEF Stacked
  <2> QED
    BY <1>1, <1>2, <2>1, <2>2 DEF Stacked, Own, Leaves
<1>8. kills' \in Nat /\ (kills' = 0 => kills = 0 /\ Finish(p)) /\ losses \in Nat
  BY <1>1, <1>2 DEF PeerTyped
<1>9. kills' = 0 => ~Renamed(p) /\ ~Renamed(p)'
  <2>1. ~Renamed(p)'
    BY <1>3, <1>5 DEF Renamed
  <2>2. Finish(p) => ~Renamed(p)
    BY DEF Renamed
  <2> QED
    BY <1>8, <2>1, <2>2
<1>10. kills' = 0 => (MayListen => MayListen')
  <2>1. ASSUME Finish(p) PROVE p # Listener
    BY <1>1, <2>1 DEF Finish, Stacked
  <2> QED
    BY <1>5, <1>8, <2>1 DEF MayListen, All
<1>11. \A q \in All \ {p} : lock = q => lock' = q
  BY <1>2 DEF Unlocked
<1>12. losses' = 0 /\ Busy(p)' /\ Leaves(p)' => roster[pr'[p].id.key] = None
  BY <1>1, <1>2, <1>3, <1>5, <1>7 DEF NoTrace, Busy
<1> QED
  BY <1>1, <1>2, <1>4, <1>5, <1>6, <1>7, <1>8, <1>9, <1>10, <1>11, <1>12, PeerAside DEF PeerTyped

\* The listener listens, or is over; and begins to withdraw.
LEMMA ListenerKeeps ==
  ASSUME TidyCrews, PeerInv, Listener \in All, Listening \/ Shutdown
  PROVE  PeerInv'
<1> DEFINE p == Listener
<1>1. PeerTyped /\ Busy(p) /\ Stacked(p) /\ Own(p) /\ Current
  BY DEF PeerInv, Commands, Busy, Listening, Shutdown
<1>2. /\ UNCHANGED <<crew, identity, cache, roster, lock, kills, losses, moves>>
      /\ \/ /\ pr[p].pc = "answer" /\ pr[p].op = "listen" /\ pr[p].ok
            /\ pr' = [pr EXCEPT ![p] = [pr[p] EXCEPT !.pc = "up", !.ok = FALSE]]
         \/ /\ pr[p].pc = "answer" /\ (pr[p].op # "listen" \/ ~pr[p].ok)
            /\ pr' = [pr EXCEPT ![p] = Idle]
         \/ pr[p].pc = "up" /\ pr' = [pr EXCEPT ![p].pc = "dial", ![p].op = "unlisten"]
  BY DEF Listening, Shutdown, Budgets
<1>3. Idle \in Stacks /\ Idle.pc = "idle" /\ Idle.id = None
  BY DEF Idle, Stacks
<1>4. pr' \in [All -> Stacks]
  <2>1. /\ [pr[p] EXCEPT !.pc = "up", !.ok = FALSE] \in Stacks
        /\ [pr[p] EXCEPT !.pc = "dial", !.op = "unlisten"] \in Stacks
    BY <1>1 DEF PeerTyped, Stacks
  <2> QED
    BY <1>1, <1>2, <1>3, <2>1 DEF PeerTyped
<1>5. /\ \A q \in All \ {p} : pr'[q] = pr[q]
      /\ \/ pr'[p] = Idle /\ pr[p].pc = "answer" /\ (pr[p].op # "listen" \/ ~pr[p].ok)
         \/ /\ pr'[p].id = pr[p].id /\ pr'[p].created = pr[p].created
            /\ \/ pr'[p].pc = "up" /\ pr'[p].op = pr[p].op /\ pr[p].op = "listen" /\ ~pr'[p].ok
               \/ /\ pr[p].pc = "up" /\ pr'[p].pc = "dial" /\ pr'[p].op = "unlisten"
                  /\ pr'[p].ok = pr[p].ok
  <2>1. /\ \A q \in All \ {p} : pr'[q] = pr[q]
        /\ \/ /\ pr[p].op = "listen" /\ pr'[p] = [pr[p] EXCEPT !.pc = "up", !.ok = FALSE]
           \/ pr'[p] = Idle /\ pr[p].pc = "answer" /\ (pr[p].op # "listen" \/ ~pr[p].ok)
           \/ pr[p].pc = "up" /\ pr'[p] = [pr[p] EXCEPT !.pc = "dial", !.op = "unlisten"]
    BY <1>1, <1>2 DEF PeerTyped
  <2>2. pr[p] \in Stacks
    BY <1>1 DEF PeerTyped
  <2>3. CASE pr[p].op = "listen" /\ pr'[p] = [pr[p] EXCEPT !.pc = "up", !.ok = FALSE]
    BY <2>1, <2>2, <2>3 DEF Stacks
  <2>4. CASE pr[p].pc = "up" /\ pr'[p] = [pr[p] EXCEPT !.pc = "dial", !.op = "unlisten"]
    BY <2>1, <2>2, <2>4 DEF Stacks
  <2> QED
    BY <2>1, <2>3, <2>4
<1>6. Current'
  BY <1>1, <1>2, <1>3, <1>5 DEF Current
<1>7. Busy(p)' => Stacked(p)' /\ Own(p)' /\ ~Leaves(p)'
  <2> SUFFICES ASSUME Busy(p)' PROVE Stacked(p)' /\ Own(p)' /\ ~Leaves(p)'
    OBVIOUS
  <2>1. /\ pr'[p].id = pr[p].id /\ pr'[p].created = pr[p].created
        /\ \/ pr'[p].pc = "up" /\ pr'[p].op = pr[p].op /\ pr[p].op = "listen" /\ ~pr'[p].ok
           \/ /\ pr[p].pc = "up" /\ pr'[p].pc = "dial" /\ pr'[p].op = "unlisten"
              /\ pr'[p].ok = pr[p].ok
    BY <1>3, <1>5 DEF Busy
  <2>2. /\ pr[p].op \in {"listen", "unlisten"} /\ ~pr[p].created
    BY <1>1 DEF Stacked
  <2>3. Own(p)'
    BY <1>1, <1>2, <2>1, <2>2 DEF Own
  <2>4. Stacked(p)' /\ ~Leaves(p)'
    BY <1>1, <1>2, <2>1, <2>2 DEF Stacked, Leaves
  <2> QED
    BY <2>3, <2>4
<1>8. ~Renamed(p) /\ ~Renamed(p)'
  <2>1. pr[p].op # "rename"
    BY <1>1 DEF Stacked
  <2> QED
    BY <1>3, <1>5, <2>1 DEF Renamed
<1>9. MayListen => MayListen'
  BY <1>5 DEF MayListen
<1> QED
  BY <1>1, <1>2, <1>4, <1>5, <1>6, <1>7, <1>8, <1>9, PeerAside DEF PeerTyped

\* A request that the stash refuses, or that asks for nothing.
LEMMA RefusedKeeps ==
  ASSUME TidyCrews, PeerInv, NEW p \in All, Request(p), roster' = roster,
         pr' = [pr EXCEPT ![p].pc = "answer"],
         pr[p].op = "status" \/ ~Accepts(pr[p].id)
  PROVE  PeerInv'
<1>1. /\ PeerTyped /\ Busy(p) /\ Stacked(p) /\ Own(p) /\ Current /\ NoTrace /\ NoGhost
      /\ pr[p].pc = "request"
  BY DEF PeerInv, Commands, Busy, Request
<1>2. UNCHANGED <<crew, identity, cache, lock, kills, losses, moves>>
  BY DEF Request, Budgets
<1>3. /\ pr'[p].op = pr[p].op /\ pr'[p].id = pr[p].id /\ pr'[p].created = pr[p].created
      /\ pr'[p].ok = pr[p].ok /\ pr'[p].pc = "answer" /\ \A q \in All \ {p} : pr'[q] = pr[q]
  BY <1>1 DEF PeerTyped, Stacks
<1>4. pr' \in [All -> Stacks]
  <2>1. [pr[p] EXCEPT !.pc = "answer"] \in Stacks
    BY <1>1 DEF PeerTyped, Stacks
  <2> QED
    BY <1>1, <2>1 DEF PeerTyped
<1>5. Current'
  BY <1>1, <1>2, <1>3 DEF Current
<1>6. Stacked(p)' /\ Own(p)' /\ ~pr'[p].ok
  BY <1>1, <1>2, <1>3 DEF Stacked, Own
<1>7. ~Renamed(p) /\ ~Renamed(p)'
  BY <1>1, <1>6 DEF Renamed
<1>8. losses = 0 /\ Leaves(p)' => roster[pr[p].id.key] = None
  <2>1. CASE pr[p].op = "reset"
    <3>1. clientRemove(p, pr[p].id)
      BY <2>1 DEF Request, Ask
    <3>2. roster[pr[p].id.key] = None
      BY <1>1, <3>1 DEF clientRemove, PeerTyped, Stacked, Identities
    <3> QED
      BY <3>2
  <2>2. CASE pr[p].op # "reset"
    BY <1>1, <1>3, <2>2 DEF Leaves, NoTrace
  <2> QED
    BY <2>1, <2>2
<1>9. kills = 0 /\ losses = 0 =>
        (MayListen => MayListen') \/ \A k \in Keys : roster[k] # None => roster[k].addr = ""
  <2>1. CASE p # Listener
    BY <1>3, <2>1 DEF MayListen, All
  <2>2. CASE p = Listener /\ losses = 0
    <3>1. ~Accepts(pr[p].id) /\ pr[p].id.key = identity.key /\ pr[p].id.key \in Keys
      BY <1>1, <2>2 DEF Stacked, Own, Identities
    <3>2. \A k \in Keys : roster[k] # None => k = identity.key
      BY <1>1, <2>2 DEF NoGhost
    <3>3. roster[identity.key] = None
      BY <3>1, <3>2 DEF Accepts, NameFree
    <3> QED
      BY <3>2, <3>3
  <2> QED
    BY <2>1, <2>2
<1> QED
  BY <1>1, <1>2, <1>3, <1>4, <1>5, <1>6, <1>7, <1>8, <1>9, PeerAside DEF PeerTyped

\* A request that enters the machine, or what is new of it.
LEMMA JoinedKeeps ==
  ASSUME TidyCrews, PeerInv, NEW p \in All, Request(p),
         NEW addr \in {"", "up"}, addr = "up" => pr[p].op = "listen",
         pr[p].op \in {"join", "rename", "listen", "unlisten"}, Joined(pr[p].id, addr),
         pr' = [pr EXCEPT ![p].pc = "answer", ![p].ok = TRUE]
  PROVE  PeerInv'
<1> DEFINE id == pr[p].id
           new == [name |-> id.name, addr |-> addr]
<1>1. /\ PeerTyped /\ Busy(p) /\ Stacked(p) /\ Own(p) /\ Current /\ NoTrace /\ NoGhost
      /\ pr[p].pc = "request" /\ Commands
  BY DEF PeerInv, Commands, Busy, Request
<1>2. UNCHANGED <<crew, identity, cache, lock, kills, losses, moves>>
  BY DEF Request, Budgets
<1>3. /\ id \in Identities /\ id.key \in Keys /\ id.name \in Names /\ id.key = identity.key
      /\ identity # None
  BY <1>1 DEF Stacked, Own, Identities
<1>4. new \in Entries /\ new # None /\ new.name = id.name /\ new.addr = addr
  <2>1. new \in Entries /\ new.name = id.name /\ new.addr = addr
    BY <1>3 DEF Entries
  <2>2. None \notin Entries
    BY DEF TidyCrews
  <2> HIDE DEF new, id
  <2> QED
    BY <2>1, <2>2
<1>5. roster' = [roster EXCEPT ![id.key] = new]
  BY DEF Joined
<1>6. /\ pr'[p].op = pr[p].op /\ pr'[p].id = id /\ pr'[p].created = pr[p].created
      /\ pr'[p].ok /\ pr'[p].pc = "answer" /\ \A q \in All \ {p} : pr'[q] = pr[q]
  BY <1>1 DEF PeerTyped, Stacks
<1>7. pr' \in [All -> Stacks]
  <2>1. [pr[p] EXCEPT !.pc = "answer", !.ok = TRUE] \in Stacks
    BY <1>1 DEF PeerTyped, Stacks
  <2> QED
    BY <1>1, <2>1 DEF PeerTyped
<1> HIDE DEF new, id
<1>8. /\ roster' \in [Keys -> Entries \cup {None}] /\ roster'[identity.key] = new
      /\ \A k \in Keys : k # identity.key => roster'[k] = roster[k]
  BY <1>1, <1>3, <1>4, <1>5 DEF PeerTyped
<1>9. PeerTyped'
  BY <1>1, <1>2, <1>7, <1>8 DEF PeerTyped
<1>10. Current'
  <2>1. \A q \in All : pr'[q].id = pr[q].id
    BY <1>6 DEF id
  <2> QED
    BY <1>1, <1>2, <2>1 DEF Current
<1>11. \A q \in All \ {p} : (Busy(q)' <=> Busy(q)) /\ (Renamed(q)' <=> Renamed(q))
                            /\ (Leaves(q)' <=> Leaves(q))
  BY <1>6 DEF Busy, Renamed, Leaves
<1>12. Commands'
  <2>1. Stacked(p)' /\ Own(p)'
    BY <1>1, <1>2, <1>6 DEF Stacked, Own, id
  <2>2. ASSUME NEW q \in All \ {p}, Busy(q)' PROVE Stacked(q)' /\ Own(q)'
    <3>1. Stacked(q) /\ Own(q)
      BY <1>1, <1>11, <2>2 DEF Commands
    <3> QED
      BY <1>2, <1>6, <3>1 DEF Stacked, Own
  <2> QED
    BY <2>1, <2>2 DEF Commands
<1>13. NoGhost'
  BY <1>1, <1>2, <1>3, <1>8 DEF NoGhost
<1>14. NoTrace'
  <2>1. \A q \in All \ {p} : Busy(q)' => ~Leaves(q)'
    BY <1>1, <1>11, SideBySide
  <2>2. ~Leaves(p)'
    BY <1>6 DEF Leaves
  <2> QED
    BY <2>1, <2>2 DEF NoTrace
<1>15. OneName'
  <2>1. CASE pr[p].op = "rename"
    <3>1. Renamed(p)' /\ roster'[identity.key].name = pr'[p].id.name
      BY <1>4, <1>6, <1>8, <2>1 DEF Renamed
    <3>2. \A q \in All \ {p} : ~Renamed(q)'
      BY <1>1, <1>11, <2>1, OneRename
    <3> QED
      BY <1>2, <3>1, <3>2 DEF OneName
  <2>2. CASE pr[p].op # "rename"
    <3>1. roster'[identity.key].name = identity.name /\ ~Renamed(p)'
      BY <1>1, <1>4, <1>6, <1>8, <2>2 DEF Renamed, Own, id
    <3>2. \A q \in All \ {p} : ~Renamed(q)'
      <4>1. ASSUME NEW q \in All \ {p}, Renamed(q) PROVE FALSE
        <5>1. Busy(q) /\ pr[q].op = "rename"
          BY <4>1 DEF Busy, Renamed
        <5> QED
          BY <1>1, <2>2, <5>1, SideBySide
      <4> QED
        BY <1>11, <4>1
    <3> QED
      BY <1>2, <3>1, <3>2 DEF OneName
  <2> QED
    BY <2>1, <2>2
<1>16. NotListed'
  <2> SUFFICES ASSUME kills = 0, losses = 0, ~MayListen', NEW k \in Keys, roster'[k] # None
               PROVE  roster'[k].addr = ""
    BY <1>2 DEF NotListed
  <2>1. k = identity.key
    BY <1>1, <1>8 DEF NoGhost
  <2>2. addr = ""
    BY <1>1, <1>6 DEF MayListen, Stacked
  <2> QED
    BY <1>4, <1>8, <2>1, <2>2
<1> QED
  BY <1>9, <1>10, <1>12, <1>13, <1>14, <1>15, <1>16 DEF PeerInv

\* A reset that is answered.
LEMMA RemovedKeeps ==
  ASSUME TidyCrews, PeerInv, NEW p \in All, Request(p), pr[p].op = "reset"
  PROVE  PeerInv'
<1> DEFINE key == pr[p].id.key
<1>1. /\ PeerTyped /\ Busy(p) /\ Stacked(p) /\ Own(p) /\ Current /\ NoTrace /\ NoGhost
      /\ pr[p].pc = "request" /\ Commands /\ NotListed
  BY DEF PeerInv, Commands, Busy, Request
<1>2. /\ UNCHANGED <<crew, identity, cache, lock, kills, losses, moves>>
      /\ roster' = [roster EXCEPT ![key] = None]
      /\ pr' = [pr EXCEPT ![p].pc = "answer", ![p].ok = (roster[key] # None)]
  BY DEF Request, Budgets, Ask, clientRemove
<1>3. key \in Keys /\ key = identity.key /\ identity # None
  BY <1>1 DEF Stacked, Own, Identities
<1>4. pr' \in [All -> Stacks]
  <2>1. [pr[p] EXCEPT !.pc = "answer", !.ok = TRUE] \in Stacks
    BY <1>1 DEF PeerTyped, Stacks
  <2>2. [pr[p] EXCEPT !.pc = "answer", !.ok = FALSE] \in Stacks
    BY <1>1 DEF PeerTyped, Stacks
  <2>3. [pr[p] EXCEPT !.pc = "answer", !.ok = (roster[key] # None)] \in Stacks
    <3>1. (roster[key] # None) = TRUE \/ (roster[key] # None) = FALSE
      OBVIOUS
    <3> QED
      BY <2>1, <2>2, <3>1, Zenon
  <2> QED
    BY <1>1, <1>2, <2>3 DEF PeerTyped
<1>5. /\ pr'[p].op = pr[p].op /\ pr'[p].id = pr[p].id /\ pr'[p].created = pr[p].created
      /\ pr'[p].pc = "answer" /\ \A q \in All \ {p} : pr'[q] = pr[q]
  BY <1>1, <1>2 DEF PeerTyped, Stacks
<1>6. /\ roster' \in [Keys -> Entries \cup {None}] /\ roster'[key] = None
      /\ \A k \in Keys : k # key => roster'[k] = roster[k]
  BY <1>1, <1>2, <1>3 DEF PeerTyped
<1>7. PeerTyped'
  BY <1>1, <1>2, <1>4, <1>6 DEF PeerTyped
<1>8. Current'
  BY <1>1, <1>2, <1>5 DEF Current
<1>9. \A q \in All \ {p} : ~Busy(q)
  BY <1>1, SideBySide
<1>10. Commands'
  <2>1. Stacked(p)' /\ Own(p)'
    BY <1>1, <1>2, <1>5 DEF Stacked, Own
  <2> QED
    BY <1>5, <1>9, <2>1 DEF Commands, Busy
<1>11. NoGhost'
  BY <1>1, <1>2, <1>6 DEF NoGhost
<1>12. NoTrace'
  BY <1>5, <1>6, <1>9 DEF NoTrace, Busy
<1>13. OneName'
  BY <1>2, <1>3, <1>6 DEF OneName
<1>14. NotListed'
  <2>1. p # Listener
    BY <1>1 DEF Stacked
  <2>2. MayListen => MayListen'
    BY <1>5, <2>1 DEF MayListen, All
  <2> QED
    BY <1>1, <1>2, <1>6, <2>2 DEF NotListed
<1> QED
  BY <1>7, <1>8, <1>10, <1>11, <1>12, <1>13, <1>14 DEF PeerInv

\* Whatever the stash answers.
LEMMA RequestKeeps ==
  ASSUME TidyCrews, PeerInv, NEW p \in All, Request(p)
  PROVE  PeerInv'
<1>1. pr[p].op \in {"join", "rename", "reset", "status", "listen", "unlisten"}
  BY DEF PeerInv, PeerTyped, Stacks
<1>2. CASE pr[p].op = "reset"
  BY <1>2, RemovedKeeps
<1>3. CASE pr[p].op = "status"
  <2>1. roster' = roster /\ pr' = [pr EXCEPT ![p].pc = "answer"]
    BY <1>3 DEF Request, Ask
  <2> QED
    BY <1>3, <2>1, RefusedKeeps
<1>4. ASSUME NEW addr \in {"", "up"}, addr = "up" => pr[p].op = "listen",
             joinReq(p, pr[p].id, addr), pr[p].op \in {"join", "rename", "listen", "unlisten"}
      PROVE  PeerInv'
  <2>1. CASE /\ Joined(pr[p].id, addr)
             /\ pr' = [pr EXCEPT ![p].pc = "answer", ![p].ok = TRUE]
    BY <1>4, <2>1, JoinedKeeps
  <2>2. CASE /\ ~Accepts(pr[p].id) /\ roster' = roster
             /\ pr' = [pr EXCEPT ![p].pc = "answer"]
    BY <2>2, RefusedKeeps
  <2> QED
    BY <1>4, <2>1, <2>2 DEF joinReq
<1>5. CASE pr[p].op = "listen"
  <2>1. joinReq(p, pr[p].id, "up")
    BY <1>5 DEF Request, Ask
  <2> QED
    BY <1>4, <1>5, <2>1
<1>6. CASE pr[p].op \in {"join", "rename", "unlisten"}
  <2>1. joinReq(p, pr[p].id, "")
    BY <1>6 DEF Request, Ask
  <2> QED
    BY <1>4, <1>6, <2>1
<1> QED
  BY <1>1, <1>2, <1>3, <1>5, <1>6

\* A rename that was answered saves the name it asked for.
LEMMA RenamedKeeps ==
  ASSUME TidyCrews, PeerInv, NEW p \in All, Finish(p), pr[p].op = "rename", pr[p].ok
  PROVE  PeerInv'
<1>1. /\ PeerTyped /\ Busy(p) /\ Stacked(p) /\ Own(p) /\ Current /\ NoTrace /\ NoGhost
      /\ Renamed(p) /\ Commands /\ NotListed /\ OneName /\ p # Listener
  BY DEF PeerInv, Commands, Busy, Finish, Renamed, Stacked
<1>2. /\ UNCHANGED <<crew, cache, roster, kills, losses, moves>> /\ lock' = Unlocked(p)
      /\ identity' = pr[p].id /\ pr' = [pr EXCEPT ![p] = Idle]
  <2>1. ~(pr[p].op = "reset" \/ (pr[p].created /\ ~pr[p].ok))
    OBVIOUS
  <2> QED
    BY <2>1 DEF Finish, Budgets
<1>3. Idle \in Stacks /\ Idle.pc = "idle" /\ Idle.id = None
  BY DEF Idle, Stacks
<1>4. /\ pr'[p] = Idle /\ \A q \in All \ {p} : pr'[q] = pr[q]
      /\ pr' \in [All -> Stacks]
  BY <1>1, <1>2, <1>3 DEF PeerTyped
<1>5. /\ identity # None /\ identity' # None /\ identity'.key = identity.key
      /\ identity' \in Identities /\ identity'.key \in Keys
  <2>1. pr[p].id \in Identities /\ pr[p].id.key = identity.key /\ identity # None
    BY <1>1 DEF Stacked, Own
  <2>2. None \notin Identities
    BY DEF TidyCrews
  <2>3. pr[p].id.key \in Keys
    BY <2>1 DEF Identities
  <2> QED
    BY <1>2, <2>1, <2>2, <2>3
<1>6. PeerTyped'
  BY <1>1, <1>2, <1>4, <1>5 DEF PeerTyped
<1>7. Current'
  BY <1>1, <1>2, <1>3, <1>4, <1>5 DEF Current
<1>8. Commands'
  <2> SUFFICES ASSUME NEW q \in All, Busy(q)' PROVE Stacked(q)' /\ Own(q)'
    BY DEF Commands
  <2>1. q # p /\ pr'[q] = pr[q] /\ Busy(q)
    BY <1>3, <1>4 DEF Busy
  <2>2. Stacked(q) /\ Own(q) /\ pr[q].op \in {"rename", "status"}
    BY <1>1, <2>1, SideBySide DEF Commands
  <2>3. Own(q)'
    BY <1>5, <2>1, <2>2 DEF Own
  <2>4. lock = q => lock' = q
    BY <1>2, <2>1 DEF Unlocked
  <2> QED
    BY <1>2, <2>1, <2>2, <2>3, <2>4 DEF Stacked
<1>9. NoGhost'
  BY <1>1, <1>2, <1>5 DEF NoGhost
<1>10. NoTrace'
  BY <1>1, <1>2, <1>3, <1>4 DEF NoTrace, Busy, Leaves
<1>11. OneName'
  <2>1. \A q \in All : ~Renamed(q)'
    <3>1. \A q \in All \ {p} : ~Renamed(q)
      BY <1>1, OneRename DEF Renamed
    <3> QED
      BY <1>3, <1>4, <3>1 DEF Renamed
  <2>2. kills = 0 /\ losses = 0 /\ roster[identity.key] # None =>
          roster[identity.key].name = pr[p].id.name
    BY <1>1, <1>5 DEF OneName
  <2> QED
    BY <1>2, <1>5, <2>1, <2>2 DEF OneName
<1>12. NotListed'
  BY <1>1, <1>2, <1>4 DEF NotListed, MayListen, All
<1> QED
  BY <1>6, <1>7, <1>8, <1>9, <1>10, <1>11, <1>12 DEF PeerInv

\* The identity is deleted.
LEMMA WipeKeeps ==
  ASSUME TidyCrews, PeerInv, NEW p \in All, resetPeer(p)
  PROVE  PeerInv'
<1>1. /\ PeerTyped /\ Busy(p) /\ Stacked(p) /\ Own(p) /\ Current /\ NoTrace /\ NoGhost
      /\ Commands /\ NotListed /\ p # Listener
  BY DEF PeerInv, Commands, Busy, resetPeer, Stacked
<1>2. /\ UNCHANGED <<crew, roster, lock, kills, losses, moves>> /\ pr[p].pc = "wipe"
      /\ identity' = None /\ cache' = "none" /\ pr' = [pr EXCEPT ![p] = Idle]
  BY DEF resetPeer, Budgets
<1>3. Idle \in Stacks /\ Idle.pc = "idle" /\ Idle.id = None
  BY DEF Idle, Stacks
<1>4. /\ pr'[p] = Idle /\ \A q \in All \ {p} : pr'[q] = pr[q]
      /\ pr' \in [All -> Stacks]
  BY <1>1, <1>2, <1>3 DEF PeerTyped
<1>5. \A q \in All : ~Busy(q)'
  <2>1. \A q \in All \ {p} : ~Busy(q)
    BY <1>1, <1>2, SideBySide
  <2> QED
    BY <1>3, <1>4, <2>1 DEF Busy
<1>6. PeerTyped'
  BY <1>1, <1>2, <1>4 DEF PeerTyped
<1>7. Current'
  BY <1>1, <1>2, <1>3, <1>4 DEF Current
<1>8. NoGhost'
  <2>1. losses = 0 => roster[pr[p].id.key] = None /\ pr[p].id.key = identity.key
    BY <1>1, <1>2 DEF NoTrace, Leaves, Stacked, Own
  <2> QED
    BY <1>1, <1>2, <2>1 DEF NoGhost
<1>9. NotListed'
  BY <1>1, <1>2, <1>4 DEF NotListed, MayListen, All
<1> QED
  BY <1>2, <1>5, <1>6, <1>7, <1>8, <1>9 DEF PeerInv, Commands, NoTrace, OneName

\* The first join makes an identity with a key of its own.
LEMMA CreateKeeps ==
  ASSUME TidyCrews, PeerInv, NEW p \in crew.who, p \in All, p # Listener, "join" \in crew.ops,
         Create(p), UNCHANGED <<crew, lock, roster, codes, Budgets>>
  PROVE  PeerInv'
<1>1. PeerTyped /\ Current /\ NoGhost /\ NotListed /\ identity = None
  BY DEF PeerInv, Create
<1>2. PICK k \in Keys, n \in Names, r \in resolvedStash("raw") :
        LET id == [name |-> n, key |-> k, addr |-> "raw", baked |-> FALSE] IN
        /\ identity' = id /\ cache' = r[2]
        /\ pr' = [pr EXCEPT ![p] = [Idle EXCEPT !.op = "join", !.pc = "lock", !.created = TRUE,
                                                !.id = [id EXCEPT !.addr = r[1]]]]
  BY DEF Create
<1> DEFINE id == [name |-> n, key |-> k, addr |-> "raw", baked |-> FALSE]
           read == [id EXCEPT !.addr = r[1]]
           stack == [Idle EXCEPT !.op = "join", !.pc = "lock", !.created = TRUE, !.id = read]
<1>3. /\ r[1] \in {"raw", "resolved", "stale"} /\ r[2] \in {"none", "resolved", "stale"}
      /\ crew.moves = 0 => r[1] # "stale" /\ r[2] # "stale"
  BY <1>1 DEF resolvedStash, PeerTyped, Current
<1>4. id \in Identities /\ id.key = k /\ id.name = n /\ id.addr = "raw"
  BY DEF Identities
<1>5. identity' = id /\ cache' = r[2] /\ pr' = [pr EXCEPT ![p] = stack]
  BY <1>2
<1> HIDE DEF id
<1>6. read \in Identities /\ read.key = k /\ read.name = n /\ read.addr = r[1]
  BY <1>3, <1>4 DEF Identities
<1> HIDE DEF read
<1>7. None \notin Identities
  BY DEF TidyCrews
<1>8. Idle \in Stacks /\ ~Idle.ok
  BY DEF Idle, Stacks
<1>9. /\ stack \in Stacks /\ stack.pc = "lock" /\ stack.op = "join" /\ stack.id = read
      /\ stack.created /\ ~stack.ok
  BY <1>6, <1>8 DEF Stacks
<1> HIDE DEF stack
<1>10. /\ pr' \in [All -> Stacks] /\ \A q \in All \ {p} : pr'[q] = pr[q]
       /\ pr'[p].pc = "lock" /\ pr'[p].op = "join" /\ pr'[p].id = read /\ pr'[p].created
       /\ ~pr'[p].ok
  BY <1>1, <1>5, <1>9 DEF PeerTyped
<1>11. \A q \in All \ {p} : ~Busy(q) /\ ~Busy(q)'
  BY <1>1, <1>10 DEF PeerInv, Commands, Own, Busy
<1>12. UNCHANGED <<kills, losses, moves>>
  BY DEF Budgets
<1>13. PeerTyped'
  BY <1>1, <1>3, <1>4, <1>5, <1>10, <1>12 DEF PeerTyped
<1>14. Current'
  BY <1>1, <1>3, <1>4, <1>5, <1>6, <1>10 DEF Current
<1>15. Commands'
  <2>1. Stacked(p)'
    BY <1>6, <1>10 DEF Stacked
  <2>2. Own(p)'
    BY <1>4, <1>5, <1>6, <1>7, <1>10 DEF Own
  <2> QED
    BY <1>11, <2>1, <2>2 DEF Commands
<1>16. losses = 0 => \A q \in Keys : roster[q] = None
  BY <1>1 DEF NoGhost
<1>17. NoGhost' /\ OneName' /\ NotListed'
  <2>1. identity'.key \in Keys
    BY <1>4, <1>5
  <2> QED
    BY <1>12, <1>16, <2>1 DEF NoGhost, OneName, NotListed
<1>18. NoTrace'
  <2>1. pr'[p].id.key \in Keys
    BY <1>6, <1>10
  <2> QED
    BY <1>11, <1>12, <1>16, <2>1 DEF NoTrace
<1> QED
  BY <1>13, <1>14, <1>15, <1>17, <1>18 DEF PeerInv

\* The listener saves the identity it read with its address in it.
LEMMA BakeKeeps ==
  ASSUME TidyCrews, PeerInv, Listener \in All, ensureListenerIdentity
  PROVE  PeerInv'
<1> DEFINE p == Listener
           id == [pr[p].id EXCEPT !.baked = TRUE]
<1>1. /\ PeerTyped /\ Busy(p) /\ Stacked(p) /\ Own(p) /\ Current /\ NoTrace /\ NoGhost
      /\ Commands /\ NotListed /\ OneName /\ pr[p].pc = "bake"
  BY DEF PeerInv, Commands, Busy, ensureListenerIdentity
<1>2. /\ UNCHANGED <<crew, cache, roster, lock, kills, losses, moves>>
      /\ identity' = IF pr[p].id.baked THEN identity ELSE id
      /\ pr' = [pr EXCEPT ![p].id = id, ![p].pc = "dial"]
  BY DEF ensureListenerIdentity, Budgets
<1>3. pr[p].id \in Identities /\ pr[p] \in Stacks /\ pr[p].op = "listen" /\ identity # None
      /\ pr[p].id.key = identity.key /\ pr[p].id.name = identity.name /\ identity \in Identities
  BY <1>1 DEF Stacked, Own, PeerTyped
<1>4. /\ id \in Identities /\ id.key = identity.key /\ id.name = identity.name
      /\ id.addr = pr[p].id.addr
  BY <1>3 DEF Identities
<1>5. None \notin Identities
  BY DEF TidyCrews
<1> HIDE DEF id
<1>6. /\ identity' \in Identities /\ identity' # None
      /\ identity'.key = identity.key /\ identity'.name = identity.name
      /\ identity'.addr \in {identity.addr, pr[p].id.addr}
  BY <1>2, <1>3, <1>4, <1>5
<1>7. /\ pr' \in [All -> Stacks] /\ pr'[p].pc = "dial" /\ pr'[p].op = pr[p].op
      /\ pr'[p].id = id /\ pr'[p].created = pr[p].created /\ pr'[p].ok = pr[p].ok
      /\ \A q \in All \ {p} : pr'[q] = pr[q]
  <2>1. [pr[p] EXCEPT !.id = id, !.pc = "dial"] \in Stacks
    BY <1>3, <1>4 DEF Stacks
  <2>2. pr' \in [All -> Stacks] /\ \A q \in All \ {p} : pr'[q] = pr[q]
    BY <1>1, <1>2, <2>1 DEF PeerTyped
  <2>3. pr'[p] = [pr[p] EXCEPT !.id = id, !.pc = "dial"]
    BY <1>1, <1>2 DEF PeerTyped
  <2> QED
    BY <1>3, <2>2, <2>3 DEF Stacks
<1>8. PeerTyped'
  BY <1>1, <1>2, <1>6, <1>7 DEF PeerTyped
<1>9. Current'
  BY <1>1, <1>2, <1>3, <1>4, <1>5, <1>6, <1>7 DEF Current
<1>10. Commands'
  <2>1. Stacked(p)' /\ Own(p)'
    BY <1>1, <1>2, <1>3, <1>4, <1>6, <1>7 DEF Stacked, Own
  <2>2. ASSUME NEW q \in All \ {p}, Busy(q)' PROVE Stacked(q)' /\ Own(q)'
    <3>1. Stacked(q) /\ Own(q) /\ pr'[q] = pr[q]
      BY <1>1, <1>7, <2>2 DEF Commands, Busy
    <3> QED
      BY <1>2, <1>6, <3>1 DEF Stacked, Own
  <2> QED
    BY <2>1, <2>2 DEF Commands
<1>11. NoGhost'
  BY <1>1, <1>2, <1>6 DEF NoGhost
<1>12. NoTrace'
  <2>1. ~Leaves(p)'
    BY <1>1, <1>3, <1>7 DEF Leaves, Stacked
  <2> QED
    BY <1>1, <1>2, <1>7, <2>1 DEF NoTrace, Busy, Leaves
<1>13. OneName'
  <2>1. \A q \in All : Renamed(q)' <=> Renamed(q)
    BY <1>1, <1>7 DEF Renamed
  <2>2. \A q \in All : Renamed(q) => pr'[q] = pr[q]
    BY <1>1, <1>7 DEF Renamed
  <2> QED
    BY <1>1, <1>2, <1>3, <1>6, <2>1, <2>2 DEF OneName
<1>14. NotListed'
  BY <1>1, <1>2 DEF NotListed, MayListen
<1> QED
  BY <1>8, <1>9, <1>10, <1>11, <1>12, <1>13, <1>14 DEF PeerInv

\* The relay moves: addresses go stale, and nothing else changes.
LEMMA MoveKeeps ==
  ASSUME TidyCrews, PeerInv, RelayMoves
  PROVE  PeerInv'
<1>1. PeerTyped /\ NoTrace /\ NoGhost /\ Commands /\ NotListed /\ OneName
  BY DEF PeerInv
<1>2. /\ UNCHANGED <<crew, lock, roster, kills, losses>> /\ moves' = moves + 1
      /\ moves < crew.moves /\ cache' = Moved(cache)
      /\ identity' = IF identity = None THEN None ELSE [identity EXCEPT !.addr = Moved(@)]
      /\ pr' = [p \in All |-> IF pr[p].id = None THEN pr[p]
                              ELSE [pr[p] EXCEPT !.id.addr = Moved(@)]]
  BY DEF RelayMoves
<1>3. None \notin Identities
  BY DEF TidyCrews
<1>4. ASSUME NEW i \in Identities
      PROVE  /\ [i EXCEPT !.addr = Moved(@)] \in Identities
             /\ [i EXCEPT !.addr = Moved(@)].key = i.key
             /\ [i EXCEPT !.addr = Moved(@)].name = i.name
  BY DEF Identities, Moved
<1>5. /\ identity' \in Identities \cup {None} /\ (identity' = None <=> identity = None)
      /\ identity # None => identity'.key = identity.key /\ identity'.name = identity.name
  BY <1>1, <1>2, <1>3, <1>4 DEF PeerTyped
<1>6. ASSUME NEW p \in All
      PROVE  /\ pr'[p] \in Stacks /\ pr'[p].pc = pr[p].pc /\ pr'[p].op = pr[p].op
             /\ pr'[p].created = pr[p].created /\ pr'[p].ok = pr[p].ok
             /\ pr[p].id \in Identities => /\ pr'[p].id \in Identities
                                           /\ pr'[p].id.key = pr[p].id.key
                                           /\ pr'[p].id.name = pr[p].id.name
  <2>1. pr[p] \in Stacks
    BY <1>1 DEF PeerTyped
  <2>2. CASE pr[p].id = None
    BY <1>2, <1>3, <2>1, <2>2
  <2>3. CASE pr[p].id # None
    <3> DEFINE i == [pr[p].id EXCEPT !.addr = Moved(@)]
    <3>1. pr[p].id \in Identities
      BY <2>1, <2>3 DEF Stacks
    <3>2. i \in Identities /\ i.key = pr[p].id.key /\ i.name = pr[p].id.name
      BY <1>4, <3>1
    <3>3. pr'[p] = [pr[p] EXCEPT !.id = i]
      BY <1>2, <2>1, <2>3
    <3> HIDE DEF i
    <3> QED
      BY <2>1, <3>2, <3>3 DEF Stacks
  <2> QED
    BY <2>2, <2>3
<1>7. PeerTyped'
  <2>1. cache' \in {"none", "resolved", "stale"} /\ moves' \in Nat
    BY <1>1, <1>2 DEF PeerTyped, Moved
  <2>2. pr' \in [All -> Stacks]
    BY <1>2, <1>6
  <2> QED
    BY <1>1, <1>2, <1>5, <2>1, <2>2 DEF PeerTyped
<1>8. Current'
  <2>1. crew.moves \in Nat /\ moves \in Nat
    BY <1>1 DEF PeerTyped, TidyCrews, Tidy
  <2> QED
    BY <1>2, <2>1 DEF Current
<1>9. \A p \in All : /\ Busy(p)' <=> Busy(p)
                     /\ Renamed(p)' <=> Renamed(p)
                     /\ Leaves(p)' <=> Leaves(p)
  BY <1>6 DEF Busy, Renamed, Leaves
<1>10. Commands'
  <2> SUFFICES ASSUME NEW p \in All, Busy(p)' PROVE Stacked(p)' /\ Own(p)'
    BY DEF Commands
  <2>1. Stacked(p) /\ Own(p)
    BY <1>1, <1>9 DEF Commands
  <2>2. pr[p].id \in Identities
    BY <2>1 DEF Stacked
  <2> QED
    BY <1>2, <1>5, <1>6, <2>1, <2>2 DEF Stacked, Own
<1>11. NoGhost'
  BY <1>1, <1>2, <1>5 DEF NoGhost
<1>12. \A p \in All : Busy(p) => /\ pr'[p].id.key = pr[p].id.key
                                 /\ pr'[p].id.name = pr[p].id.name
  BY <1>1, <1>6 DEF Commands, Stacked
<1>13. NoTrace'
  BY <1>1, <1>2, <1>9, <1>12 DEF NoTrace
<1>14. OneName'
  <2>1. \A p \in All : Renamed(p) => Busy(p)
    BY DEF Renamed, Busy
  <2> QED
    BY <1>1, <1>2, <1>5, <1>9, <1>12, <2>1 DEF OneName
<1>15. NotListed'
  BY <1>1, <1>2, <1>6 DEF NotListed, MayListen, All
<1> QED
  BY <1>7, <1>8, <1>10, <1>11, <1>13, <1>14, <1>15 DEF PeerInv

\* Every step keeps the invariant.
LEMMA PeerNext == ASSUME TidyCrews, PeerInv, [Next]_vars PROVE PeerInv'
<1>1. crew \in Crews /\ crew.who \subseteq All /\ Listener \in All /\ Commands
  BY DEF PeerInv, PeerTyped, TidyCrews, Tidy, All
<1>2. ASSUME NEW p \in crew.who, Start(p) PROVE PeerInv'
  <2>1. PICK op \in crew.ops : /\ (op = "listen") <=> (p = Listener)
                               /\ Load(p, op) \/ (op = "join" /\ Create(p))
    BY <1>2 DEF Start
  <2>2. pr[p].pc = "idle" /\ UNCHANGED <<crew, lock, roster, codes, Budgets>> /\ p \in All
    BY <1>1, <1>2 DEF Start
  <2>3. CASE Load(p, op)
    BY <2>1, <2>2, <2>3, LoadKeeps
  <2>4. CASE op = "join" /\ Create(p)
    BY <2>1, <2>2, <2>4, CreateKeeps
  <2> QED
    BY <2>1, <2>3, <2>4
<1>3. ASSUME NEW p \in crew.who, Finish(p) PROVE PeerInv'
  BY <1>1, <1>3, EndKeeps, RenamedKeeps
<1>4. ASSUME NEW p \in crew.who,
             \/ lockPeer(p) \/ clientConn(p) \/ Unreachable(p) \/ Request(p)
             \/ AnswerLost(p) \/ resetPeer(p) \/ Kill(p)
      PROVE  PeerInv'
  <2>1. p \in All
    BY <1>1
  <2>2. CASE lockPeer(p) \/ clientConn(p)
    BY <2>1, <2>2, GoesOn
  <2>3. CASE Unreachable(p) \/ AnswerLost(p)
    BY <2>1, <2>3, GoesWrong
  <2>4. CASE Request(p)
    BY <2>1, <2>4, RequestKeeps
  <2>5. CASE resetPeer(p)
    BY <2>1, <2>5, WipeKeeps
  <2>6. CASE Kill(p)
    <3>1. ~Finish(p)
      BY <2>6 DEF PeerInv, PeerTyped, Kill, Finish, Budgets
    <3> QED
      BY <2>1, <2>6, <3>1, EndKeeps
  <2> QED
    BY <1>4, <2>2, <2>3, <2>4, <2>5, <2>6
<1>5. CASE ensureListenerIdentity
  BY <1>1, <1>5, BakeKeeps
<1>6. CASE Listening \/ Shutdown
  BY <1>1, <1>6, ListenerKeeps
<1>7. CASE RelayMoves
  BY <1>7, MoveKeeps
<1>8. CASE UNCHANGED vars
  BY <1>8 DEF PeerInv, PeerTyped, Current, Commands, NoGhost, NoTrace, OneName, NotListed,
              Busy, Stacked, Own, Leaves, Renamed, MayListen, vars
<1> QED
  BY <1>2, <1>3, <1>4, <1>5, <1>6, <1>7, <1>8 DEF Next

-----------------------------------------------------------------------------
(***************************************************************************)
(* The theorems                                                            *)
(***************************************************************************)

\* The inductive invariant holds: what is on a command's stack is what the
\* machine goes by, and only the holder of client.lock acts on it.
THEOREM PeerInvariance == ASSUME TidyCrews PROVE Spec => []PeerInv
<1>1. Init => PeerInv
  BY PeerInit
<1>2. PeerInv /\ [Next]_vars => PeerInv'
  BY PeerNext
<1> QED
  BY <1>1, <1>2, PTL DEF Spec

\* While no answer is lost, whatever entry the stash has of this machine belongs
\* to the identity on disk, wherever a command was killed.
THEOREM NoGhostSurvives == ASSUME TidyCrews PROVE Spec => []NoGhost
<1>1. PeerInv => NoGhost
  BY DEF PeerInv
<1> QED
  BY PeerInvariance, <1>1, PTL

\* Once its commands are over the machine goes by the name the stash has for it.
THEOREM MachineAndStashAgree == ASSUME TidyCrews PROVE Spec => []NamesAgree
<1>1. PeerInv => NamesAgree
  BY DEF PeerInv, OneName, Renamed, NamesAgree
<1> QED
  BY PeerInvariance, <1>1, PTL

\* A listener that is over, and was not killed, is not listed as reachable.
THEOREM ListenerIsWithdrawn == ASSUME TidyCrews PROVE Spec => []Withdrawn
<1>1. PeerInv => Withdrawn
  BY DEF PeerInv, NotListed, MayListen, Withdrawn
<1> QED
  BY PeerInvariance, <1>1, PTL

=============================================================================
