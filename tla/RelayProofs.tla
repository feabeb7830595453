----------------------------- MODULE RelayProofs -----------------------------
(***************************************************************************)
(* For any requests, routes, windows, clock and number of restarts, no two *)
(* conversations of one process for one key begin within its window.  The  *)
(* argument: last[k] never goes back while a process lives, and is at      *)
(* least the time of every conversation it began for k.                    *)
(***************************************************************************)
EXTENDS Programs, TLAPS

Routed == (DOMAIN Window) \X (Alerts \cup {Keyless})

Pending == [at : {"arrived", "timed", "accepted"}, route : DOMAIN Window,
            key : Alerts \cup {Keyless}, now : Nat]

Typed ==
    /\ clock \in Nat /\ boot \in Nat
    /\ last \in [DOMAIN last -> Nat]
    /\ hook \in [Hooks -> Pending \cup {Relay!Ended}]
    /\ begun \subseteq [key : Routed, at : Nat, boot : Nat, by : Hooks]

\* What a process has begun is within what it remembers, and no later.
Remembered == \A a \in begun :
    /\ a.boot <= boot
    /\ a.boot = boot => a.key \in DOMAIN last /\ a.at <= last[a.key]

RelayInv == Typed /\ Remembered /\ Relay!Apart

LEMMA InitTyped == Relay!Init => RelayInv
  BY DEF Relay!Init, RelayInv, Typed, Remembered, Relay!Apart, Relay!Ended

\* claim is the only step that begins a conversation: when its key was claimed
\* before, the time it read is a window later than the last claim.
LEMMA ClaimKeeps ==
  ASSUME Window \in [DOMAIN Window -> Nat], RelayInv,
         NEW h \in Hooks, Relay!claim(h)
  PROVE  RelayInv'
<1> DEFINE k == <<hook[h].route, hook[h].key>>
           new == [key |-> k, at |-> hook[h].now, boot |-> boot, by |-> h]
<1>1. hook[h] \in Pending
  BY DEF Relay!claim, RelayInv, Typed, Relay!Ended
<1>2. k \in Routed /\ hook[h].now \in Nat /\ k[1] = hook[h].route /\ Window[k[1]] \in Nat
  <2>1. /\ hook[h].route \in DOMAIN Window /\ hook[h].key \in Alerts \cup {Keyless}
        /\ hook[h].now \in Nat
    BY <1>1 DEF Pending
  <2>2. Window[hook[h].route] \in Nat
    BY <2>1
  <2>3. k[1] = hook[h].route
    OBVIOUS
  <2>4. k \in Routed
    BY <2>1 DEF Routed
  <2> HIDE DEF k
  <2> QED
    BY <2>1, <2>2, <2>3, <2>4
<1>3. CASE Relay!Elapsed(k, hook[h].now, Window[hook[h].route])
  <2>1. /\ last' = [j \in DOMAIN last \cup {k} |-> IF j = k THEN hook[h].now ELSE last[j]]
        /\ hook' = [hook EXCEPT ![h].at = "accepted"]
        /\ begun' = begun \cup {new}
        /\ UNCHANGED <<clock, boot>>
    BY <1>3 DEF Relay!claim
  <2>2. new \in [key : Routed, at : Nat, boot : Nat, by : Hooks]
    BY <1>2 DEF RelayInv, Typed
  <2>3. hook' \in [Hooks -> Pending \cup {Relay!Ended}]
    <3>1. [hook[h] EXCEPT !.at = "accepted"] \in Pending
      BY <1>1 DEF Pending
    <3> QED
      BY <2>1, <3>1 DEF RelayInv, Typed
  <2>4. DOMAIN last' = DOMAIN last \cup {k} /\ last'[k] = hook[h].now
    BY <2>1
  <2>5. \A j \in DOMAIN last : j # k => last'[j] = last[j]
    BY <2>1
  <2>6. last' \in [DOMAIN last' -> Nat]
    <3>1. \A j \in DOMAIN last \cup {k} :
            (IF j = k THEN hook[h].now ELSE last[j]) \in Nat
      BY <1>2 DEF RelayInv, Typed
    <3> QED
      BY <2>1, <2>4, <3>1
  <2>7. Typed'
    BY <2>1, <2>2, <2>3, <2>6 DEF RelayInv, Typed
  <2>8. k \in DOMAIN last => hook[h].now >= last[k] + Window[k[1]]
    BY <1>2, <1>3 DEF Relay!Elapsed
  <2>9. ASSUME NEW a \in begun, a.boot = boot, a.key = k
        PROVE  hook[h].now >= a.at + Window[k[1]]
    <3>1. k \in DOMAIN last /\ a.at <= last[k] /\ a.at \in Nat /\ last[k] \in Nat
      BY <2>9 DEF RelayInv, Typed, Remembered
    <3> QED
      BY <2>8, <3>1, <1>2
  <2>10. Remembered'
    <3> SUFFICES ASSUME NEW a \in begun'
                 PROVE  /\ a.boot <= boot
                        /\ a.boot = boot => a.key \in DOMAIN last' /\ a.at <= last'[a.key]
      BY <2>1 DEF Remembered
    <3>1. CASE a = new
      BY <3>1, <2>4, <1>2 DEF RelayInv, Typed
    <3>2. CASE a \in begun /\ a.key = k
      <4>1. a.at \in Nat /\ a.boot <= boot
        BY <3>2 DEF RelayInv, Typed, Remembered
      <4> QED
        BY <3>2, <4>1, <2>4, <2>9, <1>2
    <3>3. CASE a \in begun /\ a.key # k
      BY <3>3, <2>4, <2>5 DEF RelayInv, Remembered
    <3> QED
      BY <2>1, <3>1, <3>2, <3>3
  <2>11. Relay!Apart'
    <3> SUFFICES ASSUME NEW a \in begun', NEW b \in begun', a # b, a.key = b.key, a.boot = b.boot
                 PROVE  a.at >= b.at + Window[a.key[1]] \/ b.at >= a.at + Window[a.key[1]]
      BY DEF Relay!Apart
    <3>1. CASE a = new /\ b \in begun
      BY <3>1, <2>9
    <3>2. CASE b = new /\ a \in begun
      BY <3>2, <2>9
    <3>3. CASE a \in begun /\ b \in begun
      BY <3>3 DEF RelayInv, Relay!Apart
    <3> QED
      BY <2>1, <3>1, <3>2, <3>3
  <2> QED
    BY <2>7, <2>10, <2>11 DEF RelayInv
<1>4. CASE ~Relay!Elapsed(k, hook[h].now, Window[hook[h].route])
  <2>1. hook' = [hook EXCEPT ![h] = Relay!Ended] /\ UNCHANGED <<last, begun, clock, boot>>
    BY <1>4 DEF Relay!claim
  <2> QED
    BY <2>1 DEF RelayInv, Typed, Remembered, Relay!Apart
<1> QED
  BY <1>3, <1>4

\* A restart forgets the claims, and what was begun before it is of an older boot.
LEMMA RestartKeeps ==
  ASSUME RelayInv, Relay!Restart
  PROVE  RelayInv'
<1>1. Typed'
  BY DEF RelayInv, Typed, Relay!Restart
<1>2. Remembered'
  <2> SUFFICES ASSUME NEW a \in begun
               PROVE  a.boot <= boot + 1 /\ a.boot # boot + 1
    BY DEF Remembered, Relay!Restart
  <2> QED
    BY DEF RelayInv, Typed, Remembered
<1>3. Relay!Apart'
  BY DEF RelayInv, Relay!Apart, Relay!Restart
<1> QED
  BY <1>1, <1>2, <1>3 DEF RelayInv

LEMMA OthersKeep ==
  ASSUME RelayInv,
         Relay!Tick \/ UNCHANGED (Relay!vars)
         \/ \E h \in Hooks : Relay!jsonPath(h) \/ Relay!Conversation(h)
                            \/ \E m \in Relay!Arrived : Relay!Post(h, m)
  PROVE  RelayInv'
<1>1. UNCHANGED <<last, begun, boot>> /\ clock' \in Nat
  <2>1. clock \in Nat
    BY DEF RelayInv, Typed
  <2>2. CASE Relay!Tick
    BY <2>1, <2>2 DEF Relay!Tick
  <2>3. CASE UNCHANGED (Relay!vars)
    BY <2>1, <2>3 DEF Relay!vars
  <2>4. ASSUME NEW h \in Hooks, Relay!jsonPath(h) \/ Relay!Conversation(h)
                            \/ \E m \in Relay!Arrived : Relay!Post(h, m)
        PROVE  UNCHANGED <<last, begun, boot>> /\ clock' \in Nat
    BY <2>1, <2>4 DEF Relay!jsonPath, Relay!Conversation, Relay!Post
  <2> QED
    BY <2>2, <2>3, <2>4
<1>2. hook' \in [Hooks -> Pending \cup {Relay!Ended}]
  <2>1. CASE Relay!Tick \/ UNCHANGED (Relay!vars)
    BY <2>1 DEF Relay!Tick, Relay!vars, RelayInv, Typed
  <2>2. ASSUME NEW h \in Hooks, Relay!jsonPath(h)
        PROVE  hook' \in [Hooks -> Pending \cup {Relay!Ended}]
    <3>1. hook[h] \in Pending
      BY <2>2 DEF Relay!jsonPath, RelayInv, Typed, Relay!Ended
    <3>2. PICK at \in {"timed", "accepted"} :
            hook' = [hook EXCEPT ![h] = [hook[h] EXCEPT !.at = at, !.now = clock]]
      BY <2>2, <3>1 DEF Relay!jsonPath, RelayInv, Typed, Pending
    <3>3. [hook[h] EXCEPT !.at = at, !.now = clock] \in Pending
      BY <3>1 DEF Pending, RelayInv, Typed
    <3> QED
      BY <3>2, <3>3 DEF RelayInv, Typed
  <2>3. ASSUME NEW h \in Hooks, Relay!Conversation(h)
        PROVE  hook' \in [Hooks -> Pending \cup {Relay!Ended}]
    BY <2>3 DEF Relay!Conversation, RelayInv, Typed
  <2>4. ASSUME NEW h \in Hooks, NEW m \in Relay!Arrived, Relay!Post(h, m)
        PROVE  hook' \in [Hooks -> Pending \cup {Relay!Ended}]
    BY <2>4 DEF Relay!Post, Relay!Arrived, Pending, RelayInv, Typed
  <2> QED
    BY <2>1, <2>2, <2>3, <2>4
<1> QED
  BY <1>1, <1>2 DEF RelayInv, Typed, Remembered, Relay!Apart

\* The inductive invariant of agent-relay's deduplication (relay.go:118-133).
THEOREM RelayInvariance ==
  ASSUME Window \in [DOMAIN Window -> Nat]
  PROVE  Relay!Spec => []RelayInv
<1>1. RelayInv /\ [Relay!Next]_(Relay!vars) => RelayInv'
  BY ClaimKeeps, RestartKeeps, OthersKeep DEF Relay!Next
<1> QED
  BY InitTyped, <1>1, PTL DEF Relay!Spec

\* However requests overtake each other, one process begins no two
\* conversations for a key within its window (relay.go:112-128).
THEOREM ConversationsStayApart ==
  ASSUME Window \in [DOMAIN Window -> Nat]
  PROVE  Relay!Spec => []Apart
<1>1. RelayInv => Apart
  BY DEF RelayInv, Apart
<1> QED
  BY RelayInvariance, <1>1, PTL
=============================================================================
