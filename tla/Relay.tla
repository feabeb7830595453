------------------------------- MODULE Relay -------------------------------
(***************************************************************************)
(* agent-relay: webhooks that start agent conversations.  Requests run     *)
(* side by side; one whose deduplication key was claimed less than a       *)
(* window ago is accepted and dropped.  A conversation is detached from    *)
(* its request and dies with the process.                                  *)
(***************************************************************************)
EXTENDS Naturals

CONSTANTS
    Hooks,      \* requests that may run at the same time
    Window,     \* route -> deduplication window, 0 for none
    Alerts,     \* values found at a route's dedup_key
    Keyless,    \* a payload without one: jsonPath finds no string
    MaxClock, MaxRestarts

VARIABLES
    clock,
    last,       \* <<route, key>> -> time of its last claim
    hook,       \* request -> where it is, its route and key, the time it read
    begun,      \* [key, at, boot, by] of every conversation begun under a key
    boot

vars == <<clock, last, hook, begun, boot>>

Arrived == [at : {"arrived"}, route : DOMAIN Window, key : Alerts \cup {Keyless}, now : {0}]
Ended == [at |-> "ended"]

Init ==
    /\ clock = 0 /\ last = [k \in {} |-> 0] /\ hook = [h \in Hooks |-> Ended]
    /\ begun = {} /\ boot = 0

Tick == clock < MaxClock /\ clock' = clock + 1 /\ UNCHANGED <<last, hook, begun, boot>>

\* A body that cannot be read, is no JSON or fits no prompt is refused.
Post(h, m) ==
    /\ hook[h].at = "ended"
    /\ hook' = [hook EXCEPT ![h] = m]
    /\ UNCHANGED <<clock, last, begun, boot>>

\* The time is read before the lock is taken.
jsonPath(h) ==
    /\ hook[h].at = "arrived"
    /\ LET keyed == Window[hook[h].route] > 0 /\ hook[h].key # Keyless IN
        hook' = [hook EXCEPT ![h].at = IF keyed THEN "timed" ELSE "accepted", ![h].now = clock]
    /\ UNCHANGED <<clock, last, begun, boot>>

\* now.Sub(t) < window, also when the claim that came first read a later time.
Elapsed_bug(k, now, window) == k \notin DOMAIN last \/ last[k] > now \/ now - last[k] >= window
Elapsed(k, now, window) == k \in DOMAIN last => now >= last[k] + window

claim(h) ==
    /\ hook[h].at = "timed"
    /\ LET k == <<hook[h].route, hook[h].key>> IN
        IF Elapsed(k, hook[h].now, Window[hook[h].route])
        THEN /\ last' = [j \in DOMAIN last \cup {k} |-> IF j = k THEN hook[h].now ELSE last[j]]
             /\ hook' = [hook EXCEPT ![h].at = "accepted"]
             /\ begun' = begun \cup {[key |-> k, at |-> hook[h].now, boot |-> boot, by |-> h]}
        ELSE hook' = [hook EXCEPT ![h] = Ended] /\ UNCHANGED <<last, begun>>
    /\ UNCHANGED <<clock, boot>>

\* It ends well, in an error or after ten minutes: the claim stays.
Conversation(h) ==
    /\ hook[h].at = "accepted"
    /\ hook' = [hook EXCEPT ![h] = Ended]
    /\ UNCHANGED <<clock, last, begun, boot>>

\* Shutdown waits for requests, not for conversations; claims are kept in memory.
Restart ==
    /\ boot < MaxRestarts /\ boot' = boot + 1
    /\ \A h \in Hooks : hook[h].at \in {"accepted", "ended"}
    /\ hook' = [h \in Hooks |-> Ended] /\ last' = [k \in {} |-> 0]
    /\ UNCHANGED <<clock, begun>>

Next ==
    \/ Tick \/ Restart
    \/ \E h \in Hooks : jsonPath(h) \/ claim(h) \/ Conversation(h) \/ \E m \in Arrived : Post(h, m)

Spec == Init /\ [][Next]_vars

(***************************************************************************)
(* Properties                                                              *)
(***************************************************************************)
\* However requests overtake each other between reading the time and taking the
\* lock, one process begins no two conversations for a key within its window
\* (relay.go:112-128).
Apart == \A a, b \in begun :
    a # b /\ a.key = b.key /\ a.boot = b.boot
        => a.at >= b.at + Window[a.key[1]] \/ b.at >= a.at + Window[a.key[1]]
=============================================================================
