------------------------------ MODULE Restore ------------------------------
(***************************************************************************)
(* cnpg-restore-test: a run restores every database cluster that has a     *)
(* backup beside the running ones, verifies it and deletes it again, as    *)
(* many at a time as the disks hold.  A run that is killed leaves what it  *)
(* made for the next one.  Cluster and object store names are distinct.    *)
(***************************************************************************)
EXTENDS Naturals, FiniteSets, FiniteSetsExt

CONSTANTS
    Clusters,
    Bytes,       \* cluster -> size of its volume
    Margin,      \* CapacityMargin, in tenths
    Free,        \* what Prometheus may report
    MaxRuns, MaxFaults

VARIABLES
    stage,       \* of the run: "idle", "restoring", "waited", "cleaning"
    opts,        \* [fixed: --concurrency or 0, free: bytes available]
    found, slots,
    task,        \* cluster -> where its goroutine is
    made,        \* cluster -> its restored Cluster: "none", "old" (an earlier run's), "new"
    store,       \* cluster -> its ObjectStore, likewise
    volume,      \* cluster -> whether its restored volume exists
    missed,      \* <<kind, cluster>> of a delete that failed though no signal cancelled it
    recorded,    \* clusters whose allResults entry is set
    verdict,     \* cluster -> [is, of]: the verification and what it looked at
    signalled, expired,
    exit,        \* how the last run ended
    runs, faults

jobVars == <<stage, opts, found, slots, task, recorded, verdict, signalled, expired, exit, runs,
             faults>>
objects == <<made, store, volume, missed>>
vars == <<jobVars, objects>>

Unverified == [is |-> "none", of |-> "none"]
Bounds == <<opts, found, slots, runs>>

Init ==
    /\ stage = "idle" /\ opts = [fixed |-> 0, free |-> 0] /\ found = {} /\ slots = 0
    /\ task = [c \in Clusters |-> "over"]
    /\ made = [c \in Clusters |-> "none"] /\ store = [c \in Clusters |-> "none"]
    /\ volume = [c \in Clusters |-> FALSE]
    /\ missed = {} /\ recorded = {} /\ verdict = [c \in Clusters |-> Unverified]
    /\ signalled = FALSE /\ expired = FALSE /\ exit = "none" /\ runs = 0 /\ faults = 0

(***************************************************************************)
(* Capacity                                                                *)
(***************************************************************************)
Total(S) == FoldSet(LAMBDA c, t : Bytes[c] + t, 0, S)
WithMargin(b) == (b * Margin) \div 10

\* What the n largest of the clusters need.
Needed_bug(C, n) == WithMargin(Min({Total(S) : S \in kSubset(n, C)}))
Needed(C, n) == WithMargin(Max({Total(S) : S \in kSubset(n, C)}))

\* A fixed concurrency fits or the run is refused; else the largest that fits.
computeMaxConcurrency(C, fixed, free) ==
    LET n == Cardinality(C)
        tried == IF fixed > 0 THEN {Min({fixed, n})} ELSE 1..n
    IN Max({0} \cup {k \in tried : Needed(C, k) <= free})

(***************************************************************************)
(* The run                                                                 *)
(***************************************************************************)
Aged(o) == [c \in Clusters |-> IF o[c] = "new" THEN "old" ELSE o[c]]

\* Discovery and the capacity check.  Nothing is made for no cluster, a dry run
\* or too little space.
Discover(C, o, dry) ==
    /\ stage = "idle" /\ runs < MaxRuns /\ runs' = runs + 1
    /\ opts' = o /\ found' = C
    /\ slots' = IF C = {} THEN 0 ELSE computeMaxConcurrency(C, o.fixed, o.free)
    /\ made' = Aged(made) /\ store' = Aged(store)
    /\ missed' = {} /\ recorded' = {} /\ verdict' = [c \in Clusters |-> Unverified]
    /\ signalled' = FALSE /\ expired' = FALSE
    /\ IF slots' = 0 \/ dry
       THEN /\ exit' = IF C = {} \/ slots' > 0 THEN "ok" ELSE "no space"
            /\ UNCHANGED <<stage, task>>
       ELSE /\ exit' = "none" /\ stage' = "restoring"
            /\ task' = [c \in Clusters |-> IF c \in C THEN "queued" ELSE "over"]
    /\ UNCHANGED <<volume, faults>>

\* The namespace cannot be made: the deferred cleanup finds no result.
NamespaceFails ==
    /\ stage = "restoring" /\ \A c \in found : task[c] = "queued"
    /\ signalled \/ faults < MaxFaults
    /\ faults' = IF signalled THEN faults ELSE faults + 1
    /\ stage' = "idle" /\ exit' = "error"
    /\ task' = [c \in Clusters |-> "over"]
    /\ UNCHANGED <<objects, Bounds, recorded, verdict, signalled, expired>>

Signal ==
    /\ stage # "idle" /\ ~signalled
    /\ signalled' = TRUE
    /\ UNCHANGED <<objects, Bounds, stage, task, recorded, verdict, expired, exit, faults>>

InFlight == {c \in found : task[c] \notin {"queued", "over"}}

(***************************************************************************)
(* One cluster: restore, verify, clean up                                  *)
(***************************************************************************)
Step(c, from, to) ==
    /\ stage = "restoring" /\ task[c] = from
    /\ task' = [task EXCEPT ![c] = to]
    /\ UNCHANGED <<Bounds, stage, signalled, expired, exit>>

GoTask(c) ==
    /\ Cardinality(InFlight) < slots
    /\ Step(c, "queued", "store")
    /\ UNCHANGED <<objects, recorded, verdict, faults>>

\* The object store of an earlier run is replaced.
createRestoreObjectStore(c) ==
    /\ ~signalled
    /\ Step(c, "store", "cluster")
    /\ store' = [store EXCEPT ![c] = "new"]
    /\ UNCHANGED <<made, volume, missed, recorded, verdict, faults>>

\* So is the cluster.
createRestoreCluster_bug(c) ==
    /\ ~signalled
    /\ Step(c, "cluster", "ready")
    /\ made' = [made EXCEPT ![c] = IF @ = "old" THEN "old" ELSE "new"]
    /\ volume' = [volume EXCEPT ![c] = TRUE]
    /\ UNCHANGED <<store, missed, recorded, verdict, faults>>
createRestoreCluster(c) ==
    /\ ~signalled
    /\ Step(c, "cluster", "ready")
    /\ made' = [made EXCEPT ![c] = "new"]
    /\ volume' = [volume EXCEPT ![c] = TRUE]
    /\ UNCHANGED <<store, missed, recorded, verdict, faults>>

\* Healthy, and its primary pod found.
waitForClusterReady(c) ==
    /\ ~signalled /\ made[c] # "none"
    /\ Step(c, "ready", "verify")
    /\ recorded' = recorded \cup {c}
    /\ UNCHANGED <<objects, verdict, faults>>

\* A step of restoreOne fails, what it was replacing perhaps gone.
RestoreFails(c) ==
    /\ task[c] \in {"store", "cluster", "ready"}
    /\ signalled \/ faults < MaxFaults
    /\ faults' = IF signalled THEN faults ELSE faults + 1
    /\ Step(c, task[c], "clean")
    /\ recorded' = recorded \cup {c}
    /\ verdict' = [verdict EXCEPT ![c] = [is |-> "skipped", of |-> "none"]]
    /\ \/ UNCHANGED objects
       \/ /\ task[c] = "store" /\ ~signalled /\ store[c] # "none"
          /\ store' = [store EXCEPT ![c] = "none"]
          /\ UNCHANGED <<made, volume, missed>>
       \/ /\ task[c] = "cluster" /\ ~signalled /\ made[c] # "none"
          /\ made' = [made EXCEPT ![c] = "none"]
          /\ UNCHANGED <<store, volume, missed>>

\* The sizes of the databases agree with the source's, or they do not; when the
\* source cannot be asked, having databases is enough.
verifyOne(c) ==
    /\ Step(c, "verify", "clean")
    /\ \E is \in {"passed", "failed"} :
        verdict' = [verdict EXCEPT ![c] = [is |-> is, of |-> made[c]]]
    /\ UNCHANGED <<objects, recorded, faults>>

Without(f, c, v) == [f EXCEPT ![c] = v]

\* The deletes of a cleanup are best-effort: while the API fails they are logged
\* and passed over, each on its own.  A volume in use goes with its cluster.
Delete(kinds, c) == \E lost \in SUBSET kinds :
    /\ lost = {} \/ faults < MaxFaults
    /\ faults' = IF lost = {} THEN faults ELSE faults + 1
    /\ missed' = missed \cup {<<kind, c>> : kind \in lost}
    /\ made' = IF "cluster" \in kinds \ lost THEN Without(made, c, "none") ELSE made
    /\ store' = IF "store" \in kinds \ lost THEN Without(store, c, "none") ELSE store
    /\ volume' = IF "volume" \in kinds \ lost /\ made'[c] = "none"
                 THEN Without(volume, c, FALSE) ELSE volume

\* cleanupOne under the run's context: after a signal its calls fail.
cleanupCluster(c) ==
    /\ Step(c, "clean", "clean2")
    /\ IF signalled THEN UNCHANGED <<objects, faults>> ELSE Delete({"cluster"}, c)
    /\ UNCHANGED <<recorded, verdict>>
cleanupRest(c) ==
    /\ Step(c, "clean2", "over")
    /\ IF signalled THEN UNCHANGED <<objects, faults>> ELSE Delete({"volume", "store"}, c)
    /\ UNCHANGED <<recorded, verdict>>

\* Volumes whose cluster is gone are collected by Kubernetes too.
Collect(c) ==
    /\ volume[c] /\ made[c] = "none"
    /\ volume' = Without(volume, c, FALSE)
    /\ UNCHANGED <<jobVars, made, store, missed>>

(***************************************************************************)
(* The end of the run                                                      *)
(***************************************************************************)
Counted(is) == {c \in found : verdict[c].is = is}

\* Metrics are pushed, then the deferred cleanup runs if there was a signal.
Report_bug ==
    /\ stage = "restoring" /\ \A c \in found : task[c] = "over"
    /\ exit' = IF Counted("passed") = {} THEN "error" ELSE "ok"
    /\ stage' = "idle"
    /\ UNCHANGED <<objects, Bounds, task, recorded, verdict, signalled, expired, faults>>
Report ==
    /\ stage = "restoring" /\ \A c \in found : task[c] = "over"
    /\ \/ /\ exit' = IF Counted("passed") = {} THEN "error" ELSE "ok"
          /\ UNCHANGED faults
       \/ /\ faults < MaxFaults /\ faults' = faults + 1 /\ exit' = "error"
    /\ stage' = IF signalled THEN "cleaning" ELSE "idle"
    /\ UNCHANGED <<objects, Bounds, task, recorded, verdict, signalled, expired>>

\* With a context of its own, for each recorded result in turn.
CleanupLeft(c) ==
    /\ stage = "cleaning" /\ c \in recorded
    /\ Delete({"cluster", "volume", "store"}, c)
    /\ recorded' = recorded \ {c}
    /\ UNCHANGED <<Bounds, stage, task, verdict, signalled, expired, exit>>
CleanupEnds ==
    /\ stage = "cleaning"
    /\ recorded = {} \/ faults < MaxFaults
    /\ expired' = (recorded # {})
    /\ faults' = IF recorded = {} THEN faults ELSE faults + 1
    /\ stage' = "idle"
    /\ UNCHANGED <<objects, Bounds, task, recorded, verdict, signalled, exit>>

\* The pod is gone, and with it all its goroutines.
Kill ==
    /\ stage # "idle" /\ faults < MaxFaults /\ faults' = faults + 1
    /\ stage' = "idle" /\ exit' = "killed"
    /\ task' = [c \in Clusters |-> "over"]
    /\ UNCHANGED <<objects, Bounds, recorded, verdict, signalled, expired>>

Next ==
    \/ \E C \in SUBSET Clusters, fixed \in 0..2, free \in Free, dry \in BOOLEAN :
        Discover(C, [fixed |-> fixed, free |-> free], dry)
    \/ NamespaceFails \/ Signal \/ Report \/ CleanupEnds \/ Kill
    \/ \E c \in Clusters :
        \/ GoTask(c) \/ createRestoreObjectStore(c) \/ createRestoreCluster(c)
        \/ waitForClusterReady(c) \/ RestoreFails(c) \/ verifyOne(c)
        \/ cleanupCluster(c) \/ cleanupRest(c) \/ Collect(c) \/ CleanupLeft(c)

Spec == Init /\ [][Next]_vars

(***************************************************************************)
(* Properties                                                              *)
(***************************************************************************)
\* The restores in flight fit on the smallest disk, whichever clusters they are
\* (capacity.go:41-96, main.go:164).
RestoresFit == WithMargin(Total(InFlight)) <= opts.free

\* What a run that ends by itself or on a signal leaves of what it restored is
\* what a delete of a cleanup missed: what a cancelled cleanup could not delete
\* the deferred one tries again (main.go:217-224).  Nothing tries a missed delete
\* again (cleanup.go:19-21, 46-48), though the run may end "ok".
NothingLeft ==
    stage = "idle" /\ exit \in {"ok", "error"} /\ ~expired => \A c \in found :
        /\ made[c] = "new" => <<"cluster", c>> \in missed
        /\ store[c] = "new" => <<"store", c>> \in missed

\* A verification that passed looked at a cluster restored by this run, never at
\* one a killed run left behind (restore.go:186-212).
PassedIsFresh == \A c \in Clusters : verdict[c].is = "passed" => verdict[c].of = "new"
=============================================================================
