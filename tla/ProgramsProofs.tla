--------------------------- MODULE ProgramsProofs ---------------------------
(***************************************************************************)
(* Theorems about the programs that share no state: pv-migrate,            *)
(* cnpg-restore-test, gitea-mirror-sync, the text-to-speech cache of       *)
(* telegram-hub, rangemusique and lastfm-scrobble-deduplicator, for any    *)
(* runs, clusters, repositories, requests, files, plays and bounds.        *)
(***************************************************************************)
EXTENDS Programs, Counting, TLAPS

-----------------------------------------------------------------------------
(***************************************************************************)
(* pv-migrate: the temporary claim.                                        *)
(***************************************************************************)

Claims == [by : {"old", "temp", "other"}, uid : Nat] \cup {None}
Migrations ==
  [pc : {"idle", "check", "clear", "create", "bind", "copy", "cleanup", "sweep"},
   read : Claims, bound : BOOLEAN, uid : Nat, created : BOOLEAN,
   end : {"none", "refused", "error", "lost", "ok", "leftover", "killed"}]

\* A uid is given to one claim; while a run may wait for its claim, copy from it
\* or delete it, the claim is there, and once it is deleted it is gone for good.
Owning(p) == mig[p].pc \in {"bind", "copy", "cleanup"}
Deleted(p) ==
  mig[p].pc \in {"idle", "sweep"} /\ mig[p].end \in {"ok", "error"} =>
    temp = None \/ temp # mig[p].uid
ClaimsInv ==
  /\ pv \in [claim : Claims, policy : {"Retain", "Delete"}, here : BOOLEAN]
  /\ mig \in [Runs -> Migrations]
  /\ uids \in Nat /\ temp \in (1..uids) \cup {None}
  /\ \A p \in Runs :
       /\ mig[p].uid <= uids
       /\ Owning(p) => /\ temp = mig[p].uid /\ mig[p].created
                       /\ \A q \in Runs : Owning(q) => p = q
       /\ Deleted(p)

\* The first state satisfies the invariant.
LEMMA ClaimsInit == Migrate!Init => ClaimsInv
BY DEF Migrate!Init, Migrate!NotRunning, Migrate!ClaimOf, ClaimsInv, Claims, Migrations,
       Owning, Deleted

\* What a run does to itself leaves the claim alone.
LEMMA ClaimsAside ==
  ASSUME ClaimsInv, NEW p \in Runs, mig'[p] \in Migrations, mig' = [mig EXCEPT ![p] = mig'[p]],
         UNCHANGED <<temp, uids>>,
         pv' \in [claim : Claims, policy : {"Retain", "Delete"}, here : BOOLEAN],
         mig'[p].uid <= uids, Deleted(p)',
         Owning(p)' => Owning(p) /\ mig'[p].uid = mig[p].uid /\ mig'[p].created
  PROVE  ClaimsInv'
<1>1. \A q \in Runs \ {p} : mig'[q] = mig[q]
  BY DEF ClaimsInv
<1> QED
  BY <1>1 DEF ClaimsInv, Owning, Deleted

\* Every step keeps the invariant: a claim of that name is never adopted, so that
\* no second run gets as far as its own cleanup.
LEMMA ClaimsNext == None \notin Nat /\ ClaimsInv /\ [Migrate!Next]_(Migrate!vars) => ClaimsInv'
<1> SUFFICES ASSUME None \notin Nat, ClaimsInv, [Migrate!Next]_(Migrate!vars) PROVE ClaimsInv'
  OBVIOUS
<1> USE DEF Migrate!Hist, Migrate!To, Migrate!Ends, Migrate!Slip
<1>1. /\ mig \in [Runs -> Migrations] /\ \A p \in Runs : mig[p] \in Migrations
      /\ pv \in [claim : Claims, policy : {"Retain", "Delete"}, here : BOOLEAN]
      /\ uids \in Nat /\ temp \in (1..uids) \cup {None}
      /\ \A p \in Runs : mig[p].uid \in Nat /\ mig[p].uid <= uids /\ Deleted(p)
      /\ \A p \in Runs : Owning(p) => temp = mig[p].uid /\ mig[p].created
      /\ \A p, q \in Runs : Owning(p) /\ Owning(q) => p = q
  BY DEF ClaimsInv, Migrations
<1>2. ASSUME NEW how \in {"refused", "error", "lost", "killed"}
      PROVE  LET m == [Migrate!NotRunning EXCEPT !.end = how] IN
             m \in Migrations /\ m.uid = 0 /\ m.pc = "idle" /\ m.end = how
  BY DEF Migrate!NotRunning, Migrations, Claims
<1>3. ASSUME NEW p \in Runs, Migrate!getPV(p) PROVE ClaimsInv'
  <2>1. PICK bound \in BOOLEAN :
          mig' = [mig EXCEPT ![p] = [Migrate!NotRunning EXCEPT !.pc = "check", !.read = pv.claim,
                                                               !.bound = bound]]
    BY <1>3 DEF Migrate!getPV
  <2>2. mig'[p] \in Migrations /\ mig'[p].uid = 0 /\ mig'[p].pc = "check"
    BY <1>1, <2>1 DEF Migrate!NotRunning, Migrations, Claims
  <2>3. UNCHANGED <<pv, temp, uids>> /\ mig' = [mig EXCEPT ![p] = mig'[p]]
    BY <1>1, <1>3, <2>1 DEF Migrate!getPV
  <2> QED
    BY <1>1, <2>2, <2>3, ClaimsAside DEF Owning, Deleted
<1>a. ASSUME NEW p \in Runs, NEW how \in {"refused", "error", "lost", "killed"},
             Migrate!Ends(p, how), UNCHANGED <<pv, temp, uids>>
      PROVE  ClaimsInv'
  <2>1. mig'[p] \in Migrations /\ mig'[p].uid = 0 /\ mig'[p].pc = "idle"
    BY <1>1, <1>a DEF Migrate!NotRunning, Migrations, Claims
  <2>2. mig' = [mig EXCEPT ![p] = mig'[p]]
    BY <1>1, <1>a
  <2>3. temp = None \/ temp # 0
    BY <1>1
  <2>4. ~Owning(p)' /\ Deleted(p)'
    BY <1>a, <2>1, <2>3 DEF Owning, Deleted
  <2>5. mig'[p].uid <= uids /\ UNCHANGED <<temp, uids>> /\ pv' = pv
    BY <1>1, <1>a, <2>1
  <2> QED
    BY <1>1, <2>1, <2>2, <2>4, <2>5, ClaimsAside
<1>b. ASSUME NEW p \in Runs, NEW pc \in {"clear", "create", "cleanup", "copy"}, Migrate!To(p, pc),
             UNCHANGED <<temp, uids>>, pc \in {"copy", "cleanup"} => Owning(p),
             pv' \in [claim : Claims, policy : {"Retain", "Delete"}, here : BOOLEAN]
      PROVE  ClaimsInv'
  <2>1. /\ mig'[p] \in Migrations /\ mig'[p].uid = mig[p].uid /\ mig'[p].pc = pc
        /\ mig'[p].created = mig[p].created
    BY <1>1, <1>b DEF Migrations
  <2>2. mig' = [mig EXCEPT ![p] = mig'[p]]
    BY <1>1, <1>b
  <2> QED
    BY <1>1, <1>b, <2>1, <2>2, ClaimsAside DEF Owning, Deleted
<1>4. ASSUME NEW p \in Runs, Migrate!Validate(p) PROVE ClaimsInv'
  <2>1. Migrate!To(p, "clear") \/ Migrate!Ends(p, "refused")
    BY <1>4 DEF Migrate!Validate
  <2>2. UNCHANGED <<pv, temp, uids>>
    BY <1>4 DEF Migrate!Validate
  <2> QED
    BY <1>1, <1>a, <1>b, <2>1, <2>2
<1>5. ASSUME NEW p \in Runs, Migrate!patchPVClaimRefNil(p) PROVE ClaimsInv'
  <2>1. /\ UNCHANGED <<temp, uids>>
        /\ \/ Migrate!To(p, "create") /\ UNCHANGED pv
           \/ Migrate!To(p, "create") /\ pv' = [pv EXCEPT !.claim = None]
           \/ Migrate!Ends(p, "error") /\ UNCHANGED pv
    BY <1>5 DEF Migrate!patchPVClaimRefNil
  <2>2. pv' \in [claim : Claims, policy : {"Retain", "Delete"}, here : BOOLEAN]
    BY <1>1, <2>1 DEF Claims
  <2> QED
    BY <1>a, <1>b, <2>1, <2>2
<1>c. ASSUME NEW p \in Runs, mig'[p] \in Migrations, temp = None,
             \A q \in Runs \ {p} : mig'[q] = mig[q], mig' \in [Runs -> Migrations],
             temp' = uids + 1, uids' = uids + 1, UNCHANGED pv, mig'[p].uid <= uids + 1,
             Owning(p)' => mig'[p].uid = uids + 1 /\ mig'[p].created,
             mig'[p].pc \in {"idle", "sweep"} => mig'[p].uid <= uids
      PROVE  ClaimsInv'
  <2>1. \A q \in Runs : ~Owning(q)
    BY <1>1, <1>c
  <2> QED
    BY <1>1, <1>c, <2>1 DEF ClaimsInv, Owning, Deleted
<1>6. ASSUME NEW p \in Runs, Migrate!createTempPVC(p) PROVE ClaimsInv'
  <2>1. CASE temp # None
    BY <1>6, <1>a, <2>1 DEF Migrate!createTempPVC
  <2>2. CASE temp = None
    <3>1. /\ mig' = [mig EXCEPT ![p].pc = "bind", ![p].uid = uids + 1, ![p].created = TRUE,
                                ![p].end = "error"]
          /\ temp' = uids + 1 /\ uids' = uids + 1 /\ UNCHANGED pv
      BY <1>6, <2>2 DEF Migrate!createTempPVC
    <3>2. /\ mig'[p] \in Migrations /\ mig'[p].pc = "bind" /\ mig'[p].uid = uids + 1
          /\ mig'[p].created
      BY <1>1, <3>1 DEF Migrations
    <3>3. mig' \in [Runs -> Migrations] /\ \A q \in Runs \ {p} : mig'[q] = mig[q]
      BY <1>1, <3>1, <3>2
    <3> QED
      BY <1>1, <1>c, <2>2, <3>1, <3>2, <3>3 DEF Owning
  <2> QED
    BY <2>1, <2>2
<1>7. ASSUME NEW p \in Runs, Migrate!CreateLost(p) PROVE ClaimsInv'
  <2>1. /\ mig' = [mig EXCEPT ![p] = [Migrate!NotRunning EXCEPT !.end = "lost"]]
        /\ temp = None /\ temp' = uids + 1 /\ uids' = uids + 1 /\ UNCHANGED pv
    BY <1>7 DEF Migrate!CreateLost
  <2>2. mig'[p] \in Migrations /\ mig'[p].uid = 0 /\ mig'[p].pc = "idle"
    BY <1>1, <2>1 DEF Migrate!NotRunning, Migrations, Claims
  <2>3. mig' \in [Runs -> Migrations] /\ \A q \in Runs \ {p} : mig'[q] = mig[q]
    BY <1>1, <2>1, <2>2
  <2> QED
    BY <1>1, <1>c, <2>1, <2>2, <2>3 DEF Owning
<1>8. ASSUME NEW p \in Runs, Migrate!waitForPVCBound(p) \/ Migrate!BindFails(p)
      PROVE  ClaimsInv'
  <2>1. /\ Migrate!To(p, "copy") \/ Migrate!To(p, "cleanup")
        /\ Owning(p) /\ UNCHANGED <<pv, temp, uids>>
    BY <1>8 DEF Migrate!waitForPVCBound, Migrate!BindFails, Owning
  <2> QED
    BY <1>1, <1>b, <2>1
<1>9. ASSUME NEW p \in Runs, Migrate!runMigration(p) PROVE ClaimsInv'
  <2>1. /\ mig[p].pc = "copy" /\ UNCHANGED <<pv, temp, uids>>
        /\ \/ mig' = [mig EXCEPT ![p].pc = "cleanup", ![p].end = "ok"]
           \/ Migrate!To(p, "cleanup")
    BY <1>9 DEF Migrate!runMigration
  <2>2. /\ mig'[p] \in Migrations /\ mig'[p].uid = mig[p].uid /\ mig'[p].pc = "cleanup"
        /\ mig'[p].created = mig[p].created
    BY <1>1, <2>1 DEF Migrations
  <2>3. mig' = [mig EXCEPT ![p] = mig'[p]]
    BY <1>1, <2>1
  <2> QED
    BY <1>1, <2>1, <2>2, <2>3, ClaimsAside DEF Owning, Deleted
<1>10. ASSUME NEW p \in Runs, Migrate!deleteTempPVC(p) PROVE ClaimsInv'
  <2>1. /\ mig[p].pc = "cleanup" /\ UNCHANGED <<pv, uids>>
        /\ temp' = (IF mig[p].created THEN None ELSE temp) \/ UNCHANGED temp
        /\ mig' = [mig EXCEPT ![p].pc = "sweep",
                              ![p].end = IF temp' # None THEN "leftover" ELSE mig[p].end]
    BY <1>10 DEF Migrate!deleteTempPVC
  <2>2. /\ mig'[p] \in Migrations /\ mig'[p].uid = mig[p].uid /\ mig'[p].pc = "sweep"
        /\ temp' # None => mig'[p].end = "leftover"
    BY <1>1, <2>1 DEF Migrations
  <2>3. mig' \in [Runs -> Migrations] /\ \A q \in Runs \ {p} : mig'[q] = mig[q]
    BY <1>1, <2>1, <2>2
  <2>4. Owning(p) /\ ~Owning(p)' /\ \A q \in Runs \ {p} : ~Owning(q) /\ ~Owning(q)'
    BY <1>1, <2>1, <2>2, <2>3 DEF Owning
  <2>5. temp' = None \/ (temp' = temp /\ mig'[p].end = "leftover")
    BY <1>1, <2>1, <2>2, <2>4
  <2>6. \A q \in Runs : Deleted(q)'
    BY <1>1, <2>2, <2>3, <2>5 DEF Deleted
  <2>7. \A q \in Runs : mig'[q].uid <= uids'
    BY <1>1, <2>1, <2>2, <2>3
  <2> QED
    BY <1>1, <2>1, <2>3, <2>4, <2>5, <2>6, <2>7 DEF ClaimsInv
<1>11. ASSUME NEW p \in Runs, Migrate!cleanupPVMigrateReleases(p) PROVE ClaimsInv'
  <2>1. /\ mig[p].pc = "sweep" /\ UNCHANGED <<pv, temp, uids>>
        /\ mig' = [mig EXCEPT ![p].pc = "idle", ![p].read = None, ![p].bound = FALSE]
    BY <1>11 DEF Migrate!cleanupPVMigrateReleases
  <2>2. /\ mig'[p] \in Migrations /\ mig'[p].uid = mig[p].uid /\ mig'[p].pc = "idle"
        /\ mig'[p].end = mig[p].end
    BY <1>1, <2>1 DEF Migrations, Claims
  <2>3. mig' = [mig EXCEPT ![p] = mig'[p]]
    BY <1>1, <2>1
  <2> QED
    BY <1>1, <2>1, <2>2, <2>3, ClaimsAside DEF Owning, Deleted
<1>12. ASSUME NEW p \in Runs, Migrate!Kill(p) PROVE ClaimsInv'
  BY <1>12, <1>a DEF Migrate!Kill
<1>13. CASE Migrate!Bind \/ Migrate!Reclaim \/ Migrate!Begin \/ UNCHANGED Migrate!vars
  <2>1. UNCHANGED <<mig, temp, uids>>
    BY <1>13 DEF Migrate!Bind, Migrate!Reclaim, Migrate!Begin, Migrate!vars
  <2>2. pv' \in [claim : Claims, policy : {"Retain", "Delete"}, here : BOOLEAN]
    <3>1. CASE Migrate!Bind
      <4>1. PICK claim \in {Migrate!ClaimOf("temp", temp), Migrate!ClaimOf("other", 0)} :
              /\ pv' = [pv EXCEPT !.claim = claim]
              /\ claim = Migrate!ClaimOf("temp", temp) => temp # None
        BY <3>1 DEF Migrate!Bind, Migrate!ClaimOf
      <4>2. claim \in Claims
        BY <1>1, <4>1 DEF Migrate!ClaimOf, Claims
      <4> QED
        BY <1>1, <4>1, <4>2
    <3>2. CASE Migrate!Reclaim \/ Migrate!Begin \/ UNCHANGED Migrate!vars
      BY <1>1, <3>2 DEF Migrate!Reclaim, Migrate!Begin, Migrate!vars
    <3> QED
      BY <1>13, <3>1, <3>2
  <2> QED
    BY <2>1, <2>2 DEF ClaimsInv, Owning, Deleted
<1> QED
  BY <1>3, <1>4, <1>5, <1>6, <1>7, <1>8, <1>9, <1>10, <1>11, <1>12, <1>13 DEF Migrate!Next

\* While a run waits for its temporary claim or copies from it the claim is its
\* own, however many runs there are and whatever they fail at: who finds the claim
\* there ends without a cleanup, and None is no claim's uid.
THEOREM ClaimIsOwn == ASSUME None \notin Nat PROVE Migrate!Spec => []TempIsOwn
<1>1. ClaimsInv => TempIsOwn
  BY DEF ClaimsInv, Owning, TempIsOwn, Migrate!TempIsOwn
<1> QED
  BY ClaimsInit, ClaimsNext, <1>1, PTL DEF Migrate!Spec

\* A run that ended by itself has deleted the temporary claim it made, and no
\* later claim is taken for it.
THEOREM ClaimIsDeleted == ASSUME None \notin Nat PROVE Migrate!Spec => []TempIsDeleted
<1>1. ClaimsInv => TempIsDeleted
  BY DEF ClaimsInv, Deleted, TempIsDeleted, Migrate!TempIsDeleted
<1> QED
  BY ClaimsInit, ClaimsNext, <1>1, PTL DEF Migrate!Spec

-----------------------------------------------------------------------------
(***************************************************************************)
(* cnpg-restore-test: what is restored, verified and left.                 *)
(***************************************************************************)

Ages == {"none", "old", "new"}

\* The run has made something for a cluster that is still there, and no delete of
\* it was missed.
LeftCluster(c) == made[c] = "new" /\ <<"cluster", c>> \notin missed
LeftStore(c) == store[c] = "new" /\ <<"store", c>> \notin missed
Left(c) == LeftCluster(c) \/ LeftStore(c)

\* Where a cluster's goroutine is tells what it has made, and what may be left
\* behind it is left after a signal and recorded for the deferred cleanup.
Restoring(c) ==
  /\ task[c] \in {"ready", "verify"} => made[c] = "new"
  /\ c \in found =>
       /\ task[c] = "queued" => ~Left(c)
       /\ task[c] \in {"verify", "clean", "clean2"} => c \in recorded
       /\ task[c] = "clean2" /\ LeftCluster(c) => signalled
       /\ task[c] = "over" /\ Left(c) => signalled /\ c \in recorded

RestoreInv ==
  /\ made \in [Clusters -> Ages] /\ store \in [Clusters -> Ages]
  /\ verdict \in [Clusters -> [is : {"none", "passed", "failed", "skipped"},
                               of : Ages]]
  /\ task \in [Clusters -> {"queued", "store", "cluster", "ready", "verify", "clean", "clean2",
                            "over"}]
  /\ found \in SUBSET Clusters
  /\ \A c \in Clusters : verdict[c].is = "passed" => verdict[c].of = "new"
  /\ stage = "restoring" => \A c \in Clusters : Restoring(c)
  /\ stage = "cleaning" => \A c \in found : Left(c) => c \in recorded
  /\ Restore!NothingLeft

\* The first state satisfies the invariant.
LEMMA RestoreInit == Restore!Init => RestoreInv
BY DEF Restore!Init, Restore!Unverified, Restore!NothingLeft, RestoreInv, Ages

\* Best-effort deletes leave what they missed, and no more.
LEMMA DeleteLeaves ==
  ASSUME RestoreInv, NEW c \in Clusters, NEW kinds, Restore!Delete(kinds, c)
  PROVE  /\ made' \in [Clusters -> Ages] /\ store' \in [Clusters -> Ages]
         /\ \A d \in Clusters : LeftCluster(d)' => LeftCluster(d)
         /\ \A d \in Clusters : LeftStore(d)' => LeftStore(d)
         /\ \A d \in Clusters : d # c => made'[d] = made[d]
         /\ "cluster" \in kinds => ~LeftCluster(c)'
         /\ "store" \in kinds => ~LeftStore(c)'
<1>1. PICK lost \in SUBSET kinds :
        /\ missed' = missed \cup {<<kind, c>> : kind \in lost}
        /\ made' = IF "cluster" \in kinds \ lost THEN [made EXCEPT ![c] = "none"] ELSE made
        /\ store' = IF "store" \in kinds \ lost THEN [store EXCEPT ![c] = "none"] ELSE store
  BY DEF Restore!Delete, Restore!Without
<1>2. made' \in [Clusters -> Ages] /\ store' \in [Clusters -> Ages]
  BY <1>1 DEF RestoreInv, Ages
<1>3. \A d \in Clusters : made'[d] \in {made[d], "none"} /\ store'[d] \in {store[d], "none"}
  BY <1>1 DEF RestoreInv
<1>9. \A d \in Clusters : d # c => made'[d] = made[d]
  BY <1>1 DEF RestoreInv
<1>4. missed \subseteq missed'
  BY <1>1
<1>5. "cluster" \in kinds => ~LeftCluster(c)'
  BY <1>1 DEF LeftCluster, RestoreInv
<1>6. "store" \in kinds => ~LeftStore(c)'
  BY <1>1 DEF LeftStore, RestoreInv
<1>7. ASSUME NEW d \in Clusters, LeftCluster(d)' PROVE LeftCluster(d)
  <2>1. made'[d] = "new" /\ <<"cluster", d>> \notin missed'
    BY <1>7 DEF LeftCluster
  <2>2. made[d] = "new"
    BY <1>3, <2>1
  <2>3. <<"cluster", d>> \notin missed
    BY <1>4, <2>1
  <2> QED
    BY <2>2, <2>3 DEF LeftCluster
<1>8. ASSUME NEW d \in Clusters, LeftStore(d)' PROVE LeftStore(d)
  <2>1. store'[d] = "new" /\ <<"store", d>> \notin missed'
    BY <1>8 DEF LeftStore
  <2>2. store[d] = "new"
    BY <1>3, <2>1
  <2>3. <<"store", d>> \notin missed
    BY <1>4, <2>1
  <2> QED
    BY <2>2, <2>3 DEF LeftStore
<1> QED
  BY <1>2, <1>5, <1>6, <1>7, <1>8, <1>9

\* A step of a cluster's goroutine.
LEMMA RestoreStep ==
  ASSUME RestoreInv, NEW c \in Clusters,
         \/ Restore!GoTask(c) \/ Restore!createRestoreObjectStore(c)
         \/ Restore!createRestoreCluster(c) \/ Restore!waitForClusterReady(c)
         \/ Restore!RestoreFails(c) \/ Restore!verifyOne(c)
         \/ Restore!cleanupCluster(c) \/ Restore!cleanupRest(c)
  PROVE  RestoreInv'
<1> USE DEF Restore!Step, Restore!objects, Restore!Bounds, Restoring, Left, LeftCluster, LeftStore,
            Restore!NothingLeft
<1>1. CASE Restore!GoTask(c)
  BY <1>1 DEF Restore!GoTask, RestoreInv
<1>2. CASE Restore!createRestoreObjectStore(c)
  BY <1>2 DEF Restore!createRestoreObjectStore, RestoreInv, Ages
<1>3. CASE Restore!createRestoreCluster(c)
  BY <1>3 DEF Restore!createRestoreCluster, RestoreInv, Ages
<1>4. CASE Restore!waitForClusterReady(c)
  BY <1>4 DEF Restore!waitForClusterReady, RestoreInv
<1>5. CASE Restore!RestoreFails(c)
  BY <1>5 DEF Restore!RestoreFails, RestoreInv, Ages
<1>6. CASE Restore!verifyOne(c)
  <2>1. PICK is \in {"passed", "failed"} :
            verdict' = [verdict EXCEPT ![c] = [is |-> is, of |-> made[c]]]
    BY <1>6 DEF Restore!verifyOne
  <2>2. /\ task[c] = "verify" /\ stage = "restoring" /\ task' = [task EXCEPT ![c] = "clean"]
        /\ UNCHANGED <<found, stage, made, store, missed, recorded, signalled>>
    BY <1>6 DEF Restore!verifyOne
  <2>3. made[c] = "new"
    BY <2>2 DEF RestoreInv
  <2>4. /\ verdict' \in [Clusters -> [is : {"none", "passed", "failed", "skipped"}, of : Ages]]
        /\ \A d \in Clusters : verdict'[d].is = "passed" => verdict'[d].of = "new"
    BY <2>1, <2>3 DEF RestoreInv, Ages
  <2> QED
    BY <2>2, <2>4 DEF RestoreInv
<1>7. CASE Restore!cleanupCluster(c)
  <2>1. CASE signalled
    BY <1>7, <2>1 DEF Restore!cleanupCluster, RestoreInv
  <2>2. CASE ~signalled
    <3>1. Restore!Delete({"cluster"}, c) /\ Restore!Step(c, "clean", "clean2")
          /\ UNCHANGED <<recorded, verdict>>
      BY <1>7, <2>2 DEF Restore!cleanupCluster
    <3> QED
      BY <3>1, DeleteLeaves DEF RestoreInv
  <2> QED
    BY <2>1, <2>2
<1>8. CASE Restore!cleanupRest(c)
  <2>1. CASE signalled
    BY <1>8, <2>1 DEF Restore!cleanupRest, RestoreInv
  <2>2. CASE ~signalled
    <3>1. Restore!Delete({"volume", "store"}, c) /\ Restore!Step(c, "clean2", "over")
          /\ UNCHANGED <<recorded, verdict>>
      BY <1>8, <2>2 DEF Restore!cleanupRest
    <3>2. /\ made' \in [Clusters -> Ages] /\ store' \in [Clusters -> Ages]
          /\ \A d \in Clusters : LeftCluster(d)' => LeftCluster(d)
          /\ \A d \in Clusters : LeftStore(d)' => LeftStore(d)
          /\ \A d \in Clusters : d # c => made'[d] = made[d]
          /\ ~LeftStore(c)'
      BY <3>1, DeleteLeaves
    <3>3. c \in found => ~LeftCluster(c)'
      BY <2>2, <3>1, <3>2 DEF RestoreInv
    <3>4. \A d \in Clusters : Restoring(d)'
      <4>1. CASE c \notin found
        BY <3>1, <3>2, <4>1 DEF RestoreInv
      <4> QED
        BY <3>1, <3>2, <3>3 DEF RestoreInv
    <3> QED
      BY <3>1, <3>2, <3>4 DEF RestoreInv
  <2> QED
    BY <2>1, <2>2
<1> QED
  BY <1>1, <1>2, <1>3, <1>4, <1>5, <1>6, <1>7, <1>8

\* A step of the run.
LEMMA RestoreRun ==
  ASSUME RestoreInv,
         \/ \E C \in SUBSET Clusters, fixed \in 0..2, free \in Free, dry \in BOOLEAN :
              Restore!Discover(C, [fixed |-> fixed, free |-> free], dry)
         \/ Restore!NamespaceFails \/ Restore!Signal \/ Restore!Report
         \/ Restore!CleanupEnds \/ Restore!Kill
  PROVE  RestoreInv'
<1> USE DEF Restore!objects, Restore!Bounds, Restoring, Left, LeftCluster, LeftStore,
            Restore!NothingLeft
<1>1. ASSUME NEW C \in SUBSET Clusters, NEW o, NEW dry \in BOOLEAN, Restore!Discover(C, o, dry)
      PROVE  RestoreInv'
  <2>1. /\ found' = C /\ verdict' = [c \in Clusters |-> Restore!Unverified]
        /\ made' = Restore!Aged(made) /\ store' = Restore!Aged(store)
        /\ stage = "idle"
        /\ \/ UNCHANGED <<stage, task>>
           \/ stage' = "restoring" /\ task' = [c \in Clusters |-> IF c \in C THEN "queued"
                                                                             ELSE "over"]
    BY <1>1 DEF Restore!Discover
  <2>2. /\ made' \in [Clusters -> Ages] /\ store' \in [Clusters -> Ages]
        /\ \A c \in Clusters : ~Left(c)'
    BY <2>1 DEF RestoreInv, Restore!Aged, Ages, Left
  <2>3. Restore!NothingLeft'
    BY <2>1, <2>2 DEF Left, Restore!NothingLeft
  <2>4. /\ \A c \in Clusters : verdict'[c].is # "passed"
        /\ verdict' \in [Clusters -> [is : {"none", "passed", "failed", "skipped"}, of : Ages]]
    BY <2>1 DEF Restore!Unverified, Ages
  <2> QED
    BY <2>1, <2>2, <2>3, <2>4 DEF RestoreInv, Restoring
<1>2. CASE Restore!NamespaceFails
  BY <1>2 DEF Restore!NamespaceFails, RestoreInv
<1>3. CASE Restore!Signal
  BY <1>3 DEF Restore!Signal, RestoreInv
<1>4. CASE Restore!Report
  BY <1>4 DEF Restore!Report, RestoreInv
<1>5. CASE Restore!CleanupEnds
  BY <1>5 DEF Restore!CleanupEnds, RestoreInv
<1>6. CASE Restore!Kill
  BY <1>6 DEF Restore!Kill, RestoreInv
<1> QED
  BY <1>1, <1>2, <1>3, <1>4, <1>5, <1>6

\* Every step keeps the invariant.
LEMMA RestoreNext == RestoreInv /\ [Restore!Next]_(Restore!vars) => RestoreInv'
<1> SUFFICES ASSUME RestoreInv, [Restore!Next]_(Restore!vars) PROVE RestoreInv'
  OBVIOUS
<1> USE DEF Restore!jobVars, Restore!objects, Restore!Bounds, Restoring, Left, LeftCluster,
            LeftStore, Restore!NothingLeft
<1>1. ASSUME NEW c \in Clusters, Restore!Collect(c) PROVE RestoreInv'
  BY <1>1 DEF Restore!Collect, RestoreInv
<1>2. ASSUME NEW c \in Clusters, Restore!CleanupLeft(c) PROVE RestoreInv'
  <2>1. Restore!Delete({"cluster", "volume", "store"}, c)
    BY <1>2 DEF Restore!CleanupLeft
  <2>2. /\ made' \in [Clusters -> Ages] /\ store' \in [Clusters -> Ages]
        /\ \A d \in Clusters : LeftCluster(d)' => LeftCluster(d)
        /\ \A d \in Clusters : LeftStore(d)' => LeftStore(d)
        /\ \A d \in Clusters : d # c => made'[d] = made[d]
        /\ ~LeftCluster(c)' /\ ~LeftStore(c)'
    BY <2>1, DeleteLeaves
  <2>3. /\ stage = "cleaning" /\ recorded' = recorded \ {c}
        /\ UNCHANGED <<found, stage, task, verdict>>
    BY <1>2 DEF Restore!CleanupLeft
  <2>4. \A d \in found : Left(d)' => d \in recorded'
    BY <2>2, <2>3 DEF RestoreInv
  <2> QED
    BY <2>2, <2>3, <2>4 DEF RestoreInv
<1>3. CASE UNCHANGED Restore!vars
  BY <1>3 DEF Restore!vars, RestoreInv
<1> QED
  BY <1>1, <1>2, <1>3, RestoreRun, RestoreStep DEF Restore!Next

\* A run that ends by itself or on a signal leaves nothing it restored but what a
\* delete of a cleanup missed, for any number of clusters restored in parallel,
\* whichever step of each the signal met and whichever of their deletes fail.
THEOREM NothingIsLeft == Restore!Spec => []NothingLeft
<1>1. RestoreInv => NothingLeft
  BY DEF RestoreInv, NothingLeft
<1> QED
  BY RestoreInit, RestoreNext, <1>1, PTL DEF Restore!Spec

\* A verification that passed looked at a cluster restored by this run, never at
\* one that an earlier, killed run left under its name.
THEOREM VerifiedIsFresh == Restore!Spec => []PassedIsFresh
<1>1. RestoreInv => PassedIsFresh
  BY DEF RestoreInv, PassedIsFresh, Restore!PassedIsFresh
<1> QED
  BY RestoreInit, RestoreNext, <1>1, PTL DEF Restore!Spec

\* Finitely many clusters, whose volumes have sizes.
Sized ==
  IsFiniteSet(Clusters) /\ Bytes \in [Clusters -> Nat] /\ Margin \in Nat /\ Free \subseteq Nat

\* An instance counts as its surroundings do.
LEMMA SameCount == \A S : Restore!Cardinality(S) = Cardinality(S)
BY Zenon DEF Restore!Cardinality, Cardinality

\* The fold of the clusters' sizes counts blocks.
LEMMA TotalCounts ==
  ASSUME Sized, NEW S \in SUBSET Clusters
  PROVE  Restore!Total(S) = Cardinality(Blocks(Bytes, S))
<1> DEFINE Is(iter) == iter = [T \in SUBSET S |->
             IF T = {} THEN 0
             ELSE LET x == CHOOSE x \in T : TRUE IN Bytes[x] + iter[T \ {x}]]
           g == [T \in SUBSET S |-> Cardinality(Blocks(Bytes, T))]
           sum == CHOOSE iter : Is(iter)
<1>1. Restore!Total(S) = sum[S]
  BY DEF Restore!Total, Restore!FoldSet, Restore!MapThenFoldSet
<1>2. IsFiniteSet(S) /\ \A y \in S : Bytes[y] \in Nat
  BY FS_Subset DEF Sized
<1>3. SumsUp(g, Bytes, S)
  BY <1>2, CountingSumsUp
<1>4. Is(g)
  <2> HIDE DEF g
  <2>1. g = [T \in SUBSET S |-> g[T]]
    BY DEF g
  <2> QED
    BY <1>3, <2>1 DEF SumsUp
<1>5. Is(sum)
  <2> HIDE DEF g, Is
  <2> QED
    BY <1>4
<1>6. SumsUp(sum, Bytes, S)
  <2> HIDE DEF sum
  <2> QED
    BY <1>5 DEF SumsUp
<1> QED
  BY <1>1, <1>2, <1>6, SumCounts

\* Fewer clusters need no more.
LEMMA TotalGrows ==
  ASSUME Sized, NEW S \in SUBSET Clusters, NEW T \in SUBSET S
  PROVE  /\ Restore!Total(S) \in Nat /\ Restore!Total(T) \in Nat
         /\ Restore!Total(T) <= Restore!Total(S)
<1>1. IsFiniteSet(S) /\ \A y \in S : Bytes[y] \in Nat
  BY FS_Subset DEF Sized
<1>2. /\ Restore!Total(S) = Cardinality(Blocks(Bytes, S))
      /\ Restore!Total(T) = Cardinality(Blocks(Bytes, T))
  BY TotalCounts
<1>3. Cardinality(Blocks(Bytes, S)) \in Nat
  BY <1>1, BlocksFinite
<1> QED
  BY <1>1, <1>2, <1>3, BlocksGrow

\* The margin of more is no less.
LEMMA MarginGrows ==
  ASSUME Sized, NEW a \in Nat, NEW b \in Nat, a <= b
  PROVE  /\ Restore!WithMargin(a) \in Nat /\ Restore!WithMargin(b) \in Nat
         /\ Restore!WithMargin(a) <= Restore!WithMargin(b)
<1>1. a * Margin \in Nat /\ b * Margin \in Nat /\ a * Margin <= b * Margin
  BY DEF Sized
<1>2. ASSUME NEW x \in Nat, NEW y \in Nat, x <= y
      PROVE  x \div 10 \in Nat /\ y \div 10 \in Nat /\ x \div 10 <= y \div 10
  BY <1>2
<1> QED
  BY <1>1, <1>2 DEF Restore!WithMargin

\* The n largest clusters of C need what any n of them need, or fewer.
LEMMA NeededIsEnough ==
  ASSUME Sized, NEW C \in SUBSET Clusters, NEW S \in SUBSET C, NEW n \in Nat,
         Cardinality(S) <= n, n <= Cardinality(C)
  PROVE  /\ Restore!WithMargin(Restore!Total(S)) \in Nat /\ Restore!Needed(C, n) \in Nat
         /\ Restore!WithMargin(Restore!Total(S)) <= Restore!Needed(C, n)
<1> DEFINE Totals == {Restore!Total(U) : U \in Restore!kSubset(n, C)}
<1>1. IsFiniteSet(C)
  BY FS_Subset DEF Sized
<1>2. PICK U \in SUBSET C : S \subseteq U /\ Cardinality(U) = n
  BY <1>1, PartOfSize
<1>3. Restore!kSubset(n, C) \subseteq SUBSET C /\ U \in Restore!kSubset(n, C)
  BY <1>2, SameCount DEF Restore!kSubset
<1>4. \A t \in Totals : t \in Nat /\ t <= Restore!Total(C)
  BY <1>3, TotalGrows
<1>5. Restore!Total(C) \in Nat /\ Restore!Total(U) \in Totals
  BY <1>3, TotalGrows
<1> HIDE DEF Totals
<1>6. \E x \in Totals : \A y \in Totals : x >= y
  BY <1>4, <1>5, Largest
<1>7. Restore!Max(Totals) \in Totals /\ \A y \in Totals : Restore!Max(Totals) >= y
  BY <1>6 DEF Restore!Max
<1>8. Restore!Total(S) \in Nat /\ Restore!Total(S) <= Restore!Total(U)
  BY <1>2, TotalGrows
<1>9. Restore!Max(Totals) \in Nat /\ Restore!Total(S) <= Restore!Max(Totals)
  BY <1>4, <1>5, <1>7, <1>8
<1> QED
  BY <1>8, <1>9, MarginGrows DEF Restore!Needed, Totals

\* As many as are restored side by side are there and fit.
LEMMA ConcurrencyFits ==
  ASSUME Sized, NEW C \in SUBSET Clusters, NEW fixed \in Nat, NEW free \in Nat
  PROVE  LET k == Restore!computeMaxConcurrency(C, fixed, free) IN
         k \in Nat /\ (k # 0 => k <= Cardinality(C) /\ Restore!Needed(C, k) <= free)
<1> DEFINE n == Cardinality(C)
           tried == IF fixed > 0 THEN {Restore!Min({fixed, n})} ELSE 1 .. n
           fits == {0} \cup {k \in tried : Restore!Needed(C, k) <= free}
<1>1. n \in Nat
  BY FS_Subset, FS_CardinalityType DEF Sized
<1> HIDE DEF n
<1>2. \A k \in tried : k \in Nat /\ k <= n
  <2>1. \E x \in {fixed, n} : \A y \in {fixed, n} : x <= y
    BY <1>1
  <2>2. Restore!Min({fixed, n}) \in Nat /\ Restore!Min({fixed, n}) <= n
    BY <1>1, <2>1 DEF Restore!Min
  <2> QED
    BY <1>1, <2>2
<1> HIDE DEF tried
<1>3. fits \in SUBSET Nat /\ 0 \in fits /\ \A k \in fits : k <= n
  BY <1>1, <1>2
<1> HIDE DEF fits
<1>4. \E x \in fits : \A y \in fits : x >= y
  BY <1>1, <1>3, Largest
<1>5. Restore!Max(fits) \in fits
  BY <1>4 DEF Restore!Max
<1>6. Restore!computeMaxConcurrency(C, fixed, free) = Restore!Max(fits)
  BY SameCount DEF Restore!computeMaxConcurrency, fits, tried, n
<1>7. Restore!Max(fits) \in Nat /\ (Restore!Max(fits) # 0 => Restore!Max(fits) <= n)
  BY <1>3, <1>5
<1>8. Restore!Max(fits) # 0 => Restore!Needed(C, Restore!Max(fits)) <= free
  BY <1>5 DEF fits
<1> QED
  BY <1>6, <1>7, <1>8 DEF n

\* No more restores than slots are in flight, only those of found clusters and
\* only while the run restores; what the slots may need is free.
FitInv ==
  /\ RestoreInv /\ slots \in Nat /\ opts.free \in Nat
  /\ \A c \in Clusters : stage # "restoring" \/ c \notin found => task[c] = "over"
  /\ Cardinality(Restore!InFlight) <= slots
  /\ stage = "restoring" =>
       slots <= Cardinality(found) /\ Restore!Needed(found, slots) <= opts.free

\* The first state satisfies the invariant.
LEMMA FitInit == Restore!Init => FitInv
<1> SUFFICES ASSUME Restore!Init PROVE FitInv
  OBVIOUS
<1>1. Restore!InFlight = {}
  BY DEF Restore!Init, Restore!InFlight
<1> QED
  BY <1>1, RestoreInit, FS_EmptySet DEF Restore!Init, FitInv

\* While fewer are in flight the bounds stand.
LEMMA FitLeaves ==
  ASSUME Sized, FitInv, RestoreInv', UNCHANGED <<found, slots, opts>>,
         Restore!InFlight' \subseteq Restore!InFlight,
         stage' = "restoring" => stage = "restoring",
         \A c \in Clusters : stage' # "restoring" \/ c \notin found => task'[c] = "over"
  PROVE  FitInv'
<1>1. IsFiniteSet(Restore!InFlight)
  BY FS_Subset DEF Sized, FitInv, RestoreInv, Restore!InFlight
<1>2. /\ IsFiniteSet(Restore!InFlight')
      /\ Cardinality(Restore!InFlight') <= Cardinality(Restore!InFlight)
  BY <1>1, FS_Subset
<1>3. Cardinality(Restore!InFlight) \in Nat /\ Cardinality(Restore!InFlight') \in Nat
  BY <1>1, <1>2, FS_CardinalityType
<1>4. Cardinality(Restore!InFlight') <= slots
  BY <1>2, <1>3 DEF FitInv
<1> QED
  BY <1>4 DEF FitInv

\* A step of a cluster's goroutine: GoTask takes one of the slots.
LEMMA FitStep ==
  ASSUME Sized, FitInv, RestoreInv', NEW c \in Clusters,
         \/ Restore!GoTask(c) \/ Restore!createRestoreObjectStore(c)
         \/ Restore!createRestoreCluster(c) \/ Restore!waitForClusterReady(c)
         \/ Restore!RestoreFails(c) \/ Restore!verifyOne(c)
         \/ Restore!cleanupCluster(c) \/ Restore!cleanupRest(c)
  PROVE  FitInv'
<1>1. task \in [Clusters -> {"queued", "store", "cluster", "ready", "verify", "clean", "clean2",
                            "over"}]
  BY DEF FitInv, RestoreInv
<1>a. ASSUME NEW from, NEW onto, Restore!Step(c, from, onto), from \notin {"queued", "over"}
      PROVE  FitInv'
  <2>1. /\ task[c] = from /\ task' = [task EXCEPT ![c] = onto] /\ stage = "restoring"
        /\ UNCHANGED <<stage, found, slots, opts>>
    BY <1>a DEF Restore!Step, Restore!Bounds
  <2>2. c \in found
    BY <1>a, <2>1 DEF FitInv
  <2>3. \A d \in Clusters \ {c} : task'[d] = task[d]
    BY <1>1, <2>1
  <2>4. Restore!InFlight' \subseteq Restore!InFlight
    BY <1>a, <2>1, <2>2, <2>3 DEF FitInv, RestoreInv, Restore!InFlight
  <2>5. \A d \in Clusters : d \notin found => task'[d] = "over"
    BY <2>1, <2>2, <2>3 DEF FitInv
  <2> QED
    BY <2>1, <2>4, <2>5, FitLeaves
<1>2. CASE Restore!GoTask(c)
  <2>1. /\ task[c] = "queued" /\ task' = [task EXCEPT ![c] = "store"] /\ stage = "restoring"
        /\ UNCHANGED <<stage, found, slots, opts>> /\ Cardinality(Restore!InFlight) < slots
    BY <1>2, SameCount DEF Restore!GoTask, Restore!Step, Restore!Bounds
  <2>2. c \in found /\ \A d \in Clusters \ {c} : task'[d] = task[d]
    BY <1>1, <2>1 DEF FitInv
  <2>3. Restore!InFlight' = Restore!InFlight \cup {c}
    BY <1>1, <2>1, <2>2 DEF FitInv, RestoreInv, Restore!InFlight
  <2>4. IsFiniteSet(Restore!InFlight) /\ Cardinality(Restore!InFlight) \in Nat
    BY FS_Subset, FS_CardinalityType DEF Sized, FitInv, RestoreInv, Restore!InFlight
  <2>5. Cardinality(Restore!InFlight') <= Cardinality(Restore!InFlight) + 1
    BY <2>3, <2>4, FS_AddElement
  <2>6. Cardinality(Restore!InFlight') \in Nat
    BY <2>3, <2>4, FS_AddElement, FS_CardinalityType
  <2>7. Cardinality(Restore!InFlight') <= slots
    BY <2>1, <2>4, <2>5, <2>6 DEF FitInv
  <2>8. \A d \in Clusters : d \notin found => task'[d] = "over"
    BY <2>1, <2>2 DEF FitInv
  <2> QED
    BY <2>1, <2>7, <2>8 DEF FitInv
<1>3. CASE Restore!createRestoreObjectStore(c)
  BY <1>3, <1>a DEF Restore!createRestoreObjectStore
<1>4. CASE Restore!createRestoreCluster(c)
  BY <1>4, <1>a DEF Restore!createRestoreCluster
<1>5. CASE Restore!waitForClusterReady(c)
  BY <1>5, <1>a DEF Restore!waitForClusterReady
<1>6. CASE Restore!RestoreFails(c)
  BY <1>6, <1>a DEF Restore!RestoreFails
<1>7. CASE Restore!verifyOne(c)
  BY <1>7, <1>a DEF Restore!verifyOne
<1>8. CASE Restore!cleanupCluster(c)
  BY <1>8, <1>a DEF Restore!cleanupCluster
<1>9. CASE Restore!cleanupRest(c)
  BY <1>9, <1>a DEF Restore!cleanupRest
<1> QED
  BY <1>2, <1>3, <1>4, <1>5, <1>6, <1>7, <1>8, <1>9

\* A run is given what its clusters and the free space allow.
LEMMA FitDiscover ==
  ASSUME Sized, FitInv, RestoreInv', NEW C \in SUBSET Clusters, NEW fixed \in 0..2,
         NEW free \in Free, NEW dry \in BOOLEAN,
         Restore!Discover(C, [fixed |-> fixed, free |-> free], dry)
  PROVE  FitInv'
<1> DEFINE k == IF C = {} THEN 0 ELSE Restore!computeMaxConcurrency(C, fixed, free)
<1>1. /\ stage = "idle" /\ found' = C /\ opts'.free = free /\ slots' = k
      /\ \/ UNCHANGED <<stage, task>>
         \/ /\ stage' = "restoring" /\ k # 0
            /\ task' = [c \in Clusters |-> IF c \in C THEN "queued" ELSE "over"]
  BY DEF Restore!Discover
<1>2. fixed \in Nat /\ free \in Nat
  BY DEF Sized
<1>3. k \in Nat /\ (k # 0 => k <= Cardinality(C) /\ Restore!Needed(C, k) <= free)
  BY <1>2, ConcurrencyFits
<1> HIDE DEF k
<1>4. \A c \in Clusters : stage' # "restoring" \/ c \notin found' => task'[c] = "over"
  BY <1>1 DEF FitInv
<1>5. Restore!InFlight' = {}
  BY <1>1 DEF FitInv, RestoreInv, Restore!InFlight
<1>6. Cardinality(Restore!InFlight') <= slots'
  BY <1>1, <1>3, <1>5, FS_EmptySet
<1>7. stage' = "restoring" =>
        slots' <= Cardinality(found') /\ Restore!Needed(found', slots') <= opts'.free
  BY <1>1, <1>3
<1> QED
  BY <1>1, <1>2, <1>3, <1>4, <1>6, <1>7
  DEF FitInv

\* Every step keeps the invariant.
LEMMA FitNext == Sized /\ FitInv /\ [Restore!Next]_(Restore!vars) => FitInv'
<1> SUFFICES ASSUME Sized, FitInv, [Restore!Next]_(Restore!vars) PROVE FitInv'
  OBVIOUS
<1>1. RestoreInv'
  BY RestoreNext DEF FitInv
<1>2. CASE \E C \in SUBSET Clusters, fixed \in 0..2, free \in Free, dry \in BOOLEAN :
             Restore!Discover(C, [fixed |-> fixed, free |-> free], dry)
  BY <1>1, <1>2, FitDiscover
<1>a. ASSUME UNCHANGED <<found, slots, opts>>,
             \/ UNCHANGED <<stage, task>>
             \/ task' = [c \in Clusters |-> "over"]
             \/ /\ stage = "restoring" /\ \A c \in found : task[c] = "over"
                /\ UNCHANGED task
             \/ stage # "restoring" /\ UNCHANGED task,
             stage' = "restoring" => stage = "restoring"
      PROVE  FitInv'
  <2>1. \A c \in Clusters : task'[c] = "over" \/ task'[c] = task[c]
    BY <1>a
  <2>2. Restore!InFlight' \subseteq Restore!InFlight
    BY <1>a, <2>1 DEF FitInv, RestoreInv, Restore!InFlight
  <2>3. \A c \in Clusters : stage' # "restoring" \/ c \notin found => task'[c] = "over"
    BY <1>a DEF FitInv
  <2> QED
    BY <1>1, <1>a, <2>2, <2>3, FitLeaves
<1>3. CASE Restore!NamespaceFails \/ Restore!Kill
  BY <1>3, <1>a DEF Restore!NamespaceFails, Restore!Kill, Restore!Bounds
<1>4. CASE Restore!Signal
  BY <1>4, <1>a DEF Restore!Signal, Restore!Bounds
<1>5. CASE Restore!Report
  BY <1>5, <1>a DEF Restore!Report, Restore!Bounds
<1>6. CASE Restore!CleanupEnds
  BY <1>6, <1>a DEF Restore!CleanupEnds, Restore!Bounds
<1>7. ASSUME NEW c \in Clusters, Restore!Collect(c) \/ Restore!CleanupLeft(c) PROVE FitInv'
  BY <1>7, <1>a DEF Restore!Collect, Restore!CleanupLeft, Restore!Bounds, Restore!jobVars
<1>8. CASE UNCHANGED Restore!vars
  BY <1>8, <1>a DEF Restore!vars, Restore!jobVars
<1> QED
  BY <1>1, <1>2, <1>3, <1>4, <1>5, <1>6, <1>7, <1>8, FitStep DEF Restore!Next

\* The restores in flight fit on the smallest disk, whichever of the clusters
\* they are and whatever was made room for before: no choice of as many clusters
\* as there are slots needs more than the largest ones, which were counted.
THEOREM RestoresAlwaysFit == ASSUME Sized PROVE Restore!Spec => []RestoresFit
<1>1. FitInv => RestoresFit
  <2> SUFFICES ASSUME FitInv PROVE Restore!RestoresFit
    BY DEF RestoresFit
  <2>1. CASE stage = "restoring"
    <3>1. found \in SUBSET Clusters /\ Restore!InFlight \in SUBSET found
      BY DEF FitInv, RestoreInv, Restore!InFlight
    <3>2. /\ Cardinality(Restore!InFlight) <= slots /\ slots \in Nat
          /\ slots <= Cardinality(found)
      BY <2>1 DEF FitInv
    <3>3. LET need == Restore!WithMargin(Restore!Total(Restore!InFlight))
              room == Restore!Needed(found, slots)
          IN  need \in Nat /\ room \in Nat /\ need <= room
      BY <3>1, <3>2, NeededIsEnough
    <3>4. Restore!Needed(found, slots) <= opts.free /\ opts.free \in Nat
      BY <2>1 DEF FitInv
    <3> QED
      BY <3>3, <3>4 DEF Restore!RestoresFit
  <2>2. CASE stage # "restoring"
    <3>1. Restore!InFlight = {}
      BY <2>2 DEF FitInv, RestoreInv, Restore!InFlight
    <3>2. Restore!Total({}) = 0
      <4>1. Blocks(Bytes, {}) = {}
        BY DEF Blocks
      <4> QED
        BY <4>1, TotalCounts, FS_EmptySet
    <3> QED
      BY <3>1, <3>2 DEF FitInv, Restore!RestoresFit, Restore!WithMargin, Sized
  <2> QED
    BY <2>1, <2>2
<1> QED
  BY FitInit, FitNext, <1>1, PTL DEF Restore!Spec

-----------------------------------------------------------------------------
(***************************************************************************)
(* gitea-mirror-sync: what is pruned and what a run leaves.                *)
(***************************************************************************)

Wanted == {Mirror!Of(m) : m \in desired}

\* What is to be pruned is not named by the file.
Doomed ==
  /\ sync # "owners" => doomed = {}
  /\ doomed \cap Wanted = {}

\* The first state satisfies the invariant.
LEMMA DoomedInit == Mirror!Init => Doomed
BY DEF Mirror!Init, Doomed

\* A run lists its doomed repositories once its file is resolved.
LEMMA DoomedNext == Doomed /\ [Mirror!Next]_(Mirror!vars) => Doomed'
<1> SUFFICES ASSUME Doomed, [Mirror!Next]_(Mirror!vars) PROVE Doomed'
  OBVIOUS
<1> USE DEF Doomed, Wanted, Mirror!Of, Mirror!Stops, Mirror!Settled
<1>1. ASSUME NEW f, NEW dry, NEW prune, Mirror!loadConfig(f, dry, prune) PROVE Doomed'
  BY <1>1 DEF Mirror!loadConfig
<1>2. ASSUME NEW m, Mirror!getRepo(m) PROVE Doomed'
  BY <1>2 DEF Mirror!getRepo
<1>3. CASE Mirror!migrate
  BY <1>3 DEF Mirror!migrate
<1>4. CASE Mirror!Refuse \/ Mirror!updateRepo
  BY <1>4 DEF Mirror!Refuse, Mirror!updateRepo
<1>5. CASE Mirror!StartPrune \/ Mirror!Finished \/ Mirror!Fails
  BY <1>5 DEF Mirror!StartPrune, Mirror!Finished, Mirror!Fails
<1>6. ASSUME NEW o, Mirror!listRepos(o) PROVE Doomed'
  <2>1. ASSUME NEW k \in Mirror!Unwanted(o), NEW m \in desired PROVE k # <<m.owner, m.name>>
    BY <2>1 DEF Mirror!Unwanted, Mirror!repoKey, Mirror!RepoKeys
  <2> QED
    BY <1>6, <2>1 DEF Mirror!listRepos
<1>7. ASSUME NEW k, Mirror!deleteRepo(k) PROVE Doomed'
  BY <1>7 DEF Mirror!deleteRepo
<1>8. ASSUME NEW k, Mirror!Edit(k) PROVE Doomed'
  BY <1>8 DEF Mirror!Edit, Mirror!runVars
<1>9. CASE UNCHANGED Mirror!vars
  BY <1>9 DEF Mirror!vars
<1> QED
  BY <1>1, <1>2, <1>3, <1>4, <1>5, <1>6, <1>7, <1>8, <1>9 DEF Mirror!Next

\* No run deletes a repository its own file names, whatever else is in the file
\* and whatever users do beside the run: names that differ in case are one.
THEOREM DesiredIsKept == Mirror!Spec => DesiredKept
<1>1. /\ Doomed /\ [Mirror!Next]_(Mirror!vars)
      => [\A k \in Mirror!RepoKeys :
            k \in doomed /\ k \notin doomed' /\ gitea[k].kind # "none" /\ gitea'[k].kind = "none"
              => k \notin {Mirror!Of(m) : m \in desired}]_(Mirror!vars)
  BY DEF Doomed, Wanted
<1> QED
  BY DoomedInit, DoomedNext, <1>1, PTL DEF Mirror!Spec, DesiredKept, Mirror!DesiredKept

\* A mirrors file as it is parsed, and its entries with their owners.
Spelling == {"none", "repo", "mirror"}
Repositories == [kind : Spelling, upper : BOOLEAN, private : BOOLEAN]
Declared(owners) ==
  [owner : owners, urlOwner : Owners \cup {None}, name : Repos, upper : BOOLEAN,
   private : BOOLEAN \cup {None}]
MirrorsFiles ==
  [mirrors : Seq(Declared(Owners \cup {None})), ownerFromURL : BOOLEAN,
   defaultOwner : Owners \cup {None}]

\* The repository of an entry is what the file says, or no mirror.
Fits(there, m) ==
  /\ there.kind # "none"
  /\ there.kind = "mirror" /\ m.private # None => there.private = m.private
Matches(m) == Fits(gitea[Mirror!Of(m)], m)

\* A mirror of a managed owner that the file does not name is on a list yet.
Pruning ==
  \A k \in Mirror!RepoKeys :
    k[1] \in Mirror!Managed /\ gitea[k].kind = "mirror" /\ k \notin Wanted
      => k[1] \in todo \/ k \in doomed

\* How far a run has come that no user interferes with.
Converging ==
  /\ sync = "desired" => \A m \in desired \ todo : Matches(m)
  /\ seen # None => seen.is = gitea[Mirror!Of(seen.m)]
  /\ sync = "owners" => Pruning /\ \A m \in desired : Matches(m)
  /\ outcome = "ok" =>
       /\ \A m \in desired : Matches(m)
       /\ flags.prune => \A k \in Mirror!RepoKeys :
                               k[1] \in Mirror!Managed /\ gitea[k].kind = "mirror" => k \in Wanted

MirrorInv ==
  /\ gitea \in [Mirror!RepoKeys -> Repositories]
  /\ sync \in {"idle", "desired", "owners"} /\ sync # "idle" => outcome = "none"
  /\ desired \subseteq Declared(Owners)
  /\ \A m, n \in desired : Mirror!Of(m) = Mirror!Of(n) => m = n
  /\ sync = "desired" => todo \subseteq desired
  /\ seen # None => sync = "desired" /\ seen.m \in todo /\ seen.is \in Repositories
  /\ Doomed
  /\ quiet /\ ~flags.dry => Converging

\* A resolved entry has an owner.
LEMMA ResolvedType ==
  ASSUME NEW f \in MirrorsFiles, Mirror!Loads(f)
  PROVE  /\ Mirror!ToSet(Mirror!Resolved(f)) \subseteq Declared(Owners)
         /\ \A m, n \in Mirror!ToSet(Mirror!Resolved(f)) : Mirror!Of(m) = Mirror!Of(n) => m = n
<1>1. f.mirrors \in Seq(Declared(Owners \cup {None})) /\ f.defaultOwner \in Owners \cup {None}
  BY DEF MirrorsFiles
<1>2. ASSUME NEW i \in DOMAIN f.mirrors
      PROVE  Mirror!Resolved(f)[i] \in Declared(Owners)
  <2>1. f.mirrors[i] \in Declared(Owners \cup {None})
    BY <1>1, <1>2
  <2>2. Mirror!OwnerOf(f, f.mirrors[i]) \in Owners \cup {None}
    BY <1>1, <2>1 DEF Mirror!OwnerOf, Declared
  <2>3. /\ Mirror!Resolved(f)[i] = [f.mirrors[i] EXCEPT !.owner = Mirror!OwnerOf(f, f.mirrors[i])]
        /\ Mirror!Resolved(f)[i].owner # None
    BY <1>2 DEF Mirror!Resolved, Mirror!Loads
  <2> QED
    BY <2>1, <2>2, <2>3 DEF Declared
<1>3. DOMAIN Mirror!Resolved(f) = DOMAIN f.mirrors
  BY DEF Mirror!Resolved
<1>4. Mirror!ToSet(Mirror!Resolved(f)) \subseteq Declared(Owners)
  BY <1>2, <1>3 DEF Mirror!ToSet
<1>5. ASSUME NEW i \in DOMAIN f.mirrors, NEW j \in DOMAIN f.mirrors,
             Mirror!Of(Mirror!Resolved(f)[i]) = Mirror!Of(Mirror!Resolved(f)[j])
      PROVE  i = j
  BY <1>5 DEF Mirror!Loads, Mirror!repoKey, Mirror!Of
<1> QED
  BY <1>3, <1>4, <1>5 DEF Mirror!ToSet

\* The first state satisfies the invariant.
LEMMA MirrorInit == Mirror!Init => MirrorInv
BY DoomedInit DEF Mirror!Init, Mirror!Absent, MirrorInv, Converging, Repositories, Spelling,
                  Mirror!Managed, Mirror!RepoKeys

\* A run that ends before it is done leaves nothing to show.
LEMMA MirrorStops ==
  ASSUME MirrorInv, Mirror!Stops("error") \/ Mirror!Stops("refused"), Doomed',
         gitea' \in [Mirror!RepoKeys -> Repositories], UNCHANGED desired
  PROVE  MirrorInv'
BY DEF MirrorInv, Mirror!Stops, Converging, Mirror!Of

\* The entry at hand is settled once its repository matches it.
LEMMA MirrorSettles ==
  ASSUME MirrorInv, Mirror!Settled, Doomed', sync = "desired", seen # None,
         UNCHANGED <<flags, desired, quiet>>, gitea' \in [Mirror!RepoKeys -> Repositories],
         quiet /\ ~flags.dry =>
           /\ Fits(gitea'[Mirror!Of(seen.m)], seen.m)
           /\ \A k \in Mirror!RepoKeys \ {Mirror!Of(seen.m)} : gitea'[k] = gitea[k]
  PROVE  MirrorInv'
<1> USE DEF Mirror!Settled
<1>1. seen.m \in desired
  BY DEF MirrorInv
<1>2. ASSUME quiet, ~flags.dry, NEW m \in desired, m \notin todo', m # seen.m
      PROVE  Matches(m)'
  <2>1. Mirror!Of(m) \in Mirror!RepoKeys \ {Mirror!Of(seen.m)} /\ Matches(m)
    BY <1>1, <1>2 DEF MirrorInv, Converging, Declared, Mirror!Of, Mirror!RepoKeys
  <2>2. gitea'[Mirror!Of(m)] = gitea[Mirror!Of(m)]
    BY <1>2, <2>1
  <2> QED
    BY <2>1, <2>2 DEF Matches, Mirror!Of
<1>3. quiet' /\ ~flags'.dry => Converging'
  <2> SUFFICES ASSUME quiet, ~flags.dry PROVE Converging'
    OBVIOUS
  <2>1. \A m \in desired : m \notin todo' => Matches(m)'
    BY <1>2 DEF Matches, Mirror!Of
  <2>2. sync' = "desired" /\ outcome' = "none" /\ seen' = None
    BY DEF MirrorInv
  <2> QED
    BY <2>1, <2>2 DEF Converging
<1> QED
  BY <1>1, <1>3 DEF MirrorInv, Mirror!Of

\* Every step keeps the invariant.
LEMMA MirrorNext ==
  Files \subseteq MirrorsFiles /\ MirrorInv /\ [Mirror!Next]_(Mirror!vars) => MirrorInv'
<1> SUFFICES ASSUME Files \subseteq MirrorsFiles, MirrorInv, [Mirror!Next]_(Mirror!vars)
             PROVE  MirrorInv'
  OBVIOUS
<1> USE DEF Mirror!Error
<1>1. Doomed'
  BY DoomedNext DEF MirrorInv
<1>2. ASSUME NEW f \in Files, NEW dry \in BOOLEAN, NEW prune \in BOOLEAN,
             Mirror!loadConfig(f, dry, prune)
      PROVE  MirrorInv'
  <2>1. /\ sync = "idle" /\ UNCHANGED gitea /\ flags' = [dry |-> dry, prune |-> prune]
        /\ desired' = IF Mirror!Loads(f) THEN Mirror!ToSet(Mirror!Resolved(f)) ELSE {}
        /\ IF Mirror!Loads(f)
           THEN /\ sync' = "desired" /\ todo' = desired' /\ outcome' = "none"
                /\ UNCHANGED <<seen, doomed>>
           ELSE Mirror!Stops("refused")
    BY <1>2 DEF Mirror!loadConfig
  <2>2. seen = None
    BY <2>1 DEF MirrorInv
  <2>3. /\ desired' \subseteq Declared(Owners)
        /\ \A m, n \in desired' : Mirror!Of(m) = Mirror!Of(n) => m = n
    BY <2>1, ResolvedType
  <2> QED
    BY <1>1, <2>1, <2>2, <2>3 DEF MirrorInv, Converging, Mirror!Stops, Mirror!Of
<1>3. ASSUME NEW m \in desired, Mirror!getRepo(m) PROVE MirrorInv'
  <2>1. /\ sync = "desired" /\ m \in todo /\ seen' = [m |-> m, is |-> gitea[Mirror!Of(m)]]
        /\ UNCHANGED <<gitea, sync, flags, desired, todo, doomed, outcome, quiet>>
    BY <1>3 DEF Mirror!getRepo
  <2>2. gitea[Mirror!Of(m)] \in Repositories
    BY <1>3 DEF MirrorInv, Declared, Mirror!Of, Mirror!RepoKeys
  <2> QED
    BY <1>1, <2>1, <2>2 DEF MirrorInv, Converging, Matches, Mirror!Of
<1>a. ASSUME sync = "desired", seen # None
      PROVE  /\ seen.m \in desired /\ Mirror!Of(seen.m) \in Mirror!RepoKeys
             /\ seen.m.private \in BOOLEAN \cup {None} /\ seen.m.upper \in BOOLEAN
             /\ gitea[Mirror!Of(seen.m)] \in Repositories
             /\ quiet /\ ~flags.dry => seen.is = gitea[Mirror!Of(seen.m)]
  BY <1>a DEF MirrorInv, Converging, Declared, Mirror!Of, Mirror!RepoKeys
<1>4. CASE Mirror!migrate
  <2>1. sync = "desired" /\ seen # None /\ UNCHANGED <<flags, desired, quiet>>
    BY <1>4 DEF Mirror!migrate
  <2>2. CASE Mirror!Settled /\ flags.dry /\ UNCHANGED gitea
    BY <1>1, <2>1, <2>2, MirrorSettles DEF MirrorInv
  <2>3. CASE Mirror!Stops("error") /\ UNCHANGED gitea
    BY <1>1, <2>1, <2>3, MirrorStops DEF MirrorInv
  <2>4. CASE gitea' = [gitea EXCEPT ![Mirror!Of(seen.m)] = [kind |-> "mirror",
                         upper |-> seen.m.upper, private |-> seen.m.private = TRUE]]
    <3>1. (seen.m.private = TRUE) \in BOOLEAN
      OBVIOUS
    <3>2. gitea' \in [Mirror!RepoKeys -> Repositories]
      BY <1>a, <2>1, <2>4, <3>1 DEF MirrorInv, Repositories, Spelling
    <3>3. gitea'[Mirror!Of(seen.m)] = [kind |-> "mirror", upper |-> seen.m.upper,
                                       private |-> seen.m.private = TRUE]
      BY <1>a, <2>1, <2>4 DEF MirrorInv
    <3>4. gitea'[Mirror!Of(seen.m)].kind = "mirror"
      BY <3>3
    <3>5. seen.m.private # None => gitea'[Mirror!Of(seen.m)].private = seen.m.private
      <4>1. CASE seen.m.private = TRUE
        <5> DEFINE mirrored(b) == [kind |-> "mirror", upper |-> seen.m.upper, private |-> b]
        <5>1. (seen.m.private = TRUE) = TRUE
          BY <4>1, Zenon
        <5>2. gitea'[Mirror!Of(seen.m)] = mirrored(TRUE)
          BY <3>3, <5>1, Zenon
        <5>3. mirrored(TRUE).private = TRUE
          OBVIOUS
        <5> QED
          BY <4>1, <5>2, <5>3, Zenon
      <4>2. CASE seen.m.private = FALSE
        <5> DEFINE mirrored(b) == [kind |-> "mirror", upper |-> seen.m.upper, private |-> b]
        <5>1. (seen.m.private = TRUE) = FALSE
          BY <4>2, Zenon
        <5>2. gitea'[Mirror!Of(seen.m)] = mirrored(FALSE)
          BY <3>3, <5>1, Zenon
        <5>3. mirrored(FALSE).private = FALSE
          OBVIOUS
        <5> QED
          BY <4>2, <5>2, <5>3, Zenon
      <4> QED
        BY <1>a, <2>1, <4>1, <4>2
    <3>6. CASE Mirror!Stops("error")
      BY <1>1, <2>1, <3>2, <3>6, MirrorStops
    <3>7. CASE Mirror!Settled
      <4>1. \A k \in Mirror!RepoKeys \ {Mirror!Of(seen.m)} : gitea'[k] = gitea[k]
        BY <2>4 DEF MirrorInv
      <4>2. Fits(gitea'[Mirror!Of(seen.m)], seen.m)
        BY <3>4, <3>5 DEF Fits
      <4> QED
        BY <1>1, <2>1, <3>2, <3>7, <4>1, <4>2, MirrorSettles
    <3> QED
      BY <1>4, <2>4, <3>6, <3>7 DEF Mirror!migrate
  <2> QED
    BY <1>4, <2>2, <2>3, <2>4 DEF Mirror!migrate
<1>5. CASE Mirror!Refuse
  <2>1. /\ sync = "desired" /\ seen # None /\ seen.is.kind = "repo" /\ Mirror!Settled
        /\ UNCHANGED <<gitea, flags, desired, quiet>>
    BY <1>5 DEF Mirror!Refuse
  <2>2. quiet /\ ~flags.dry => Fits(gitea'[Mirror!Of(seen.m)], seen.m)
    BY <1>a, <2>1 DEF Fits
  <2> QED
    BY <1>1, <2>1, <2>2, MirrorSettles DEF MirrorInv
<1>6. CASE Mirror!updateRepo
  <2>1. /\ sync = "desired" /\ seen # None /\ seen.is.kind = "mirror"
        /\ UNCHANGED <<flags, desired, quiet>>
    BY <1>6 DEF Mirror!updateRepo
  <2>2. CASE Mirror!Settled /\ flags.dry /\ UNCHANGED gitea
    BY <1>1, <2>1, <2>2, MirrorSettles DEF MirrorInv
  <2>3. CASE Mirror!Stops("error") /\ UNCHANGED gitea
    BY <1>1, <2>1, <2>3, MirrorStops DEF MirrorInv
  <2>4. CASE /\ gitea' = [gitea EXCEPT ![Mirror!Of(seen.m)].private =
                              IF seen.m.private = None THEN @ ELSE seen.m.private]
             /\ Mirror!Settled
    <3> DEFINE k == Mirror!Of(seen.m)
    <3>1. gitea' = [gitea EXCEPT ![k] = gitea'[k]]
      BY <1>a, <2>1, <2>4 DEF MirrorInv
    <3>2. /\ gitea'[k] \in Repositories
          /\ seen.m.private # None => gitea'[k].private = seen.m.private
      BY <1>a, <2>1, <2>4 DEF MirrorInv, Repositories
    <3>3. quiet /\ ~flags.dry => gitea'[k].kind = "mirror"
      BY <1>a, <2>1, <2>4 DEF MirrorInv, Repositories
    <3>4. /\ gitea' \in [Mirror!RepoKeys -> Repositories]
          /\ \A j \in Mirror!RepoKeys \ {k} : gitea'[j] = gitea[j]
      BY <1>a, <2>1, <3>1, <3>2 DEF MirrorInv
    <3>5. quiet /\ ~flags.dry => Fits(gitea'[k], seen.m)
      BY <3>2, <3>3 DEF Fits
    <3> QED
      BY <1>1, <2>1, <2>4, <3>4, <3>5, MirrorSettles
  <2> QED
    BY <1>6, <2>2, <2>3, <2>4 DEF Mirror!updateRepo
<1>7. CASE Mirror!StartPrune
  <2>1. /\ sync = "desired" /\ todo = {} /\ UNCHANGED <<gitea, flags, desired, quiet>>
        /\ \/ /\ sync' = "owners" /\ todo' = Mirror!Managed
              /\ UNCHANGED <<seen, doomed, outcome>>
           \/ ~flags.prune /\ Mirror!Stops("ok")
    BY <1>7 DEF Mirror!StartPrune
  <2>2. seen = None
    BY <2>1 DEF MirrorInv
  <2>3. quiet /\ ~flags.dry => \A m \in desired : Matches(m)'
    BY <2>1 DEF MirrorInv, Converging, Matches, Mirror!Of
  <2>4. quiet /\ ~flags.dry => Converging'
    BY <2>1, <2>2, <2>3 DEF MirrorInv, Converging, Pruning, Mirror!Managed, Mirror!Stops
  <2> QED
    BY <1>1, <2>1, <2>2, <2>4 DEF MirrorInv, Mirror!Stops, Mirror!Of
<1>b. ASSUME sync = "owners", UNCHANGED <<sync, desired, seen, outcome, flags, quiet>>,
             gitea' \in [Mirror!RepoKeys -> Repositories],
             \A k \in Wanted : gitea'[k] = gitea[k],
             quiet /\ ~flags.dry => Pruning'
      PROVE  MirrorInv'
  <2>1. seen = None /\ outcome = "none"
    BY <1>b DEF MirrorInv
  <2>2. quiet /\ ~flags.dry => \A m \in desired : Matches(m)'
    BY <1>b DEF MirrorInv, Converging, Matches, Mirror!Of, Wanted
  <2>3. quiet /\ ~flags.dry => Converging'
    BY <1>b, <2>1, <2>2 DEF Converging
  <2> QED
    BY <1>1, <1>b, <2>1, <2>3 DEF MirrorInv, Mirror!Of
<1>8. ASSUME NEW o \in Owners, Mirror!listRepos(o) PROVE MirrorInv'
  <2>1. /\ sync = "owners" /\ doomed = {} /\ todo' = todo \ {o}
        /\ doomed' = Mirror!Unwanted(o)
        /\ UNCHANGED <<gitea, sync, flags, desired, seen, outcome, quiet>>
    BY <1>8 DEF Mirror!listRepos
  <2>2. ASSUME NEW k \in Mirror!RepoKeys, k[1] = o, gitea[k].kind = "mirror", k \notin Wanted
        PROVE  k \in Mirror!Unwanted(o)
    BY <2>2 DEF Mirror!Unwanted, Mirror!repoKey, Wanted, Mirror!Of, Mirror!RepoKeys
  <2>3. quiet /\ ~flags.dry => Pruning'
    BY <2>1, <2>2 DEF MirrorInv, Converging, Pruning, Mirror!Managed, Wanted, Mirror!Of
  <2> QED
    BY <1>b, <2>1, <2>3 DEF MirrorInv
<1>9. ASSUME NEW k \in Mirror!RepoKeys, Mirror!deleteRepo(k) PROVE MirrorInv'
  <2>1. /\ sync = "owners" /\ k \in doomed /\ doomed' = doomed \ {k}
        /\ gitea' = IF flags.dry THEN gitea ELSE [gitea EXCEPT ![k] = Mirror!Absent]
        /\ UNCHANGED <<todo, sync, flags, desired, seen, outcome, quiet>>
    BY <1>9 DEF Mirror!deleteRepo
  <2>2. /\ gitea' \in [Mirror!RepoKeys -> Repositories]
        /\ \A j \in Mirror!RepoKeys \ {k} : gitea'[j] = gitea[j]
        /\ ~flags.dry => gitea'[k].kind = "none"
    BY <2>1 DEF MirrorInv, Mirror!Absent, Repositories, Spelling
  <2>3. \A j \in Wanted : gitea'[j] = gitea[j]
    <3>1. Wanted \subseteq Mirror!RepoKeys \ {k}
      BY <2>1 DEF MirrorInv, Doomed, Wanted, Mirror!Of, Mirror!RepoKeys, Declared
    <3> QED
      BY <2>2, <3>1
  <2>4. quiet /\ ~flags.dry => Pruning'
    BY <2>1, <2>2 DEF MirrorInv, Converging, Pruning, Mirror!Managed, Wanted, Mirror!Of
  <2> QED
    BY <1>b, <2>1, <2>2, <2>3, <2>4
<1>10. CASE Mirror!Finished
  <2>1. /\ sync = "owners" /\ todo = {} /\ doomed = {} /\ Mirror!Stops("ok")
        /\ UNCHANGED <<gitea, flags, desired, quiet>>
    BY <1>10 DEF Mirror!Finished
  <2>2. quiet /\ ~flags.dry => Converging'
    BY <2>1 DEF MirrorInv, Converging, Pruning, Mirror!Managed, Mirror!Stops, Matches,
                Mirror!Of, Wanted
  <2> QED
    BY <1>1, <2>1, <2>2 DEF MirrorInv, Mirror!Stops, Mirror!Of
<1>11. CASE Mirror!Fails
  BY <1>1, <1>11, MirrorStops DEF Mirror!Fails, MirrorInv
<1>12. ASSUME NEW k \in Mirror!RepoKeys, Mirror!Edit(k) PROVE MirrorInv'
  <2>1. /\ ~quiet' /\ UNCHANGED <<sync, flags, desired, todo, seen, doomed, outcome>>
        /\ gitea' \in [Mirror!RepoKeys -> Repositories]
    BY <1>12 DEF Mirror!Edit, Mirror!runVars, MirrorInv, Mirror!Absent, Repositories, Spelling
  <2> QED
    BY <1>1, <2>1 DEF MirrorInv, Mirror!Of
<1>13. CASE UNCHANGED Mirror!vars
  BY <1>1, <1>13 DEF Mirror!vars, MirrorInv, Converging, Pruning, Matches, Mirror!Of, Wanted,
                     Mirror!Managed
<1> QED
  BY <1>2, <1>3, <1>4, <1>5, <1>6, <1>7, <1>8, <1>9, <1>10, <1>11, <1>12, <1>13
  DEF Mirror!Next

\* After a run to the end beside which no user did anything the owners it knows
\* have the mirrors of its file and no other, for any number of owners, entries,
\* earlier runs and failures, whatever order it takes them in.
THEOREM RunsConverge ==
  ASSUME Files \subseteq MirrorsFiles PROVE Mirror!Spec => []Converged
<1>1. MirrorInv => Converged
  BY DEF MirrorInv, Converging, Matches, Fits, Wanted, Converged, Mirror!Converged
<1> QED
  BY MirrorInit, MirrorNext, <1>1, PTL DEF Mirror!Spec

-----------------------------------------------------------------------------
(***************************************************************************)
(* telegram-hub: what a user is sent.                                      *)
(***************************************************************************)

Links == {Speech!Nil.link} \cup UNION {k.asks[h] : k \in Households, h \in Handlers}
Pages == {l.page : l \in Links}
Goroutines ==
  [at : {"idle", "lookup", "generate", "writing", "staged", "remuxing", "probe", "send"},
   link : Links, src : Inodes \cup {0}, out : Inodes \cup {0}, fine : BOOLEAN]

PageOf(h) == hd[h].link.page
Whole(page) == [of |-> page, whole |-> TRUE]
Mp3Of(page) == <<page, "mp3">>
TempOf(page) == <<page, "temp">>

SpeechTyped ==
  /\ 0 \notin Inodes
  /\ household \in Households
  /\ disk \in [Inodes -> [of : Pages, whole : BOOLEAN]]
  /\ hd \in [Handlers -> Goroutines]
  /\ paths = [p \in DOMAIN paths |-> paths[p]] /\ DOMAIN paths \subseteq Pages \X {"mp3", "temp"}
  /\ \A p \in DOMAIN paths : paths[p] \in Inodes
  /\ \A h \in Handlers :
       /\ (hd[h].out # 0) <=> (hd[h].at \in {"writing", "remuxing"})
       /\ (hd[h].src # 0) <=> (hd[h].at = "remuxing")

\* The files of different articles are different inodes, the open ones included.
Opens(h, i) == i # 0 /\ i \in {hd[h].out, hd[h].src}
Parted ==
  /\ \A p, q \in DOMAIN paths : paths[p] = paths[q] => p = q
  /\ \A p \in DOMAIN paths, h \in Handlers : Opens(h, paths[p]) => p[1] = PageOf(h)
  /\ \A g, h \in Handlers, i \in Inodes : Opens(g, i) /\ Opens(h, i) => PageOf(g) = PageOf(h)

\* Who makes the audio of an article that is not torn is alone with it,
Alone(h) ==
  \A g \in Handlers : PageOf(g) = PageOf(h) /\ g # h =>
    g \notin Speech!Making /\ hd[g].at \notin {"probe", "send"}
\* ... and knows what there is of it.
Knows(h) ==
  LET mp3 == Mp3Of(PageOf(h))
      staged == TempOf(PageOf(h))
  IN /\ hd[h].at \in {"generate", "writing", "staged"} => mp3 \notin DOMAIN paths
     /\ hd[h].at = "writing" => staged \in DOMAIN paths /\ paths[staged] = hd[h].out
     /\ hd[h].at = "staged" => staged \in DOMAIN paths /\ disk[paths[staged]] = Whole(PageOf(h))
     /\ hd[h].at = "remuxing" =>
          /\ disk[hd[h].src] = Whole(PageOf(h)) /\ hd[h].fine
          /\ staged \in DOMAIN paths /\ paths[staged] = hd[h].src
          /\ mp3 \in DOMAIN paths /\ paths[mp3] = hd[h].out
     /\ hd[h].at \in {"probe", "send"} => mp3 \in DOMAIN paths
Careful ==
  \A h \in Handlers : PageOf(h) \notin torn =>
    /\ h \in Speech!Making => Alone(h)
    /\ Knows(h)

\* What is in the cache is whole or being remuxed.
CacheWhole ==
  \A page \in Pages : Mp3Of(page) \in DOMAIN paths /\ page \notin torn =>
    \/ disk[paths[Mp3Of(page)]] = Whole(page)
    \/ \E h \in Handlers : hd[h].at = "remuxing" /\ PageOf(h) = page

SpeechInv == SpeechTyped /\ Parted /\ Careful /\ CacheWhole /\ Speech!DeliveredWhole

\* The first state satisfies the invariant.
LEMMA SpeechInit == 0 \notin Inodes /\ Speech!Init => SpeechInv
<1> SUFFICES ASSUME 0 \notin Inodes, Speech!Init PROVE SpeechInv
  OBVIOUS
<1>1. Speech!Nil.link \in Links /\ "none" \in Pages
  <2>1. Speech!Nil.link \in Links
    BY DEF Links
  <2>2. Speech!Nil.link.page = "none"
    BY DEF Speech!Nil
  <2> QED
    BY <2>1, <2>2 DEF Pages
<1>2. Speech!Nil \in Goroutines
  BY <1>1 DEF Goroutines, Speech!Nil
<1>3. SpeechTyped
  BY <1>1, <1>2 DEF Speech!Init, SpeechTyped, Speech!Empty, Speech!Nil
<1>4. Parted
  BY DEF Speech!Init, Parted, Opens, Speech!Nil
<1>5. Careful /\ CacheWhole
  BY DEF Speech!Init, Careful, Knows, CacheWhole, Speech!Making, Speech!Nil
<1>6. Speech!DeliveredWhole
  BY DEF Speech!Init, Speech!DeliveredWhole
<1> QED
  BY <1>3, <1>4, <1>5, <1>6 DEF SpeechInv

\* A goroutine that neither has nor gets a file open changes nothing for the
\* others, provided it takes none of their articles.
LEMMA SpeechAside ==
  ASSUME SpeechInv, NEW h \in Handlers, hd'[h] \in Goroutines,
         hd' = [hd EXCEPT ![h] = hd'[h]], UNCHANGED <<household, disk, paths>>,
         torn \subseteq torn', hd[h].at # "remuxing",
         hd'[h].out = 0, hd'[h].src = 0, hd'[h].at \notin {"writing", "staged", "remuxing"},
         PageOf(h)' \notin torn' => (h \in Speech!Making' => Alone(h)') /\ Knows(h)',
         \A g \in Handlers : PageOf(g) \notin torn' /\ g \in Speech!Making =>
           \/ g = h \/ PageOf(g) # PageOf(h)'
           \/ h \notin Speech!Making' /\ hd'[h].at \notin {"probe", "send"},
         Speech!DeliveredWhole'
  PROVE  SpeechInv'
<1>1. \A g \in Handlers \ {h} : hd'[g] = hd[g]
  BY DEF SpeechInv, SpeechTyped
<1>2. SpeechTyped'
  <2>1. hd' \in [Handlers -> Goroutines]
    BY DEF SpeechInv, SpeechTyped
  <2> QED
    BY <1>1, <2>1 DEF SpeechInv, SpeechTyped
<1>3. Parted'
  <2>1. \A g \in Handlers, i \in Inodes : Opens(g, i)' => Opens(g, i) /\ PageOf(g)' = PageOf(g)
    BY <1>1 DEF Opens, PageOf
  <2>2. \A p \in DOMAIN paths : paths[p] \in Inodes
    BY DEF SpeechInv, SpeechTyped
  <2>3. Parted
    BY DEF SpeechInv
  <2> HIDE DEF Opens, PageOf
  <2> QED
    BY <2>1, <2>2, <2>3 DEF Parted, Opens
<1>4. Careful'
  <2> SUFFICES ASSUME NEW g \in Handlers, PageOf(g)' \notin torn'
               PROVE  (g \in Speech!Making' => Alone(g)') /\ Knows(g)'
    BY DEF Careful
  <2>1. CASE g = h
    BY <2>1
  <2>2. CASE g # h
    <3>1. hd'[g] = hd[g] /\ PageOf(g) \notin torn /\ PageOf(g) \notin torn'
      BY <1>1, <2>2 DEF PageOf
    <3>2. (g \in Speech!Making => Alone(g)) /\ Knows(g)
      BY <3>1 DEF SpeechInv, Careful
    <3>3. Knows(g)'
      BY <3>1, <3>2 DEF Knows, PageOf
    <3>4. ASSUME g \in Speech!Making' PROVE Alone(g)'
      BY <1>1, <2>2, <3>1, <3>2, <3>4 DEF Alone, Speech!Making, PageOf
    <3> QED
      BY <3>3, <3>4
  <2> QED
    BY <2>1, <2>2
<1>5. CacheWhole'
  <2>1. \A g \in Handlers : hd[g].at = "remuxing" => g # h
    OBVIOUS
  <2> QED
    BY <1>1, <2>1 DEF SpeechInv, CacheWhole, PageOf
<1> QED
  BY <1>2, <1>3, <1>4, <1>5 DEF SpeechInv

\* A goroutine that is done, or gives up, leaves the others alone.
LEMMA SpeechAnswers ==
  ASSUME SpeechInv, NEW h \in Handlers, Speech!Answers(h), UNCHANGED <<household, disk, paths>>,
         torn \subseteq torn', hd[h].at # "remuxing", Speech!DeliveredWhole'
  PROVE  SpeechInv'
<1>1. hd' = [hd EXCEPT ![h] = Speech!Nil] /\ hd'[h] = Speech!Nil
  BY DEF Speech!Answers, SpeechInv, SpeechTyped
<1>2. Speech!Nil \in Goroutines
  BY DEF Goroutines, Links, Speech!Nil
<1>3. /\ hd'[h].at = "idle" /\ hd'[h].out = 0 /\ hd'[h].src = 0
  BY <1>1 DEF Speech!Nil
<1>4. h \notin Speech!Making' /\ Knows(h)'
  BY <1>3 DEF Speech!Making, Knows
<1> QED
  BY <1>1, <1>2, <1>3, <1>4, SpeechAside

\* The steps that touch no file.
LEMMA SpeechReads ==
  ASSUME SpeechInv, NEW h \in Handlers,
         \/ \E link \in household.asks[h] : Speech!Ask(h, link)
         \/ Speech!Lookup(h) \/ Speech!audioDuration(h) \/ Speech!sendAudio(h)
         \/ Speech!friendlyError(h) \/ Speech!WriteFails(h)
  PROVE  SpeechInv'
<1>1. hd \in [Handlers -> Goroutines] /\ hd[h] \in Goroutines /\ household \in Households
  BY DEF SpeechInv, SpeechTyped
<1>2. ASSUME hd[h].at \notin {"writing", "remuxing"} PROVE hd[h].out = 0 /\ hd[h].src = 0
  <2>1. /\ (hd[h].out # 0) <=> (hd[h].at \in {"writing", "remuxing"})
        /\ (hd[h].src # 0) <=> (hd[h].at = "remuxing")
    BY DEF SpeechInv, SpeechTyped
  <2> QED
    BY <1>2, <2>1
<1>3. ASSUME UNCHANGED <<delivered>>, torn \subseteq torn' PROVE Speech!DeliveredWhole'
  BY <1>3 DEF SpeechInv, Speech!DeliveredWhole
<1>4. CASE \E link \in household.asks[h] : Speech!Ask(h, link)
  <2>1. PICK link \in household.asks[h] : Speech!Ask(h, link)
    BY <1>4
  <2>2. link \in Links
    BY <1>1 DEF Links
  <2>3. /\ hd[h].at = "idle" /\ hd' = [hd EXCEPT ![h].at = "lookup", ![h].link = link]
        /\ UNCHANGED <<household, disk, paths, delivered, torn>>
    BY <2>1 DEF Speech!Ask
  <2>4. /\ hd'[h] \in Goroutines /\ hd' = [hd EXCEPT ![h] = hd'[h]]
        /\ hd'[h].at = "lookup" /\ hd'[h].out = hd[h].out /\ hd'[h].src = hd[h].src
    BY <1>1, <2>2, <2>3 DEF Goroutines
  <2>5. h \notin Speech!Making' /\ Knows(h)'
    BY <2>4 DEF Speech!Making, Knows
  <2> QED
    BY <1>2, <1>3, <2>3, <2>4, <2>5, SpeechAside
<1>5. CASE Speech!Lookup(h)
  <2>1. /\ hd[h].at = "lookup" /\ UNCHANGED <<household, disk, paths, delivered>>
        /\ hd' = [hd EXCEPT ![h].at = IF Mp3Of(PageOf(h)) \in DOMAIN paths THEN "probe"
                                                                          ELSE "generate"]
        /\ torn' = torn \cup ({PageOf(h)} \cap {PageOf(q) : q \in Speech!Making})
    BY <1>5 DEF Speech!Lookup, Speech!Goes, Speech!Mp3, Speech!getCacheFilename,
                Speech!sanitizeURL, Mp3Of, PageOf
  <2>2. /\ hd'[h] \in Goroutines /\ hd' = [hd EXCEPT ![h] = hd'[h]]
        /\ hd'[h].out = hd[h].out /\ hd'[h].src = hd[h].src /\ hd'[h].link = hd[h].link
        /\ hd'[h].at = IF Mp3Of(PageOf(h)) \in DOMAIN paths THEN "probe" ELSE "generate"
    BY <1>1, <2>1 DEF Goroutines
  <2>3. PageOf(h)' = PageOf(h) /\ \A g \in Handlers \ {h} : hd'[g] = hd[g]
    BY <1>1, <2>2 DEF PageOf
  <2>4. Knows(h)'
    BY <2>1, <2>2, <2>3 DEF Knows
  <2>5. \A g \in Handlers : PageOf(g) \notin torn' /\ g \in Speech!Making => PageOf(g) # PageOf(h)
    BY <2>1
  <2>6. ASSUME PageOf(h) \notin torn', h \in Speech!Making' PROVE Alone(h)'
    <3>1. Mp3Of(PageOf(h)) \notin DOMAIN paths
      BY <2>2, <2>6 DEF Speech!Making
    <3>2. ASSUME NEW g \in Handlers, PageOf(g) = PageOf(h), g # h
          PROVE  g \notin Speech!Making /\ hd[g].at \notin {"probe", "send"}
      <4>1. g \notin Speech!Making
        BY <2>5, <2>6, <3>2
      <4>2. PageOf(g) \notin torn
        BY <2>1, <2>6, <3>2
      <4>3. Knows(g)
        BY <4>2 DEF SpeechInv, Careful
      <4> QED
        BY <3>1, <3>2, <4>1, <4>3 DEF Knows
    <3> QED
      BY <2>3, <3>2 DEF Alone, Speech!Making, PageOf
  <2>7. torn \subseteq torn' /\ hd[h].at = "lookup" /\ hd'[h].at \in {"probe", "generate"}
    BY <2>1, <2>2
  <2>8. Speech!DeliveredWhole' /\ hd'[h].out = 0 /\ hd'[h].src = 0
    BY <1>2, <1>3, <2>1, <2>2, <2>7
  <2>9. \A g \in Handlers : PageOf(g) \notin torn' /\ g \in Speech!Making
          => PageOf(g) # PageOf(h)'
    BY <2>3, <2>5
  <2> QED
    BY <2>1, <2>2, <2>3, <2>4, <2>6, <2>7, <2>8, <2>9, SpeechAside
<1>6. CASE Speech!audioDuration(h)
  <2>1. /\ hd[h].at = "probe" /\ UNCHANGED <<household, disk, paths, delivered, torn>>
        /\ hd' = [hd EXCEPT ![h].at = "send"] /\ Mp3Of(PageOf(h)) \in DOMAIN paths
    BY <1>6 DEF Speech!audioDuration, Speech!Goes, Speech!Mp3, Speech!getCacheFilename,
                Speech!sanitizeURL, Mp3Of, PageOf
  <2>2. /\ hd'[h] \in Goroutines /\ hd' = [hd EXCEPT ![h] = hd'[h]] /\ hd'[h].at = "send"
        /\ hd'[h].out = hd[h].out /\ hd'[h].src = hd[h].src /\ hd'[h].link = hd[h].link
    BY <1>1, <2>1 DEF Goroutines
  <2>3. PageOf(h)' = PageOf(h) /\ h \notin Speech!Making /\ h \notin Speech!Making'
    BY <2>1, <2>2 DEF PageOf, Speech!Making
  <2>4. Knows(h)'
    BY <2>1, <2>2, <2>3 DEF Knows
  <2>5. \A g \in Handlers : PageOf(g) \notin torn' /\ g \in Speech!Making => PageOf(g) # PageOf(h)
    BY <2>1, <2>3 DEF SpeechInv, Careful, Alone
  <2> QED
    BY <1>2, <1>3, <2>1, <2>2, <2>3, <2>4, <2>5, SpeechAside
<1>7. CASE Speech!sendAudio(h)
  <2>1. /\ hd[h].at = "send" /\ Speech!Answers(h) /\ UNCHANGED <<household, disk, paths, torn>>
        /\ Mp3Of(PageOf(h)) \in DOMAIN paths
        /\ delivered' = [asked |-> PageOf(h), got |-> disk[paths[Mp3Of(PageOf(h))]]]
    BY <1>7 DEF Speech!sendAudio, Speech!Mp3, Speech!getCacheFilename, Speech!sanitizeURL,
                Mp3Of, PageOf
  <2>2. ASSUME PageOf(h) \notin torn PROVE disk[paths[Mp3Of(PageOf(h))]] = Whole(PageOf(h))
    <3>1. PageOf(h) \in Pages
      BY <1>1 DEF Goroutines, Pages, PageOf
    <3>2. ASSUME NEW g \in Handlers, hd[g].at = "remuxing" PROVE PageOf(g) # PageOf(h)
      <4>1. g \in Speech!Making /\ g # h
        BY <2>1, <3>2 DEF Speech!Making
      <4> QED
        BY <2>1, <2>2, <4>1 DEF SpeechInv, Careful, Alone
    <3> QED
      BY <2>1, <2>2, <3>1, <3>2 DEF SpeechInv, CacheWhole
  <2>3. Speech!DeliveredWhole'
    BY <2>1, <2>2 DEF Speech!DeliveredWhole, Whole
  <2> QED
    BY <2>1, <2>3, SpeechAnswers
<1>8. CASE Speech!friendlyError(h) \/ Speech!WriteFails(h)
  BY <1>3, <1>8, SpeechAnswers DEF Speech!friendlyError, Speech!WriteFails
<1> QED
  BY <1>4, <1>5, <1>6, <1>7, <1>8

\* A step of h touches its own article's files only: of the inodes that are
\* there, none but i.
Touches(h, i) ==
  /\ hd' \in [Handlers -> Goroutines] /\ \A g \in Handlers \ {h} : hd'[g] = hd[g]
  /\ PageOf(h)' = PageOf(h) \/ hd'[h].at = "idle"
  /\ \A j \in Inodes \ {i} : disk'[j] = disk[j]
  /\ \A p \in DOMAIN paths : paths[p] = i => p[1] = PageOf(h)
  /\ \A g \in Handlers : Opens(g, i) => PageOf(g) = PageOf(h)
  /\ \A page \in Pages \ {PageOf(h)}, kind \in {"mp3", "temp"} :
       /\ <<page, kind>> \in DOMAIN paths' <=> <<page, kind>> \in DOMAIN paths
       /\ <<page, kind>> \in DOMAIN paths => paths'[<<page, kind>>] = paths[<<page, kind>>]

\* What h does with its own files is all that matters.
LEMMA SpeechFile ==
  ASSUME SpeechInv, NEW h \in Speech!Making, NEW i \in (Inodes \cup {0}), Touches(h, i),
         torn \subseteq torn', UNCHANGED delivered, SpeechTyped', Parted',
         PageOf(h) \notin torn' => Knows(h)',
         PageOf(h) \notin torn' /\ Mp3Of(PageOf(h)) \in DOMAIN paths' =>
           \/ disk'[paths'[Mp3Of(PageOf(h))]] = Whole(PageOf(h))
           \/ hd'[h].at = "remuxing"
  PROVE  SpeechInv'
<1>1. h \in Handlers /\ \A g \in Handlers \ {h} : hd'[g] = hd[g] /\ PageOf(g)' = PageOf(g)
  BY DEF Speech!Making, Touches, PageOf
<1>2. /\ \A g \in Handlers : PageOf(g) \in Pages
      /\ \A g \in Handlers : hd[g].at = "remuxing" =>
                hd[g].src \in Inodes /\ hd[g].src # 0
      /\ \A p \in DOMAIN paths : paths[p] \in Inodes
  BY DEF SpeechInv, SpeechTyped, Goroutines, Pages, PageOf
<1>3. ASSUME NEW g \in Handlers, g # h, PageOf(g) \notin torn', PageOf(g) = PageOf(h)
      PROVE  g \notin Speech!Making /\ hd[g].at \notin {"probe", "send"}
  <2>1. PageOf(h) \notin torn
    BY <1>3
  <2>2. Alone(h)
    BY <1>1, <2>1 DEF SpeechInv, Careful
  <2> QED
    BY <1>3, <2>2 DEF Alone
<1>4. ASSUME NEW g \in Handlers, g # h, PageOf(g) \notin torn', PageOf(g) # PageOf(h)
      PROVE  (g \in Speech!Making => Alone(g)') /\ Knows(g)'
  <2>1. (g \in Speech!Making => Alone(g)) /\ Knows(g) /\ PageOf(g) \in Pages \ {PageOf(h)}
    BY <1>2, <1>4 DEF SpeechInv, Careful
  <2>2. ASSUME g \in Speech!Making PROVE Alone(g)'
    <3>1. ASSUME NEW q \in Handlers, PageOf(q)' = PageOf(g), q # g
          PROVE  q \notin Speech!Making' /\ hd'[q].at \notin {"probe", "send"}
      <4>1. CASE q = h
        BY <1>4, <3>1, <4>1 DEF Touches, Speech!Making
      <4>2. CASE q # h
        BY <1>1, <2>1, <2>2, <3>1, <4>2 DEF Alone, Speech!Making
      <4> QED
        BY <4>1, <4>2
    <3> QED
      BY <1>1, <1>4, <3>1 DEF Alone
  <2> DEFINE P == PageOf(g)
  <2>3. \A kind \in {"mp3", "temp"} :
          /\ <<P, kind>> \in DOMAIN paths' <=> <<P, kind>> \in DOMAIN paths
          /\ <<P, kind>> \in DOMAIN paths =>
               /\ paths'[<<P, kind>>] = paths[<<P, kind>>]
               /\ disk'[paths[<<P, kind>>]] = disk[paths[<<P, kind>>]]
    <3>1. \A kind \in {"mp3", "temp"} :
            <<P, kind>> \in DOMAIN paths => paths[<<P, kind>>] # i
      BY <1>4 DEF Touches
    <3> QED
      BY <1>2, <2>1, <3>1 DEF Touches
  <2>4. hd[g].at = "remuxing" => disk'[hd[g].src] = disk[hd[g].src]
    BY <1>2, <1>4 DEF Touches, Opens
  <2>5. hd'[g] = hd[g] /\ PageOf(g)' = P
    BY <1>1, <1>4
  <2> HIDE DEF P
  <2>6. P = PageOf(g)
    BY DEF P
  <2>7. Knows(g)'
    BY <2>1, <2>3, <2>4, <2>5, <2>6 DEF Knows, Mp3Of, TempOf
  <2> QED
    BY <2>2, <2>7
<1>5. Careful'
  <2> SUFFICES ASSUME NEW g \in Handlers, PageOf(g)' \notin torn'
               PROVE  (g \in Speech!Making' => Alone(g)') /\ Knows(g)'
    BY DEF Careful
  <2>1. CASE g # h
    <3>1. hd'[g] = hd[g] /\ PageOf(g)' = PageOf(g)
      BY <1>1, <2>1
    <3>2. CASE PageOf(g) = PageOf(h)
      <4>1. g \notin Speech!Making' /\ hd'[g].at \notin {"probe", "send"}
        BY <1>3, <2>1, <3>1, <3>2 DEF Speech!Making
      <4>2. Knows(g)'
        BY <4>1 DEF Knows, Speech!Making
      <4> QED
        BY <4>1, <4>2
    <3>3. CASE PageOf(g) # PageOf(h)
      BY <1>4, <2>1, <3>1, <3>3 DEF Speech!Making
    <3> QED
      BY <3>2, <3>3
  <2>2. CASE g = h /\ hd'[h].at = "idle"
    BY <2>2 DEF Knows, Speech!Making
  <2>3. CASE g = h /\ PageOf(h)' = PageOf(h)
    <3>1. ASSUME NEW q \in Handlers, PageOf(q)' = PageOf(h), q # h
          PROVE  q \notin Speech!Making' /\ hd'[q].at \notin {"probe", "send"}
      BY <1>1, <1>3, <2>3, <3>1 DEF Speech!Making
    <3>2. Alone(h)'
      BY <2>3, <3>1 DEF Alone
    <3> QED
      BY <2>3, <3>2
  <2> QED
    BY <2>1, <2>2, <2>3 DEF Touches
<1>6. CacheWhole'
  <2> SUFFICES ASSUME NEW page \in Pages, Mp3Of(page) \in DOMAIN paths', page \notin torn'
               PROVE  \/ disk'[paths'[Mp3Of(page)]] = Whole(page)
                      \/ \E g \in Handlers : hd'[g].at = "remuxing" /\ PageOf(g)' = page
    BY DEF CacheWhole, Mp3Of, Whole
  <2>1. CASE page = PageOf(h)
    BY <1>1, <2>1 DEF Touches
  <2>2. CASE page # PageOf(h)
    <3>1. Mp3Of(page) \in DOMAIN paths /\ paths'[Mp3Of(page)] = paths[Mp3Of(page)]
      BY <2>2 DEF Touches, Mp3Of
    <3>2. paths[Mp3Of(page)] # i
      BY <2>2, <3>1 DEF Touches, Mp3Of
    <3>3. disk'[paths[Mp3Of(page)]] = disk[paths[Mp3Of(page)]]
      BY <1>2, <3>1, <3>2 DEF Touches
    <3>4. \/ disk[paths[Mp3Of(page)]] = Whole(page)
          \/ \E g \in Handlers : hd[g].at = "remuxing" /\ PageOf(g) = page
      BY <3>1 DEF SpeechInv, CacheWhole
    <3> QED
      BY <1>1, <2>2, <3>1, <3>3, <3>4
  <2> QED
    BY <2>1, <2>2
<1>7. Speech!DeliveredWhole'
  BY DEF SpeechInv, Speech!DeliveredWhole
<1> QED
  BY <1>5, <1>6, <1>7 DEF SpeechInv

\* What keeps the articles' inodes apart in a step of h.
LEMMA PartedStep ==
  ASSUME Parted, NEW h \in Handlers, \A g \in Handlers \ {h} : hd'[g] = hd[g],
         \A q \in DOMAIN paths' : paths'[q] \in Inodes,
         \A q, r \in DOMAIN paths' : paths'[q] = paths'[r] => q = r,
         \A q \in DOMAIN paths', g \in Handlers \ {h} :
           Opens(g, paths'[q]) => q[1] = PageOf(g),
         \A j \in Inodes : Opens(h, j)' =>
           /\ PageOf(h)' = PageOf(h)
           /\ \A q \in DOMAIN paths' : paths'[q] = j => q[1] = PageOf(h)
           /\ \A g \in Handlers \ {h} : Opens(g, j) => PageOf(g) = PageOf(h)
  PROVE  Parted'
<1>1. \A g \in Handlers \ {h} :
        PageOf(g)' = PageOf(g) /\ \A j \in Inodes : Opens(g, j)' <=> Opens(g, j)
  BY DEF PageOf, Opens
<1>2. \A j \in Inodes, q \in DOMAIN paths' : paths'[q] = j /\ Opens(h, j)' => q[1] = PageOf(h)'
  OBVIOUS
<1>3. \A j \in Inodes, q \in DOMAIN paths', g \in Handlers \ {h} :
        paths'[q] = j /\ Opens(g, j)' => q[1] = PageOf(g)'
  BY <1>1
<1>4. ASSUME NEW g \in Handlers, NEW k \in Handlers, NEW j \in Inodes, Opens(g, j)', Opens(k, j)'
      PROVE  PageOf(g)' = PageOf(k)'
  <2>1. CASE g # h /\ k # h
    BY <1>1, <1>4, <2>1 DEF Parted
  <2>2. CASE g = h /\ k # h
    BY <1>1, <1>4, <2>2
  <2>3. CASE g # h /\ k = h
    BY <1>1, <1>4, <2>3
  <2> QED
    BY <2>1, <2>2, <2>3
<1> QED
  BY <1>2, <1>3, <1>4 DEF Parted, Opens

\* A file that is opened for writing is its article's, or new.
LEMMA Truncated ==
  ASSUME SpeechTyped, Parted, NEW h \in Handlers, NEW i \in DOMAIN disk,
         NEW p \in {Mp3Of(PageOf(h)), TempOf(PageOf(h))}, Speech!Truncate(h, p, i)
  PROVE  /\ i \in Inodes /\ disk' \in [Inodes -> [of : Pages, whole : BOOLEAN]]
         /\ \A j \in Inodes \ {i} : disk'[j] = disk[j]
         /\ paths' = [q \in DOMAIN paths \cup {p} |-> IF q = p THEN i ELSE paths[q]]
         /\ paths' = [q \in DOMAIN paths' |-> paths'[q]] /\ DOMAIN paths' = DOMAIN paths \cup {p}
         /\ DOMAIN paths' \subseteq Pages \X {"mp3", "temp"}
         /\ \A q \in DOMAIN paths' : paths'[q] \in Inodes
         /\ paths'[p] = i /\ \A q \in DOMAIN paths \ {p} : paths[q] # i /\ paths'[q] = paths[q]
         /\ \A g \in Handlers : Opens(g, i) => PageOf(g) = PageOf(h)
         /\ \A q, r \in DOMAIN paths' : paths'[q] = paths'[r] => q = r
         /\ \A q \in DOMAIN paths', g \in Handlers :
              Opens(g, paths'[q]) => q[1] = PageOf(g)
<1>1. /\ i \in Inodes /\ PageOf(h) \in Pages /\ p \in Pages \X {"mp3", "temp"} /\ p[1] = PageOf(h)
      /\ DOMAIN paths \subseteq Pages \X {"mp3", "temp"}
      /\ \A q \in DOMAIN paths : paths[q] \in Inodes
  BY DEF SpeechTyped, Goroutines, Pages, PageOf, Mp3Of, TempOf
<1>2. /\ paths' = [q \in DOMAIN paths \cup {p} |-> IF q = p THEN i ELSE paths[q]]
      /\ disk' = [disk EXCEPT ![i] = [of |-> PageOf(h), whole |-> FALSE]]
      /\ \/ p \in DOMAIN paths /\ i = paths[p]
         \/ /\ p \notin DOMAIN paths
            /\ i \notin Speech!Range(paths) \cup {hd[g].out : g \in Handlers}
                                            \cup {hd[g].src : g \in Handlers}
  BY DEF Speech!Truncate, Speech!With, Speech!Unnamed, PageOf
<1>3. \A q \in DOMAIN paths \ {p} : paths[q] # i
  BY <1>2 DEF Parted, Speech!Range
<1>4. \A g \in Handlers : Opens(g, i) => PageOf(g) = PageOf(h)
  BY <1>1, <1>2 DEF Parted, Opens
<1>5. /\ DOMAIN paths' = DOMAIN paths \cup {p} /\ paths'[p] = i
      /\ \A q \in DOMAIN paths \ {p} : paths'[q] = paths[q]
  BY <1>2
<1>6. \A q, r \in DOMAIN paths' : paths'[q] = paths'[r] => q = r
  BY <1>3, <1>5 DEF Parted
<1>7. \A q \in DOMAIN paths', g \in Handlers : Opens(g, paths'[q]) => q[1] = PageOf(g)
  BY <1>1, <1>4, <1>5 DEF Parted
<1>8. /\ disk' \in [Inodes -> [of : Pages, whole : BOOLEAN]]
      /\ \A j \in Inodes \ {i} : disk'[j] = disk[j]
  BY <1>1, <1>2 DEF SpeechTyped
<1>9. paths' = [q \in DOMAIN paths' |-> paths'[q]]
  BY <1>2
<1>10. \A q \in DOMAIN paths' : paths'[q] \in Inodes
  BY <1>1, <1>5
<1> QED
  BY <1>1, <1>2, <1>3, <1>4, <1>5, <1>6, <1>7, <1>8, <1>9, <1>10

\* The temporary file is opened.
LEMMA GenerateKeeps ==
  ASSUME SpeechInv, NEW h \in Handlers, Speech!generateTTS(h)
  PROVE  SpeechInv'
<1>1. /\ hd[h].at = "generate" /\ UNCHANGED <<household, delivered, torn>>
      /\ \E i \in DOMAIN disk : /\ Speech!Truncate(h, TempOf(PageOf(h)), i)
                              /\ hd' = [hd EXCEPT ![h].at = "writing", ![h].out = i]
  BY DEF Speech!generateTTS, Speech!Temp, Speech!tempFile, Speech!sanitizeURL, TempOf, PageOf
<1>2. PICK i \in DOMAIN disk : /\ Speech!Truncate(h, TempOf(PageOf(h)), i)
                               /\ hd' = [hd EXCEPT ![h].at = "writing", ![h].out = i]
  BY <1>1
<1> DEFINE p == TempOf(PageOf(h))
<1>3. SpeechTyped /\ Parted
  BY DEF SpeechInv
<1>4. /\ i \in Inodes /\ disk' \in [Inodes -> [of : Pages, whole : BOOLEAN]]
      /\ \A j \in Inodes \ {i} : disk'[j] = disk[j]
      /\ paths' = [q \in DOMAIN paths' |-> paths'[q]] /\ DOMAIN paths' = DOMAIN paths \cup {p}
      /\ DOMAIN paths' \subseteq Pages \X {"mp3", "temp"}
      /\ \A q \in DOMAIN paths' : paths'[q] \in Inodes
      /\ paths'[p] = i /\ \A q \in DOMAIN paths \ {p} : paths[q] # i /\ paths'[q] = paths[q]
      /\ \A g \in Handlers : Opens(g, i) => PageOf(g) = PageOf(h)
      /\ \A q, r \in DOMAIN paths' : paths'[q] = paths'[r] => q = r
      /\ \A q \in DOMAIN paths', g \in Handlers : Opens(g, paths'[q]) => q[1] = PageOf(g)
  BY <1>2, <1>3, Truncated
<1>5. /\ hd' \in [Handlers -> Goroutines] /\ \A g \in Handlers \ {h} : hd'[g] = hd[g]
      /\ hd'[h].at = "writing" /\ hd'[h].out = i /\ hd'[h].src = hd[h].src
      /\ PageOf(h)' = PageOf(h) /\ hd[h].src = 0
  BY <1>1, <1>2, <1>3, <1>4 DEF SpeechTyped, Goroutines, PageOf
<1>6. SpeechTyped'
  BY <1>1, <1>3, <1>4, <1>5 DEF SpeechTyped
<1>7. Parted'
  <2>1. \A j \in Inodes : Opens(h, j)' => j = i
    BY <1>5 DEF Opens
  <2>2. \A q \in DOMAIN paths' : paths'[q] = i => q[1] = PageOf(h)
    BY <1>4 DEF TempOf
  <2> QED
    BY <1>3, <1>4, <1>5, <2>1, <2>2, PartedStep
<1>8. Touches(h, i)
  <2>1. \A q \in DOMAIN paths : paths[q] = i => q[1] = PageOf(h)
    BY <1>4 DEF TempOf
  <2>2. \A page \in Pages \ {PageOf(h)}, kind \in {"mp3", "temp"} :
          /\ <<page, kind>> # p
          /\ <<page, kind>> \in DOMAIN paths' <=> <<page, kind>> \in DOMAIN paths
          /\ <<page, kind>> \in DOMAIN paths =>
               paths'[<<page, kind>>] = paths[<<page, kind>>]
    BY <1>4 DEF TempOf
  <2> QED
    BY <1>4, <1>5, <2>1, <2>2 DEF Touches
<1>9. ASSUME PageOf(h) \notin torn PROVE Knows(h)' /\ Mp3Of(PageOf(h)) \notin DOMAIN paths'
  <2>1. Mp3Of(PageOf(h)) \notin DOMAIN paths
    BY <1>1, <1>9 DEF SpeechInv, Careful, Knows
  <2>2. Mp3Of(PageOf(h)) \notin DOMAIN paths'
    BY <1>4, <2>1 DEF Mp3Of, TempOf
  <2> QED
    BY <1>4, <1>5, <2>2 DEF Knows
<1>10. h \in Speech!Making
  BY <1>1 DEF Speech!Making
<1> QED
  BY <1>1, <1>4, <1>6, <1>7, <1>8, <1>9, <1>10, SpeechFile

\* The bytes are all in the temporary file.
LEMMA WrittenKeeps ==
  ASSUME SpeechInv, NEW h \in Handlers, Speech!Written(h)
  PROVE  SpeechInv'
<1> DEFINE i == hd[h].out
<1>1. SpeechTyped /\ Parted
  BY DEF SpeechInv
<1>2. /\ hd[h].at = "writing" /\ UNCHANGED <<household, paths, delivered, torn>>
      /\ disk' = [disk EXCEPT ![i] = Whole(PageOf(h))]
      /\ hd' = [hd EXCEPT ![h].at = "staged", ![h].out = 0]
  BY DEF Speech!Written, Whole, PageOf
<1>3. /\ i \in Inodes /\ Opens(h, i) /\ PageOf(h) \in Pages /\ hd[h].src = 0
  BY <1>1, <1>2 DEF SpeechTyped, Goroutines, Opens, Pages, PageOf
<1> HIDE DEF i
<1>4. /\ hd' \in [Handlers -> Goroutines] /\ \A g \in Handlers \ {h} : hd'[g] = hd[g]
      /\ hd'[h].at = "staged" /\ hd'[h].out = 0 /\ hd'[h].src = 0 /\ PageOf(h)' = PageOf(h)
  BY <1>1, <1>2, <1>3 DEF SpeechTyped, Goroutines, PageOf
<1>5. /\ disk' \in [Inodes -> [of : Pages, whole : BOOLEAN]] /\ disk'[i] = Whole(PageOf(h))
      /\ \A j \in Inodes \ {i} : disk'[j] = disk[j]
  BY <1>1, <1>2, <1>3 DEF SpeechTyped, Whole
<1>6. SpeechTyped'
  BY <1>1, <1>2, <1>4, <1>5 DEF SpeechTyped
<1>7. Parted'
  <2>1. \A j \in Inodes : ~Opens(h, j)'
    BY <1>4 DEF Opens
  <2>2. /\ \A q \in DOMAIN paths' : paths'[q] \in Inodes
        /\ \A q, r \in DOMAIN paths' : paths'[q] = paths'[r] => q = r
        /\ \A q \in DOMAIN paths', g \in Handlers \ {h} :
             Opens(g, paths'[q]) => q[1] = PageOf(g)
    BY <1>1, <1>2 DEF SpeechTyped, Parted
  <2> QED
    BY <1>1, <1>4, <2>1, <2>2, PartedStep
<1>8. Touches(h, i)
  BY <1>1, <1>2, <1>3, <1>4, <1>5 DEF Touches, Parted
<1>9. ASSUME PageOf(h) \notin torn PROVE Knows(h)' /\ Mp3Of(PageOf(h)) \notin DOMAIN paths'
  <2>1. /\ Mp3Of(PageOf(h)) \notin DOMAIN paths
        /\ TempOf(PageOf(h)) \in DOMAIN paths /\ paths[TempOf(PageOf(h))] = i
    BY <1>1, <1>2, <1>9 DEF SpeechInv, Careful, Knows, i
  <2> QED
    BY <1>2, <1>4, <1>5, <2>1 DEF Knows
<1>10. h \in Speech!Making
  BY <1>2 DEF Speech!Making
<1> QED
  BY <1>2, <1>3, <1>6, <1>7, <1>8, <1>9, <1>10, SpeechFile

\* ffmpeg opens the temporary file, then its own output.
LEMMA FixKeeps ==
  ASSUME SpeechInv, NEW h \in Handlers, Speech!fixAudioHeader(h)
  PROVE  SpeechInv'
<1> DEFINE mp3 == Mp3Of(PageOf(h))
           staged == TempOf(PageOf(h))
           s == paths[staged]
<1>1. SpeechTyped /\ Parted
  BY DEF SpeechInv
<1>2. /\ hd[h].at = "staged" /\ UNCHANGED <<household, delivered, torn>>
      /\ \/ Speech!Answers(h) /\ UNCHANGED <<disk, paths>>
         \/ /\ staged \in DOMAIN paths
            /\ \E i \in DOMAIN disk :
                 /\ Speech!Truncate(h, mp3, i)
                 /\ hd' = [hd EXCEPT ![h].at = "remuxing", ![h].out = i, ![h].src = s,
                                     ![h].fine = disk[s].whole]
  BY DEF Speech!fixAudioHeader, Speech!Mp3, Speech!Temp, Speech!getCacheFilename,
         Speech!tempFile, Speech!sanitizeURL, Mp3Of, TempOf, PageOf
<1>3. CASE Speech!Answers(h) /\ UNCHANGED <<disk, paths>>
  <2>1. Speech!DeliveredWhole'
    BY <1>2 DEF SpeechInv, Speech!DeliveredWhole
  <2> QED
    BY <1>2, <1>3, <2>1, SpeechAnswers
<1>4. CASE /\ staged \in DOMAIN paths
           /\ \E i \in DOMAIN disk :
                /\ Speech!Truncate(h, mp3, i)
                /\ hd' = [hd EXCEPT ![h].at = "remuxing", ![h].out = i, ![h].src = s,
                                    ![h].fine = disk[s].whole]
  <2>1. PICK i \in DOMAIN disk :
          /\ Speech!Truncate(h, mp3, i)
          /\ hd' = [hd EXCEPT ![h].at = "remuxing", ![h].out = i, ![h].src = s,
                              ![h].fine = disk[s].whole]
    BY <1>4
  <2> HIDE DEF s, staged
  <2>2. Speech!Truncate(h, mp3, i)
    BY <2>1
  <2>3. /\ i \in Inodes /\ disk' \in [Inodes -> [of : Pages, whole : BOOLEAN]]
        /\ \A j \in Inodes \ {i} : disk'[j] = disk[j]
        /\ paths' = [q \in DOMAIN paths' |-> paths'[q]] /\ DOMAIN paths' = DOMAIN paths \cup {mp3}
        /\ DOMAIN paths' \subseteq Pages \X {"mp3", "temp"}
        /\ \A q \in DOMAIN paths' : paths'[q] \in Inodes
        /\ paths'[mp3] = i /\ \A q \in DOMAIN paths \ {mp3} : paths[q] # i /\ paths'[q] = paths[q]
        /\ \A g \in Handlers : Opens(g, i) => PageOf(g) = PageOf(h)
        /\ \A q, r \in DOMAIN paths' : paths'[q] = paths'[r] => q = r
        /\ \A q \in DOMAIN paths', g \in Handlers : Opens(g, paths'[q]) => q[1] = PageOf(g)
    BY <1>1, <2>2, Truncated
  <2>4. /\ staged # mp3 /\ staged[1] = PageOf(h) /\ mp3[1] = PageOf(h)
        /\ staged \in DOMAIN paths /\ staged \in DOMAIN paths'
    BY <1>4, <2>3 DEF Mp3Of, TempOf, staged
  <2> HIDE DEF mp3
  <2>5. s \in Inodes /\ s # i /\ paths'[staged] = s /\ disk'[s] = disk[s]
    BY <1>1, <2>3, <2>4 DEF SpeechTyped, s
  <2>6. disk[s].whole \in BOOLEAN
    BY <1>1, <2>5 DEF SpeechTyped
  <2>7. hd \in [Handlers -> Goroutines] /\ hd[h] \in Goroutines
    BY <1>1 DEF SpeechTyped
  <2>8. i \in (Inodes \cup {0}) /\ s \in (Inodes \cup {0})
    <3>1. i \in Inodes
      BY <2>3
    <3>2. s \in Inodes
      BY <2>5
    <3> QED
      BY <3>1, <3>2
  <2>9. hd'[h] = [hd[h] EXCEPT !.at = "remuxing", !.out = i, !.src = s, !.fine = disk[s].whole]
    BY <2>1, <2>7
  <2>10. hd'[h] \in Goroutines
    <3>1. \A fine \in BOOLEAN :
            [hd[h] EXCEPT !.at = "remuxing", !.out = i, !.src = s, !.fine = fine] \in Goroutines
      <4>1. [hd[h] EXCEPT !.at = "remuxing", !.out = i, !.src = s, !.fine = TRUE] \in Goroutines
        BY <2>7, <2>8 DEF Goroutines
      <4>2. [hd[h] EXCEPT !.at = "remuxing", !.out = i, !.src = s, !.fine = FALSE] \in Goroutines
        BY <2>7, <2>8 DEF Goroutines
      <4> QED
        BY <4>1, <4>2, Zenon
    <3> QED
      BY <2>6, <2>9, <3>1, Zenon
  <2>11. /\ hd' \in [Handlers -> Goroutines] /\ \A g \in Handlers \ {h} : hd'[g] = hd[g]
        /\ hd'[h].at = "remuxing" /\ hd'[h].out = i /\ hd'[h].src = s
        /\ hd'[h].fine = disk[s].whole /\ PageOf(h)' = PageOf(h)
    <3>1. /\ hd' \in [Handlers -> Goroutines] /\ \A g \in Handlers \ {h} : hd'[g] = hd[g]
      BY <2>1, <2>7, <2>10
    <3>2. /\ hd'[h].at = "remuxing" /\ hd'[h].out = i /\ hd'[h].src = s
          /\ hd'[h].fine = disk[s].whole /\ hd'[h].link = hd[h].link
      BY <2>7, <2>9 DEF Goroutines
    <3> QED
      BY <3>1, <3>2 DEF PageOf
  <2>12. SpeechTyped'
    <3>1. \A g \in Handlers :
            /\ (hd'[g].out # 0) <=> (hd'[g].at \in {"writing", "remuxing"})
            /\ (hd'[g].src # 0) <=> (hd'[g].at = "remuxing")
      BY <1>1, <2>3, <2>5, <2>11 DEF SpeechTyped
    <3>2. household' \in Households /\ 0 \notin Inodes
      BY <1>1, <1>2 DEF SpeechTyped
    <3> QED
      BY <2>3, <2>11, <3>1, <3>2 DEF SpeechTyped
  <2>13. Parted'
    <3>1. \A j \in Inodes : Opens(h, j)' => j \in {i, s}
      BY <2>11 DEF Opens
    <3>2. \A q \in DOMAIN paths' : paths'[q] \in {i, s} => q[1] = PageOf(h)
      BY <2>3, <2>4, <2>5
    <3>3. \A g \in Handlers : Opens(g, s) => PageOf(g) = PageOf(h)
      BY <2>3, <2>4, <2>5
    <3> QED
      BY <1>1, <2>3, <2>11, <3>1, <3>2, <3>3, PartedStep
  <2>14. Touches(h, i)
    <3>1. \A q \in DOMAIN paths : paths[q] = i => q[1] = PageOf(h)
      BY <2>3, <2>4
    <3>2. \A page \in Pages \ {PageOf(h)}, kind \in {"mp3", "temp"} :
            /\ <<page, kind>> # mp3
            /\ <<page, kind>> \in DOMAIN paths' <=> <<page, kind>> \in DOMAIN paths
            /\ <<page, kind>> \in DOMAIN paths =>
                 paths'[<<page, kind>>] = paths[<<page, kind>>]
      BY <2>3, <2>4
    <3> QED
      BY <2>3, <2>11, <3>1, <3>2 DEF Touches
  <2>15. ASSUME PageOf(h) \notin torn PROVE Knows(h)'
    <3>1. disk[s] = Whole(PageOf(h))
      BY <1>2, <2>15 DEF SpeechInv, Careful, Knows, s, staged
    <3>2. disk[s].whole
      BY <3>1 DEF Whole
    <3> QED
      BY <2>3, <2>4, <2>5, <2>11, <3>1, <3>2 DEF Knows, mp3, staged
  <2>16. h \in Speech!Making
    BY <1>2 DEF Speech!Making
  <2> QED
    <3>1. UNCHANGED <<delivered, torn>>
      BY <1>2
    <3>2. hd'[h].at = "remuxing"
      BY <2>11
    <3> QED
      BY <2>12, <2>13, <2>14, <2>15, <2>16, <2>8, <3>1, <3>2, SpeechFile
<1> QED
  BY <1>2, <1>3, <1>4

\* A remux that ends leaves the whole audio, one that fails a page asked for in vain.
LEMMA RemuxedKeeps ==
  ASSUME SpeechInv, NEW h \in Handlers, Speech!Remuxed(h)
  PROVE  SpeechInv'
<1> DEFINE i == hd[h].out
           s == hd[h].src
           staged == TempOf(PageOf(h))
<1>1. SpeechTyped /\ Parted /\ hd \in [Handlers -> Goroutines] /\ hd[h] \in Goroutines
  BY DEF SpeechInv, SpeechTyped
<1>2. /\ hd[h].at = "remuxing" /\ UNCHANGED <<household, delivered, torn>>
      /\ disk' = [disk EXCEPT ![i] = [of |-> disk[s].of, whole |-> disk[s].whole /\ hd[h].fine]]
      /\ hd' = [hd EXCEPT ![h].at = "probe", ![h].out = 0, ![h].src = 0, ![h].fine = FALSE]
      /\ paths' = [q \in DOMAIN paths \ {staged} |-> paths[q]]
  BY DEF Speech!Remuxed, Speech!Without, Speech!Restrict, Speech!Temp, Speech!tempFile,
         Speech!sanitizeURL, TempOf, PageOf
<1>3. /\ i \in Inodes /\ s \in Inodes /\ Opens(h, i) /\ PageOf(h) \in Pages
  BY <1>1, <1>2 DEF SpeechTyped, Goroutines, Opens, Pages, PageOf
<1>4. staged[1] = PageOf(h) /\ staged # Mp3Of(PageOf(h))
  BY DEF Mp3Of, TempOf
<1> HIDE DEF i, s, staged
<1>5. /\ hd' \in [Handlers -> Goroutines] /\ \A g \in Handlers \ {h} : hd'[g] = hd[g]
      /\ hd'[h].at = "probe" /\ hd'[h].out = 0 /\ hd'[h].src = 0 /\ PageOf(h)' = PageOf(h)
  <2>1. hd'[h] = [hd[h] EXCEPT !.at = "probe", !.out = 0, !.src = 0, !.fine = FALSE]
    BY <1>1, <1>2
  <2>2. [hd[h] EXCEPT !.at = "probe", !.out = 0, !.src = 0, !.fine = FALSE] \in Goroutines
    <3>1. \A n \in (Inodes \cup {0}) :
            [hd[h] EXCEPT !.at = "probe", !.out = n, !.src = n, !.fine = FALSE] \in Goroutines
      BY <1>1 DEF Goroutines
    <3>2. 0 \in (Inodes \cup {0})
      OBVIOUS
    <3> QED
      BY <3>1, <3>2, Zenon
  <2>3. /\ hd'[h].at = "probe" /\ hd'[h].out = 0 /\ hd'[h].src = 0 /\ hd'[h].link = hd[h].link
    BY <1>1, <2>1 DEF Goroutines
  <2>4. /\ hd' \in [Handlers -> Goroutines] /\ \A g \in Handlers \ {h} : hd'[g] = hd[g]
    BY <1>1, <1>2, <2>1, <2>2
  <2> QED
    BY <2>3, <2>4 DEF PageOf
<1>6. disk' \in [Inodes -> [of : Pages, whole : BOOLEAN]]
  <2>1. /\ disk \in [Inodes -> [of : Pages, whole : BOOLEAN]] /\ disk[s].of \in Pages
        /\ (disk[s].whole /\ hd[h].fine) \in BOOLEAN
    BY <1>1, <1>3 DEF SpeechTyped
  <2>2. \A whole \in BOOLEAN :
          [of |-> disk[s].of, whole |-> whole] \in [of : Pages, whole : BOOLEAN]
    BY <2>1
  <2>3. [of |-> disk[s].of, whole |-> disk[s].whole /\ hd[h].fine]
          \in [of : Pages, whole : BOOLEAN]
    BY <2>1, <2>2, Zenon
  <2> DEFINE file == [of |-> disk[s].of, whole |-> disk[s].whole /\ hd[h].fine]
  <2>4. file \in [of : Pages, whole : BOOLEAN] /\ disk' = [disk EXCEPT ![i] = file]
    BY <1>2, <2>3
  <2> HIDE DEF file
  <2> QED
    BY <2>1, <2>4
<1>7. \A j \in Inodes \ {i} : disk'[j] = disk[j]
  <2>1. disk \in [Inodes -> [of : Pages, whole : BOOLEAN]]
    BY <1>1 DEF SpeechTyped
  <2> QED
    BY <1>2, <2>1
<1>8. /\ DOMAIN paths' = DOMAIN paths \ {staged}
      /\ \A q \in DOMAIN paths' : paths'[q] = paths[q]
      /\ paths' = [q \in DOMAIN paths' |-> paths'[q]]
  BY <1>2
<1>9. SpeechTyped'
  <2>1. /\ household' \in Households /\ 0 \notin Inodes
        /\ \A g \in Handlers :
             /\ (hd'[g].out # 0) <=> (hd'[g].at \in {"writing", "remuxing"})
             /\ (hd'[g].src # 0) <=> (hd'[g].at = "remuxing")
    BY <1>1, <1>2, <1>5 DEF SpeechTyped
  <2>2. /\ DOMAIN paths' \subseteq Pages \X {"mp3", "temp"}
        /\ \A q \in DOMAIN paths' : paths'[q] \in Inodes
    BY <1>1, <1>8 DEF SpeechTyped
  <2> QED
    BY <1>5, <1>6, <1>8, <2>1, <2>2 DEF SpeechTyped
<1>10. Parted'
  <2>1. \A j \in Inodes : ~Opens(h, j)'
    BY <1>5 DEF Opens
  <2>2. /\ \A q \in DOMAIN paths' : paths'[q] \in Inodes
        /\ \A q, r \in DOMAIN paths' : paths'[q] = paths'[r] => q = r
        /\ \A q \in DOMAIN paths', g \in Handlers \ {h} :
             Opens(g, paths'[q]) => q[1] = PageOf(g)
    BY <1>1, <1>8 DEF SpeechTyped, Parted
  <2> QED
    BY <1>1, <1>5, <2>1, <2>2, PartedStep
<1>11. Touches(h, i)
  <2>1. /\ \A q \in DOMAIN paths : paths[q] = i => q[1] = PageOf(h)
        /\ \A g \in Handlers : Opens(g, i) => PageOf(g) = PageOf(h)
    BY <1>1, <1>3 DEF Parted
  <2>2. \A page \in Pages \ {PageOf(h)}, kind \in {"mp3", "temp"} :
          /\ <<page, kind>> # staged
          /\ <<page, kind>> \in DOMAIN paths' <=> <<page, kind>> \in DOMAIN paths
          /\ <<page, kind>> \in DOMAIN paths =>
               paths'[<<page, kind>>] = paths[<<page, kind>>]
    BY <1>4, <1>8
  <2> QED
    BY <1>5, <1>7, <2>1, <2>2 DEF Touches
<1>12. ASSUME PageOf(h) \notin torn
       PROVE  /\ Knows(h)' /\ disk'[paths'[Mp3Of(PageOf(h))]] = Whole(PageOf(h))
  <2>1. /\ disk[s] = Whole(PageOf(h)) /\ hd[h].fine
        /\ Mp3Of(PageOf(h)) \in DOMAIN paths /\ paths[Mp3Of(PageOf(h))] = i
    BY <1>1, <1>2, <1>12 DEF SpeechInv, Careful, Knows, i, s
  <2>2. Mp3Of(PageOf(h)) \in DOMAIN paths' /\ paths'[Mp3Of(PageOf(h))] = i
    BY <1>4, <1>8, <2>1
  <2>3. disk'[i] = [of |-> disk[s].of, whole |-> disk[s].whole /\ hd[h].fine]
    <3>1. DOMAIN disk = Inodes
      BY <1>1 DEF SpeechTyped
    <3> QED
      BY <1>2, <1>3, <3>1
  <2>4. disk[s].of = PageOf(h) /\ disk[s].whole
    BY <2>1 DEF Whole
  <2>5. (disk[s].whole /\ hd[h].fine) = TRUE
    BY <2>1, <2>4, Zenon
  <2>6. disk'[i] = Whole(PageOf(h))
    BY <2>3, <2>4, <2>5, Zenon DEF Whole
  <2>7. Knows(h)'
    BY <1>5, <2>2 DEF Knows
  <2> QED
    BY <2>2, <2>6, <2>7
<1>13. h \in Speech!Making /\ i \in (Inodes \cup {0})
  BY <1>2, <1>3 DEF Speech!Making
<1> QED
  BY <1>2, <1>9, <1>10, <1>11, <1>12, <1>13, SpeechFile

\* What ffmpeg wrote stays, and its page is torn.
LEMMA RemuxFailsKeeps ==
  ASSUME SpeechInv, NEW h \in Handlers, Speech!RemuxFails(h)
  PROVE  SpeechInv'
<1> DEFINE staged == TempOf(PageOf(h))
<1>1. SpeechTyped /\ Parted /\ hd \in [Handlers -> Goroutines]
  BY DEF SpeechInv, SpeechTyped
<1>2. /\ hd[h].at = "remuxing" /\ UNCHANGED <<household, disk, delivered>>
      /\ torn' = torn \cup {PageOf(h)} /\ hd' = [hd EXCEPT ![h] = Speech!Nil]
      /\ paths' = [q \in DOMAIN paths \ {staged} |-> paths[q]]
  BY DEF Speech!RemuxFails, Speech!Answers, Speech!Without, Speech!Restrict, Speech!Temp,
         Speech!tempFile, Speech!sanitizeURL, TempOf, PageOf
<1>3. /\ Speech!Nil \in Goroutines
      /\ Speech!Nil.at = "idle" /\ Speech!Nil.out = 0 /\ Speech!Nil.src = 0
  BY DEF Goroutines, Links, Speech!Nil
<1>4. staged[1] = PageOf(h)
  BY DEF TempOf
<1> HIDE DEF staged
<1>5. /\ hd' \in [Handlers -> Goroutines] /\ \A g \in Handlers \ {h} : hd'[g] = hd[g]
      /\ hd'[h].at = "idle" /\ hd'[h].out = 0 /\ hd'[h].src = 0
  BY <1>1, <1>2, <1>3
<1>6. /\ DOMAIN paths' = DOMAIN paths \ {staged}
      /\ \A q \in DOMAIN paths' : paths'[q] = paths[q]
      /\ paths' = [q \in DOMAIN paths' |-> paths'[q]]
  BY <1>2
<1>7. SpeechTyped'
  BY <1>1, <1>2, <1>5, <1>6 DEF SpeechTyped
<1>8. Parted'
  <2>1. \A j \in Inodes : ~Opens(h, j)'
    BY <1>5 DEF Opens
  <2>2. /\ \A q \in DOMAIN paths' : paths'[q] \in Inodes
        /\ \A q, r \in DOMAIN paths' : paths'[q] = paths'[r] => q = r
        /\ \A q \in DOMAIN paths', g \in Handlers \ {h} :
             Opens(g, paths'[q]) => q[1] = PageOf(g)
    BY <1>1, <1>6 DEF SpeechTyped, Parted
  <2> QED
    BY <1>1, <1>5, <2>1, <2>2, PartedStep
<1>9. Touches(h, 0)
  <2>1. /\ \A q \in DOMAIN paths : paths[q] # 0
        /\ \A g \in Handlers : ~Opens(g, 0)
    BY <1>1 DEF SpeechTyped, Opens
  <2>2. \A page \in Pages \ {PageOf(h)}, kind \in {"mp3", "temp"} :
          /\ <<page, kind>> # staged
          /\ <<page, kind>> \in DOMAIN paths' <=> <<page, kind>> \in DOMAIN paths
          /\ <<page, kind>> \in DOMAIN paths =>
               paths'[<<page, kind>>] = paths[<<page, kind>>]
    BY <1>4, <1>6
  <2> QED
    BY <1>2, <1>5, <2>1, <2>2 DEF Touches
<1>10. h \in Speech!Making /\ PageOf(h) \in torn' /\ torn \subseteq torn'
  BY <1>2 DEF Speech!Making
<1> QED
  BY <1>2, <1>7, <1>8, <1>9, <1>10, SpeechFile

\* Without a remux the temporary file becomes the audio.
LEMMA RawAudioKeeps ==
  ASSUME SpeechInv, NEW h \in Handlers, Speech!RawAudio(h)
  PROVE  SpeechInv'
<1> DEFINE mp3 == Mp3Of(PageOf(h))
           staged == TempOf(PageOf(h))
<1>1. SpeechTyped /\ Parted /\ hd \in [Handlers -> Goroutines] /\ hd[h] \in Goroutines
  BY DEF SpeechInv, SpeechTyped
<1>2. /\ hd[h].at = "staged" /\ UNCHANGED <<household, disk, delivered, torn>>
      /\ \/ Speech!Answers(h) /\ UNCHANGED paths
         \/ /\ staged \in DOMAIN paths
            /\ paths' = [q \in (DOMAIN paths \cup {mp3}) \ {staged} |->
                           IF q = mp3 THEN paths[staged] ELSE paths[q]]
            /\ hd' = [hd EXCEPT ![h].at = "probe"]
  BY DEF Speech!RawAudio, Speech!Goes, Speech!Mp3, Speech!Temp, Speech!getCacheFilename,
         Speech!tempFile, Speech!sanitizeURL, Mp3Of, TempOf, PageOf
<1>3. CASE Speech!Answers(h) /\ UNCHANGED paths
  <2>1. Speech!DeliveredWhole'
    BY <1>2 DEF SpeechInv, Speech!DeliveredWhole
  <2> QED
    BY <1>2, <1>3, <2>1, SpeechAnswers
<1>4. CASE /\ staged \in DOMAIN paths
           /\ paths' = [q \in (DOMAIN paths \cup {mp3}) \ {staged} |->
                          IF q = mp3 THEN paths[staged] ELSE paths[q]]
           /\ hd' = [hd EXCEPT ![h].at = "probe"]
  <2>1. /\ staged # mp3 /\ staged[1] = PageOf(h) /\ mp3[1] = PageOf(h)
        /\ mp3 \in Pages \X {"mp3", "temp"}
    BY <1>1 DEF Mp3Of, TempOf, Goroutines, Pages, PageOf
  <2> HIDE DEF mp3, staged
  <2>2. /\ hd' \in [Handlers -> Goroutines] /\ \A g \in Handlers \ {h} : hd'[g] = hd[g]
        /\ hd'[h].at = "probe" /\ hd'[h].out = 0 /\ hd'[h].src = 0 /\ PageOf(h)' = PageOf(h)
    <3>1. hd[h].out = 0 /\ hd[h].src = 0
      BY <1>1, <1>2 DEF SpeechTyped
    <3>2. hd'[h] = [hd[h] EXCEPT !.at = "probe"]
      BY <1>1, <1>4
    <3>3. [hd[h] EXCEPT !.at = "probe"] \in Goroutines
      BY <1>1 DEF Goroutines
    <3>4. /\ hd'[h].at = "probe" /\ hd'[h].out = 0 /\ hd'[h].src = 0
          /\ hd'[h].link = hd[h].link
      BY <1>1, <3>1, <3>2 DEF Goroutines
    <3>5. /\ hd' \in [Handlers -> Goroutines] /\ \A g \in Handlers \ {h} : hd'[g] = hd[g]
      BY <1>1, <1>4, <3>2, <3>3
    <3> QED
      BY <3>4, <3>5 DEF PageOf
  <2>3. /\ DOMAIN paths' = (DOMAIN paths \cup {mp3}) \ {staged} /\ mp3 \in DOMAIN paths'
        /\ paths'[mp3] = paths[staged] /\ \A q \in DOMAIN paths' \ {mp3} : paths'[q] = paths[q]
        /\ paths' = [q \in DOMAIN paths' |-> paths'[q]]
    BY <1>4, <2>1
  <2>4. \A q \in DOMAIN paths' : paths'[q] \in Inodes
    BY <1>1, <1>4, <2>3 DEF SpeechTyped
  <2>5. SpeechTyped'
    <3>1. DOMAIN paths' \subseteq Pages \X {"mp3", "temp"}
      BY <1>1, <2>1, <2>3 DEF SpeechTyped
    <3>2. \A g \in Handlers :
            /\ (hd'[g].out # 0) <=> (hd'[g].at \in {"writing", "remuxing"})
            /\ (hd'[g].src # 0) <=> (hd'[g].at = "remuxing")
      BY <1>1, <2>2 DEF SpeechTyped
    <3>3. /\ household' \in Households /\ 0 \notin Inodes
          /\ disk' \in [Inodes -> [of : Pages, whole : BOOLEAN]]
      BY <1>1, <1>2 DEF SpeechTyped
    <3> QED
      BY <2>2, <2>3, <2>4, <3>1, <3>2, <3>3 DEF SpeechTyped
  <2>6. Parted'
    <3>1. \A j \in Inodes : ~Opens(h, j)'
      BY <2>2 DEF Opens
    <3>2. \A q, r \in DOMAIN paths' : paths'[q] = paths'[r] => q = r
      BY <1>1, <1>4, <2>3 DEF Parted
    <3>3. \A q \in DOMAIN paths', g \in Handlers \ {h} :
            Opens(g, paths'[q]) => q[1] = PageOf(g)
      BY <1>1, <1>4, <2>1, <2>3 DEF Parted
    <3> QED
      BY <1>1, <2>2, <2>4, <3>1, <3>2, <3>3, PartedStep
  <2>7. Touches(h, 0)
    <3>1. /\ \A q \in DOMAIN paths : paths[q] # 0
          /\ \A g \in Handlers : ~Opens(g, 0)
      BY <1>1 DEF SpeechTyped, Opens
    <3>2. \A page \in Pages \ {PageOf(h)}, kind \in {"mp3", "temp"} :
            /\ <<page, kind>> \notin {mp3, staged}
            /\ <<page, kind>> \in DOMAIN paths' <=> <<page, kind>> \in DOMAIN paths
            /\ <<page, kind>> \in DOMAIN paths =>
                 paths'[<<page, kind>>] = paths[<<page, kind>>]
      BY <2>1, <2>3
    <3> QED
      BY <1>2, <2>2, <3>1, <3>2 DEF Touches
  <2>8. ASSUME PageOf(h) \notin torn
        PROVE  Knows(h)' /\ disk'[paths'[Mp3Of(PageOf(h))]] = Whole(PageOf(h))
    <3>1. disk[paths[staged]] = Whole(PageOf(h))
      BY <1>2, <2>8 DEF SpeechInv, Careful, Knows, staged
    <3> QED
      BY <1>2, <2>2, <2>3, <3>1 DEF Knows, mp3
  <2>9. h \in Speech!Making
    BY <1>2 DEF Speech!Making
  <2> QED
    BY <1>2, <2>5, <2>6, <2>7, <2>8, <2>9, SpeechFile
<1> QED
  BY <1>2, <1>3, <1>4

\* A process that starts again has no requests, and any part of its audio.
LEMMA RestartKeeps ==
  ASSUME SpeechInv, Speech!Restart
  PROVE  SpeechInv'
<1>1. SpeechTyped /\ Parted
  BY DEF SpeechInv
<1>2. PICK old \in SUBSET DOMAIN paths : paths' = [q \in DOMAIN paths \ old |-> paths[q]]
  BY DEF Speech!Restart, Speech!Restrict
<1>3. /\ UNCHANGED <<household, disk, delivered>> /\ hd' = [h \in Handlers |-> Speech!Nil]
      /\ torn' = torn \cup {PageOf(h) : h \in Speech!Remuxing}
  BY DEF Speech!Restart, PageOf
<1>4. /\ Speech!Nil \in Goroutines
      /\ Speech!Nil.at = "idle" /\ Speech!Nil.out = 0 /\ Speech!Nil.src = 0
  BY DEF Goroutines, Links, Speech!Nil
<1>5. /\ hd' \in [Handlers -> Goroutines]
      /\ \A h \in Handlers : hd'[h].at = "idle" /\ hd'[h].out = 0 /\ hd'[h].src = 0
  BY <1>3, <1>4
<1>6. /\ DOMAIN paths' \subseteq DOMAIN paths /\ \A q \in DOMAIN paths' : paths'[q] = paths[q]
      /\ paths' = [q \in DOMAIN paths' |-> paths'[q]]
  BY <1>2
<1>7. SpeechTyped'
  BY <1>1, <1>3, <1>5, <1>6 DEF SpeechTyped
<1>8. Parted'
  BY <1>1, <1>5, <1>6 DEF Parted, Opens
<1>9. Careful'
  BY <1>5 DEF Careful, Knows, Speech!Making
<1>10. CacheWhole'
  <2> SUFFICES ASSUME NEW page \in Pages, Mp3Of(page) \in DOMAIN paths', page \notin torn'
               PROVE  disk'[paths'[Mp3Of(page)]] = Whole(page)
    BY DEF CacheWhole, Mp3Of, Whole
  <2>1. \A h \in Handlers : hd[h].at = "remuxing" => PageOf(h) # page
    BY <1>3 DEF Speech!Remuxing
  <2> QED
    BY <1>3, <1>6, <2>1 DEF SpeechInv, CacheWhole
<1>11. Speech!DeliveredWhole'
  BY <1>3 DEF SpeechInv, Speech!DeliveredWhole
<1> QED
  BY <1>7, <1>8, <1>9, <1>10, <1>11 DEF SpeechInv

\* Every step keeps the invariant.
LEMMA SpeechNext == SpeechInv /\ [Speech!Next]_(Speech!vars) => SpeechInv'
<1> SUFFICES ASSUME SpeechInv, [Speech!Next]_(Speech!vars) PROVE SpeechInv'
  OBVIOUS
<1>1. CASE UNCHANGED Speech!vars
  BY <1>1 DEF SpeechInv, SpeechTyped, Parted, Opens, Careful, Alone, Knows, CacheWhole, PageOf,
              Speech!Making, Speech!DeliveredWhole, Speech!vars
<1>2. CASE Speech!Restart
  BY <1>2, RestartKeeps
<1>3. CASE \E h \in Handlers :
             \/ \E link \in household.asks[h] : Speech!Ask(h, link)
             \/ Speech!Lookup(h) \/ Speech!audioDuration(h) \/ Speech!sendAudio(h)
             \/ Speech!friendlyError(h) \/ Speech!WriteFails(h)
  BY <1>3, SpeechReads
<1>4. CASE \E h \in Handlers : Speech!generateTTS(h) \/ Speech!Written(h)
  BY <1>4, GenerateKeeps, WrittenKeeps
<1>5. CASE \E h \in Handlers : Speech!fixAudioHeader(h) \/ Speech!RawAudio(h)
  BY <1>5, FixKeeps, RawAudioKeeps
<1>6. CASE \E h \in Handlers : Speech!Remuxed(h) \/ Speech!RemuxFails(h)
  BY <1>6, RemuxedKeeps, RemuxFailsKeeps
<1> QED
  BY <1>1, <1>2, <1>3, <1>4, <1>5, <1>6 DEF Speech!Next

\* Whatever any number of users ask for at once, and wherever requests fail or
\* the process ends, the audio of an article that is not torn is sent whole,
\* whatever the files' numbers; 0 stands for no file.
THEOREM AudioIsWhole == ASSUME 0 \notin Inodes PROVE Speech!Spec => []DeliveredWhole
<1>1. SpeechInv => DeliveredWhole
  BY DEF SpeechInv, DeliveredWhole
<1> QED
  BY SpeechInit, SpeechNext, <1>1, PTL DEF Speech!Spec

-----------------------------------------------------------------------------
(***************************************************************************)
(* rangemusique: tracks between the download directory and the library.    *)
(***************************************************************************)

\* The directory is listed in some order, and no track is called as another kind
\* of file is: a name ends in the file's type.
Listed ==
  /\ Order \in Seq(Arrange!FileNames)
  /\ \A f \in Arrange!Tracks, g \in Arrange!FileNames \ Arrange!Tracks : Info[f].base # Info[g].base

Landings == [of : Arrange!FileNames, half : BOOLEAN, early : BOOLEAN]
ArrangeTyped ==
  /\ input \in [Arrange!FileNames -> {"none", "growing", "whole", "gone"}]
  /\ output = [p \in DOMAIN output |-> output[p]]
  /\ \A p \in DOMAIN output : output[p] \in Landings
  /\ lockFile \in BOOLEAN /\ races \in Nat

\* A file that is taken up while it grows is so by a run that missed the lock file.
Overtaken(s) == \A f \in s : input[f] # "none" /\ (input[f] = "growing" => races > 0)
OfAlbum(s, dir) ==
  /\ s \subseteq Arrange!FileNames /\ Overtaken(s)
  /\ \A f \in s \cap Arrange!Tracks : Arrange!albumKey(f) = <<dir[1], dir[2]>>
TakenUp ==
  /\ \A f \in Arrange!FileNames : input[f] = "growing" => lockFile
  /\ arrange = "checked" /\ lockFile => races > 0
  /\ OfAlbum(files, to)
  /\ \A a \in albums : OfAlbum(a.files, a.to)

\* A copy that may be removed from the download directory is in the library.
At(path, f) == /\ path \in DOMAIN output /\ output[path].of = f
               /\ output[path].early => races > 0
InHand ==
  arrange \in {"copying", "remove"} =>
    /\ files # {} /\ At(Arrange!Target(Arrange!Current, to), Arrange!Current)
    /\ arrange = "remove" => ~output[Arrange!Target(Arrange!Current, to)].half

\* A track that is gone, and whose name no other has, is at its place in the library.
Lone(f) == \A g \in Arrange!Tracks \ {f} : ~Arrange!SameName(f, g)
IsPlaceOf(path, f) ==
  path = Arrange!Target(f, path[1]) /\ Arrange!albumKey(f) = <<path[1][1], path[1][2]>>
Kept == \A f \in Arrange!Tracks :
  input[f] = "gone" /\ Lone(f) =>
    \E path \in DOMAIN output : At(path, f) /\ ~output[path].half /\ IsPlaceOf(path, f)

ArrangeInv == ArrangeTyped /\ TakenUp /\ InHand /\ Kept

\* The first of some files is one of them.
LEMMA FirstIsOne ==
  ASSUME Listed, NEW s, s \subseteq Arrange!FileNames, s # {}
  PROVE  Arrange!First(s) \in s
<1> DEFINE T == {i \in DOMAIN Order : Order[i] \in s}
<1>1. DOMAIN Order \subseteq Nat
  BY DEF Listed
<1>2. T \subseteq Nat /\ T # {}
  <2>1. PICK f \in s : TRUE
    OBVIOUS
  <2>2. PICK i \in DOMAIN Order : Order[i] = f
    BY <2>1 DEF Arrange!FileNames, Arrange!ToSet
  <2> QED
    BY <1>1, <2>1, <2>2
<1>3. PICK u \in T : \A v \in T : <<v, u>> \notin OpToRel(<, Nat)
  BY <1>2, NatLessThanWellFounded, WFMin
<1>4. \A j \in 1..u - 1 : Order[j] \notin s
  <2> SUFFICES ASSUME NEW j \in 1..u - 1, Order[j] \in s PROVE FALSE
    OBVIOUS
  <2>1. j \in T
    BY <1>1, <1>2 DEF Listed
  <2>2. <<j, u>> \in OpToRel(<, Nat)
    BY <1>2 DEF OpToRel
  <2> QED
    BY <1>3, <2>1, <2>2
<1> QED
  BY <1>3, <1>4 DEF Arrange!First

\* The file at hand is one of the album's.
LEMMA CurrentIsLeft ==
  ASSUME Listed, ArrangeInv, files # {}
  PROVE  Arrange!Current \in files /\ Arrange!Current \in Arrange!FileNames
<1>1. files \subseteq Arrange!FileNames
  BY DEF ArrangeInv, TakenUp, OfAlbum
<1>2. files \cap Arrange!Tracks # {} => Arrange!First(files \cap Arrange!Tracks) \in files
  BY <1>1, FirstIsOne, files \cap Arrange!Tracks \subseteq Arrange!FileNames
<1>3. Arrange!First(files) \in files
  BY <1>1, FirstIsOne
<1> QED
  BY <1>1, <1>2, <1>3 DEF Arrange!Current

\* Two tracks that lead to one place go by one name; another file never leads to
\* the place of a track.
LEMMA PlacesAreApart ==
  ASSUME Listed, NEW f \in Arrange!Tracks, Lone(f), NEW g \in Arrange!FileNames, g # f, NEW dir,
         IsPlaceOf(Arrange!Target(g, dir), f),
         g \in Arrange!Tracks => Arrange!albumKey(g) = <<dir[1], dir[2]>>
  PROVE  FALSE
<1> DEFINE path == Arrange!Target(g, dir)
<1>1. path[1] = dir
  BY DEF Arrange!Target
<1>2. path = Arrange!Target(f, dir) /\ Arrange!albumKey(f) = <<dir[1], dir[2]>>
  BY <1>1 DEF IsPlaceOf
<1>3. CASE g \in Arrange!Tracks
  <2>1. path[2] = Arrange!getOutFileName(g) /\ path[2] = Arrange!getOutFileName(f)
    BY <1>2, <1>3 DEF Arrange!Target
  <2> QED
    BY <1>2, <1>3, <2>1 DEF Lone, Arrange!SameName
<1>4. CASE g \notin Arrange!Tracks
  <2>1. path[2] = <<Info[g].base>> /\ path[2] = Arrange!getOutFileName(f)
    BY <1>2, <1>4 DEF Arrange!Target
  <2>2. Arrange!getOutFileName(f) = <<Info[f].base>>
    <3>1. <<Info[g].base>> # <<Info[f].artist, Info[f].album, Info[f].number, Info[f].title,
                               Info[f].ext>>
      OBVIOUS
    <3> QED
      BY <2>1, <3>1 DEF Arrange!getOutFileName
  <2>3. Info[f].base = Info[g].base
    BY <2>1, <2>2
  <2> QED
    BY <1>4, <2>3 DEF Listed
<1> QED
  BY <1>3, <1>4

\* A file that lands in the library replaces no track that is only there.
LEMMA PutKeeps ==
  ASSUME Listed, ArrangeInv, NEW f \in files, input[f] \in Arrange!There, NEW half \in BOOLEAN,
         Arrange!Put(Arrange!Target(f, to), f, half), UNCHANGED races
  PROVE  /\ output' = [p \in DOMAIN output' |-> output'[p]]
         /\ \A p \in DOMAIN output' : output'[p] \in Landings
         /\ \A path : path = Arrange!Target(f, to) => At(path, f)' /\ output'[path].half = half
         /\ \A g \in Arrange!Tracks : input[g] = "gone" /\ Lone(g) =>
              \E path \in DOMAIN output' :
                At(path, g)' /\ ~output'[path].half /\ IsPlaceOf(path, g)
<1> DEFINE T == Arrange!Target(f, to)
           new == [of |-> f, half |-> half, early |-> input[f] = "growing"]
<1>1. /\ DOMAIN output' = DOMAIN output \cup {T}
      /\ \A p \in DOMAIN output' : output'[p] = IF p # T THEN output[p] ELSE new
      /\ output' = [p \in DOMAIN output' |-> output'[p]]
  BY DEF Arrange!Put
<1>2. f \in Arrange!FileNames /\ (input[f] = "growing" => races > 0)
      /\ (f \in Arrange!Tracks => Arrange!albumKey(f) = <<to[1], to[2]>>)
  BY DEF ArrangeInv, TakenUp, OfAlbum, Overtaken
<1>3. new \in Landings /\ new.of = f /\ new.half = half /\ (new.early => races > 0)
  BY <1>2 DEF Landings
<1> HIDE DEF T, new
<1>4. \A p \in DOMAIN output' : output'[p] \in Landings
  BY <1>1, <1>3 DEF ArrangeInv, ArrangeTyped
<1>5. \A path : path = T => At(path, f)' /\ output'[path].half = half
  BY <1>1, <1>3 DEF At
<1>6. ASSUME NEW g \in Arrange!Tracks, input[g] = "gone", Lone(g)
      PROVE  \E path \in DOMAIN output' :
               At(path, g)' /\ ~output'[path].half /\ IsPlaceOf(path, g)
  <2>1. PICK path \in DOMAIN output :
          At(path, g) /\ ~output[path].half /\ IsPlaceOf(path, g)
    BY <1>6 DEF ArrangeInv, Kept
  <2>2. f # g
    BY <1>6 DEF Arrange!There
  <2>3. path # T
    BY <1>2, <1>6, <2>1, <2>2, PlacesAreApart DEF T
  <2>4. path \in DOMAIN output' /\ output'[path] = output[path]
    BY <1>1, <2>3
  <2> QED
    BY <2>1, <2>4 DEF At
<1> QED
  BY <1>1, <1>4, <1>5, <1>6 DEF T

\* What leaves the library as it is, or completes a file, keeps what is in it.
LEMMA LibraryStays ==
  ASSUME ArrangeInv, races > 0 => races' > 0,
         DOMAIN output' = DOMAIN output,
         \A p \in DOMAIN output : /\ output'[p].of = output[p].of
                                  /\ output'[p].early = output[p].early
                                  /\ output'[p].half => output[p].half,
         \A f \in Arrange!Tracks : input'[f] = "gone" => input[f] = "gone"
  PROVE  Kept'
<1> SUFFICES ASSUME NEW f \in Arrange!Tracks, input[f] = "gone", Lone(f)
             PROVE  \E path \in DOMAIN output' :
                      At(path, f)' /\ ~output'[path].half /\ IsPlaceOf(path, f)
  BY DEF Kept
<1>1. PICK path \in DOMAIN output : At(path, f) /\ ~output[path].half /\ IsPlaceOf(path, f)
  BY DEF ArrangeInv, Kept
<1> QED
  BY <1>1 DEF At

\* Nor does the run take up what comes after its walk.
LEMMA DownloaderKeeps ==
  ASSUME ArrangeInv,
         \/ Arrange!DownloadStart \/ Arrange!DownloadEnd
         \/ \E f \in Arrange!FileNames : Arrange!Download(f)
  PROVE  ArrangeInv'
<1>1. UNCHANGED <<output, arrange, albums, files, to>>
  BY DEF Arrange!DownloadStart, Arrange!DownloadEnd, Arrange!Download
<1>2. races \in Nat /\ lockFile \in BOOLEAN
  BY DEF ArrangeInv, ArrangeTyped
<1>3. races' \in Nat /\ lockFile' \in BOOLEAN /\ (races > 0 => races' > 0)
      /\ (arrange' = "checked" /\ lockFile' => races' > 0)
  <2>1. CASE Arrange!DownloadStart
    BY <1>2, <2>1 DEF Arrange!DownloadStart
  <2>2. CASE Arrange!DownloadEnd
    BY <1>2, <2>2 DEF Arrange!DownloadEnd
  <2>3. CASE \E f \in Arrange!FileNames : Arrange!Download(f)
    BY <1>2, <2>3 DEF Arrange!Download, ArrangeInv, TakenUp
  <2> QED
    BY <2>1, <2>2, <2>3
<1>4. /\ input' \in [Arrange!FileNames -> {"none", "growing", "whole", "gone"}]
      /\ \A f \in Arrange!FileNames : /\ input[f] # "none" => input'[f] # "none"
                                      /\ input'[f] = "gone" => input[f] = "gone"
                                      /\ input'[f] = "growing" =>
                                           lockFile' /\ input[f] \in {"none", "growing"}
  <2>1. CASE Arrange!DownloadStart
    BY <2>1 DEF Arrange!DownloadStart, ArrangeInv, ArrangeTyped
  <2>2. CASE Arrange!DownloadEnd
    BY <2>2 DEF Arrange!DownloadEnd, ArrangeInv, ArrangeTyped
  <2>3. CASE \E f \in Arrange!FileNames : Arrange!Download(f)
    BY <2>3 DEF Arrange!Download, ArrangeInv, ArrangeTyped
  <2> QED
    BY <2>1, <2>2, <2>3
<1>5. ArrangeTyped'
  BY <1>1, <1>3, <1>4 DEF ArrangeInv, ArrangeTyped
<1>6. ASSUME NEW s, NEW dir, OfAlbum(s, dir) PROVE OfAlbum(s, dir)'
  BY <1>3, <1>4, <1>6 DEF OfAlbum, Overtaken
<1>7. TakenUp'
  <2>1. OfAlbum(files, to)'
    BY <1>1, <1>3, <1>4 DEF ArrangeInv, TakenUp, OfAlbum, Overtaken
  <2>2. \A a \in albums' : OfAlbum(a.files, a.to)'
    BY <1>1, <1>6 DEF ArrangeInv, TakenUp
  <2> QED
    BY <1>3, <1>4, <2>1, <2>2 DEF TakenUp
<1>8. InHand'
  BY <1>1, <1>3 DEF ArrangeInv, InHand, At, Arrange!Current
<1>9. Kept'
  <2>1. DOMAIN output' = DOMAIN output /\ \A p \in DOMAIN output : output'[p] = output[p]
    BY <1>1
  <2>2. \A f \in Arrange!Tracks : input'[f] = "gone" => input[f] = "gone"
    BY <1>4 DEF Arrange!Tracks
  <2> QED
    BY <1>3, <2>1, <2>2, LibraryStays
<1> QED
  BY <1>5, <1>7, <1>8, <1>9 DEF ArrangeInv

\* An album is made of files that are there.
LEMMA AlbumsAreOfFiles ==
  ASSUME Listed, NEW s, s \subseteq Arrange!FileNames, NEW a \in Arrange!buildAlbums(s)
  PROVE  /\ a.files \subseteq s
         /\ \A f \in a.files \cap Arrange!Tracks : Arrange!albumKey(f) = <<a.to[1], a.to[2]>>
<1>1. PICK g \in s \cap Arrange!Tracks : a = Arrange!AlbumOf(s, Arrange!albumKey(g))
  BY DEF Arrange!buildAlbums
<1> DEFINE key == Arrange!albumKey(g)
           tracks == {f \in s \cap Arrange!Tracks : Arrange!albumKey(f) = key}
           first == Arrange!First(tracks)
           images == {f \in s : Info[f].kind = "image" /\ Info[f].dir = Info[first].dir}
           cover == Arrange!First(images)
<1>2. /\ a.files = tracks \cup (IF images = {} THEN {} ELSE {cover})
      /\ a.to = <<Info[first].artist, Info[first].album, Info[first].year>>
  BY <1>1 DEF Arrange!AlbumOf
<1>3. first \in tracks
  BY FirstIsOne, g \in tracks, tracks \subseteq Arrange!FileNames
<1>4. images # {} => cover \in images
  BY FirstIsOne, images \subseteq Arrange!FileNames
<1>5. \A f \in s : Info[f].kind = "image" => f \notin Arrange!Tracks
  BY DEF Arrange!Tracks
<1>6. \A f \in tracks : f \in s /\ Arrange!albumKey(f) = Arrange!albumKey(first)
  BY <1>3
<1>7. \A f \in images : f \in s /\ f \notin Arrange!Tracks
  BY <1>5
<1>8. Arrange!albumKey(first) = <<a.to[1], a.to[2]>>
  BY <1>2 DEF Arrange!albumKey
<1> HIDE DEF tracks, images, cover, first
<1> QED
  BY <1>2, <1>4, <1>6, <1>7, <1>8

\* A run takes up what is there.
LEMMA RunBegins ==
  ASSUME Listed, ArrangeInv, \/ \E copy \in BOOLEAN : Arrange!checkLockFile(copy)
                             \/ Arrange!Walk \/ \E a \in albums : Arrange!NextAlbum(a)
  PROVE  ArrangeInv'
<1>1. UNCHANGED <<input, output, lockFile, races>> /\ arrange' \notin {"copying", "remove"}
  BY DEF Arrange!checkLockFile, Arrange!Walk, Arrange!NextAlbum
<1>2. ArrangeTyped'
  BY <1>1 DEF ArrangeInv, ArrangeTyped
<1>3. InHand'
  BY <1>1 DEF InHand
<1>4. Kept'
  BY <1>1, LibraryStays
<1>5. ASSUME NEW s, NEW dir, OfAlbum(s, dir) PROVE OfAlbum(s, dir)'
  BY <1>1, <1>5 DEF OfAlbum, Overtaken
<1>6. TakenUp'
  <2>1. CASE \E copy \in BOOLEAN : Arrange!checkLockFile(copy)
    BY <1>1, <2>1 DEF Arrange!checkLockFile, ArrangeInv, TakenUp, OfAlbum, Overtaken
  <2>2. CASE Arrange!Walk
    <3>1. \A a \in albums' : OfAlbum(a.files, a.to)
      <4> SUFFICES ASSUME NEW a \in albums' PROVE OfAlbum(a.files, a.to)
        OBVIOUS
      <4>1. /\ a.files \subseteq Arrange!Present
            /\ \A f \in a.files \cap Arrange!Tracks :
                 Arrange!albumKey(f) = <<a.to[1], a.to[2]>>
        BY <2>2, AlbumsAreOfFiles, Arrange!Present \subseteq Arrange!FileNames
           DEF Arrange!Walk, Arrange!Present
      <4> QED
        BY <2>2, <4>1 DEF OfAlbum, Overtaken, ArrangeInv, TakenUp, Arrange!Present,
                          Arrange!There, Arrange!Walk
    <3>2. \A a \in albums' : OfAlbum(a.files, a.to)'
      BY <1>5, <3>1
    <3> QED
      BY <1>1, <2>2, <3>2 DEF Arrange!Walk, ArrangeInv, TakenUp, OfAlbum, Overtaken
  <2>3. CASE \E a \in albums : Arrange!NextAlbum(a)
    <3>1. PICK a \in albums : Arrange!NextAlbum(a)
      BY <2>3
    <3>2. OfAlbum(files, to)'
      BY <1>1, <3>1 DEF Arrange!NextAlbum, ArrangeInv, TakenUp, OfAlbum, Overtaken
    <3>3. \A b \in albums' : OfAlbum(b.files, b.to)'
      BY <1>5, <3>1 DEF Arrange!NextAlbum, ArrangeInv, TakenUp
    <3> QED
      BY <1>1, <3>1, <3>2, <3>3 DEF Arrange!NextAlbum, ArrangeInv, TakenUp
  <2> QED
    BY <2>1, <2>2, <2>3
<1> QED
  BY <1>2, <1>3, <1>4, <1>6 DEF ArrangeInv

\* An end, wherever it comes, leaves both directories as they are.
LEMMA RunEnds ==
  ASSUME ArrangeInv, \/ Arrange!CopyFails \/ Arrange!AlbumDone \/ Arrange!Abort
                     \/ Arrange!Stop /\ UNCHANGED <<input, output, lockFile, races>>
  PROVE  ArrangeInv'
<1>1. UNCHANGED <<input, output, lockFile, races>> /\ arrange' \in {"idle", "albums"}
  BY DEF Arrange!CopyFails, Arrange!AlbumDone, Arrange!Abort, Arrange!Stop
<1>2. files' = {} /\ albums' \subseteq albums
  BY DEF Arrange!CopyFails, Arrange!AlbumDone, Arrange!Abort, Arrange!Stop
<1>3. ArrangeTyped'
  BY <1>1 DEF ArrangeInv, ArrangeTyped
<1>4. InHand'
  BY <1>1 DEF InHand
<1>5. Kept'
  BY <1>1, LibraryStays
<1>6. TakenUp'
  BY <1>1, <1>2 DEF ArrangeInv, TakenUp, OfAlbum, Overtaken
<1> QED
  BY <1>3, <1>4, <1>5, <1>6 DEF ArrangeInv

\* A track that is moved is in the library, and one that is copied there in hand.
LEMMA FileLands ==
  ASSUME Listed, ArrangeInv, Arrange!moveFile \/ Arrange!copyFile,
         input[Arrange!Current] \in Arrange!There
  PROVE  ArrangeInv'
<1>0. PICK f : f = Arrange!Current
  OBVIOUS
<1>1. /\ UNCHANGED <<lockFile, races, to, albums>>
      /\ files # {} /\ input[f] \in Arrange!There
      /\ \/ /\ Arrange!Put(Arrange!Target(f, to), f, FALSE)
            /\ input' = [input EXCEPT ![f] = "gone"] /\ files' = files \ {f}
            /\ arrange' = "tracks"
         \/ /\ Arrange!Put(Arrange!Target(f, to), f, TRUE)
            /\ input' = input /\ files' = files /\ arrange' = "copying"
  BY <1>0 DEF Arrange!moveFile, Arrange!copyFile, Arrange!Moved
<1>2. f \in files /\ f \in Arrange!FileNames
  BY <1>0, <1>1, CurrentIsLeft
<1>3. PICK half \in BOOLEAN :
        /\ Arrange!Put(Arrange!Target(f, to), f, half)
        /\ half => input' = input /\ files' = files /\ arrange' = "copying"
        /\ ~half => /\ input' = [input EXCEPT ![f] = "gone"] /\ files' = files \ {f}
                    /\ arrange' = "tracks"
  BY <1>1
<1>4. /\ output' = [p \in DOMAIN output' |-> output'[p]]
      /\ \A p \in DOMAIN output' : output'[p] \in Landings
      /\ \A path : path = Arrange!Target(f, to) => At(path, f)' /\ output'[path].half = half
      /\ \A g \in Arrange!Tracks : input[g] = "gone" /\ Lone(g) =>
           \E path \in DOMAIN output' :
             At(path, g)' /\ ~output'[path].half /\ IsPlaceOf(path, g)
  BY <1>1, <1>2, <1>3, PutKeeps
<1>5. /\ input' \in [Arrange!FileNames -> {"none", "growing", "whole", "gone"}]
      /\ \A g \in Arrange!FileNames : /\ input'[g] = "growing" => input[g] = "growing"
                                      /\ input[g] # "none" => input'[g] # "none"
                                      /\ g # f => input'[g] = input[g]
  BY <1>2, <1>3 DEF ArrangeInv, ArrangeTyped
<1>6. ArrangeTyped'
  BY <1>1, <1>4, <1>5 DEF ArrangeInv, ArrangeTyped
<1>7. TakenUp'
  <2>1. files' \subseteq files /\ arrange' # "checked"
    BY <1>3
  <2> QED
    BY <1>1, <1>5, <2>1 DEF ArrangeInv, TakenUp, OfAlbum, Overtaken
<1>8. InHand'
  <2> SUFFICES ASSUME arrange' = "copying" PROVE InHand'
    BY <1>3 DEF InHand
  <2>1. files' = files /\ to' = to
    BY <1>1, <1>3
  <2> QED
    BY <1>0, <1>1, <1>4, <2>1 DEF InHand, Arrange!Current, At
<1>9. Kept'
  <2> SUFFICES ASSUME NEW g \in Arrange!Tracks, input'[g] = "gone", Lone(g)
               PROVE  \E path \in DOMAIN output' :
                        At(path, g)' /\ ~output'[path].half /\ IsPlaceOf(path, g)
    BY DEF Kept
  <2>1. CASE input[g] = "gone"
    BY <1>4, <2>1
  <2>2. CASE input[g] # "gone"
    <3>1. g = f /\ ~half
      BY <1>3, <1>5, <2>2 DEF Arrange!Tracks
    <3>2. IsPlaceOf(Arrange!Target(f, to), f)
      <4>1. Arrange!albumKey(f) = <<to[1], to[2]>>
        BY <1>2, <3>1 DEF ArrangeInv, TakenUp, OfAlbum
      <4> QED
        BY <4>1 DEF IsPlaceOf, Arrange!Target
    <3>3. PICK path : path = Arrange!Target(f, to)
      OBVIOUS
    <3>4. At(path, f)' /\ ~output'[path].half
      BY <1>4, <3>1, <3>3
    <3> QED
      BY <3>1, <3>2, <3>3, <3>4 DEF At
  <2> QED
    BY <2>1, <2>2
<1> QED
  BY <1>6, <1>7, <1>8, <1>9 DEF ArrangeInv

\* A finished copy is whole; only then does the source go.
LEMMA CopyKeeps ==
  ASSUME Listed, ArrangeInv, Arrange!Copied \/ Arrange!moveCrossDevice
  PROVE  ArrangeInv'
<1>0. PICK f, T : f = Arrange!Current /\ T = Arrange!Target(f, to)
  OBVIOUS
<1>1. UNCHANGED <<lockFile, races, to, albums>> /\ arrange' \in {"tracks", "remove"}
      /\ files # {} /\ files' \subseteq files /\ At(T, f)
  BY <1>0 DEF Arrange!Copied, Arrange!moveCrossDevice, Arrange!Moved, ArrangeInv, InHand
<1>2. f \in files /\ f \in Arrange!FileNames
  BY <1>0, <1>1, CurrentIsLeft
<1>3. CASE Arrange!Copied
  <2>1. /\ input' = input /\ output' = [output EXCEPT ![T].half = FALSE]
        /\ arrange' = "remove" => files' = files
    BY <1>0, <1>3 DEF Arrange!Copied
  <2>2. DOMAIN output' = DOMAIN output /\ output' = [p \in DOMAIN output' |-> output'[p]]
    BY <2>1 DEF ArrangeInv, ArrangeTyped
  <2>3. \A p \in DOMAIN output :
          output'[p] = IF p = T THEN [output[p] EXCEPT !.half = FALSE] ELSE output[p]
    BY <2>1 DEF ArrangeInv, ArrangeTyped
  <2>4. \A p \in DOMAIN output : /\ output'[p] \in Landings
                                 /\ output'[p].of = output[p].of
                                 /\ output'[p].early = output[p].early
                                 /\ output'[p].half => output[p].half
                                 /\ p = T => ~output'[p].half
    BY <2>3 DEF ArrangeInv, ArrangeTyped, Landings
  <2>5. ArrangeTyped'
    BY <1>1, <2>1, <2>2, <2>4 DEF ArrangeInv, ArrangeTyped
  <2>6. TakenUp'
    BY <1>1, <2>1 DEF ArrangeInv, TakenUp, OfAlbum, Overtaken
  <2>7. InHand'
    <3> SUFFICES ASSUME arrange' = "remove" PROVE InHand'
      BY <1>1 DEF InHand
    <3>1. files' = files
      BY <2>1
    <3>2. At(T, f)' /\ ~output'[T].half
      BY <1>1, <2>2, <2>4 DEF At
    <3> QED
      BY <1>0, <1>1, <3>1, <3>2 DEF InHand, Arrange!Current, At
  <2>8. Kept'
    BY <1>1, <2>1, <2>2, <2>4, LibraryStays
  <2> QED
    BY <2>5, <2>6, <2>7, <2>8 DEF ArrangeInv
<1>4. CASE Arrange!moveCrossDevice
  <2>1. /\ output' = output /\ input' = [input EXCEPT ![f] = "gone"]
        /\ arrange = "remove" /\ arrange' = "tracks"
    BY <1>0, <1>4 DEF Arrange!moveCrossDevice
  <2>2. /\ input' \in [Arrange!FileNames -> {"none", "growing", "whole", "gone"}]
        /\ \A g \in Arrange!FileNames : /\ input'[g] = "growing" => input[g] = "growing"
                                        /\ input[g] # "none" => input'[g] # "none"
                                        /\ g # f => input'[g] = input[g]
    BY <1>2, <2>1 DEF ArrangeInv, ArrangeTyped
  <2>3. ArrangeTyped'
    BY <1>1, <2>1, <2>2 DEF ArrangeInv, ArrangeTyped
  <2>4. ~output[T].half
    BY <1>0, <2>1 DEF ArrangeInv, InHand
  <2>5. TakenUp'
    BY <1>1, <2>1, <2>2 DEF ArrangeInv, TakenUp, OfAlbum, Overtaken
  <2>6. InHand'
    BY <2>1 DEF InHand
  <2>7. Kept'
    <3> SUFFICES ASSUME NEW g \in Arrange!Tracks, input'[g] = "gone", Lone(g)
                 PROVE  \E path \in DOMAIN output :
                          At(path, g) /\ ~output[path].half /\ IsPlaceOf(path, g)
      BY <1>1, <2>1 DEF Kept, At
    <3>1. CASE input[g] = "gone"
      BY <3>1 DEF ArrangeInv, Kept
    <3>2. CASE input[g] # "gone"
      <4>1. g = f
        BY <2>2, <3>2 DEF Arrange!Tracks
      <4>2. IsPlaceOf(T, f)
        <5>1. Arrange!albumKey(f) = <<to[1], to[2]>>
          BY <1>2, <4>1 DEF ArrangeInv, TakenUp, OfAlbum
        <5> QED
          BY <1>0, <5>1 DEF IsPlaceOf, Arrange!Target
      <4> QED
        BY <1>1, <2>4, <4>1, <4>2 DEF At
    <3> QED
      BY <3>1, <3>2
  <2> QED
    BY <2>3, <2>5, <2>6, <2>7 DEF ArrangeInv
<1> QED
  BY <1>3, <1>4

\* Whatever the downloader does beside a run, and wherever runs fail or end, a
\* track that left the download directory is whole in the library.
THEOREM TracksAreKept ==
  ASSUME Listed
  PROVE  Arrange!Spec => []TracksSurvive
<1>1. Arrange!Init => ArrangeInv
  <2> SUFFICES ASSUME Arrange!Init PROVE ArrangeInv
    OBVIOUS
  <2>1. DOMAIN output = {} /\ output = [p \in DOMAIN output |-> output[p]]
    BY DEF Arrange!Init
  <2>2. \A f \in Arrange!FileNames : input[f] = "none"
    BY DEF Arrange!Init
  <2>3. ArrangeTyped
    BY <2>1 DEF Arrange!Init, ArrangeTyped
  <2>4. TakenUp /\ InHand
    BY <2>2 DEF Arrange!Init, TakenUp, OfAlbum, Overtaken, InHand
  <2>5. Kept
    BY <2>2 DEF Kept, Arrange!Tracks
  <2> QED
    BY <2>3, <2>4, <2>5 DEF ArrangeInv
<1>2. ArrangeInv /\ [Arrange!Next]_(Arrange!vars) => ArrangeInv'
  <2> SUFFICES ASSUME ArrangeInv, [Arrange!Next]_(Arrange!vars) PROVE ArrangeInv'
    OBVIOUS
  <2>1. CASE UNCHANGED Arrange!vars
    BY <2>1 DEF Arrange!vars, ArrangeInv, ArrangeTyped, TakenUp, OfAlbum, Overtaken, InHand, At,
                Arrange!Current, Kept
  <2>2. CASE \/ Arrange!DownloadStart \/ Arrange!DownloadEnd
             \/ \E f \in Arrange!FileNames : Arrange!Download(f)
    BY <2>2, DownloaderKeeps
  <2>3. CASE \/ \E copy \in BOOLEAN : Arrange!checkLockFile(copy)
             \/ Arrange!Walk \/ \E a \in albums : Arrange!NextAlbum(a)
    BY <2>3, RunBegins
  <2>4. CASE Arrange!moveFile \/ Arrange!copyFile
    <3>1. CASE input[Arrange!Current] \in Arrange!There
      BY <2>4, <3>1, FileLands
    <3>2. CASE input[Arrange!Current] \notin Arrange!There
      <4>1. Arrange!Stop /\ UNCHANGED <<input, output, lockFile, races>>
        BY <2>4, <3>2 DEF Arrange!moveFile, Arrange!copyFile
      <4> QED
        BY <4>1, RunEnds
    <3> QED
      BY <3>1, <3>2
  <2>5. CASE Arrange!Copied \/ Arrange!moveCrossDevice
    BY <2>5, CopyKeeps
  <2>6. CASE Arrange!CopyFails \/ Arrange!AlbumDone \/ Arrange!Abort
    BY <2>6, RunEnds
  <2> QED
    BY <2>1, <2>2, <2>3, <2>4, <2>5, <2>6 DEF Arrange!Next
<1>3. ArrangeInv => TracksSurvive
  BY DEF ArrangeInv, Kept, Lone, At, TracksSurvive, Arrange!TracksSurvive
<1> QED
  BY <1>1, <1>2, <1>3, PTL DEF Arrange!Spec

-----------------------------------------------------------------------------
(***************************************************************************)
(* lastfm-scrobble-deduplicator: what duplicates leave.                    *)
(***************************************************************************)

\* Plays have times, and there are enough of them to begin with.
Timed == /\ PageSize \in Nat /\ Len(Timeline) \in Nat /\ PageSize < Len(Timeline)
         /\ \A s \in 1..Len(Timeline) : Scrobbles!At(s) \in Int

\* A run sees what is in the profile or what it has deleted itself.
Seen == library \cup twins \cup cut
ScrobblesInv ==
  /\ coming \in Nat /\ coming <= Len(Timeline)
  /\ Seen \subseteq 1..coming /\ rows \subseteq Seen /\ shown \subseteq Seen
  /\ Scrobbles!NewestIsLeft

\* The current row is one of the page.
LEMMA CurrentIsSeen ==
  ASSUME ScrobblesInv, rows # {}
  PROVE  Scrobbles!Current \in rows
<1>1. rows \in SUBSET Nat
  BY DEF ScrobblesInv
<1>2. \E x \in rows : \A y \in rows : x <= y
  BY <1>1, Smallest
<1> QED
  BY <1>2 DEF Scrobbles!Current, Scrobbles!Min

\* A deletion takes one scrobble off the profile, or none.
LEMMA DeletionTakesOne ==
  ASSUME NEW s, Scrobbles!deleteScrobble(s) \/ Scrobbles!DeletionFails(s)
  PROVE  library' \in {library, library \ {s}}
BY DEF Scrobbles!deleteScrobble, Scrobbles!DeletionFails

\* An older duplicate leaves the newer one, or what the newer one had left.
LEMMA DuplicateKeeps ==
  ASSUME Timed, ScrobblesInv, Scrobbles!processDuplicate
  PROVE  ScrobblesInv'
<1>0. PICK c, p : c = Scrobbles!Current /\ p = previous
  OBVIOUS
<1>1. /\ rows # {} /\ rows' = rows \ {c} /\ UNCHANGED <<coming, cut, shown>>
      /\ twins' = twins \cup (library \ library') /\ Scrobbles!Duplicate(p, c)
  BY <1>0 DEF Scrobbles!processDuplicate, Scrobbles!Measured, Scrobbles!Compared
<1>2. library' \in {library, library \ {p}}
  BY <1>0, DeletionTakesOne DEF Scrobbles!processDuplicate
<1>3. c \in rows /\ c \in Seen
  BY <1>0, <1>1, CurrentIsSeen DEF ScrobblesInv
<1>4. /\ Scrobbles!Track(p) = Scrobbles!Track(c) /\ Scrobbles!At(p) # Scrobbles!At(c)
      /\ Scrobbles!At(c) >= Scrobbles!At(p)
  BY <1>1 DEF Scrobbles!Duplicate, Scrobbles!belowThreshold
<1>5. \A s \in Seen : Scrobbles!At(s) \in Int
  BY DEF Timed, ScrobblesInv
<1>6. CASE library' = library
  BY <1>1, <1>6 DEF ScrobblesInv, Seen, Scrobbles!NewestIsLeft
<1>7. CASE library' # library
  <2>1. p \in library /\ library' = library \ {p} /\ twins' = twins \cup {p}
    BY <1>1, <1>2, <1>7
  <2>2. Scrobbles!At(p) \in Int /\ Scrobbles!At(c) \in Int
        /\ Scrobbles!At(c) > Scrobbles!At(p)
    BY <1>3, <1>4, <1>5, <2>1 DEF Seen
  <2>3. PICK x \in library' \cup cut :
          Scrobbles!Track(x) = Scrobbles!Track(p) /\ Scrobbles!At(x) > Scrobbles!At(p)
    <3>1. CASE c \in library \cup cut
      BY <1>4, <2>1, <2>2, <3>1
    <3>2. CASE c \in twins
      <4>1. PICK x \in library \cup cut :
              Scrobbles!Track(x) = Scrobbles!Track(c) /\ Scrobbles!At(x) > Scrobbles!At(c)
        BY <3>2 DEF ScrobblesInv, Scrobbles!NewestIsLeft
      <4>2. Scrobbles!At(x) \in Int
        BY <1>5, <4>1 DEF Seen
      <4>3. Scrobbles!At(x) > Scrobbles!At(p) /\ x # p
        BY <2>2, <4>1, <4>2
      <4> QED
        BY <1>4, <2>1, <4>1, <4>3
    <3> QED
      BY <1>3, <3>1, <3>2 DEF Seen
  <2>4. ASSUME NEW s \in twins'
        PROVE  \E y \in library' \cup cut' :
                 Scrobbles!Track(y) = Scrobbles!Track(s) /\ Scrobbles!At(y) > Scrobbles!At(s)
    <3>1. CASE s = p
      BY <1>1, <2>3, <3>1
    <3>2. CASE s # p
      <4>1. s \in twins
        BY <2>1, <3>2
      <4>2. PICK y \in library \cup cut :
              Scrobbles!Track(y) = Scrobbles!Track(s) /\ Scrobbles!At(y) > Scrobbles!At(s)
        BY <4>1 DEF ScrobblesInv, Scrobbles!NewestIsLeft
      <4>3. CASE y \in library' \cup cut'
        BY <4>2, <4>3
      <4>4. CASE y = p
        <5>1. Scrobbles!At(x) \in Int /\ Scrobbles!At(s) \in Int
          BY <1>5, <2>1, <4>1 DEF Seen
        <5>2. Scrobbles!At(x) > Scrobbles!At(s)
          BY <2>2, <2>3, <4>2, <4>4, <5>1
        <5> QED
          BY <1>1, <2>3, <4>2, <4>4, <5>2
      <4> QED
        BY <1>1, <2>1, <4>3, <4>4
    <3> QED
      BY <3>1, <3>2
  <2>5. Seen' = Seen
    BY <1>1, <2>1 DEF Seen
  <2> QED
    BY <1>1, <2>4, <2>5 DEF ScrobblesInv, Scrobbles!NewestIsLeft
<1> QED
  BY <1>6, <1>7

\* What is deleted as incomplete stays known as that.
LEMMA IncompleteKeeps ==
  ASSUME ScrobblesInv, Scrobbles!processIncomplete
  PROVE  ScrobblesInv'
<1>1. /\ rows' \subseteq rows /\ UNCHANGED <<coming, twins, shown>>
      /\ cut' = cut \cup (library \ library')
  BY DEF Scrobbles!processIncomplete, Scrobbles!Measured, Scrobbles!Compared
<1>2. library' \subseteq library
  BY DeletionTakesOne DEF Scrobbles!processIncomplete
<1>3. Seen' = Seen /\ library' \cup cut' = library \cup cut
  BY <1>1, <1>2 DEF Seen
<1> QED
  BY <1>1, <1>3 DEF ScrobblesInv, Scrobbles!NewestIsLeft

\* Whatever pages a run is shown and whichever lookups, clicks and exports fail, a
\* play deleted as a duplicate leaves a later one, which only its own turn can take.
THEOREM NewestStays ==
  ASSUME Timed
  PROVE  Scrobbles!Spec => []NewestIsLeft
<1>1. Scrobbles!Init => ScrobblesInv
  BY DEF Timed, Scrobbles!Init, ScrobblesInv, Seen, Scrobbles!NewestIsLeft
<1>2. ScrobblesInv /\ [Scrobbles!Next]_(Scrobbles!vars) => ScrobblesInv'
  <2> SUFFICES ASSUME ScrobblesInv, [Scrobbles!Next]_(Scrobbles!vars) PROVE ScrobblesInv'
    OBVIOUS
  <2>1. CASE /\ UNCHANGED <<library, coming, twins, cut, shown>>
             /\ rows' \subseteq rows
    BY <2>1 DEF ScrobblesInv, Seen, Scrobbles!NewestIsLeft
  <2>2. CASE Scrobbles!Scrobble
    <3>1. /\ coming' \in Nat /\ coming' <= Len(Timeline) /\ coming <= coming'
          /\ library' = library \cup {coming'} /\ coming' \in 1..coming'
      BY <2>2 DEF Scrobbles!Scrobble, Timed, ScrobblesInv
    <3>2. UNCHANGED <<twins, cut, rows, shown>>
      BY <2>2 DEF Scrobbles!Scrobble
    <3>3. Seen' = Seen \cup {coming'} /\ 1..coming \subseteq 1..coming'
      BY <3>1, <3>2 DEF Seen, ScrobblesInv
    <3> QED
      BY <3>1, <3>2, <3>3 DEF ScrobblesInv, Scrobbles!NewestIsLeft
  <2>3. CASE Scrobbles!getStartPage
    BY <2>3 DEF Scrobbles!getStartPage, ScrobblesInv, Seen, Scrobbles!NewestIsLeft
  <2>4. CASE Scrobbles!getScrobbles
    <3>1. /\ UNCHANGED <<library, coming, twins, cut>>
          /\ rows' = shown' /\ shown' \subseteq shown \cup library
      BY <2>4 DEF Scrobbles!getScrobbles, Scrobbles!gone, Scrobbles!PageOf
    <3> QED
      BY <3>1 DEF ScrobblesInv, Seen, Scrobbles!NewestIsLeft
  <2>5. CASE Scrobbles!Skip \/ Scrobbles!Keep
    BY <2>1, <2>5 DEF Scrobbles!Skip, Scrobbles!Keep, Scrobbles!Measured, Scrobbles!Compared,
                      Scrobbles!gone
  <2>6. CASE \/ Scrobbles!PageLost \/ Scrobbles!PageDone \/ Scrobbles!Interrupt
             \/ Scrobbles!writeUnknownTrackDurations \/ Scrobbles!exportScrobblesToCSV
             \/ Scrobbles!finishRun \/ Scrobbles!FinishFails \/ UNCHANGED Scrobbles!vars
    BY <2>1, <2>6 DEF Scrobbles!PageLost, Scrobbles!PageDone, Scrobbles!Interrupt, Scrobbles!gone,
                      Scrobbles!writeUnknownTrackDurations, Scrobbles!exportScrobblesToCSV,
                      Scrobbles!finishRun, Scrobbles!FinishFails, Scrobbles!vars
  <2>7. CASE Scrobbles!processDuplicate
    BY <2>7, DuplicateKeeps
  <2>8. CASE Scrobbles!processIncomplete
    BY <2>8, IncompleteKeeps
  <2> QED
    BY <2>2, <2>3, <2>4, <2>5, <2>6, <2>7, <2>8 DEF Scrobbles!Next
<1>3. ScrobblesInv => NewestIsLeft
  BY DEF ScrobblesInv, NewestIsLeft
<1> QED
  BY <1>1, <1>2, <1>3, PTL DEF Scrobbles!Spec

=============================================================================
