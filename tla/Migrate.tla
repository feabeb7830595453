------------------------------ MODULE Migrate ------------------------------
(***************************************************************************)
(* pv-migrate: a run clears the claim of a released volume, binds it to a  *)
(* temporary claim, has the pv-migrate CLI copy it to the destination and  *)
(* deletes the temporary claim.  Several runs may be started for the same  *)
(* volume; the volume controller and a stranger's pending claim act too.   *)
(***************************************************************************)
EXTENDS Naturals

CONSTANTS
    Runs,
    None,
    MaxStarts, MaxSlips

VARIABLES
    pv,      \* [claim, policy, here]: claimRef [by, uid] or None, reclaim policy
    temp,    \* uid of the temporary claim, or None
    pending, \* a stranger's claim waits for a volume
    mig,     \* run -> where it is and what it has read
    copies,  \* runs whose Helm release is installed
    opted,   \* some run was told it may lose the volume
    starts, uids, slips

vars == <<pv, temp, pending, mig, copies, opted, starts, uids, slips>>
Hist == <<opted, starts>>

\* A claim of the old consumer, of a temporary claim or of the stranger.
ClaimOf(by, uid) == [by |-> by, uid |-> uid]
NotRunning == [pc |-> "idle", read |-> None, bound |-> FALSE,
               uid |-> 0, created |-> FALSE, end |-> "none"]

Init ==
    /\ pv = [claim |-> ClaimOf("old", 0), policy |-> "Retain", here |-> TRUE]
    /\ temp = None /\ pending = FALSE /\ copies = {}
    /\ mig = [p \in Runs |-> NotRunning] /\ opted = FALSE /\ starts = 0 /\ uids = 0 /\ slips = 0

\* Whether the claim that claimRef names exists; the old consumer was deleted.
pvcExists(claim) ==
    claim # None /\ ((claim.by = "temp" /\ temp # None) \/ claim.by = "other")

(***************************************************************************)
(* A run                                                                   *)
(***************************************************************************)
To(p, pc) == mig' = [mig EXCEPT ![p].pc = pc]
Ends(p, how) == mig' = [mig EXCEPT ![p] = [NotRunning EXCEPT !.end = how]]

\* A slip: a call that fails, or whose answer is lost.
Slip == slips < MaxSlips /\ slips' = slips + 1

\* The phase follows the claim with a delay.
getPV(p) ==
    /\ mig[p].pc = "idle" /\ pv.here
    /\ starts < MaxStarts /\ starts' = starts + 1
    /\ \E bound \in BOOLEAN :
        /\ pv.claim = None => ~bound
        /\ mig' = [mig EXCEPT ![p] = [NotRunning EXCEPT !.pc = "check", !.read = pv.claim,
                                                         !.bound = bound]]
    /\ UNCHANGED <<pv, temp, pending, copies, opted, uids, slips>>

validatePVState(p, allowDelete) ==
    /\ ~(mig[p].bound /\ pvcExists(mig[p].read))
    /\ pv.policy = "Delete" => allowDelete

\* The destination goes by the name of the old consumer.
validateDestName(p, allowMismatch) ==
    allowMismatch \/ mig[p].read = None \/ mig[p].read.by = "old"

Validate(p) ==
    /\ mig[p].pc = "check"
    /\ \E allowDelete, allowMismatch \in BOOLEAN :
        /\ opted' = (opted \/ allowDelete)
        /\ IF validatePVState(p, allowDelete) /\ validateDestName(p, allowMismatch)
           THEN To(p, "clear") ELSE Ends(p, "refused")
    /\ UNCHANGED <<pv, temp, pending, copies, starts, uids, slips>>

\* A claimRef is removed if one was read, whatever is there by now; removing
\* one that is gone is an error.
patchPVClaimRefNil(p) ==
    /\ mig[p].pc = "clear"
    /\ IF mig[p].read = None
       THEN To(p, "create") /\ UNCHANGED pv
       ELSE IF pv.here /\ pv.claim # None
            THEN To(p, "create") /\ pv' = [pv EXCEPT !.claim = None]
            ELSE Ends(p, "error") /\ UNCHANGED pv
    /\ UNCHANGED <<temp, pending, copies, Hist, uids, slips>>

\* A claim of that name is never adopted.
createTempPVC_bug(p) ==
    /\ mig[p].pc = "create"
    /\ IF temp # None
       THEN /\ mig' = [mig EXCEPT ![p].pc = "cleanup", ![p].created = TRUE, ![p].end = "error"]
            /\ UNCHANGED <<temp, uids>>
       ELSE /\ temp' = uids + 1 /\ uids' = uids + 1
            /\ mig' = [mig EXCEPT ![p].pc = "bind", ![p].uid = uids + 1, ![p].created = TRUE,
                                  ![p].end = "error"]
    /\ UNCHANGED <<pv, pending, copies, Hist, slips>>
createTempPVC(p) ==
    /\ mig[p].pc = "create"
    /\ IF temp # None
       THEN Ends(p, "error") /\ UNCHANGED <<temp, uids>>
       ELSE /\ temp' = uids + 1 /\ uids' = uids + 1
            /\ mig' = [mig EXCEPT ![p].pc = "bind", ![p].uid = uids + 1, ![p].created = TRUE,
                                  ![p].end = "error"]
    /\ UNCHANGED <<pv, pending, copies, Hist, slips>>

\* Created, but the answer does not arrive: the run does not know.
CreateLost(p) ==
    /\ mig[p].pc = "create" /\ temp = None /\ Slip
    /\ temp' = uids + 1 /\ uids' = uids + 1
    /\ Ends(p, "lost")
    /\ UNCHANGED <<pv, pending, copies, Hist>>

IsBound(uid) == pv.here /\ pv.claim = ClaimOf("temp", uid)

\* The claim is looked up by its name, whichever it is by now.
waitForPVCBound(p) ==
    /\ mig[p].pc = "bind" /\ temp # None /\ IsBound(temp)
    /\ To(p, "copy")
    /\ copies' = copies \cup {p}
    /\ UNCHANGED <<pv, temp, pending, Hist, uids, slips>>

\* Timeout, signal, or the claim is lost.
BindFails_bug(p) ==
    /\ mig[p].pc = "bind"
    /\ To(p, "idle")
    /\ UNCHANGED <<pv, temp, pending, copies, Hist, uids, slips>>
BindFails(p) ==
    /\ mig[p].pc = "bind"
    /\ To(p, "cleanup")
    /\ UNCHANGED <<pv, temp, pending, copies, Hist, uids, slips>>

\* The CLI ends well, removing its release, or fails or is killed by a signal.
runMigration(p) ==
    /\ mig[p].pc = "copy"
    /\ \/ /\ p \in copies
          /\ copies' = copies \ {p}
          /\ mig' = [mig EXCEPT ![p].pc = "cleanup", ![p].end = "ok"]
       \/ To(p, "cleanup") /\ UNCHANGED copies
    /\ UNCHANGED <<pv, temp, pending, Hist, uids, slips>>

\* The deferred cleanup, under a context of its own: the claim by its name,
\* then the releases, which are everybody's.
deleteTempPVC(p) ==
    /\ mig[p].pc = "cleanup"
    /\ \/ temp' = (IF mig[p].created THEN None ELSE temp) /\ UNCHANGED slips
       \/ UNCHANGED temp /\ Slip
    /\ mig' = [mig EXCEPT ![p].pc = "sweep", ![p].end = IF temp' # None THEN "leftover" ELSE @]
    /\ UNCHANGED <<pv, pending, copies, Hist, uids>>
cleanupPVMigrateReleases(p) ==
    /\ mig[p].pc = "sweep"
    /\ mig' = [mig EXCEPT ![p].pc = "idle", ![p].read = None, ![p].bound = FALSE]
    /\ copies' = {}
    /\ UNCHANGED <<pv, temp, pending, Hist, uids, slips>>

Kill(p) ==
    /\ mig[p].pc # "idle" /\ Slip
    /\ Ends(p, "killed")
    /\ UNCHANGED <<pv, temp, pending, copies, Hist, uids>>

(***************************************************************************)
(* The volume controller, the stranger and the operator                    *)
(***************************************************************************)
Bind ==
    /\ pv.here /\ pv.claim = None
    /\ \/ temp # None /\ pv' = [pv EXCEPT !.claim = ClaimOf("temp", temp)] /\ UNCHANGED pending
       \/ pending /\ pv' = [pv EXCEPT !.claim = ClaimOf("other", 0)] /\ pending' = FALSE
    /\ UNCHANGED <<temp, mig, copies, Hist, uids, slips>>

\* A deleted claim releases the volume, which goes with it under Delete.
Reclaim ==
    /\ pv.here /\ pv.policy = "Delete" /\ pv.claim # None
    /\ pv.claim.by = "temp" /\ temp # pv.claim.uid
    /\ pv' = [pv EXCEPT !.here = FALSE]
    /\ UNCHANGED <<temp, pending, mig, copies, Hist, uids, slips>>

\* What there is before the first run.
Begin ==
    /\ starts = 0 /\ \A p \in Runs : mig[p].pc = "idle"
    /\ \/ pv.policy = "Retain" /\ pv' = [pv EXCEPT !.policy = "Delete"] /\ UNCHANGED pending
       \/ ~pending /\ pending' = TRUE /\ UNCHANGED pv
    /\ UNCHANGED <<temp, mig, copies, Hist, uids, slips>>

Next ==
    \/ \E p \in Runs :
        \/ getPV(p) \/ Validate(p) \/ patchPVClaimRefNil(p) \/ createTempPVC(p) \/ CreateLost(p)
        \/ waitForPVCBound(p) \/ BindFails(p) \/ runMigration(p)
        \/ deleteTempPVC(p) \/ cleanupPVMigrateReleases(p) \/ Kill(p)
    \/ Bind \/ Reclaim \/ Begin

Spec == Init /\ [][Next]_vars

(***************************************************************************)
(* Properties                                                              *)
(***************************************************************************)
\* While a run waits for its temporary claim or copies from it the claim is its
\* own: no other run, whatever it failed at, deletes or adopts it (main.go:160,
\* k8s.go:101-103).
TempIsOwn == \A p \in Runs :
    mig[p].pc \in {"bind", "copy"} => temp = mig[p].uid

\* A run that ended by itself, well or not, has deleted the temporary claim it
\* made (main.go:152-155): only a killed run, a lost answer and a failed
\* deletion leave one.
TempIsDeleted == \A p \in Runs :
    mig[p].pc = "idle" /\ mig[p].end \in {"ok", "error"} =>
        temp = None \/ temp # mig[p].uid

=============================================================================
