------------------------------- MODULE Mirror -------------------------------
(***************************************************************************)
(* gitea-mirror-sync: one run after another brings the mirrors of the      *)
(* Gitea owners that the mirrors file names into line with the file, while *)
(* users create, convert and delete repositories of their own.             *)
(***************************************************************************)
EXTENDS Naturals, Sequences, SequencesExt

CONSTANTS
    Owners, Repos,   \* names, of which Gitea ignores the case
    Files,           \* mirrors files, see Resolved
    None,
    MaxSyncs, MaxErrors, MaxEdits

VARIABLES
    gitea,    \* <<owner, repo>> -> [kind: "none", "repo" or "mirror", upper, private]
    orgs,     \* owners that exist
    sync,     \* stage of the run: "idle", "desired", "owners", "prune"
    flags,    \* [dry, prune]
    desired,  \* mirrors of the file, resolved
    todo,     \* those not reconciled, then the owners not pruned
    seen,     \* what getRepo said of the one at hand, or None
    doomed,   \* repositories to be pruned, as listed
    outcome,  \* of the last run
    quiet,    \* no user has touched anything since the last run began
    syncs, errors, edits

vars == <<gitea, orgs, sync, flags, desired, todo, seen, doomed, outcome, quiet, syncs, errors, edits>>
runVars == <<sync, flags, desired, todo, seen, doomed, outcome, syncs>>

RepoKeys == Owners \X Repos
Absent == [kind |-> "none", upper |-> FALSE, private |-> FALSE]

Init ==
    /\ gitea = [k \in RepoKeys |-> Absent] /\ orgs = {}
    /\ sync = "idle" /\ flags = [dry |-> FALSE, prune |-> TRUE]
    /\ desired = {} /\ todo = {} /\ seen = None /\ doomed = {}
    /\ outcome = "none" /\ quiet = TRUE /\ syncs = 0 /\ errors = 0 /\ edits = 0

(***************************************************************************)
(* The mirrors file                                                        *)
(***************************************************************************)
\* repoKey drops the case: upper tells a spelling apart.
repoKey_bug(m) == <<m.owner, m.name, m.upper>>
repoKey(m) == <<m.owner, m.name>>

\* The owner of an entry: its own, else the URL's if the file says so, else the
\* default.
OwnerOf(file, m) ==
    IF m.owner # None THEN m.owner
    ELSE IF file.ownerFromURL /\ m.urlOwner # None THEN m.urlOwner
    ELSE file.defaultOwner

Resolved(file) == [i \in DOMAIN file.mirrors |->
    [file.mirrors[i] EXCEPT !.owner = OwnerOf(file, file.mirrors[i])]]

\* Every entry has an owner and a name that can be derived, none is there twice.
Loads(file) ==
    /\ \A i \in DOMAIN file.mirrors : Resolved(file)[i].owner # None
    /\ \A i, j \in DOMAIN file.mirrors :
        repoKey(Resolved(file)[i]) = repoKey(Resolved(file)[j]) => i = j

(***************************************************************************)
(* A run                                                                   *)
(***************************************************************************)
Stops(how) == sync' = "idle" /\ outcome' = how /\ todo' = {} /\ seen' = None /\ doomed' = {}
Error == errors < MaxErrors /\ errors' = errors + 1

loadConfig(file, dry, prune) ==
    /\ sync = "idle" /\ syncs < MaxSyncs /\ syncs' = syncs + 1
    /\ flags' = [dry |-> dry, prune |-> prune]
    /\ desired' = IF Loads(file) THEN ToSet(Resolved(file)) ELSE {}
    /\ IF Loads(file)
       THEN sync' = "desired" /\ todo' = desired' /\ outcome' = "none" /\ UNCHANGED <<seen, doomed>>
       ELSE Stops("refused")
    /\ quiet' = TRUE
    /\ UNCHANGED <<gitea, orgs, errors, edits>>

Of(m) == <<m.owner, m.name>>

getRepo(m) ==
    /\ sync = "desired" /\ m \in todo /\ seen = None
    /\ seen' = [m |-> m, is |-> gitea[Of(m)]]
    /\ UNCHANGED <<gitea, orgs, sync, flags, desired, todo, doomed, outcome, quiet, syncs, errors, edits>>

Settled == todo' = todo \ {seen.m} /\ seen' = None /\ UNCHANGED <<sync, doomed, outcome>>

\* Nothing there: the owner is made if need be, then the mirror.  A repository
\* that appeared meanwhile makes the request fail.
migrate ==
    /\ sync = "desired" /\ seen # None /\ seen.is.kind = "none"
    /\ IF flags.dry
       THEN Settled /\ UNCHANGED <<gitea, orgs, errors>>
       ELSE \/ /\ orgs' = orgs \cup {seen.m.owner}
               /\ IF gitea[Of(seen.m)].kind = "none"
                  THEN /\ gitea' = [gitea EXCEPT ![Of(seen.m)] = [kind |-> "mirror",
                            upper |-> seen.m.upper, private |-> seen.m.private = TRUE]]
                       /\ \/ Settled /\ UNCHANGED errors
                          \/ Stops("error") /\ Error
                  ELSE Stops("error") /\ UNCHANGED <<gitea, errors>>
            \/ Stops("error") /\ Error /\ orgs' \in {orgs, orgs \cup {seen.m.owner}} /\ UNCHANGED gitea
    /\ UNCHANGED <<flags, desired, quiet, syncs, edits>>

\* A repository that is no mirror is left alone.
Refuse ==
    /\ sync = "desired" /\ seen # None /\ seen.is.kind = "repo"
    /\ Settled
    /\ UNCHANGED <<gitea, orgs, flags, desired, quiet, syncs, errors, edits>>

\* The interval is always sent, the visibility when the file sets it.
updateRepo_bug ==
    /\ sync = "desired" /\ seen # None /\ seen.is.kind = "mirror"
    /\ Settled
    /\ UNCHANGED <<gitea, orgs, flags, desired, quiet, syncs, errors, edits>>
updateRepo ==
    /\ sync = "desired" /\ seen # None /\ seen.is.kind = "mirror"
    /\ IF flags.dry
       THEN Settled /\ UNCHANGED <<gitea, errors>>
       ELSE IF gitea[Of(seen.m)].kind = "none"
       THEN Stops("error") /\ UNCHANGED <<gitea, errors>>
       ELSE \/ /\ gitea' = [gitea EXCEPT ![Of(seen.m)].private =
                                IF seen.m.private = None THEN @ ELSE seen.m.private]
               /\ Settled /\ UNCHANGED errors
            \/ Stops("error") /\ Error /\ UNCHANGED gitea
    /\ UNCHANGED <<orgs, flags, desired, quiet, syncs, edits>>

Managed == {m.owner : m \in desired}

StartPrune ==
    /\ sync = "desired" /\ todo = {}
    /\ IF flags.prune
       THEN sync' = "owners" /\ todo' = Managed /\ UNCHANGED <<seen, doomed, outcome>>
       ELSE Stops("ok")
    /\ UNCHANGED <<gitea, orgs, flags, desired, quiet, syncs, errors, edits>>

\* The mirrors of an owner that the file does not name, in their own spelling.
Unwanted(o) == {k \in RepoKeys : k[1] = o /\ gitea[k].kind = "mirror" /\
    repoKey([owner |-> k[1], name |-> k[2], upper |-> gitea[k].upper])
        \notin {repoKey(m) : m \in desired}}

listRepos(o) ==
    /\ sync = "owners" /\ o \in todo /\ doomed = {}
    /\ todo' = todo \ {o} /\ doomed' = Unwanted(o)
    /\ UNCHANGED <<gitea, orgs, sync, flags, desired, seen, outcome, quiet, syncs, errors, edits>>

\* What is gone already is no error.
deleteRepo(k) ==
    /\ sync = "owners" /\ k \in doomed
    /\ doomed' = doomed \ {k}
    /\ gitea' = IF flags.dry THEN gitea ELSE [gitea EXCEPT ![k] = Absent]
    /\ UNCHANGED <<orgs, sync, flags, desired, todo, seen, outcome, quiet, syncs, errors, edits>>

Finished ==
    /\ sync = "owners" /\ todo = {} /\ doomed = {}
    /\ Stops("ok")
    /\ UNCHANGED <<gitea, orgs, flags, desired, quiet, syncs, errors, edits>>

\* A request fails, the five minutes are over, or the process dies.
Fails ==
    /\ sync # "idle" /\ Error
    /\ Stops("error")
    /\ UNCHANGED <<gitea, orgs, flags, desired, quiet, syncs, edits>>

\* A user creates, converts or deletes a repository.
Edit(k) ==
    /\ edits < MaxEdits /\ edits' = edits + 1 /\ quiet' = FALSE
    /\ \E kind \in {"none", "repo"}, upper \in BOOLEAN :
        gitea' = [gitea EXCEPT ![k] = IF kind = "none" THEN Absent
                                      ELSE [kind |-> "repo", upper |-> upper, private |-> TRUE]]
    /\ gitea' # gitea
    /\ orgs' = orgs \cup {k[1]}
    /\ UNCHANGED <<runVars, errors>>

Next ==
    \/ \E f \in Files, dry, prune \in BOOLEAN : loadConfig(f, dry, prune)
    \/ \E m \in desired : getRepo(m)
    \/ migrate \/ Refuse \/ updateRepo \/ StartPrune \/ Finished \/ Fails
    \/ \E o \in Owners : listRepos(o)
    \/ \E k \in RepoKeys : deleteRepo(k) \/ Edit(k)

Spec == Init /\ [][Next]_vars

(***************************************************************************)
(* Properties                                                              *)
(***************************************************************************)
\* No run deletes a repository its own file names, however it is spelled, even
\* one that appeared since the run looked (main.go:44-48, 526).
DesiredKept == [][\A k \in RepoKeys :
    k \in doomed /\ k \notin doomed' /\ gitea[k].kind # "none" /\ gitea'[k].kind = "none"
        => k \notin {Of(m) : m \in desired}]_vars

\* After a run to the end beside which no user did anything, whatever the runs
\* before it left undone, the owners it knows have the mirrors of its file and no
\* other, as visible as the file says; only a repository that is no mirror can
\* stand in the way (main.go:459-548).
Converged ==
    outcome = "ok" /\ ~flags.dry /\ quiet =>
        /\ \A m \in desired :
            /\ gitea[Of(m)].kind # "none"
            /\ gitea[Of(m)].kind = "mirror" /\ m.private # None => gitea[Of(m)].private = m.private
        /\ flags.prune => \A k \in RepoKeys : k[1] \in Managed /\ gitea[k].kind = "mirror" =>
                                                k \in {Of(m) : m \in desired}
=============================================================================
