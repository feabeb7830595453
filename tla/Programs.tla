------------------------------ MODULE Programs ------------------------------
(***************************************************************************)
(* The programs that share no state, side by side: the first state picks   *)
(* one of them and the others stand still, so that one run looks at all.   *)
(* Peer is extended, the others are instances.                             *)
(***************************************************************************)
EXTENDS Peer, Sequences

CONSTANTS
    Clusters, Bytes, Margin, Free, MaxRuns, MaxFaults,          \* Restore
    Runs, MaxStarts, MaxSlips,                                  \* Migrate
    Owners, Repos, Files, MaxSyncs, MaxErrors, MaxEdits,        \* Mirror
    Order, Info, MaxArrangements, MaxFailures, MaxRaces,        \* Arrange
    Handlers, Inodes, Households,                               \* Speech
    Hooks, Window, Alerts, Keyless, MaxClock, MaxRestarts,      \* Relay
    Timeline, Lengths, Settings, PageSize, MaxWalks, MaxMishaps \* Scrobbles

VARIABLES
    program,    \* the one that runs
    stage, opts, found, slots, task, made, store, volume, missed, recorded, verdict,
    signalled, expired, exit, runs, faults,
    pv, temp, pending, mig, copies, opted, starts, uids, slips,
    gitea, orgs, sync, flags, desired, todo, seen, doomed, outcome, quiet, syncs, errors, edits,
    input, output, lockFile, arrange, copyOnly, albums, files, to, arrangements, failures, races,
    household, disk, paths, hd, delivered, torn, mishaps,
    clock, last, hook, begun, boot,
    library, coming, walk, finish, setting, pageNumber, rows, shown, previous, known, cacheFile,
    unknown, listed, removed, twins, cut, csv, walks, slipped

Restore == INSTANCE Restore
Migrate == INSTANCE Migrate
Mirror == INSTANCE Mirror
Arrange == INSTANCE Arrange
Speech == INSTANCE Speech
Relay == INSTANCE Relay
Scrobbles == INSTANCE Scrobbles WITH page <- pageNumber

ProgramsInit ==
    /\ program \in {"peer", "restore", "migrate", "mirror",
                    "arrange", "speech", "relay", "scrobbles"}
    /\ Init /\ Restore!Init /\ Migrate!Init /\ Mirror!Init
    /\ Arrange!Init /\ Speech!Init /\ Relay!Init /\ Scrobbles!Init
    /\ program # "peer" => crew = CHOOSE c \in Crews : TRUE
    /\ program # "speech" => household = CHOOSE h \in Households : TRUE
    /\ program # "scrobbles" => setting = CHOOSE s \in Settings : TRUE

OfPeer == vars
OfRestore == <<stage, opts, found, slots, task, made, store, volume, missed, recorded, verdict,
               signalled, expired, exit, runs, faults>>
OfMigrate == <<pv, temp, pending, mig, copies, opted, starts, uids, slips>>
OfMirror == <<gitea, orgs, sync, flags, desired, todo, seen, doomed, outcome, quiet,
              syncs, errors, edits>>
OfArrange == <<input, output, lockFile, arrange, copyOnly, albums, files, to,
               arrangements, failures, races>>
OfSpeech == <<household, disk, paths, hd, delivered, torn, mishaps>>
OfRelay == <<clock, last, hook, begun, boot>>
OfScrobbles == <<library, coming, walk, finish, setting, pageNumber, rows, shown, previous,
                 known, cacheFile, unknown, listed, removed, twins, cut, csv, walks, slipped>>

ProgramsNext ==
    \/ /\ program = "peer" /\ Next
       /\ UNCHANGED <<program, OfRestore, OfMigrate, OfMirror, OfArrange,
                      OfSpeech, OfRelay, OfScrobbles>>
    \/ /\ program = "restore" /\ Restore!Next
       /\ UNCHANGED <<program, OfPeer, OfMigrate, OfMirror, OfArrange,
                      OfSpeech, OfRelay, OfScrobbles>>
    \/ /\ program = "migrate" /\ Migrate!Next
       /\ UNCHANGED <<program, OfPeer, OfRestore, OfMirror, OfArrange,
                      OfSpeech, OfRelay, OfScrobbles>>
    \/ /\ program = "mirror" /\ Mirror!Next
       /\ UNCHANGED <<program, OfPeer, OfRestore, OfMigrate, OfArrange,
                      OfSpeech, OfRelay, OfScrobbles>>
    \/ /\ program = "arrange" /\ Arrange!Next
       /\ UNCHANGED <<program, OfPeer, OfRestore, OfMigrate, OfMirror,
                      OfSpeech, OfRelay, OfScrobbles>>
    \/ /\ program = "speech" /\ Speech!Next
       /\ UNCHANGED <<program, OfPeer, OfRestore, OfMigrate, OfMirror, OfArrange,
                      OfRelay, OfScrobbles>>
    \/ /\ program = "relay" /\ Relay!Next
       /\ UNCHANGED <<program, OfPeer, OfRestore, OfMigrate, OfMirror, OfArrange,
                      OfSpeech, OfScrobbles>>
    \/ /\ program = "scrobbles" /\ Scrobbles!Next
       /\ UNCHANGED <<program, OfPeer, OfRestore, OfMigrate, OfMirror, OfArrange,
                      OfSpeech, OfRelay>>

ProgramsSpec ==
    ProgramsInit /\ [][ProgramsNext]_<<program, OfPeer, OfRestore, OfMigrate, OfMirror, OfArrange,
                                       OfSpeech, OfRelay, OfScrobbles>>

-----------------------------------------------------------------------------
(* What each instance promises, under a name of its own.                    *)

\* The restores in flight fit on the smallest disk.
RestoresFit == Restore!RestoresFit
\* A run of cnpg-restore-test that was not killed leaves only what its deletes missed.
NothingLeft == Restore!NothingLeft
\* A verification that passed looked at a cluster this run restored.
PassedIsFresh == Restore!PassedIsFresh
\* The temporary claim a run of pv-migrate waits for or copies from is its own.
TempIsOwn == Migrate!TempIsOwn
\* A run of pv-migrate that ended by itself has deleted the claim it made.
TempIsDeleted == Migrate!TempIsDeleted
\* A run of gitea-mirror-sync to the end leaves Gitea as the mirrors file says.
Converged == Mirror!Converged
\* No run of it deletes a repository that its own file names.
DesiredKept == Mirror!DesiredKept
\* Every downloaded track is still whole in the download directory or the library.
TracksSurvive == Arrange!TracksSurvive
\* What a user is sent is the whole audio of the article asked for.
DeliveredWhole == Speech!DeliveredWhole
\* No two conversations of one process for one key begin within its window.
Apart == Relay!Apart
\* Of plays taken for duplicates of one another the newest is left.
NewestIsLeft == Scrobbles!NewestIsLeft
=============================================================================
