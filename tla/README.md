# homelab-gitops: a verification project

TLA+ modules, model-checking configurations and machine-checked proofs for the
programs of this repository. Paths such as `serve.go:616` are relative to
`src/workbench/catbox/`, or to the program a section is about, unless they begin with
`src/`.

- [Inventory](#inventory): the system's parts, what is hard about them
- [Modules](#modules): what is modelled and how it corresponds to the code
- [Runs](#runs): what TLC checks, the bounds, the fairness
- [Where the code departs from what it says](#where-the-code-departs-from-what-it-says)
- [Proofs](#proofs): what holds for every value of the constants
- [Not modelled, and the plan](#not-modelled-and-the-plan)

## Inventory

Most of the repository is declarative: Kubernetes manifests and Helm charts
(`src/k8s-apps`, `src/argocd-apps`, `src/charts`), Terraform (`src/terraform`) and
wrappers (`src/scripts`). Its programs are under `src/workbench`. The one with a
protocol, shared state and persistence of its own is **catbox**, a store-and-forward
file drop between the devices of one owner, and it comes first.

### catbox

One *stash* (`serve.go`) listens on the private network; *peers* join it, send files
to each other through it or directly, and pull what is parked for them.

| Part | State | Operations | What is hard |
|---|---|---|---|
| Spool (`spool.go`, `serve.go` opSend/opFetch/opDismiss, `partial.go` sweepPartials, `seal.go` relayFrames) | sidecars `<id>.json`, bodies shared by the deliveries of one sender's content, partials; `st.admitted`, `spool.active`, `spool.putMu`, `st.mu` | deposit (duplicate, header only, full, resumed), eviction of stale partials, dedup, fetch and ack, dismiss, hourly sweep | several connections and the sweep on one directory; a body shared by deliveries that are recorded and deleted at the same time; a byte cap checked outside the lock; crashes between renames |
| Roster and invites (`serve.go`, `roster.go`, `invite.go`) | `roster.json` and `invites.json`, a copy of each in memory under `st.mu`, the file time the stash remembers | join (bootstrap, by invite), re-join and rename, invite, remove, reload, the stash-side `remove` and `admin` commands, invite sweep | memory changes under the mutex, files outside it; another process edits the file; a save fails after memory has changed; parked files must follow a rename |
| Inbox (`client.go` fetch, `recv.go`, `partial.go`) | partials with lock files, the download directory | pull, direct receive, resume, sweep of partials, collision-free naming | a pull and a direct receive of one content; a lock file that is swept; a name chosen before the rename |
| Peer identity and listener (`main.go` join, `identity.go`, `recv.go`, `send.go`) | the peer's key, name and roster cache | join, reset, leave, listen and re-join, direct send with fallback to the stash | a join whose answer is lost; a rename under way while the listener re-joins |
| Sealing (`seal.go`) | none | seal and open a stream of authenticated frames | cryptography; only its framing matters here |
| Command line, progress, messages (`main.go`, `progress.go`, `proto.go`) | none | flags, wording, JSON messages, the sliding inactivity deadline | none but the deadline, which is in the fairness |
| Android app (`android/`) | user interface | wraps the binary | none |

How they interact: a peer's request is one message on an authenticated connection;
the stash answers on it and, for a deposit or a fetch, streams frames. Before every
request the stash reloads the roster if its file is newer. `opJoin` (rename),
`opRemove` and the stash-side remove go on from the roster into the spool
(`retargetSpool`, `delete`). The ticker of `runServe` sweeps the spool, the partials
and the invites.

What makes the spool correct: a body that exists is whole; an entry has its body; a
recorded delivery stays until it is acked, dismissed or expired; the reservation
counter is exact and the cap holds; a claim closes the right connection; requests
end. What makes the roster correct: one device per invite; one entry per device and
name; who was told that it joined stays and who was removed stays out, across
crashes; an edit of the file is noticed; parked files follow their member.

### The other programs

They share no state with catbox or with each other.

| Program | What it keeps | What is hard, if anything |
|---|---|---|
| `telegram-hub` | a text-to-speech cache on disk | concurrent requests write, remux and look up files of one directory; ffmpeg may end in the middle of its output |
| `cnpg-restore-test` | restored clusters, object stores and volumes in Kubernetes | restores under a limit from the free disk space, verification and cleanup side by side; a signal cancels their context; a killed run leaves objects for the next |
| `pv-migrate` | a volume's claim, a temporary claim, a Helm release | several runs on one volume, the volume controller between their steps, a failure at each |
| `gitea-mirror-sync` | the mirrors of a Gitea server | owner and name from three places, pruning from a listing while users act |
| `rangemusique` | a lock file, the download directory and the library | moves across devices that are cut short, a downloader beside the run |
| `agent-relay` | the time of the last claim of each key | requests overtake each other between the clock and the mutex |
| `lastfm-scrobble-deduplicator` | the profile, a duration cache, exports | pages that shift under the walk, clicks that fail, timestamps that go back |
| `hubble-exporter`, `slackmoji`, `grafana-dashboards`, `go-healthcheck` | little or none | sequential programs |

`PROJECT.json` lists every component with its status, and under `hazards` each place
that is hard to test, with the properties that watch it.

## Modules

| Module | Models | Extended by |
|---|---|---|
| `Spool` | the stash's spool and the handlers and sweep that work on it | `MCSpool`, `SpoolProofs` |
| `Mailbox` | what the spool promises: a recorded delivery leaves only when settled | instantiated by `Spool` |
| `Counting` | lemmas: sums over sets as sizes of sets, largest and smallest numbers | `SpoolProofs`, `ProgramsProofs` |
| `SpoolProofs` | theorems about `Spool`, in every interleaving | `SpoolTurnsProofs` |
| `SpoolTurnsProofs` | theorems about `Spool` when one process takes turns | |
| `Roster` | the roster, the invites and the parked files that follow them | `MCRoster`, `RosterProofs` |
| `Admission` | what the join control promises: an invite lets one device in | instantiated by `Roster` |
| `RosterProofs` | theorems about `Roster`, in every interleaving and when one process takes turns | |
| `Inbox` | a machine's download directory: pulls, direct receives, partials, lock files, the stash's entry and the sender's fallback | `MCInbox`, `InboxProofs` |
| `InboxProofs` | theorems about `Inbox` | |
| `Peer` | a machine's membership: its commands as processes, the identity file, `client.lock`, the listener | `Programs`, `PeerProofs` |
| `PeerProofs` | theorems about `Peer` | |
| `Restore` | `cnpg-restore-test` | instantiated by `Programs` |
| `Migrate` | `pv-migrate` | instantiated by `Programs` |
| `Mirror` | `gitea-mirror-sync` | instantiated by `Programs` |
| `Arrange` | `rangemusique` | instantiated by `Programs` |
| `Speech` | the text-to-speech cache of `telegram-hub` | instantiated by `Programs` |
| `Relay` | `agent-relay` | instantiated by `Programs` |
| `RelayProofs` | theorems about `Relay`, as `Programs` instantiates it | |
| `Scrobbles` | `lastfm-scrobble-deduplicator` | instantiated by `Programs` |
| `Programs` | `Peer` and the seven programs listed above it, of which one runs and the others stand still; names for their properties | `MCPrograms`, `ProgramsProofs`, `RelayProofs` |
| `ProgramsProofs` | theorems about the other six programs | |

`Spool` and `Roster` give the processes as three sets of names. A name in several
sets is one process that takes turns, so that `Conns = Sweepers = {c1}` is a stash
that does one thing at a time: that is where the promises hold that interleavings
break, and where crashes can be studied alone. Operators that end in `_bug` are
plausible slips of the definition after them; `PROJECT.json` pairs each with the
property that finds it. They are used by no specification.

### Spool

*State.* `meta`, `partial` and `body` are the data directory; a file is the set of
frames it holds, so that a hole is visible. `admitted`, `active`, `putMu`, `mu` are the
variables of `stash` and `spool` of the same names. `pc`, `req` and the variables below
them are what a handler's goroutine has on its stack.

*Actions.* A deposit is `Probe` (target, duplicate, body, partial, usage, the eviction's
listing), `EvictPartial`, `Admit` or `Refuse`; then, by what `Probe` found,
`ConfirmDuplicate`, `Attach`..`AttachSave`, or `Claim`, `PutOpen`, `PutFrame`*,
`PutPark`, `PutSave`, `PatchLoad`, `PatchSave`; then `Dedup`, `Delete` and `Confirm`.
`PutFail`, `PutVanished`, `PutSaveFail`, `AttachVanished` and `GiveUp` are its error
paths. `Fetch`..`Acked`, `Dismiss` and `Sweep`..`SweepPartials` are the rest. `Crash` clears
memory and every goroutine and keeps the directory.

*Grain.* One step is one effect on the directory or on shared memory, with the reads
before it. A listing and the removals that follow it are separate steps.

*Abstractions.*
- Sizes are whole frames. The header and the sixteen bytes of framing are left out, and
  so is `budgetWriter`, which bounds a stream that is longer than it said.
- The sender reads one unchanged file: the hash it sends at the end is the one it
  announced. Deposits without a hash (`.put-*`) are not modelled.
- The id of a new entry is set aside at `Probe`; the four reads of the directory in
  front of `Admit` are one step; unlocking the partial and releasing the claim are one.
- `serve.go:602` reads `st.admitted` without the mutex, a data race: the model reads the
  current value.
- Which stale partials go first is left open (the code sorts them by age). Partials
  count as stale at any time; entries expire at any time when no request works on them.
- Every sidecar can be read. Leftovers of `saveJSON` (`.tmp-*`) are not modelled.
- The hourly sweep expires no entry that is being fetched; a `delete` lists the sidecars
  in the step in which it removes its own, and removing never fails; giving a
  reservation back is no step of its own, since whoever holds `st.mu` gives it back by itself.

### Roster

*State.* `roster`, `invites` are the two files and `parked` the target in each parked
file's sidecar; `members` and `codes` are `stash.roster` and `stash.invites`. `newer` says
that `roster.json` is newer than `stash.rosterMod`. File times are kept by three marks:
`clean` (since a reload looked, no newer file has come), `late` (a save under way may have
written its temporary file before the last rename) and `crossed` (such a save was the
last to rename: `saveJSON` gives `roster.json` the time at which the temporary file was
written, so that the newest content may carry an older time).

*Actions.* `Receive` and `Reload` are `reloadRoster`, run before every message. A join is
`JoinAsk`, then `Bootstrap`, or `TakeInvite` and `SaveBurn`, or `JoinRefused`; then
`Append`. `RejoinAsk` goes on to `Rename` or, when its key does not parse, to `Retarget`,
which leaves the roster as it is and repoints the parked files all the same (`serve.go:408`,
`431`); `astray` are the files it moved. `Mint`/`SaveMint`, `RemoveAsk`/`Remove` are the
other requests. `SaveRoster` or `SaveFails` ends a change; `ListFiles`, `SettleFile`,
`Settled` repoint or delete the parked files. `SendAsk`, `Park`, `SendLost`, `Take` are
deposits and deliveries as far as the roster matters. `ToolLoad`, `ToolSave`, `ToolFails`
are the stash-side commands, processes of their own that a crash of the stash does not
touch. `SweepInvites`/`SavePruned` run hourly and at boot.

*Abstractions.* An entry is a name, a dial key and the admin flag; identity keys and
addresses are left out but for whether a re-join's key parses. `Remove` saves a copy of the
roster; the code's slice shares its array with `st.roster` (`serve.go:978-990`), so that a
change beside it could reach the file early. Looking up the requester and checking its
request are one step. `patchMeta` is one step here (it is two in `Spool`). Two writes have
different times unless they cross. `loadRoster` never finds a broken file (`saveJSON`
renames). An entry's other variables are lists in the code and sets here: two equal entries
are one.

### Inbox

*State.* `part` and `inbox` are names on disk that lead to inodes, and `data` says what each
inode holds, so that a file that is renamed or unlinked while it is open keeps its
writer. `lockfile` is the `.part-*.lock` of a content and `holder` who has the flock on it,
`peerLock` is `client.lock`, `parked` the stash's entries for this machine and `send` what each
sender was told. `rx` is what a receiver, a `pull` or a connection of the listener, has on
its stack. `crew` never changes: it is the situation a behaviour looks at, with its
bounds.

*Actions.* A pull is `Recv` (sweep), `Pending` (lock and list), for each item `Skip` or
`Take`, `Open`, `Fetch` or `FetchGone`, `Receive`*, `Verify` or `Mismatch`, `Rename` or
`RenameFails`, `Ack`, and then `PullDone`. A direct receive begins with `Direct` while the
listener is up (`Listen`, which sweeps, to `ListenStop`), has `Ready` for `Fetch` and
`Reply` for `Ack`. `Break` cuts the connection, `Abort` is the receiver that notices;
`Silence` is a stash that says nothing more to a pull, which only `Cancel` and `Kill` get
out of; `AckLost`, `Cancel` and `Kill` end one early, and each leaves or removes the partial
as the code's deferred functions do. `Miss`, `Offer`, `Deposit`, `DepositFails` are the
sender, who tries the listener first and the stash then: `Offer` is the stash's answer,
which for content it has parked for this machine is OK without an entry (`serve.go:577-581`,
`638-645`), and `Deposit` records one. `Expire`, `Dismiss` and `Hour`, which ages partials
and lock files, act from outside.

*Abstractions.* A content is a hash and a number of chunks; a partial is the sequence of
chunks in it. Contents in `Aligned` end on a frame boundary. A sealed frame that is
changed on the way ends the connection, so only whole chunks arrive. Spool's own steps
are `Deposit` here. Names are what `filepath.Base` leaves of them. A lock file that cannot be
opened, with which the receiver goes on unlocked (`partial.go:43-45`), is not modelled.

### Peer

A command reads identity and cached stash address (`Start`), waits for `client.lock`, dials,
asks and finishes; `resetPeer` is the wipe of `reset` and of a rolled-back first join, after
the lock is given back. The listener dials without the lock. The stash is its roster as
far as this machine is concerned. `RelayMoves` makes resolved addresses stale.

### The programs that share no state

*Restore.* A run is `Discover`, a goroutine per cluster under `slots` (`GoTask` ..
`cleanupRest`), then `Report` and, after a signal, `CleanupLeft`. `Delete` is what a cleanup
asks of the API: any of its deletes may fail, and `missed` are those that did. Objects are
"old" (an earlier run's) or "new". The capacity arithmetic is `computeMaxConcurrency`, in
whole units with the margin in tenths.

*Migrate.* A run is `getPV`, `Validate`, `patchPVClaimRefNil`, `createTempPVC`,
`waitForPVCBound`, `runMigration`, `deleteTempPVC`, `cleanupPVMigrateReleases`.
`CreateLost`, `BindFails` and `Kill` are its failures; `Bind` and `Reclaim` are the volume
controller. The temporary claim has the same name in every run and a uid of its own in each.

*Mirror.* `loadConfig` resolves owner and name of each mirror of a file; then `getRepo`, and
`migrate` or `updateRepo` or `Refuse` for each, then `listRepos` and `deleteRepo`. `Edit` is
a user.

*Arrange.* `checkLockFile`, `Walk`, then per album and file `moveFile` or `copyFile`,
`Copied`, `moveCrossDevice`. `Abort` and `CopyFails` end a run at any step; `DownloadStart`,
`Download`, `DownloadEnd` are the downloader, whose lock file a run looks at once. Files and
albums are sets; `First` is the walk's order. Names are tuples of what the code concatenates
(`app.go:209`, `321`), so that tags of which another split gives the same name are not seen.

*Speech.* `Ask` .. `sendAudio` is one request. A file is an inode that `paths` names, so that a
temporary file that is written twice or renamed under its writer is visible.

*Relay.* `Post` decodes, `jsonPath` finds the key and reads the time, `claim` takes the lock,
`Conversation` ends. `Restart` forgets the claims.

*Scrobbles.* `getStartPage`, `getScrobbles`, then for each row of the page `Skip`, `Keep`,
`processDuplicate` or `processIncomplete`; then the exports. `Scrobble` is the user who
plays on. A scrobble is its number in the order Last.fm got it, so that profile, page and
rows are sets of numbers. After a navigation that fails the browser may still show the page
before; whether that has the deleted rows is Last.fm's, and left open.

## Runs

| Run | Instance | Distinct states | Shows |
|---|---|---|---|
| `spool_concurrent` | 2 connections, sweep, 1 content of 2 frames, 2 targets, 2 ids, cap 3, 1 crash | 1 458 032 | `TypeOK`, `BodyWhole`, `OneWriter`, `ClaimsAreCurrent`, `AdmittedExact` in every interleaving |
| `spool_evict` | 2 connections, 2 contents (2 frames, 1 frame), cap 3 | 756 353 | `BodyWhole` and `ClaimsAreCurrent` while deposits evict each other's partials |
| `spool_serial` | one process, 2 contents, 2 targets, 3 ids, 2 crashes | 14 805 | with turns and crashes: `KeepsPromise` (it implements `Mailbox`), `NoDangling`, `NoLostDelivery`, `CapRespected`, and `OrphansReclaimed` |
| `spool_progress` | 2 connections, 1 content of 1 frame | 36 665 | `RequestsEnd`: no request waits for ever for a mutex |
| `roster_concurrent` | 2 processes, each connection or sweep, 2 devices, 2 names, 1 code | 1 876 625 | `TypeOK`, `SingleUse`, `EditsAreSeen` in every interleaving |
| `roster_serial` | one process, also the commands, 2 devices, 3 names, 2 codes, 2 parked files, 2 crashes, 1 failed save | 1 432 099 | `KeepsDoor` (it implements `Admission`), `OneEntryEach`, `OwnChangesOnly`, `ParkedForMember`, `FilesStayWithMember` |
| `inbox` | one receiver with 2 files of one name and content, 2 breaks, or an hour and a changed file; or 2 receivers within an hour, 1 break; 2 chunks | 731 372 | `InboxWhole`, `SentIsKept`, `OneReceiver`, `NeverOverwritten`, `PullsEnd` |
| `programs` | one program per initial state, bounds below | 1 031 209 | `NoGhost`, `NamesAgree`, `Withdrawn`; `RestoresFit`, `NothingLeft`, `PassedIsFresh`; `TempIsOwn`, `TempIsDeleted`; `DesiredKept`, `Converged`; `TracksSurvive`; `DeliveredWhole`; `Apart`; `NewestIsLeft` |
| `spool_attach_race`, `spool_dedup_race`, `roster_rename`, `inbox_lock` | as small as the counterexample allows | | each refutes one statement of the code, see below |

*Why these bounds are enough to be interesting.* Every race in the spool is between two
requests, or a request and the sweep, over one body: two connections, and two targets so
that two entries share it. Two frames are the least at which a partial can be resumed,
shortened and left with a hole. Cap 3 is one frame short of two full files, so that a
second deposit is refused, fits after the first's body is gone, or must evict. Two
contents matter only for eviction, which has its own run. Two crashes let the second
hit the recovery from the first. In the roster the races are between two changes; two
devices and two names let them fight for both, and one code is all a double use needs.
Three names in the serial run leave one to rename to. One failed save is enough for
memory and file to differ; two parked files let a rename be cut in the middle. The
tools take turns with the connections: to the stash their save is a newer file like a
save of its own, which `roster_concurrent` interleaves.

In the inbox a line that breaks and a stash that falls silent count alike. Two chunks let a
partial be resumed, doubled or torn, and files of one name and one content are the case in
which partials and names meet. Two receivers are a pull and the listener; with them no hour
passes in the passing run, since `inbox_lock` shows what an hour does.

`programs` composes what shares nothing only to ask each program its own questions: the
first state picks the program and the others stand still. *Peer*: one process with every
command, 2 kills and a lost answer; 2 processes side by side with a relay that moves;
the listener beside a command. *Restore*: 2 clusters of sizes 1 and 3, margin 1.2, 2 to 4
free, 2 runs, 2 faults. *Migrate*: 2 runs, 1 failed call, a pending stranger. *Mirror*: 3 files
over 2 owners and 2 names, 2 runs, 1 failed call, 1 edit. *Arrange*: 3 tracks, 2 of them with
equal tags, and a cover; 2 runs, 1 failure, 1 lock file overtaken. *Speech*: 2 requests at once
over 2 articles, 1 mishap, or one at a time with 2. *Relay*: 2 requests, clock up to 3,
window 2, a restart. *Scrobbles*: 6 plays of 3 tracks, pages of 3, 2 walks, 2 mishaps: the least
at which a page is read twice after a click failed on it. A
second run or walk is what meets the leftovers of the first, and one more failure than
a program recovers from changes nothing that the next run could see.

*Deadlock* is checked, except in `spool_evict` and `spool_progress`, where without the sweep
nothing frees the ids and the instance stops when all are used, and in the inbox runs
and `programs`, whose behaviours end when their files are delivered and their bounds are
used up.

*Symmetry* permutes processes, ids, targets, devices, names, codes and files; runs with
liveness properties use none.

*Fairness* (`FairSpec` of `Spool`). A handler's next step is weakly fair because every
read it blocks on ends: data arrives, the connection closes, or the inactivity deadline
passes (`idleTimeout`, `proto.go:37-45`). Waiting for a mutex is strongly fair, as
Go's mutexes hand over to a waiter that has starved for a millisecond. The sweep's start
is fair because the ticker ticks for ever. Clients ask for nothing they do not want to:
`Probe`, `Fetch`, `Dismiss` and `Crash` have no fairness.

`FairSpec` of `Inbox` makes the next step of each receiver weakly fair: a line that is up
delivers and one that is down ends the next read or write. A direct receive has the same
deadline, so that its line is never silent for good. A pull has none (`client.go:80-105`,
`910-950`): on a line that is silent no step of it is enabled but `Cancel` and `Kill`, which
are not fair, and `PullsEnd` says so. A receiver takes partial locks without waiting
(`LOCK_NB`), so that nothing stronger is needed. The sender, the listener's start and end,
and what breaks have no fairness.

## Where the code departs from what it says

- **Dedup can delete both copies** (`spool_dedup_race`). Two deposits of one content to
  one target that are both recorded before either runs `dedup` delete each other's
  entry. Both senders are told OK and nothing is left (`serve.go:796-803`).
- **A header-only deposit can record an entry without a body** (`spool_attach_race`).
  The body is looked up before the sender confirms; an ack, dismissal or expiry of the
  body's last entry removes it in between (`spool.go:349`, `serve.go:664-673`).
- **A lock file can be unlinked while it is held** (`inbox_lock`). The sweep removes every
  `.part-*` file that was not written for an hour, and `.part-*.lock` is never written. A
  transfer that takes longer loses its lock, and a second receiver of the content writes
  the same partial (`partial.go:178`).
- **A rename whose save failed orphans parked files** (`roster_rename`). Memory keeps the
  new name. The peer is told to join again; it then has that name already, the save
  succeeds, and nothing repoints its files (`serve.go:392`, `413`, `431`).
  `TestRenameRefusedWhenRosterSaveFails` stops before the second join.

Known from the models, without a run of their own.

*Spool.* The cap can be exceeded by interleaved deposits: the directory is measured before
the mutex is taken, the reservation after, and what another deposit wrote and settled
in between counts in neither (`serve.go:568`, `616`); `CapRespected` holds for one request
at a time.

A sweep can remove a body that was parked after it had listed the sidecars
(`spool.go:519`).

*Roster.* A re-join with a new name whose key does not parse leaves the roster as it is, but
moves the parked files to the new name, which nobody has (`serve.go:408`, `431`): no save
fails and nothing crashes, and the sender of the message is told OK. `ParkedForMember`
leaves these files (`astray`) out. Copies of the roster saved out of
order lose a member or bring one back, an edit by a stash-side command in the middle of
a request is overwritten, two first joins can both become admin, a name can be taken
twice, a deposit that is under way keeps the name its target had, a burned code that
could not be saved works again after a restart. `OwnChangesOnly`, `OneEntryEach`,
`KeepsDoor` and `ParkedForMember` fail when `Conns` has a second connection; that they
hold for one at a time is what the runs claim, no more.

*Inbox.* Two receivers with files of one name can pick the same free name, and the second
overwrites the first (`client.go:1049-1066`). The stash closes a connection on which nothing
moves (`serve.go:201`), but a pull whose stash or network is gone, so that the close never
comes, keeps `client.lock` for ever, and every later command of the machine waits behind it
(`client.go:26-33`, `80-105`). A second file of content that is parked already is answered
OK and never delivered under its own name, also when it is another member's
(`serve.go:579-581`); `SentIsKept` then asks for the one that was parked. One item that
cannot be received ends a whole pull. A listener that refuses a resume offset is retried by
its sender with the same offset until the sender falls back to the stash.

*Peer.* A first join whose answer is lost is rolled back and leaves a ghost member
(`main.go:740`). A rename saves the stash address that was resolved for the dial over the
one that follows the relay (`main.go:304`, `identity.go:143-144`). A listener that was
running during a rename registers the old name again when it ends. A join that
refreshes while the machine listens withdraws the listener's address. A reset beside a
join can leave a ghost.

*Restore.* `src/workbench/cnpg-restore-test/README.md:29` says that no resources are left
behind. A delete that fails is logged and passed over (`cleanup.go:19-21`, `33-37`,
`46-48`); without a signal nothing tries again, and the run may end well. `NothingLeft` says
that nothing else is left.

*Migrate.* A second run clears the claim of a volume that is in use, because the patch is
unconditional; a create whose answer is lost leaks the temporary claim; a retry after a
failure is refused by the check of the destination's name, since the claim it finds is
the temporary one.

*Mirror.* The README says that a dry run is the default, the code's default is to act. A
changed `clone_addr` is never updated. A repository that a user turns into something else
between listing and deletion is deleted. The mirrors of an owner that left the file are
never pruned.

*Arrange.* Tracks with equal names replace each other. A cover moves with the first album
of its directory and makes the second one fail.

*Speech.* Any file at the cache's path is a hit: one that ffmpeg left unfinished, or one
that another request for the same article is still writing, is sent (`bot.go:143`).
`DeliveredWhole` excepts these two. Pages that only a query string tells apart share their
audio, as intended (`cache.go:29`), and are one page here.

*Relay.* A conversation that fails keeps its claim, so that a retry within the window is
dropped. Claims are never pruned, and lost at a restart.

*Scrobbles.* Duplicates on two sides of a page's border are missed. A page that fails three
times ends the run without its exports and its cache. A click whose effect is unknown
may delete a scrobble that is in no export. A page that is read twice, since the next one
could not be reached, can lose every play of a track: the older as a duplicate of the newer,
the newer because it follows too soon on what a failed click had left (`app.go:557-592`).
`NewestIsLeft` excepts what the second rule takes.

## Proofs

TLC finds out whether a formula holds on a small instance; the theorems say so for every
value of the constants. What each part assumes, and why the code justifies it:

| Theorems about | Assume | Because |
|---|---|---|
| `Spool` | `SpoolAssumption`: numbers are numbers; `FiniteAssumption`: finitely many connections, ids, senders and contents; `NoneAssumption`: `None` is nothing else | a machine has finitely many of each |
| `Roster` | `RosterAssumption`: numbers are numbers, `None` is nothing else | |
| `Spool` and `Roster` in turns | `Turns`: there is one process, which may be connection, sweep and command by turns | the interleavings that break these properties are in "Where the code departs" |
| `Inbox` | `Endless`, `WellBehaved`, see below | |
| `Peer` | `TidyCrews`, see below | |
| `Migrate` | `None` is no number | |
| `Restore`, for `RestoresFit` only | `Sized`: finitely many clusters, sizes, margin and free space are numbers | |
| `Mirror`, for `Converged` only | every file of `Files` is one the configuration can express | `loadConfig` |
| `Arrange` | `Listed`: names are listed in some order; no track is called as a file of another kind is | a name ends in the file's type |
| `Scrobbles` | `Timed`: plays have times, and fill more than a page | |
| `Relay` | the windows of the routes are numbers | `dedup_window` is a duration, and none is 0 (`config.go:60`) |
| `Speech` | `0` is no file | it stands for none |

Nothing is assumed about how many processes, contents, devices, names, runs, crashes,
failed calls or kills there are, unless the table says so.

**Spool.** `TypeCorrect`, `BodiesAreWhole`, `WritersExclude`, `ClaimsStayCurrent` follow from
`Invariance`, the inductive invariant `IInv`:
- `Typed`: `TypeOK`, and a handler at work has a request whose resume point is inside the
  file;
- `Locked`: who is inside the write holds the partial's mutex, so two writers of one
  partial are one;
- `ClaimsAreCurrent`;
- `Whole`: a partial is a prefix of its content, it is gone or ends at its writer's
  position, and bodies have every frame.

`BodyWhole` alone is not inductive: a body is a renamed partial, so it needs that a
writer at the end has written every frame, which needs that no one else shortened the
partial meanwhile except by removing it (eviction, sweep, which put notices), which
needs the mutex. Most actions touch neither partials nor claims: `StepKinds` shows that
every step is one of put, a crash, or a step `Aside`, and only put is looked at closely.

`ReservationsExact` is a matter of counting. `AdmittedExact` says that a counter is a sum over
the requests under way, and what a fold sums up cannot be proved by induction here.
`Counting` gets by without: a sum of numbers is the number of pairs of an element and a
number below its size (`Blocks`), so that a request that enters or leaves the set moves
its own block and no other (`BlocksAdd`). The invariant adds to `AdmittedExact` what each
request's reservation is worth while it is at work.

*In turns.* `SidecarsHaveBodies`, `DeliveriesAreKept`, `MailboxKept` and `CapIsRespected` need a
stash that does one thing at a time. `TurnsInv` says what the one request may have left half
done: before its sidecar its id is free (`Unsaved`), then the sidecar is its own (`Saved`) and
the body is there (`Bodied`); what a dedup or a delete is about to remove is what it has
listed (`Collapsing`, `Settled`, `Unreferenced`, `Listed`). A crash at any step leaves that
true. `MailboxKept` maps every step to one of `Mailbox` or a stutter: only `PutSave`,
`AttachSave`, `Acked`, `Delete` and the sweep touch a delivery. `CapIsRespected` adds `Budgeted`
and `Fitting`: what is on disk and what is reserved fit the cap together.

**Roster.** `RosterTypeCorrect`, `CodesAreSingleUse` and `NoEditIsMissed` follow from
`RosterInvariance`:
- `Typed`: `TypeOK`, and a request has the name and device its next steps need;
- `CodesOnce`: until a restart each code is live, or with exactly one join, or used once;
  `SingleUse` counts only the last, and says nothing of a code held by two joins;
- `Reloads`: a reload that will leave the file marked as read has read what is there
  (`Fresh`), and `EditsAreSeen`.

*In turns.* `OneEntry`, `FilesHaveMembers`, `ChangesAreOwn`, `FilesAreKept` and `DoorIsKept`
follow from `RosterTurns`: behind the reload the roster in memory is the file's or a failed
save's (`InTouch`), nobody has two entries (`Entered`), the copy a request saves differs
from the file by that request alone (`Changing`), parked files are for members, in the hands
of the request that repoints them (`Filing`), or were moved by a re-join with an unreadable
key, and an invite is live, presented or used up (`Invited`). `DoorIsKept` maps the joins
and removals to those of `Admission` until a save fails.

**Peer.** `NoGhostSurvives`, `MachineAndStashAgree` and `ListenerIsWithdrawn` follow from
`PeerInvariance`. `TidyCrews` describes whom the properties are about: one process with any of
the five commands, or several that only rename and ask for the status, or several that
listen and ask for the status; where one resets or listens the relay does not move. What
other company does is in "Where the code departs". The invariant follows the names and
keys that commands carry on their stacks: at which step the one on disk, the one at the
stash and the one in hand may differ, and who is then the one to settle it.

**Inbox.** `DeliveredFilesAreWhole`, `ReceiversExclude`, `NothingSentIsLost` and
`NamesAreNotReused` hold for any number of receivers, items, contents, chunks, lost
connections, kills and expiries, under two assumptions. `Endless`: file numbers do not run
out, since a new file must have one that nothing uses. `WellBehaved`: in each situation
either no hour passes or only one receiver runs, and files that two receivers may take
side by side have names of their own. These are the crews of the run `inbox`; without the
first a lock file is swept (`inbox_lock`), without the second two receivers pick one name.
The theorems follow from `InboxInvariance`, the inductive invariant `IInv`:
- `Working`: who carries an item and who has a file, by the step it is at;
- `Turns`: receivers carry different contents, while no hour passes because each holds the
  flock of its content on a lock file that is too young to be swept;
- `Pens`: a writer's file is the partial of its content, is not due to be swept, and holds
  what the writer has hashed, which is the whole content once it is verified. Of a pull that
  waits for a silent stash it says less (`Mute`), since its partial may be swept under it;
- `Separate`: partials and delivered files are different inodes;
- `Landing`: a name that was found free still is, and a file that landed is delivered.

`InboxWhole` alone is not inductive: the rename moves whatever the partial's path names, so
it needs that this is the file that was hashed (`Pens`), which needs that nobody else opened
or swept it (`Turns`), and that no one writes on in a file that was delivered (`Separate`).
`SentIsKept` needs `Landing`: an ack or a reply comes from a receiver whose file has landed; and
what a sender was told of another's item stays true because kept items stay kept (`Told`).
`StepKinds` splits the steps into those that only let go of things and the seven that lead
to a file; `UniquePathIsFree` counts that there are more numbered copies to try than files.

**Relay.** `ConversationsStayApart` follows from `RelayInvariance`, for any requests, keys,
windows, clock and restarts: `Apart` needs that what a process remembers of a key is no
earlier than any conversation it began for it (`Remembered`), which holds because the
claim compares under the lock with the time it replaces, whichever request read its time
first.

**The programs.** Each has its own invariant in `ProgramsProofs`, about its instance in
`Programs`.
- `ClaimIsOwn`, `ClaimIsDeleted`: a uid is given once, and while a run may touch its claim
  the claim is there and no other run is at that point (`ClaimsInv`).
- `NothingIsLeft`, `VerifiedIsFresh`: what is not cleaned up belongs to a cluster whose
  goroutine is still to clean it, is left to the deferred cleanup, which waits for all, or
  is the object of a delete that failed (`RestoreInv`, `DeleteLeaves`).
- `RestoresAlwaysFit`: the slots were computed from the largest clusters, so that any that
  many fit. Without induction: `Counting`'s `Largest` and `PartOfSize` extend what is in
  flight to as many clusters, and compare both sums as sizes of sets.
- `DesiredIsKept`, `RunsConverge`: what is not yet as the file says is still on a list, and
  no two entries of a file that `loadConfig` lets pass lead to one repository (`MirrorInv`).
- `AudioIsWhole`: open files are apart unless two requests make the same audio, and the
  cache's file of an article that is not torn is whole (`SpeechInv`).
- `TracksAreKept`: no other file of the library leads to the place of a track with a name of
  its own (`PlacesAreApart`), so that nothing replaces it; only a whole copy lets the source
  go; and a file taken up while it grows means a lock file overtaken (`ArrangeInv`).
- `NewestStays`: a run sees only what is in the profile or what it deleted itself
  (`ScrobblesInv`), so that a duplicate's newer one is there, or left a newer one in turn.

**Only model-checked**: `OrphansReclaimed`, `RequestsEnd` and `PullsEnd`, which hold under
fairness, and what the four runs that expect a violation refute. Every other property of a
run is a theorem's.

## Not modelled, and the plan

Next, in this order:
1. The keys of the members in `Spool`, whose bodies and partials are named by the sender's
   name; a model of sidecar patches that has both renames and deletions.
2. Which of the theorems in turns survive some concurrency: a spool whose deposits
   interleave with a sweep but not with each other, a roster with connections but no commands.
3. What the components' notes in `PROJECT.json` name as missing: items and deposits
   without a hash, the peer's cached roster, two first joins of one machine.

Left out for good: cryptography, message encoding and the command line of catbox, the
Android user interface, image quantisation, dashboard generation, the flow exporter, health
checks, and the declarative parts of the repository. They have no state of their own whose
interleavings or histories a model would explore.
