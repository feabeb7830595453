------------------------------ MODULE Scrobbles ------------------------------
(***************************************************************************)
(* lastfm-scrobble-deduplicator: a run walks the pages of a profile from   *)
(* the oldest to the newest, looks every track's duration up, deletes      *)
(* duplicate and incomplete scrobbles through a browser, and writes what   *)
(* it deleted and what it could not measure when it finishes.  New         *)
(* scrobbles arrive meanwhile; pages, lookups, clicks and messages fail.   *)
(***************************************************************************)
EXTENDS Integers, Sequences, FiniteSets, FiniteSetsExt

CONSTANTS
    Timeline,   \* the scrobbles [track, at] in the order Last.fm gets them; one is its number
    Lengths,    \* track -> [user, remote]: durations, 0 where there is none
    Settings,   \* [delete, duplicate, complete]: flags of a run
    PageSize, MaxWalks, MaxMishaps

VARIABLES
    library,    \* the profile: scrobbles
    coming,     \* how many of Timeline are in it, deleted or not
    walk,       \* the main goroutine: "idle", "page", "rows", "done"
    finish,     \* finishRun, there or beside an interrupt: "none", "files", "csv", "report"
    setting,
    page,
    rows,       \* scrobbles of the page not compared yet
    shown,      \* all those of the page the browser shows
    previous,   \* the last scrobble compared on this page, or Nothing
    known,      \* cache: tracks whose duration it has; on disk when a run closes it
    cacheFile,
    unknown,    \* tracks this run found no duration for
    listed,     \* tracks named in track-durations.yaml
    removed,    \* deletedScrobbles: what the run has deleted or would delete
    twins, cut, \* scrobbles deleted as duplicates and as incomplete, of this run
    csv,        \* scrobbles in some deleted-scrobbles file
    walks, slipped

found == <<known, cacheFile, unknown, listed>>
gone == <<library, removed, twins, cut>>
vars == <<gone, found, coming, walk, finish, setting, page, rows, shown, previous, csv, walks,
          slipped>>

Nothing == 0
Track(s) == Timeline[s].track
At(s) == Timeline[s].at
Slip == slipped < MaxMishaps /\ slipped' = slipped + 1

Init ==
    /\ coming = PageSize + 1 /\ library = 1..coming
    /\ walk = "idle" /\ finish = "none" /\ setting \in Settings
    /\ page = 0 /\ rows = {} /\ shown = {} /\ previous = Nothing
    /\ known = {} /\ cacheFile = {} /\ unknown = {} /\ listed = {}
    /\ removed = {} /\ twins = {} /\ cut = {} /\ csv = {} /\ walks = 0 /\ slipped = 0

\* The user plays on; newer scrobbles push older ones to the pages after.
Scrobble ==
    /\ coming < Len(Timeline) /\ coming' = coming + 1
    /\ library' = library \cup {coming'}
    /\ UNCHANGED <<removed, twins, cut, found, walk, finish, setting, page, rows, shown, previous,
                   csv, walks, slipped>>

(***************************************************************************)
(* Pages                                                                   *)
(***************************************************************************)
\* Page 1 holds the newest.
PageOf(n) == {s \in library :
    Cardinality({x \in library : x > s}) \in (n - 1) * PageSize .. n * PageSize - 1}

getStartPage ==
    /\ walk = "idle" /\ walks < MaxWalks /\ walks' = walks + 1 /\ library # {}
    /\ walk' = "page" /\ page' = (Cardinality(library) + PageSize - 1) \div PageSize
    /\ rows' = {} /\ shown' = {} /\ removed' = {} /\ unknown' = {} /\ twins' = {} /\ cut' = {}
    /\ known' = cacheFile
    /\ UNCHANGED <<library, coming, finish, setting, previous, cacheFile, listed, csv, slipped>>

\* A navigation that fails is logged; the rows are those of what the browser shows:
\* the page before, with or without what was deleted, or none.
getScrobbles ==
    /\ walk = "page" /\ page > 0
    /\ \/ shown' = PageOf(page) /\ UNCHANGED slipped
       \/ shown' \in {shown, shown \cap library, {}} /\ Slip
    /\ rows' = shown' /\ previous' = Nothing
    /\ walk' = "rows"
    /\ UNCHANGED <<gone, found, coming, finish, setting, page, csv, walks>>

\* Three tries without rows: the run returns, and does not finish.
PageLost ==
    /\ walk = "page" /\ page > 0 /\ Slip
    /\ walk' = "idle" /\ finish' = "none"
    /\ UNCHANGED <<gone, found, coming, setting, page, rows, shown, previous, csv, walks>>

PageDone ==
    /\ walk = "rows" /\ rows = {}
    /\ page' = page - 1
    /\ walk' = IF page = 1 THEN "done" ELSE "page"
    /\ finish' = IF page = 1 /\ finish = "none" THEN "files" ELSE finish
    /\ UNCHANGED <<gone, found, coming, setting, rows, shown, previous, csv, walks, slipped>>

(***************************************************************************)
(* Durations                                                               *)
(***************************************************************************)
\* What is given, else cached, else asked of MusicBrainz and Last.fm.
Duration(t) == IF Lengths[t].user > 0 THEN Lengths[t].user ELSE Lengths[t].remote
IsKnown(t) == Lengths[t].user > 0 \/ (t \notin unknown /\ Lengths[t].remote > 0)

cacheTrackDuration(t) ==
    known' = IF Lengths[t].user > 0 THEN known ELSE known \cup {t}

addToUnknownTrackDurations(t) ==
    unknown' = IF Lengths[t].user > 0 \/ Lengths[t].remote > 0 THEN unknown ELSE unknown \cup {t}

(***************************************************************************)
(* Two successive scrobbles                                                *)
(***************************************************************************)
\* Oldest first.
Current == Min(rows)

belowThreshold_bug(p, c, pct) == (At(c) - At(p)) * 100 < pct * Duration(Track(c))
\* Never below it when the clock went back.
belowThreshold(p, c, pct) ==
    /\ At(c) >= At(p)
    /\ Min({(At(c) - At(p)) * 100, 100 * Duration(Track(c))}) < pct * Duration(Track(c))

Duplicate(p, c) ==
    /\ Track(p) = Track(c) /\ At(p) # At(c)
    /\ belowThreshold(p, c, setting.duplicate)

Incomplete(p, c) ==
    /\ ~Duplicate(p, c) /\ setting.complete > 0
    /\ belowThreshold(p, c, setting.complete)

Compared(next) == rows' = rows \ {Current} /\ previous' = next

\* No duration: the scrobble is skipped, and the next one compared with it.
Skip ==
    /\ walk = "rows" /\ rows # {}
    /\ \/ ~IsKnown(Track(Current)) /\ addToUnknownTrackDurations(Track(Current)) /\ UNCHANGED slipped
       \/ Lengths[Track(Current)].user = 0 /\ Slip /\ UNCHANGED unknown
    /\ Compared(Current)
    /\ UNCHANGED <<gone, known, cacheFile, listed, coming, walk, finish, setting, page, shown, csv,
                   walks>>

Measured ==
    /\ walk = "rows" /\ rows # {} /\ IsKnown(Track(Current))
    /\ cacheTrackDuration(Track(Current))
    /\ UNCHANGED <<cacheFile, unknown, listed, coming, walk, finish, setting, page, shown, csv,
                   walks>>

\* Neither of the two.
Keep ==
    /\ Measured /\ Compared(Current)
    /\ previous # Nothing => ~Duplicate(previous, Current) /\ ~Incomplete(previous, Current)
    /\ UNCHANGED <<gone, slipped>>

\* One that is gone from the page cannot be clicked on.  A click may reach Last.fm
\* and the browser still report an error; retries then find nothing.
deleteScrobble(s) ==
    \/ /\ ~setting.delete
       /\ removed' = removed \cup {s} /\ UNCHANGED <<library, slipped>>
    \/ /\ setting.delete /\ s \in library
       /\ library' = library \ {s} /\ removed' = removed \cup {s} /\ UNCHANGED slipped

DeletionFails(s) ==
    /\ setting.delete
    /\ \/ s \notin library /\ UNCHANGED <<library, slipped>>
       \/ Slip /\ library' \in {library, library \ {s}}
    /\ UNCHANGED removed

\* The older one goes.
processDuplicate ==
    /\ Measured /\ previous # Nothing /\ Duplicate(previous, Current)
    /\ deleteScrobble(previous) \/ DeletionFails(previous)
    /\ twins' = twins \cup (library \ library') /\ UNCHANGED cut
    /\ Compared(Current)

\* The newer one goes, and the older is compared with the next.
processIncomplete ==
    /\ Measured /\ previous # Nothing /\ Incomplete(previous, Current)
    /\ \/ deleteScrobble(Current) /\ Compared(previous)
       \/ DeletionFails(Current) /\ Compared(Current)
    /\ cut' = cut \cup (library \ library') /\ UNCHANGED twins

(***************************************************************************)
(* The end of a run                                                        *)
(***************************************************************************)
\* An interrupt finishes the run wherever it is, beside the main goroutine, which
\* goes on until the process exits.
Interrupt ==
    /\ walk \in {"page", "rows"} /\ finish = "none" /\ Slip
    /\ finish' = "files"
    /\ UNCHANGED <<gone, found, coming, walk, setting, page, rows, shown, previous, csv, walks>>

writeUnknownTrackDurations ==
    /\ finish = "files"
    /\ finish' = "csv" /\ listed' = listed \cup unknown
    /\ UNCHANGED <<gone, known, cacheFile, unknown, coming, walk, setting, page, rows, shown,
                   previous, csv, walks, slipped>>

exportScrobblesToCSV ==
    /\ finish = "csv"
    /\ finish' = "report" /\ csv' = csv \cup removed
    /\ UNCHANGED <<gone, found, coming, walk, setting, page, rows, shown, previous, walks, slipped>>

\* Telegram may refuse the report; the cache is flushed all the same.
Exit == walk' = "idle" /\ finish' = "none" /\ cacheFile' = known
finishRun ==
    /\ finish = "report" /\ Exit
    /\ UNCHANGED <<gone, known, unknown, listed, coming, setting, page, rows, shown, previous, csv,
                   walks, slipped>>

\* A file cannot be written: what came before it stays.
FinishFails ==
    /\ finish \in {"files", "csv"} /\ Slip /\ Exit
    /\ UNCHANGED <<gone, known, unknown, listed, coming, setting, page, rows, shown, previous, csv,
                   walks>>

Next ==
    \/ Scrobble \/ getStartPage \/ getScrobbles \/ PageLost \/ PageDone
    \/ Skip \/ Keep \/ processDuplicate \/ processIncomplete
    \/ Interrupt \/ writeUnknownTrackDurations \/ exportScrobblesToCSV \/ finishRun \/ FinishFails

Spec == Init /\ [][Next]_vars

(***************************************************************************)
(* Properties                                                              *)
(***************************************************************************)
\* Of plays that were taken for duplicates of one another the newest is left: for
\* each one deleted as a duplicate the profile still has a later scrobble of its
\* track, unless that one was itself deleted as incomplete; whatever page was shown,
\* also one twice, and whichever click failed (app.go:545-605).
NewestIsLeft == \A s \in twins :
    \E x \in library \cup cut : Track(x) = Track(s) /\ At(x) > At(s)
==============================================================================
