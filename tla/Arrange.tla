------------------------------ MODULE Arrange ------------------------------
(***************************************************************************)
(* rangemusique: one run after another moves the music of the download     *)
(* directory to artist/album (year)/ of the library, the album's cover     *)
(* with it.  The downloader, which shares the directory, keeps a lock file *)
(* while it works.  Runs fail and are killed at any step.                  *)
(***************************************************************************)
EXTENDS Naturals, Sequences, SequencesExt

CONSTANTS
    Order,      \* the names in the download directory, as WalkDir meets them
    Info,       \* name -> [kind, dir, base, ext, artist, album, year, number, title]
    None,       \* a tag that is not there
    MaxArrangements, MaxFailures, MaxRaces

VARIABLES
    input,      \* name -> "none" so far, "growing", "whole" or "gone"
    output,     \* path -> [of, half: still being written, early: taken while it grew]
    lockFile,
    arrange,    \* stage of the run: "idle", "checked", "albums", "tracks", "copying", "remove"
    copyOnly,   \* --copy
    albums,     \* those not begun
    files,      \* names: what is left of the current album
    to,         \* its directory
    arrangements, failures, races

vars == <<input, output, lockFile, arrange, copyOnly, albums, files, to,
          arrangements, failures, races>>

FileNames == ToSet(Order)
Tracks == {f \in FileNames : Info[f].kind = "audio"}

(***************************************************************************)
(* Albums and names                                                        *)
(***************************************************************************)
There == {"growing", "whole"}
Present == {f \in FileNames : input[f] \in There}

\* The one that WalkDir meets first.
First(s) == Order[CHOOSE i \in DOMAIN Order :
    Order[i] \in s /\ \A j \in 1..i - 1 : Order[j] \notin s]

albumKey(f) == <<Info[f].artist, Info[f].album>>

\* The album's tracks, and the first image beside the first of them.
AlbumOf(s, key) ==
    LET tracks == {f \in s \cap Tracks : albumKey(f) = key}
        first == Info[First(tracks)]
        images == {f \in s : Info[f].kind = "image" /\ Info[f].dir = first.dir}
    IN [files |-> tracks \cup (IF images = {} THEN {} ELSE {First(images)}),
        to |-> <<first.artist, first.album, first.year>>]

buildAlbums(s) == {AlbumOf(s, albumKey(f)) : f \in s \cap Tracks}

\* The year MusicBrainz knows comes after the directory was named.
getOutFileName(f) ==
    IF \E tag \in {"artist", "album", "number", "title"} : Info[f][tag] = None
    THEN <<Info[f].base>>
    ELSE <<Info[f].artist, Info[f].album, Info[f].number, Info[f].title, Info[f].ext>>

Target(f, dir) == <<dir, IF f \in Tracks THEN getOutFileName(f) ELSE <<Info[f].base>> >>

Init ==
    /\ input = [f \in FileNames |-> "none"] /\ output = <<>> /\ lockFile = FALSE
    /\ arrange = "idle" /\ copyOnly = FALSE /\ albums = {} /\ files = {} /\ to = <<>>
    /\ arrangements = 0 /\ failures = 0 /\ races = 0

(***************************************************************************)
(* The downloader                                                          *)
(***************************************************************************)
\* It may begin between a run's look at the lock file and its walk.
DownloadStart ==
    /\ ~lockFile /\ lockFile' = TRUE
    /\ IF arrange = "checked" THEN races < MaxRaces /\ races' = races + 1 ELSE UNCHANGED races
    /\ UNCHANGED <<input, output, arrange, copyOnly, albums, files, to, arrangements, failures>>

Download(f) ==
    /\ lockFile
    /\ \/ input[f] = "none" /\ input' = [input EXCEPT ![f] = "growing"]
       \/ input[f] = "growing" /\ input' = [input EXCEPT ![f] = "whole"]
    /\ UNCHANGED <<output, lockFile, arrange, copyOnly, albums, files, to,
                   arrangements, failures, races>>

DownloadEnd ==
    /\ lockFile /\ \A f \in FileNames : input[f] # "growing"
    /\ lockFile' = FALSE
    /\ UNCHANGED <<input, output, arrange, copyOnly, albums, files, to,
                   arrangements, failures, races>>

(***************************************************************************)
(* A run                                                                   *)
(***************************************************************************)
checkLockFile(copy) ==
    /\ arrange = "idle" /\ ~lockFile
    /\ arrangements < MaxArrangements /\ arrangements' = arrangements + 1
    /\ arrange' = "checked" /\ copyOnly' = copy
    /\ UNCHANGED <<input, output, lockFile, albums, files, to, failures, races>>

\* Files that appear after the walk are left for the next run.
Walk ==
    /\ arrange = "checked"
    /\ albums' = buildAlbums(Present)
    /\ arrange' = IF albums' = {} THEN "idle" ELSE "albums"
    /\ UNCHANGED <<input, output, lockFile, copyOnly, files, to, arrangements, failures, races>>

NextAlbum(a) ==
    /\ arrange = "albums" /\ a \in albums
    /\ albums' = albums \ {a} /\ files' = a.files /\ to' = a.to
    /\ arrange' = "tracks"
    /\ UNCHANGED <<input, output, lockFile, copyOnly, arrangements, failures, races>>

Put(path, f, half) == output' = [p \in DOMAIN output \cup {path} |->
    IF p # path THEN output[p]
    ELSE [of |-> f, half |-> half, early |-> input[f] = "growing"]]

\* The tracks go in the order of the walk, the cover after them.
Current == IF files \cap Tracks # {} THEN First(files \cap Tracks) ELSE First(files)
Moved == files' = files \ {Current}
Stop == arrange' = "idle" /\ albums' = {} /\ files' = {} /\ to' = <<>>

\* A rename takes the file as it is; a cover that went with another album is an
\* error and ends the run.
moveFile ==
    /\ arrange = "tracks" /\ files # {} /\ ~copyOnly
    /\ IF input[Current] \notin There THEN Stop /\ UNCHANGED <<input, output>>
       ELSE /\ Put(Target(Current, to), Current, FALSE)
            /\ input' = [input EXCEPT ![Current] = "gone"]
            /\ Moved
            /\ UNCHANGED <<arrange, albums, to>>
    /\ UNCHANGED <<lockFile, copyOnly, arrangements, failures, races>>

\* To another device, or with --copy: read as it is by now, then written over what
\* is there.
copyFile ==
    /\ arrange = "tracks" /\ files # {} /\ input[Current] \in There
    /\ Put(Target(Current, to), Current, TRUE)
    /\ arrange' = "copying"
    /\ UNCHANGED <<input, lockFile, copyOnly, albums, files, to, arrangements, failures, races>>

Copied ==
    /\ arrange = "copying"
    /\ output' = [output EXCEPT ![Target(Current, to)].half = FALSE]
    /\ IF copyOnly THEN arrange' = "tracks" /\ Moved ELSE arrange' = "remove" /\ UNCHANGED files
    /\ UNCHANGED <<input, lockFile, copyOnly, albums, to, arrangements, failures, races>>

\* The write fails: the source stays, the run is over.
CopyFails_bug ==
    /\ arrange = "copying" /\ failures < MaxFailures /\ failures' = failures + 1
    /\ arrange' = "remove"
    /\ UNCHANGED <<input, output, lockFile, copyOnly, albums, files, to, arrangements, races>>
CopyFails ==
    /\ arrange = "copying" /\ failures < MaxFailures /\ failures' = failures + 1
    /\ Stop
    /\ UNCHANGED <<input, output, lockFile, copyOnly, arrangements, races>>

moveCrossDevice ==
    /\ arrange = "remove"
    /\ input' = [input EXCEPT ![Current] = "gone"]
    /\ arrange' = "tracks" /\ Moved
    /\ UNCHANGED <<output, lockFile, copyOnly, albums, to, arrangements, failures, races>>

\* Lidarr and Jellyfin are told once all albums are done.
AlbumDone ==
    /\ arrange = "tracks" /\ files = {}
    /\ arrange' = IF albums = {} THEN "idle" ELSE "albums"
    /\ UNCHANGED <<input, output, lockFile, copyOnly, albums, files, to,
                   arrangements, failures, races>>

\* An error of any other step, or the end of the process.
Abort ==
    /\ arrange # "idle" /\ failures < MaxFailures /\ failures' = failures + 1
    /\ Stop
    /\ UNCHANGED <<input, output, lockFile, copyOnly, arrangements, races>>

Next ==
    \/ DownloadStart \/ DownloadEnd \/ \E f \in FileNames : Download(f)
    \/ \E copy \in BOOLEAN : checkLockFile(copy)
    \/ Walk \/ moveFile \/ copyFile \/ Copied \/ CopyFails \/ moveCrossDevice \/ AlbumDone \/ Abort
    \/ \E a \in albums : NextAlbum(a)

Spec == Init /\ [][Next]_vars

(***************************************************************************)
(* Properties                                                              *)
(***************************************************************************)
\* Whatever a run fails at, every track that was ever downloaded is still in one
\* piece, in the download directory or in the library: a half-written file is
\* never all there is.  It is taken before it is whole only by a run whose look at
\* the lock file the downloader overtook; and it may give way to another track of
\* its album that goes by the same name (app.go:128-137, :324-361).
SameName(f, g) == albumKey(f) = albumKey(g) /\ getOutFileName(f) = getOutFileName(g)
TracksSurvive == \A f \in Tracks :
    input[f] = "gone" /\ (\A g \in Tracks \ {f} : ~SameName(f, g)) =>
        \E p \in DOMAIN output :
            output[p].of = f /\ ~output[p].half /\ (output[p].early => races > 0)
=============================================================================
