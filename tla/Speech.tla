------------------------------- MODULE Speech -------------------------------
(***************************************************************************)
(* telegram-hub: articles turned to speech.  Every message of the bot and  *)
(* every call of the tts_article tool runs in a goroutine of its own, and  *)
(* all share one cache directory: the audio of an article and the          *)
(* temporary file it is made from.  Requests fail, and the process is      *)
(* stopped and started, at any step.                                       *)
(***************************************************************************)
EXTENDS Naturals, Functions

CONSTANTS
    Handlers,   \* goroutines
    Inodes,     \* enough file numbers; 0 is none of them
    Households  \* [asks: handler -> links it may be sent, remux: TTS_REMUX,
                \* mishaps: bound on failures and restarts]

VARIABLES
    household,  \* one of Households, never changes
    disk,       \* inode -> [of, whole]
    paths,      \* path -> inode, of the files that are there
    hd,         \* handler -> where it is, what it was asked for, the inodes it has open
    delivered,  \* [asked, got] of the audio that was sent last
    torn,       \* pages asked for again while their audio was made, and pages whose
                \* remux did not end: observed only, no step depends on it
    mishaps

vars == <<household, disk, paths, hd, delivered, torn, mishaps>>

(***************************************************************************)
(* Paths and files                                                         *)
(***************************************************************************)
\* A link is [page, rest]: the query and the fragment name nothing.
sanitizeURL(link) == link.page
getCacheFilename(link) == <<sanitizeURL(link), "mp3">>
tempFile_bug(link) == <<"generated", "temp">>
tempFile(link) == <<sanitizeURL(link), "temp">>

Empty == [of |-> "none", whole |-> FALSE]
Nil == [at |-> "idle", link |-> [page |-> "none", rest |-> FALSE], src |-> 0, out |-> 0, fine |-> FALSE]
Unnamed == DOMAIN disk \ (Range(paths) \cup {hd[h].out : h \in Handlers}
                                       \cup {hd[h].src : h \in Handlers})
Without(p) == Restrict(paths, DOMAIN paths \ {p})
With(p, i) == [q \in DOMAIN paths \cup {p} |-> IF q = p THEN i ELSE paths[q]]

Mp3(h) == getCacheFilename(hd[h].link)
Temp(h) == tempFile(hd[h].link)
Goes(h, stage) == hd' = [hd EXCEPT ![h].at = stage]
Answers(h) == hd' = [hd EXCEPT ![h] = Nil]
Making == {h \in Handlers : hd[h].at \in {"generate", "writing", "staged", "remuxing"}}
Remuxing == {h \in Handlers : hd[h].at = "remuxing"}
Mishap == mishaps < household.mishaps /\ mishaps' = mishaps + 1

\* O_CREATE | O_TRUNC: a file of that name keeps its inode and loses its bytes.
Truncate(h, p, i) ==
    /\ IF p \in DOMAIN paths THEN i = paths[p]
       ELSE Unnamed # {} /\ i = CHOOSE j \in Unnamed : TRUE
    /\ paths' = With(p, i)
    /\ disk' = [disk EXCEPT ![i] = [of |-> hd[h].link.page, whole |-> FALSE]]

Init ==
    /\ household \in Households
    /\ disk = [i \in Inodes |-> Empty]
    /\ paths = [p \in {} |-> 0]
    /\ hd = [h \in Handlers |-> Nil]
    /\ delivered = [asked |-> "none", got |-> Empty] /\ torn = {} /\ mishaps = 0

(***************************************************************************)
(* One request                                                             *)
(***************************************************************************)
\* The article is fetched and given a title.
Ask(h, link) ==
    /\ hd[h].at = "idle" /\ link \in household.asks[h]
    /\ hd' = [hd EXCEPT ![h].at = "lookup", ![h].link = link]
    /\ UNCHANGED <<household, disk, paths, delivered, torn, mishaps>>

\* Any file of that name is a hit.
Lookup(h) ==
    /\ hd[h].at = "lookup"
    /\ Goes(h, IF Mp3(h) \in DOMAIN paths THEN "probe" ELSE "generate")
    /\ torn' = torn \cup ({hd[h].link.page} \cap {hd[q].link.page : q \in Making})
    /\ UNCHANGED <<household, disk, paths, delivered, mishaps>>

generateTTS(h) ==
    /\ hd[h].at = "generate"
    /\ \E i \in DOMAIN disk :
        /\ Truncate(h, Temp(h), i)
        /\ hd' = [hd EXCEPT ![h].at = "writing", ![h].out = i]
    /\ UNCHANGED <<household, delivered, torn, mishaps>>

Written(h) ==
    /\ hd[h].at = "writing"
    /\ disk' = [disk EXCEPT ![hd[h].out] = [of |-> hd[h].link.page, whole |-> TRUE]]
    /\ hd' = [hd EXCEPT ![h].at = "staged", ![h].out = 0]
    /\ UNCHANGED <<household, paths, delivered, torn, mishaps>>

\* ffmpeg opens its input, then writes its output in place.
fixAudioHeader(h) ==
    /\ hd[h].at = "staged" /\ household.remux
    /\ IF Temp(h) \notin DOMAIN paths THEN Answers(h) /\ UNCHANGED <<disk, paths>>
       ELSE \E i \in DOMAIN disk :
            /\ Truncate(h, Mp3(h), i)
            /\ LET s == paths[Temp(h)] IN
                hd' = [hd EXCEPT ![h].at = "remuxing", ![h].out = i, ![h].src = s,
                                 ![h].fine = disk[s].whole]
    /\ UNCHANGED <<household, delivered, torn, mishaps>>

Remuxed(h) ==
    /\ hd[h].at = "remuxing"
    /\ LET s == disk[hd[h].src] IN
        disk' = [disk EXCEPT ![hd[h].out] = [of |-> s.of, whole |-> s.whole /\ hd[h].fine]]
    /\ hd' = [hd EXCEPT ![h].at = "probe", ![h].out = 0, ![h].src = 0, ![h].fine = FALSE]
    /\ paths' = Without(Temp(h))
    /\ UNCHANGED <<household, delivered, torn, mishaps>>

\* What ffmpeg wrote stays.
RemuxFails(h) ==
    /\ hd[h].at = "remuxing" /\ Mishap
    /\ paths' = Without(Temp(h)) /\ Answers(h)
    /\ torn' = torn \cup {hd[h].link.page}
    /\ UNCHANGED <<household, disk, delivered>>

RawAudio(h) ==
    /\ hd[h].at = "staged" /\ ~household.remux
    /\ IF Temp(h) \notin DOMAIN paths THEN Answers(h) /\ UNCHANGED paths
       ELSE /\ paths' = [q \in (DOMAIN paths \cup {Mp3(h)}) \ {Temp(h)} |->
                            IF q = Mp3(h) THEN paths[Temp(h)] ELSE paths[q]]
            /\ Goes(h, "probe")
    /\ UNCHANGED <<household, disk, delivered, torn, mishaps>>

\* ffprobe makes something of most files that were cut short.
audioDuration(h) ==
    /\ hd[h].at = "probe" /\ Mp3(h) \in DOMAIN paths
    /\ Goes(h, "send")
    /\ UNCHANGED <<household, disk, paths, delivered, torn, mishaps>>

sendAudio(h) ==
    /\ hd[h].at = "send" /\ Mp3(h) \in DOMAIN paths
    /\ delivered' = [asked |-> hd[h].link.page, got |-> disk[paths[Mp3(h)]]]
    /\ Answers(h)
    /\ UNCHANGED <<household, disk, paths, torn, mishaps>>

\* An error outside the files: the user is told, nothing is undone.
friendlyError(h) ==
    /\ hd[h].at \in {"lookup", "generate", "probe", "send"}
    /\ Answers(h)
    /\ UNCHANGED <<household, disk, paths, delivered, torn, mishaps>>

\* The temporary file cannot be written to its end.
WriteFails(h) ==
    /\ hd[h].at = "writing" /\ Mishap
    /\ Answers(h)
    /\ UNCHANGED <<household, disk, paths, delivered, torn>>

\* The process ends, ffmpeg with it, and starts again; audio that is too old is
\* pruned, temporary files are not.
Restart ==
    /\ Mishap
    /\ hd' = [h \in Handlers |-> Nil]
    /\ \E old \in SUBSET {p \in DOMAIN paths : p[2] = "mp3"} :
        paths' = Restrict(paths, DOMAIN paths \ old)
    /\ torn' = torn \cup {hd[h].link.page : h \in Remuxing}
    /\ UNCHANGED <<household, disk, delivered>>

Next ==
    \/ \E h \in Handlers :
        \/ \E link \in household.asks[h] : Ask(h, link)
        \/ Lookup(h) \/ generateTTS(h) \/ Written(h) \/ WriteFails(h) \/ fixAudioHeader(h)
        \/ Remuxed(h) \/ RemuxFails(h) \/ RawAudio(h) \/ audioDuration(h) \/ sendAudio(h)
        \/ friendlyError(h)
    \/ Restart

Spec == Init /\ [][Next]_vars

(***************************************************************************)
(* Properties                                                              *)
(***************************************************************************)
\* What a user is sent is the whole audio of the article asked for, whatever
\* other articles are asked for and whichever request failed before, up to two
\* cases in which a file that was cut short stays in the cache: a remux that did
\* not end, and two requests that make the same audio at the same time
\* (bot.go:136-186).
DeliveredWhole == delivered.asked \notin torn \cup {"none"} =>
    delivered.got = [of |-> delivered.asked, whole |-> TRUE]
=============================================================================
