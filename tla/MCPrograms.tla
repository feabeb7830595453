----------------------------- MODULE MCPrograms -----------------------------
(* Small instances of the programs that share no state, one at a time.       *)
EXTENDS Programs, TLC

CONSTANTS
    p1, p2, d1, d2, o1, o2, r1, r2, t1, t2, t3, img, h1, h2, ta, tb, tc

-----------------------------------------------------------------------------
(* Peer *)

\* One command after another, some of them killed, one unanswered.
Alone == [who : {{p1}}, ops : {{"join", "rename", "reset", "status"}}, member : {TRUE, FALSE},
          kills : {2}, losses : {1}, moves : {0}]
\* Commands side by side on a machine that has joined.
Together == [who : {{p1, p2}}, ops : {{"rename", "status"}}, member : {TRUE},
             kills : {0}, losses : {1}, moves : {1}]
\* A listener beside the commands that do not touch its name.
Listens == [who : {{p1, Listener}}, ops : {{"listen", "status"}}, member : {TRUE},
            kills : {0}, losses : {0}, moves : {0}]
MCCrews == Alone \cup Together \cup Listens

(* Restore *)

MCBytes == d1 :> 1 @@ d2 :> 3

(* Mirror *)

Declared(owner, urlOwner, name, upper, private) ==
    [owner |-> owner, urlOwner |-> urlOwner, name |-> name, upper |-> upper, private |-> private]
File(mirrors, ownerFromURL, defaultOwner) ==
    [mirrors |-> mirrors, ownerFromURL |-> ownerFromURL, defaultOwner |-> defaultOwner]
\* Two mirrors of different owners, by their own words or by their clone address,
\* one changed between two runs; and two that clash.
MCFiles == {
    File(<<Declared(o1, None, r1, TRUE, TRUE), Declared(None, o2, r2, FALSE, None)>>, FALSE, o1),
    File(<<Declared(o1, None, r1, FALSE, FALSE), Declared(None, o2, r2, FALSE, None)>>, TRUE, None),
    File(<<Declared(o1, None, r1, FALSE, FALSE), Declared(None, o2, r1, TRUE, None)>>, FALSE, o1)}

(* Arrange *)

Tagged(base, artist) ==
    [kind |-> "audio", dir |-> "dir", base |-> base, ext |-> "flac", artist |-> artist,
     album |-> "album", year |-> IF artist = None THEN None ELSE "y", number |-> "1",
     title |-> "x"]
\* A cover beside a track, one that is tagged like it, and one without an artist.
MCOrder == <<img, t1, t2, t3>>
MCInfo == img :> [kind |-> "image", dir |-> "dir", base |-> "cover"]
     @@ t1 :> Tagged("1", "artist") @@ t2 :> Tagged("2", None)
     @@ t3 :> Tagged("3", "artist")

(* Speech *)

Link(p, rest) == [page |-> p, rest |-> rest]
\* Two links to one article and one to another, asked for side by side, remuxed
\* or not; and one request after another with more that fails.
MCHouseholds ==
    [asks : {h1 :> {Link("x", TRUE), Link("y", FALSE)} @@ h2 :> {Link("x", FALSE)}},
     remux : BOOLEAN, mishaps : {1}]
    \cup
    [asks : {h1 :> {Link("x", TRUE), Link("y", FALSE)} @@ h2 :> {}},
     remux : BOOLEAN, mishaps : {2}]

(* Relay *)

MCWindow == "alert" :> 2 @@ "event" :> 0

(* Scrobbles *)

Played(track, at) == [track |-> track, at |-> at]
\* Two plays of one track around another that began too soon, a track nobody knows the
\* duration of, and a clock that went back.
MCTimeline == <<Played(ta, 0), Played(tb, 1), Played(ta, 2), Played(tc, 4), Played(tb, 8),
              Played(tb, 7)>>
MCLengths == ta :> [user |-> 0, remote |-> 5] @@ tb :> [user |-> 3, remote |-> 0]
        @@ tc :> [user |-> 0, remote |-> 0]
MCSettings == [delete : BOOLEAN, duplicate : {90}, complete : {0, 50}]
=============================================================================
