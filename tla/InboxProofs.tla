---------------------------- MODULE InboxProofs ----------------------------
(***************************************************************************)
(* Theorems about Inbox, for any receivers, items, contents, breaks, kills *)
(* and expiries.  They hold where the lock file does its work: no hour     *)
(* passes during the transfers, or there is one receiver; and where files  *)
(* that two receivers take at once have names of their own.                *)
(***************************************************************************)
EXTENDS Inbox, FiniteSetTheorems, SequenceTheorems, TLAPS

USE InboxAssumption

\* The situations in which lock files and free names mean what they say.
WellBehaved(c) ==
    /\ c.hours = 0 \/ \A r, q \in c.who : r = q
    /\ \A r, q \in c.who, i, j \in Items : r # q /\ i # j => c.name[i] # c.name[j]

\* The file system never runs out of file numbers.
Endless == ~IsFiniteSet(Inodes)

-----------------------------------------------------------------------------
(* The inductive invariant *)

Carrying == {"locked", "opened", "stream", "streamed", "verified", "landed"}
Writing == {"opened", "stream", "streamed", "verified"}

Frames == SHAs \X Nat
Places == {NameOf(i) : i \in Items} \X Nat
Transfer == [pc : {"idle", "wait", "next"} \cup Carrying, via : {"pull", "direct"},
             item : Items \cup {None}, fd : Inodes \cup {None}, hashed : Seq(Frames),
             dst : Places \cup {None}, line : {"up", "down", "silent"}]

TypeOK ==
    /\ crew \in Crews /\ hours \in Nat
    /\ parked \subseteq Items /\ dropped \subseteq Items /\ todo \subseteq Items
    /\ send \in [Items -> {"new", "direct", "stash", "deposit", "known", "sent"}]
    /\ peerLock \in Receivers \cup {None}
    /\ lockfile \in [SHAs -> {"none", "new", "old"}]
    /\ holder \in [SHAs -> Receivers \cup {None}]
    /\ part \in [SHAs -> Inodes \cup {None}]
    /\ stale \subseteq SHAs
    /\ inbox \in [DOMAIN inbox -> Inodes]
    /\ DOMAIN inbox \subseteq Places /\ IsFiniteSet(DOMAIN inbox)
    /\ data \in [Inodes -> Seq(Frames)]
    /\ rx \in [Receivers -> Transfer]

\* Who carries an item, who has a file, and who runs at all.
Working == \A r \in Receivers :
    /\ rx[r].item # None <=> rx[r].pc \in Carrying
    /\ rx[r].fd # None <=> rx[r].pc \in Writing \cup {"landed"}
    /\ r \notin crew.who => rx[r] = Idle

\* Receivers carry different contents; while no hour passes, by their locks.
Turns ==
    /\ \A r, q \in Receivers :
        r # q /\ rx[r].item # None /\ rx[q].item # None => Content(r) # Content(q)
    /\ crew.hours = 0 =>
        /\ \A s \in SHAs : lockfile[s] # "old"
        /\ \A r \in Receivers : rx[r].item # None => holder[Content(r)] = r

\* A receiver that will write no more, whatever a sweep does to its partial.
Mute(r) == ~Live(r) /\ rx[r].pc \in {"opened", "stream"}

\* A writer's file is the partial of its content, what it hashed is in it, and
\* no sweep is about to take it.
Pens == \A r \in Receivers : rx[r].pc \in Writing /\ ~Mute(r) =>
    /\ part[Content(r)] = rx[r].fd
    /\ Content(r) \notin stale
    /\ data[rx[r].fd] = rx[r].hashed
    /\ rx[r].pc = "verified" => rx[r].hashed = Whole(Content(r))

\* Partials and delivered files are different files.
Separate ==
    /\ \A s, t \in SHAs : s # t /\ part[s] # None => part[s] # part[t]
    /\ \A s \in SHAs, p \in DOMAIN inbox : inbox[p] # part[s]

\* A name that was found free is free, and a file that landed is delivered.
Landing == \A r \in Receivers :
    /\ rx[r].pc = "verified" =>
        rx[r].dst \in Places /\ rx[r].dst[1] = NameOf(rx[r].item) /\ rx[r].dst \notin DOMAIN inbox
    /\ rx[r].pc = "landed" => Delivered(rx[r].item)

Files == Pens /\ Separate /\ Landing /\ InboxWhole
IInv == TypeOK /\ Working /\ Turns /\ Files /\ SentIsKept

-----------------------------------------------------------------------------
(* What the helpers return *)

\* A function on a finite set has finitely many values.
LEMMA RangeFinite ==
  ASSUME NEW f, IsFiniteSet(DOMAIN f), f = [x \in DOMAIN f |-> f[x]]
  PROVE  IsFiniteSet(Range(f))
<1>1. f \in Surjection(DOMAIN f, Range(f))
  BY DEF Surjection, Range
<1> QED
  BY <1>1, FS_Surjection

\* A new partial is a file that nothing else uses.
LEMMA FreeInodeIsFree ==
  ASSUME TypeOK, Endless
  PROVE  /\ FreeInode \in Inodes
         /\ \A s \in SHAs : FreeInode # part[s]
         /\ \A p \in DOMAIN inbox : FreeInode # inbox[p]
         /\ \A r \in Receivers : FreeInode # rx[r].fd
<1> DEFINE fds == [r \in Receivers |-> rx[r].fd]
           Used == Range(part) \cup Range(inbox) \cup {rx[r].fd : r \in Receivers}
<1>1. IsFiniteSet(Range(part)) /\ IsFiniteSet(Range(inbox)) /\ IsFiniteSet(Range(fds))
  BY RangeFinite DEF TypeOK
<1>2. Range(fds) = {rx[r].fd : r \in Receivers}
  BY DEF Range
<1>3. IsFiniteSet(Used)
  BY <1>1, <1>2, FS_Union
<1>4. \E n \in Inodes : n \notin Used
  <2>1. SUFFICES ASSUME Inodes \subseteq Used PROVE FALSE
    OBVIOUS
  <2> QED
    BY <1>3, <2>1, FS_Subset DEF Endless
<1>5. FreeInode \in Inodes /\ FreeInode \notin Used
  BY <1>4 DEF FreeInode
<1> QED
  BY <1>5 DEF Range, TypeOK

\* A set of numbers that is not empty has a least one: the intervals up to its
\* members are well-founded under inclusion.
LEMMA MinExists ==
  ASSUME NEW S \in SUBSET Nat, S # {}
  PROVE  Min(S) \in S
<1> DEFINE T == {0..k : k \in S}
<1>1. T \subseteq FiniteSubsetsOf(Nat)
  <2>1. \A k \in S : 0..k \in SUBSET Nat /\ IsFiniteSet(0..k)
    BY FS_Interval
  <2> QED
    BY <2>1 DEF FiniteSubsetsOf
<1>2. PICK x \in T : \A y \in T : <<y, x>> \notin StrictSubsetOrdering(Nat)
  <2>1. T # {}
    <3>1. PICK k \in S : TRUE
      OBVIOUS
    <3>2. 0..k \in T
      OBVIOUS
    <3> QED
      BY <3>2
  <2> HIDE DEF T
  <2> QED
    BY <1>1, <2>1, FS_StrictSubsetOrderingWellFounded, WFMin
<1>3. PICK k \in S : x = 0..k
  OBVIOUS
<1>4. ASSUME NEW m \in S, m < k PROVE FALSE
  <2>1. 0..m \subseteq 0..k /\ 0..m # 0..k
    <3>1. k \in 0..k /\ k \notin 0..m
      BY <1>4
    <3> QED
      BY <1>4, <3>1
  <2>2. <<0..m, 0..k>> \in StrictSubsetOrdering(Nat)
    BY <2>1 DEF StrictSubsetOrdering
  <2> QED
    BY <1>2, <1>3, <2>2
<1>5. \A m \in S : k <= m
  BY <1>4
<1> QED
  BY <1>5 DEF Min

\* uniquePath finds a free name: there are more copies to try than files.
LEMMA UniquePathIsFree ==
  ASSUME TypeOK, NEW i \in Items
  PROVE  /\ uniquePath(NameOf(i)) \in Places
         /\ uniquePath(NameOf(i))[1] = NameOf(i)
         /\ uniquePath(NameOf(i)) \notin DOMAIN inbox
<1> DEFINE n == Cardinality(DOMAIN inbox)
           Free == {k \in 0..n : <<NameOf(i), k>> \notin DOMAIN inbox}
           f == [k \in 0..n |-> <<NameOf(i), k>>]
<1>1. n \in Nat
  BY FS_CardinalityType DEF TypeOK
<1>2. Free # {}
  <2>1. SUFFICES ASSUME Free = {} PROVE FALSE
    OBVIOUS
  <2>2. f \in Injection(0..n, DOMAIN inbox)
    BY <2>1 DEF Injection, IsInjective
  <2>3. Cardinality(0..n) <= n
    BY <2>2, FS_Injection DEF TypeOK
  <2>4. Cardinality(0..n) = n + 1
    BY <1>1, FS_Interval
  <2> QED
    BY <1>1, <2>3, <2>4
<1>3. Min(Free) \in Free
  <2>1. Free \in SUBSET Nat
    BY <1>1
  <2> HIDE DEF Free
  <2> QED
    BY <1>2, <2>1, MinExists
<1>4. uniquePath(NameOf(i)) = <<NameOf(i), Min(Free)>>
  BY DEF uniquePath
<1> QED
  BY <1>1, <1>3, <1>4 DEF Places

\* What is received are chunks of contents.
LEMMA FrameType ==
  ASSUME NEW i \in Items, NEW k \in Nat
  PROVE  Frame(i, k) \in Frames
BY DEF Frame, Frames

\* A prefix of chunks is one.
LEMMA PrefixType ==
  ASSUME NEW d \in Seq(Frames), NEW n \in Int, n <= Len(d)
  PROVE  SubSeq(d, 1, n) \in Seq(Frames)
<1>1. \A k \in 1..n : d[k] \in Frames
  OBVIOUS
<1> QED
  BY <1>1, SubSeqProperties

\* So is what partialFor keeps.
LEMMA BoundaryType ==
  ASSUME NEW s \in SHAs, NEW d \in Seq(Frames)
  PROVE  Boundary(s, d) \in Seq(Frames)
<1>1. SubSeq(d, 1, Len(d) - 1) \in Seq(Frames)
  BY PrefixType
<1> QED
  BY <1>1 DEF Boundary

\* And what is kept when a sender continues.
LEMMA ResumeType ==
  ASSUME NEW s \in SHAs, NEW h \in Seq(Frames)
  PROVE  SubSeq(h, 1, resumeOffset(Len(h), s)) \in Seq(Frames)
BY PrefixType DEF resumeOffset

-----------------------------------------------------------------------------
(* Types, and who works on what *)

Basics == TypeOK /\ Working

\* Every action of a receiver is one of one that may run.
LEMMA RunnersAreReceivers ==
  ASSUME TypeOK PROVE crew.who \subseteq Receivers
BY DEF TypeOK

\* The types do not move with the state.
LEMMA TransferFixed ==
  ASSUME crew' = crew PROVE Transfer' = Transfer /\ Places' = Places
<1>1. Places' = Places
  BY DEF Places, NameOf
<1> QED
  BY <1>1 DEF Transfer

\* A receiver at rest, and an empty file.
LEMMA IdleType == Idle \in Transfer /\ <<>> \in Seq(Frames)
BY DEF Idle, Transfer

\* A peer begins with nobody at work and an empty directory.
LEMMA InitBasics == Init => Basics
<1> SUFFICES ASSUME Init PROVE Basics
  OBVIOUS
<1>1. \A n \in Inodes : <<>> \in Seq(Frames)
  OBVIOUS
<1>2. Idle \in Transfer
  BY IdleType
<1>3. DOMAIN inbox = {} /\ inbox = [x \in {} |-> 0]
  BY DEF Init
<1>4. crew.hours \in Nat
  BY DEF Init
<1>5. TypeOK
  BY <1>1, <1>2, <1>3, FS_EmptySet DEF Init, TypeOK
<1>6. Working
  BY DEF Init, Working, Idle, Carrying, Writing
<1> QED
  BY <1>5, <1>6 DEF Basics

\* The end of a receiver.
LEMMA EndBasics ==
  ASSUME Basics, NEW r \in crew.who, End(r), crew' = crew
  PROVE  /\ rx' \in [Receivers -> Transfer] /\ Working'
         /\ holder' \in [SHAs -> Receivers \cup {None}]
         /\ send' \in [Items -> {"new", "direct", "stash", "deposit", "known", "sent"}]
         /\ peerLock' \in Receivers \cup {None} /\ todo' \subseteq Items
<1> USE RunnersAreReceivers DEF Basics
<1>1. rx' = [rx EXCEPT ![r] = Idle] /\ holder' = Released(r)
  BY DEF End
<1>2. Idle \in Transfer
  BY IdleType
<1>3. rx' \in [Receivers -> Transfer]
  BY <1>1, <1>2 DEF TypeOK
<1>4. Working'
  BY <1>1 DEF Working, TypeOK, Idle, Carrying, Writing
<1>5. holder' \in [SHAs -> Receivers \cup {None}]
  BY <1>1 DEF Released, TypeOK
<1>6. send' \in [Items -> {"new", "direct", "stash", "deposit", "known", "sent"}]
  BY DEF End, TypeOK
<1>7. peerLock' \in Receivers \cup {None} /\ todo' \subseteq Items
  BY DEF End, TypeOK
<1> QED
  BY <1>3, <1>4, <1>5, <1>6, <1>7

\* A sweep removes names only.
LEMMA SweepBasics ==
  ASSUME TypeOK, sweepPartials
  PROVE  /\ part' \in [SHAs -> Inodes \cup {None}] /\ stale' \subseteq SHAs
         /\ lockfile' \in [SHAs -> {"none", "new", "old"}]
         /\ holder' \in [SHAs -> Receivers \cup {None}]
BY DEF TypeOK, sweepPartials

\* The crew is chosen once.
LEMMA CrewIsFixed ==
  ASSUME [Next]_vars PROVE crew' = crew
<1>1. CASE \E r \in crew.who : Progress(r)
  BY <1>1 DEF Progress, Pending, Skip, Take, PullDone, Open, Fetch, FetchGone, Ready, Receive,
              Verify, Mismatch, Rename, RenameFails, Ack, Reply, Abort, environment
<1>2. CASE \E r \in crew.who : Recv(r) \/ Direct(r) \/ Break(r) \/ Silence(r) \/ AckLost(r)
                               \/ Cancel(r) \/ Kill(r)
  BY <1>2 DEF Recv, Direct, Break, Silence, AckLost, Cancel, Kill, environment
<1>3. CASE \E i \in Items : Miss(i) \/ Offer(i) \/ Deposit(i) \/ DepositFails(i) \/ Expire(i)
  BY <1>3 DEF Miss, Offer, Deposit, DepositFails, Expire, sender, environment
<1>4. CASE Listen \/ ListenStop \/ Dismiss \/ Hour \/ UNCHANGED vars
  BY <1>4 DEF Listen, ListenStop, Dismiss, Hour, vars
<1> QED
  BY <1>1, <1>2, <1>3, <1>4 DEF Next

\* Every step keeps the types and who works on what.
LEMMA NextBasics ==
  ASSUME Basics, Landing, Endless, [Next]_vars
  PROVE  Basics'
<1> USE RunnersAreReceivers DEF Basics
<1>0. crew' = crew
  BY CrewIsFixed
<1>01. Transfer' = Transfer /\ Places' = Places
  BY <1>0, TransferFixed
<1>1. CASE \E r \in crew.who : Pending(r)
  <2> PICK r \in crew.who : Pending(r)
    BY <1>1
  <2>1. rx' \in [Receivers -> Transfer]
      <3> DEFINE t == [rx[r] EXCEPT !.pc = "next"]
      <3>1. rx[r] \in Transfer
        BY DEF TypeOK
      <3>2. t \in Transfer
        BY <3>1, IdleType DEF Pending, Step, Transfer, Carrying
      <3> QED
        BY <3>2 DEF Pending, Step, TypeOK
  <2>2. Working'
    BY <1>0 DEF Pending, Step, Working, TypeOK, Transfer, Carrying, Writing
  <2> QED
    BY <1>0, <1>01, <2>1, <2>2 DEF Pending, TypeOK, environment, directory
<1>2. CASE \E r \in crew.who : Skip(r)
  <2> PICK r \in crew.who : Skip(r)
    BY <1>2
  <2>1. rx' \in [Receivers -> Transfer]
    BY DEF Skip, TypeOK
  <2>2. Working'
    BY <1>0 DEF Skip, Working, TypeOK, Transfer, Carrying, Writing
  <2> QED
    BY <1>0, <1>01, <2>1, <2>2 DEF Skip, TypeOK, environment, directory
<1>3. CASE \E r \in crew.who : Take(r)
  <2> PICK r \in crew.who : Take(r)
    BY <1>3
  <2> PICK i \in todo : /\ lockPartial(r, ShaOf[i]) /\ todo' = todo \ {i}
                        /\ rx' = [rx EXCEPT ![r].pc = "locked", ![r].item = i, ![r].hashed = <<>>]
    BY DEF Take
  <2> DEFINE t == [rx[r] EXCEPT !.pc = "locked", !.item = i, !.hashed = <<>>]
  <2>1. rx[r] \in Transfer /\ i \in Items
    BY DEF TypeOK
  <2>2. t \in Transfer
    BY <2>1, IdleType DEF Transfer, Carrying
  <2>3. rx' \in [Receivers -> Transfer]
    BY <2>2 DEF TypeOK
  <2>4. Working'
    BY <1>0, <2>1 DEF Take, Working, TypeOK, Transfer, Carrying, Writing
  <2> QED
    BY <1>0, <1>01, <2>1, <2>3, <2>4 DEF Take, lockPartial, TypeOK, environment
<1>4. CASE \E r \in crew.who : PullDone(r)
  BY <1>0, <1>01, <1>4, EndBasics DEF PullDone, TypeOK, environment, directory
<1>5. CASE \E r \in crew.who : FetchGone(r)
  BY <1>0, <1>01, <1>5, EndBasics DEF FetchGone, TypeOK, environment, directory
<1>6. CASE \E r \in crew.who : Mismatch(r)
  BY <1>0, <1>01, <1>6, EndBasics DEF Mismatch, TypeOK, environment, directory
<1>7. CASE \E r \in crew.who : RenameFails(r)
  BY <1>0, <1>01, <1>7, EndBasics DEF RenameFails, TypeOK, environment, directory
<1>8. CASE \E r \in crew.who : Abort(r)
  BY <1>0, <1>01, <1>8, EndBasics DEF Abort, TypeOK, environment, directory
<1>9. CASE \E r \in crew.who : AckLost(r)
  BY <1>0, <1>01, <1>9, EndBasics DEF AckLost, TypeOK, environment, directory
<1>10. CASE \E r \in crew.who : Cancel(r)
  BY <1>0, <1>01, <1>10, EndBasics DEF Cancel, TypeOK, environment, directory
<1>11. CASE \E r \in crew.who : Kill(r)
  BY <1>0, <1>01, <1>11, EndBasics DEF Kill, TypeOK, environment, directory
<1>12. CASE \E r \in crew.who : Verify(r)
  <2> PICK r \in crew.who : Verify(r)
    BY <1>12
  <2> DEFINE free == uniquePath(NameOf(rx[r].item))
             t == [rx[r] EXCEPT !.pc = "verified", !.dst = free]
  <2>1. rx[r] \in Transfer /\ rx[r].item \in Items
    BY DEF Verify, TypeOK, Working, Carrying, Transfer
  <2>2. free \in Places
    BY <2>1, UniquePathIsFree
  <2>3. rx' = [rx EXCEPT ![r].pc = "verified", ![r].dst = free]
    BY DEF Verify
  <2> HIDE DEF free
  <2>4. t \in Transfer
    BY <2>1, <2>2 DEF Transfer, Carrying
  <2>5. rx' \in [Receivers -> Transfer]
    BY <2>3, <2>4 DEF TypeOK
  <2>6. Working'
    BY <1>0, <2>3 DEF Verify, Working, TypeOK, Transfer, Carrying, Writing
  <2> QED
    BY <1>0, <1>01, <2>5, <2>6 DEF Verify, TypeOK, environment, directory
<1>13. CASE \E r \in crew.who : Break(r)
  <2> PICK r \in crew.who : Break(r)
    BY <1>13
  <2>1. rx' \in [Receivers -> Transfer]
      <3> DEFINE t == [rx[r] EXCEPT !.line = "down"]
      <3>1. rx[r] \in Transfer
        BY DEF TypeOK
      <3>2. t \in Transfer
        BY <3>1, IdleType DEF Break, Transfer, Carrying
      <3> QED
        BY <3>2 DEF Break, TypeOK
  <2>2. Working'
    BY <1>0 DEF Break, Working, TypeOK, Transfer, Carrying, Writing
  <2> QED
    BY <1>0, <1>01, <2>1, <2>2 DEF Break, TypeOK, environment, directory, MayBreak
<1>32. CASE \E r \in crew.who : Silence(r)
  <2> PICK r \in crew.who : Silence(r)
    BY <1>32
  <2>1. rx' \in [Receivers -> Transfer]
      <3> DEFINE t == [rx[r] EXCEPT !.line = "silent"]
      <3>1. rx[r] \in Transfer
        BY DEF TypeOK
      <3>2. t \in Transfer
        BY <3>1, IdleType DEF Silence, Transfer, Carrying
      <3> QED
        BY <3>2 DEF Silence, TypeOK
  <2>2. Working'
    BY <1>0 DEF Silence, Working, TypeOK, Transfer, Carrying, Writing
  <2> QED
    BY <1>0, <1>01, <2>1, <2>2 DEF Silence, TypeOK, environment, directory, MayBreak
<1>14. CASE \E r \in crew.who : Ack(r)
  <2> PICK r \in crew.who : Ack(r)
    BY <1>14
  <2>1. rx' \in [Receivers -> Transfer]
      <3> DEFINE t == [Idle EXCEPT !.pc = "next"]
      <3>1. rx[r] \in Transfer
        BY DEF TypeOK
      <3>2. t \in Transfer
        BY <3>1, IdleType DEF Ack, Transfer, Carrying
      <3> QED
        BY <3>2 DEF Ack, TypeOK
  <2>2. Working'
    BY <1>0 DEF Ack, Idle, Working, TypeOK, Transfer, Carrying, Writing
  <2> QED
    BY <1>0, <1>01, <2>1, <2>2 DEF Ack, TypeOK, environment, directory, Released
<1>15. CASE \E r \in crew.who : Reply(r)
  <2> PICK r \in crew.who : Reply(r)
    BY <1>15
  <2>1. rx' \in [Receivers -> Transfer]
      <3> DEFINE t == Idle
      <3>1. rx[r] \in Transfer
        BY DEF TypeOK
      <3>2. t \in Transfer
        BY <3>1, IdleType DEF Reply, Transfer, Carrying
      <3> QED
        BY <3>2 DEF Reply, TypeOK
  <2>2. Working'
    BY <1>0 DEF Reply, Idle, Working, TypeOK, Transfer, Carrying, Writing
  <2> QED
    BY <1>0, <1>01, <2>1, <2>2 DEF Reply, TypeOK, environment, directory, Released
<1>16. CASE \E r \in crew.who : Recv(r)
  <2> PICK r \in crew.who : Recv(r)
    BY <1>16
  <2>1. rx' \in [Receivers -> Transfer]
      <3> DEFINE t == [Idle EXCEPT !.pc = "wait"]
      <3>1. rx[r] \in Transfer
        BY DEF TypeOK
      <3>2. t \in Transfer
        BY <3>1, IdleType DEF Recv, Transfer, Carrying
      <3> QED
        BY <3>2 DEF Recv, TypeOK
  <2>2. Working'
    BY <1>0 DEF Recv, Idle, Working, TypeOK, Transfer, Carrying, Writing
  <2> QED
    BY <1>0, <1>01, <2>1, <2>2, SweepBasics DEF Recv, TypeOK, environment, directory
<1>17. CASE \E r \in crew.who : Direct(r)
  <2> PICK r \in crew.who : Direct(r)
    BY <1>17
  <2> PICK i \in Items : /\ lockPartial(r, ShaOf[i]) /\ send' = [send EXCEPT ![i] = "direct"]
        /\ rx' = [rx EXCEPT ![r] = [Idle EXCEPT !.pc = "locked", !.via = "direct", !.item = i]]
    BY DEF Direct
  <2> DEFINE t == [Idle EXCEPT !.pc = "locked", !.via = "direct", !.item = i]
  <2>1. t \in Transfer
    BY IdleType DEF Transfer, Carrying
  <2>2. rx' \in [Receivers -> Transfer]
    BY <2>1 DEF TypeOK
  <2>3. Working'
    BY <1>0 DEF Working, TypeOK, Idle, Carrying, Writing
  <2> QED
    BY <1>0, <1>01, <2>2, <2>3 DEF Direct, lockPartial, TypeOK, environment
<1>18. CASE Listen
  BY <1>0, <1>01, <1>18, SweepBasics DEF Listen, TypeOK, Working
<1>19. CASE ListenStop
  <2>1. Idle \in Transfer
    BY IdleType
  <2>3. rx' \in [Receivers -> Transfer]
    BY <1>19, <2>1 DEF ListenStop, TypeOK
  <2>2. Working'
    BY <1>0, <1>19 DEF ListenStop, TypeOK, Working, Carrying, Writing, Idle
  <2> QED
    BY <1>0, <1>01, <1>19, <2>2, <2>3 DEF ListenStop, TypeOK, directory
<1>20. CASE Hour
  BY <1>0, <1>01, <1>20 DEF Hour, TypeOK, Working
<1>21. CASE Dismiss
  BY <1>0, <1>01, <1>21
     DEF Dismiss, resolveDismiss, sender, TypeOK, Working, environment, directory
<1>22. CASE \E j \in Items : Miss(j)
  BY <1>0, <1>01, <1>22 DEF Miss, sender, TypeOK, Working, environment, directory
<1>33. CASE \E j \in Items : Offer(j)
  <2> PICK j \in Items : Offer(j)
    BY <1>33
  <2>1. send' \in [Items -> {"new", "direct", "stash", "deposit", "known", "sent"}]
    BY DEF Offer, TypeOK
  <2> QED
    BY <1>0, <1>01, <2>1 DEF Offer, sender, TypeOK, Working, environment, directory
<1>23. CASE \E j \in Items : Deposit(j)
  BY <1>0, <1>01, <1>23 DEF Deposit, sender, TypeOK, Working, environment, directory
<1>24. CASE \E j \in Items : DepositFails(j)
  BY <1>0, <1>01, <1>24 DEF DepositFails, sender, TypeOK, Working, environment, directory
<1>25. CASE \E j \in Items : Expire(j)
  BY <1>0, <1>01, <1>25 DEF Expire, sender, TypeOK, Working, environment, directory
<1>26. CASE UNCHANGED vars
  BY <1>0, <1>01, <1>26 DEF vars, TypeOK, Working
<1>27. CASE \E r \in crew.who : Open(r)
  <2> PICK r \in crew.who : Open(r)
    BY <1>27
  <2> DEFINE c == Content(r)
             m == IF part[c] = None THEN FreeInode ELSE part[c]
             kept == IF part[c] = None THEN <<>> ELSE Boundary(c, data[m])
  <2>1. rx[r].item \in Items /\ c \in SHAs
    BY DEF Open, TypeOK, Working, Carrying, Transfer, Content
  <2>2. m \in Inodes
    BY <2>1, FreeInodeIsFree DEF TypeOK
  <2>3. kept \in Seq(Frames)
    BY <2>1, <2>2, BoundaryType DEF TypeOK
  <2>4. /\ part' = [part EXCEPT ![c] = m] /\ data' = [data EXCEPT ![m] = kept]
        /\ rx' = [rx EXCEPT ![r].pc = "opened", ![r].fd = m, ![r].hashed = kept]
        /\ stale' = stale \ {c}
        /\ UNCHANGED <<environment, parked, send, peerLock, lockfile, holder, inbox, todo>>
    BY DEF Open
  <2> HIDE DEF c, m, kept
  <2>5. rx' \in [Receivers -> Transfer] /\ Working'
    <3>1. rx' \in [Receivers -> Transfer]
      <4> DEFINE t == [rx[r] EXCEPT !.pc = "opened", !.fd = m, !.hashed = kept]
      <4>1. rx[r] \in Transfer
        BY DEF TypeOK
      <4>2. t \in Transfer
        BY <2>2, <2>3, <4>1 DEF Transfer, Carrying
      <4> QED
        BY <2>4, <4>2 DEF TypeOK
    <3>2. Working'
      BY <1>0, <2>2, <2>4 DEF Open, Transfer, TypeOK, Working, Carrying, Writing
    <3> QED
      BY <3>1, <3>2
  <2> QED
    BY <1>0, <1>01, <2>1, <2>2, <2>3, <2>4, <2>5 DEF TypeOK, environment
<1>28. CASE \E r \in crew.who : Fetch(r)
  <2> PICK r \in crew.who : Fetch(r)
    BY <1>28
  <2> DEFINE kept == SubSeq(rx[r].hashed, 1, resumeOffset(Len(rx[r].hashed), Content(r)))
  <2>1. rx[r].item \in Items /\ Content(r) \in SHAs /\ rx[r].hashed \in Seq(Frames)
    BY DEF Fetch, TypeOK, Working, Carrying, Transfer, Content
  <2>2. kept \in Seq(Frames)
    BY <2>1, ResumeType
  <2>3. /\ data' = [data EXCEPT ![rx[r].fd] = kept]
        /\ rx' = [rx EXCEPT ![r].pc = "stream", ![r].hashed = kept]
        /\ UNCHANGED <<environment, parked, send, peerLock, lockfile, holder, part, stale, inbox,
                       todo>>
    BY DEF Fetch
  <2> HIDE DEF kept
  <2>4. rx' \in [Receivers -> Transfer] /\ Working'
    <3>1. rx' \in [Receivers -> Transfer]
      <4> DEFINE t == [rx[r] EXCEPT !.pc = "stream", !.hashed = kept]
      <4>1. rx[r] \in Transfer
        BY DEF TypeOK
      <4>2. t \in Transfer
        BY <2>2, <4>1 DEF Transfer, Carrying
      <4> QED
        BY <2>3, <4>2 DEF TypeOK
    <3>2. Working'
      BY <1>0, <2>3 DEF Fetch, Transfer, TypeOK, Working, Carrying, Writing
    <3> QED
      BY <3>1, <3>2
  <2> QED
    BY <1>0, <1>01, <2>2, <2>3, <2>4 DEF TypeOK, environment
<1>29. CASE \E r \in crew.who : Ready(r)
  <2> PICK r \in crew.who : Ready(r)
    BY <1>29
  <2>1. CASE End(r)
    BY <1>0, <1>01, <2>1, EndBasics DEF Ready, TypeOK, environment, directory
  <2>2. CASE Step(r, "stream") /\ UNCHANGED <<send, peerLock, holder, todo>>
    <3>1. rx' \in [Receivers -> Transfer]
      <4> DEFINE t == [rx[r] EXCEPT !.pc = "stream"]
      <4>1. rx[r] \in Transfer
        BY DEF TypeOK
      <4>2. t \in Transfer
        BY <2>2, <4>1 DEF Transfer, Carrying
      <4> QED
        BY <2>2, <4>2 DEF Step, TypeOK
    <3>2. Working'
      BY <1>0, <2>2 DEF Ready, Step, Transfer, TypeOK, Working, Carrying, Writing
    <3> QED
      BY <1>0, <1>01, <2>2, <3>1, <3>2 DEF Ready, TypeOK, environment, directory
  <2> QED
    BY <2>1, <2>2 DEF Ready
<1>30. CASE \E r \in crew.who : Receive(r)
  <2> PICK r \in crew.who : Receive(r)
    BY <1>30
  <2> DEFINE k == Len(rx[r].hashed) + 1
             frame == Frame(rx[r].item, k)
             to == IF k = Chunks[Content(r)] THEN "streamed" ELSE "stream"
  <2>1. rx[r].item \in Items /\ rx[r].fd \in Inodes /\ rx[r].hashed \in Seq(Frames)
    BY DEF Receive, TypeOK, Working, Carrying, Writing, Transfer
  <2>2. frame \in Frames
    BY <2>1, FrameType
  <2>3. /\ data' = [data EXCEPT ![rx[r].fd] = Append(@, frame)]
        /\ rx' = [rx EXCEPT ![r].hashed = Append(@, frame), ![r].pc = to]
        /\ stale' \subseteq stale
    BY DEF Receive, TypeOK
  <2>4. to \in {"stream", "streamed"}
    OBVIOUS
  <2> HIDE DEF frame, k, to
  <2>5. Append(rx[r].hashed, frame) \in Seq(Frames)
    BY <2>1, <2>2
  <2>6. data' \in [Inodes -> Seq(Frames)]
    <3>1. \A m \in Inodes : Append(data[m], frame) \in Seq(Frames)
      BY <2>2 DEF TypeOK
    <3> QED
      BY <2>1, <2>3, <3>1 DEF TypeOK
  <2>7. rx' \in [Receivers -> Transfer] /\ Working'
    <3>1. rx' \in [Receivers -> Transfer]
      <4> DEFINE t == [rx[r] EXCEPT !.hashed = Append(@, frame), !.pc = to]
      <4>1. rx[r] \in Transfer
        BY DEF TypeOK
      <4>2. t \in Transfer
        BY <2>4, <2>5, <4>1 DEF Transfer, Carrying
      <4> QED
        BY <2>3, <4>2 DEF TypeOK
    <3>2. Working'
      BY <1>0, <2>3, <2>4 DEF Receive, Transfer, TypeOK, Working, Carrying, Writing
    <3> QED
      BY <3>1, <3>2
  <2> QED
    BY <1>0, <1>01, <2>3, <2>6, <2>7 DEF Receive, TypeOK, environment
<1>31. CASE \E r \in crew.who : Rename(r)
  <2> PICK r \in crew.who : Rename(r)
    BY <1>31
  <2> DEFINE x == rx[r].dst
  <2>1. x \in Places
    BY RunnersAreReceivers DEF Landing, Rename
  <2>2. rx' \in [Receivers -> Transfer] /\ Working'
    <3>1. rx' \in [Receivers -> Transfer]
      <4> DEFINE t == [rx[r] EXCEPT !.pc = "landed"]
      <4>1. rx[r] \in Transfer
        BY DEF TypeOK
      <4>2. t \in Transfer
        BY <4>1 DEF Transfer, Carrying
      <4> QED
        BY <4>2 DEF Rename, Step, TypeOK
    <3>2. Working'
      BY <1>0 DEF Rename, Step, Transfer, TypeOK, Working, Carrying, Writing
    <3> QED
      BY <3>1, <3>2
  <2>3. DOMAIN inbox' = DOMAIN inbox \cup {x} /\ IsFiniteSet(DOMAIN inbox')
    BY FS_AddElement DEF Rename, TypeOK
  <2>4. part[Content(r)] \in Inodes
    BY DEF Rename, TypeOK, Working, Carrying, Transfer, Content
  <2>5. inbox' \in [DOMAIN inbox' -> Inodes]
    BY <2>3, <2>4 DEF Rename, TypeOK
  <2> QED
    BY <1>0, <1>01, <2>1, <2>2, <2>3, <2>5 DEF Rename, TypeOK, environment
<1> QED
  BY <1>1, <1>2, <1>3, <1>4, <1>5, <1>6, <1>7, <1>8, <1>9, <1>10, <1>11, <1>12, <1>13, <1>14,
     <1>15, <1>16, <1>17, <1>18, <1>19, <1>20, <1>21, <1>22, <1>23, <1>24, <1>25, <1>26, <1>27,
     <1>28, <1>29, <1>30, <1>31, <1>32, <1>33 DEF Next, Progress

-----------------------------------------------------------------------------
(* Steps that let go: nothing is written and nothing delivered *)

\* Where a receiver has nothing in hand.
AtRest(q) == rx[q].pc \in {"idle", "wait", "next"} /\ rx[q].item = None /\ rx[q].fd = None

\* A receiver that keeps what it has in hand, or goes on to its stream.
Keeps(q) ==
    /\ rx'[q].item = rx[q].item /\ rx'[q].fd = rx[q].fd
    /\ rx'[q].hashed = rx[q].hashed /\ rx'[q].dst = rx[q].dst
    /\ rx'[q].line = "up" => rx[q].line = "up"
    /\ rx'[q].pc = rx[q].pc \/ (rx[q].pc = "opened" /\ rx'[q].pc = "stream")

\* Some receivers come to rest, some partials and old lock files go; what the
\* others have in hand stays theirs.
LetsGo ==
    /\ UNCHANGED <<crew, inbox, data>>
    /\ \A q \in Receivers : AtRest(q)' \/ Keeps(q)
    /\ \A q \in Receivers : Keeps(q) /\ rx[q].item # None =>
        /\ crew.hours = 0 => holder'[Content(q)] = holder[Content(q)]
        /\ rx[q].pc \in Writing /\ ~Mute(q) => part'[Content(q)] = part[Content(q)]
        /\ Content(q) \in stale' => Content(q) \in stale \/ Mute(q)
    /\ \A s \in SHAs : part'[s] \in {part[s], None}
    /\ crew.hours = 0 => \A s \in SHAs : lockfile'[s] = "old" => lockfile[s] = "old"

IFiles == Basics /\ Turns /\ Files

\* A receiver that ends and gives up its locks, perhaps with its partial.
LEMMA EndLetsGo ==
  ASSUME IFiles, NEW r \in crew.who, UNCHANGED <<crew, inbox, data, lockfile>>,
         AtRest(r)', holder' = Released(r),
         \A q \in Receivers : q # r => rx'[q] = rx[q],
         \/ UNCHANGED <<part, stale>>
         \/ /\ rx[r].item # None
            /\ part' = [part EXCEPT ![Content(r)] = None] /\ stale' = stale \ {Content(r)}
  PROVE  LetsGo
<1> USE RunnersAreReceivers DEF IFiles, Basics
<1>1. \A q \in Receivers : rx[q].item # None => Content(q) \in SHAs
  BY DEF TypeOK, Transfer, Content
<1>2. \A q \in Receivers : AtRest(q)' \/ Keeps(q)
  BY DEF Keeps
<1>3. ASSUME NEW q \in Receivers, q # r, rx[q].item # None
      PROVE  /\ crew.hours = 0 => holder'[Content(q)] = holder[Content(q)]
             /\ part'[Content(q)] = part[Content(q)]
             /\ Content(q) \in stale' => Content(q) \in stale
  <2>1. crew.hours = 0 => holder'[Content(q)] = holder[Content(q)]
    BY <1>1, <1>3 DEF Turns, Released
  <2>2. rx[r].item # None => Content(r) # Content(q)
    BY <1>3 DEF Turns
  <2> QED
    BY <1>1, <1>3, <2>1, <2>2 DEF TypeOK
<1>4. rx'[r].item = None
  BY DEF AtRest, Idle
<1>5. \A s \in SHAs : part'[s] \in {part[s], None}
  BY DEF TypeOK
<1> QED
  BY <1>2, <1>3, <1>4, <1>5 DEF LetsGo, Keeps

\* A sweep takes no partial that is being written, nor, within the hour, a lock.
LEMMA SweepLetsGo ==
  ASSUME IFiles, sweepPartials, UNCHANGED <<crew, inbox, data>>,
         \A q \in Receivers : rx'[q] = rx[q] \/ (AtRest(q) /\ AtRest(q)')
  PROVE  LetsGo
<1> USE DEF IFiles, Basics
<1>1. \A q \in Receivers : rx[q].item # None => Content(q) \in SHAs
  BY DEF TypeOK, Transfer, Content
<1>2. \A q \in Receivers : rx[q].pc \in Writing /\ ~Mute(q) =>
            Content(q) \notin stale /\ rx[q].item # None
  BY DEF Pens, Files, Working, Carrying, Writing
<1>3. \A q \in Receivers : AtRest(q)' \/ Keeps(q)
  BY DEF Keeps
<1>4. crew.hours = 0 => \A s \in SHAs : holder'[s] = holder[s]
  BY DEF Turns, sweepPartials
<1>5. \A q \in Receivers : rx[q].item # None /\ rx[q].pc \in Writing /\ ~Mute(q) =>
                                part'[Content(q)] = part[Content(q)]
  BY <1>1, <1>2 DEF sweepPartials
<1>6. stale' = {}
  BY DEF sweepPartials
<1>7. \A s \in SHAs : part'[s] \in {part[s], None} /\ (lockfile'[s] = "old" => lockfile[s] = "old")
  BY DEF sweepPartials
<1> QED
  BY <1>1, <1>3, <1>4, <1>5, <1>6, <1>7 DEF LetsGo

\* A step that leaves the files, the locks and what is in hand alone.
LEMMA AsideLetsGo ==
  ASSUME UNCHANGED <<crew, inbox, data, part, stale, lockfile, holder>>,
         \A q \in Receivers : AtRest(q)' \/ Keeps(q)
  PROVE  LetsGo
BY DEF LetsGo

\* The steps of a transfer that lead to a file.
Writes == \E r \in crew.who :
    Take(r) \/ Direct(r) \/ Open(r) \/ Fetch(r) \/ Receive(r) \/ Verify(r) \/ Rename(r)

\* A receiver that ends has nothing in hand.
LEMMA EndRests ==
  ASSUME TypeOK, NEW r \in crew.who, End(r)
  PROVE  AtRest(r)' /\ holder' = Released(r) /\ \A q \in Receivers : q # r => rx'[q] = rx[q]
<1>1. rx' = [rx EXCEPT ![r] = Idle] /\ holder' = Released(r)
  BY DEF End
<1>2. rx'[r] = Idle /\ \A q \in Receivers : q # r => rx'[q] = rx[q]
  BY <1>1, RunnersAreReceivers DEF TypeOK
<1> QED
  BY <1>1, <1>2 DEF AtRest, Idle

\* Every other step lets go.
LEMMA StepKinds ==
  ASSUME IFiles, [Next]_vars
  PROVE  LetsGo \/ Writes
<1> USE RunnersAreReceivers DEF IFiles, Basics
<1>1. CASE UNCHANGED vars
  BY <1>1, AsideLetsGo DEF vars, Keeps
<1>2. CASE \E r \in crew.who : Pending(r)
  <2> PICK r \in crew.who : Pending(r)
    BY <1>2
  <2>1. \A q \in Receivers : q # r => rx'[q] = rx[q]
    BY DEF Pending, Step, TypeOK
  <2>2. Keeps(r) \/ AtRest(r)'
    <3> DEFINE t == rx[r]
    <3>1. t \in Transfer /\ t.item = None /\ t.fd = None
      BY DEF Pending, TypeOK, Working, Carrying, Writing
    <3>2. rx'[r] = [t EXCEPT !.pc = "next"]
      BY DEF Pending, Step, TypeOK
    <3> QED
      BY <3>1, <3>2 DEF AtRest, Transfer
  <2> QED
    BY <2>1, <2>2, AsideLetsGo DEF Pending, environment, directory, Keeps
<1>3. CASE \E r \in crew.who : Skip(r)
  BY <1>3, AsideLetsGo DEF Skip, environment, directory, Keeps
<1>4. CASE \E r \in crew.who : PullDone(r) \/ FetchGone(r) \/ RenameFails(r) \/ Abort(r)
                               \/ AckLost(r) \/ Kill(r)
  <2> PICK r \in crew.who : End(r) /\ UNCHANGED <<environment, directory>>
    BY <1>4 DEF PullDone, FetchGone, RenameFails, Abort, AckLost, Kill
  <2>1. AtRest(r)' /\ holder' = Released(r) /\ \A q \in Receivers : q # r => rx'[q] = rx[q]
    BY EndRests
  <2> QED
    BY <2>1, EndLetsGo DEF environment, directory
<1>5. CASE \E r \in crew.who : Mismatch(r) \/ Cancel(r)
  <2> PICK r \in crew.who : /\ End(r) /\ UNCHANGED <<environment, lockfile, inbox, data>>
                            /\ rx[r].pc \in Carrying
                            /\ part' = [part EXCEPT ![Content(r)] = None]
                            /\ stale' = stale \ {Content(r)}
    BY <1>5 DEF Mismatch, Cancel, Carrying
  <2>1. AtRest(r)' /\ holder' = Released(r) /\ \A q \in Receivers : q # r => rx'[q] = rx[q]
    BY EndRests
  <2>2. rx[r].item # None
    BY DEF Working
  <2> QED
    BY <2>1, <2>2, EndLetsGo DEF environment
<1>6. CASE \E r \in crew.who : Ready(r)
  <2> PICK r \in crew.who : Ready(r)
    BY <1>6
  <2>1. CASE End(r)
    <3>1. AtRest(r)' /\ holder' = Released(r) /\ \A q \in Receivers : q # r => rx'[q] = rx[q]
      BY <2>1, EndRests
    <3> QED
      BY <3>1, EndLetsGo DEF Ready, environment, directory
  <2>2. CASE Step(r, "stream") /\ UNCHANGED holder
    <3>1. \A q \in Receivers : Keeps(q)
      BY <2>2 DEF Ready, Step, Keeps, TypeOK, Transfer
    <3> QED
      BY <2>2, <3>1, AsideLetsGo DEF Ready, environment, directory
  <2> QED
    BY <2>1, <2>2 DEF Ready
<1>7. CASE \E r \in crew.who : Break(r) \/ Silence(r)
  <2>1. PICK r \in crew.who : /\ \E to \in {"down", "silent"} : rx' = [rx EXCEPT ![r].line = to]
                             /\ UNCHANGED <<environment, directory, holder>>
    BY <1>7 DEF Break, Silence
  <2>2. \A q \in Receivers : Keeps(q)
    BY <2>1 DEF Keeps, TypeOK, Transfer
  <2> QED
    BY <2>1, <2>2, AsideLetsGo DEF environment, directory
<1>8. CASE \E r \in crew.who : Ack(r) \/ Reply(r)
  <2> PICK r \in crew.who : /\ \E at \in {"idle", "next"} :
                                rx' = [rx EXCEPT ![r] = [Idle EXCEPT !.pc = at]]
                            /\ holder' = Released(r)
                            /\ UNCHANGED <<environment, directory>>
    BY <1>8 DEF Ack, Reply, Idle
  <2>1. \A q \in Receivers : q # r => rx'[q] = rx[q]
    BY DEF TypeOK
  <2>2. AtRest(r)'
    BY DEF AtRest, TypeOK, Idle
  <2> QED
    BY <2>1, <2>2, EndLetsGo DEF environment, directory
<1>9. CASE \E r \in crew.who : Recv(r)
  <2> PICK r \in crew.who : Recv(r)
    BY <1>9
  <2>1. rx' = [rx EXCEPT ![r] = [Idle EXCEPT !.pc = "wait"]] /\ rx[r].pc = "idle"
    BY DEF Recv
  <2>2. \A q \in Receivers : q # r => rx'[q] = rx[q]
    BY <2>1 DEF TypeOK
  <2>3. AtRest(r)'
    BY <2>1 DEF AtRest, TypeOK, Idle
  <2>4. AtRest(r)
    BY <2>1 DEF AtRest, Working, Carrying, Writing
  <2>5. sweepPartials /\ UNCHANGED <<crew, inbox, data>>
    BY DEF Recv, environment
  <2> QED
    BY <2>2, <2>3, <2>4, <2>5, SweepLetsGo
<1>10. CASE Listen
  BY <1>10, SweepLetsGo DEF Listen
<1>11. CASE ListenStop
  <2> DEFINE direct == {r \in Receivers : rx[r].pc # "idle" /\ rx[r].via = "direct"}
  <2>1. /\ rx' = [r \in Receivers |-> IF r \in direct THEN Idle ELSE rx[r]]
        /\ holder' = [s \in SHAs |-> IF holder[s] \in direct THEN None ELSE holder[s]]
        /\ UNCHANGED <<crew, directory>>
    BY <1>11 DEF ListenStop
  <2> HIDE DEF direct
  <2>2. \A q \in Receivers : q \in direct => AtRest(q)'
    BY <2>1 DEF AtRest, Idle
  <2>3. \A q \in Receivers : q \notin direct => Keeps(q)
    BY <2>1 DEF Keeps
  <2>4. \A q \in Receivers : Keeps(q) /\ rx[q].item # None => q \notin direct
    BY <2>1 DEF Keeps, Idle
  <2>5. \A q \in Receivers : Keeps(q) /\ rx[q].item # None /\ crew.hours = 0
            => holder'[Content(q)] = holder[Content(q)]
    BY <2>1, <2>4 DEF Turns, Content, TypeOK, Transfer
  <2>6. \A s \in SHAs : part'[s] = part[s]
    BY <2>1 DEF directory
  <2> QED
    BY <2>1, <2>2, <2>3, <2>5, <2>6 DEF LetsGo, directory
<1>12. CASE Hour
  <2>1. /\ hours < crew.hours /\ UNCHANGED <<crew, holder, part, inbox, data, rx>>
        /\ stale' = {s \in SHAs : part[s] # None /\ \A r \in Receivers :
                                 rx[r].item # None => Content(r) # s \/ Silenced(r)}
    BY <1>12 DEF Hour
  <2>2. crew.hours # 0
    BY <2>1 DEF TypeOK
  <2>3. \A q \in Receivers : Silenced(q) => Mute(q)
    BY DEF Silenced, Mute, Live
  <2> QED
    BY <2>1, <2>2, <2>3 DEF LetsGo, Keeps
<1>13. CASE \/ Dismiss
            \/ \E i \in Items : Miss(i) \/ Offer(i) \/ Deposit(i) \/ DepositFails(i) \/ Expire(i)
  <2>1. UNCHANGED <<crew, inbox, data, part, stale, lockfile, holder, rx>>
    BY <1>13 DEF Dismiss, Miss, Offer, Deposit, DepositFails, Expire, sender, environment, directory
  <2> QED
    BY <2>1, AsideLetsGo DEF Keeps
<1>14. CASE Writes
  BY <1>14
<1> QED
  BY <1>1, <1>2, <1>3, <1>4, <1>5, <1>6, <1>7, <1>8, <1>9, <1>10, <1>11, <1>12, <1>13, <1>14
     DEF Next, Progress, Writes
-----------------------------------------------------------------------------
(* What each kind of step keeps *)

\* Delivered files stay what and where they are.
FilesKept == \A p \in DOMAIN inbox :
    p \in DOMAIN inbox' /\ inbox'[p] = inbox[p] /\ data'[inbox[p]] = data[inbox[p]]

\* So what is delivered stays delivered.
LEMMA KeptIsDelivered ==
  ASSUME crew' = crew, FilesKept, NEW i \in Items, Delivered(i)
  PROVE  Delivered(i)'
BY DEF FilesKept, Delivered, NameOf

\* And an inbox without new files stays whole.
LEMMA KeptIsWhole ==
  ASSUME crew' = crew, inbox' = inbox, FilesKept, InboxWhole
  PROVE  InboxWhole'
<1> SUFFICES ASSUME NEW p \in DOMAIN inbox
             PROVE  \E i \in Items : p[1] = NameOf(i)' /\ data'[inbox[p]] = Whole(ShaOf[i])
  BY DEF InboxWhole, Whole
<1>1. PICK i \in Items : p[1] = NameOf(i) /\ data[inbox[p]] = Whole(ShaOf[i])
  BY DEF InboxWhole
<1>2. NameOf(i)' = NameOf(i) /\ data'[inbox[p]] = data[inbox[p]]
  BY DEF NameOf, FilesKept
<1> QED
  BY <1>1, <1>2

\* What a receiver has in hand has a content.
LEMMA ContentType ==
  ASSUME TypeOK, NEW q \in Receivers, rx[q].item # None
  PROVE  rx[q].item \in Items /\ Content(q) \in SHAs
BY DEF TypeOK, Transfer, Content

\* Letting go harms no file.
LEMMA LetsGoKeeps ==
  ASSUME IFiles, LetsGo
  PROVE  Turns' /\ Files' /\ FilesKept
<1> USE DEF IFiles, Basics
<1>0. UNCHANGED <<crew, inbox, data>>
  BY DEF LetsGo
<1>1. ASSUME NEW q \in Receivers, rx'[q].item # None \/ rx'[q].pc \in Carrying
      PROVE  /\ Keeps(q) /\ rx[q].item # None
             /\ Content(q)' = Content(q) /\ Content(q) \in SHAs
  <2>1. ~AtRest(q)'
    BY <1>1 DEF AtRest, Carrying
  <2>2. Keeps(q)
    BY <2>1 DEF LetsGo
  <2>3. rx[q].item # None
    BY <1>1, <2>2 DEF Keeps, Working, Carrying
  <2> QED
    BY <2>2, <2>3, ContentType DEF Keeps, Content
<1>2. Turns'
  <2>1. \A r, q \in Receivers :
            r # q /\ rx'[r].item # None /\ rx'[q].item # None => Content(r)' # Content(q)'
    BY <1>1 DEF Turns
  <2>2. crew.hours = 0 => \A s \in SHAs : lockfile'[s] # "old"
    BY DEF LetsGo, Turns
  <2>3. crew.hours = 0 => \A r \in Receivers : rx'[r].item # None => holder'[Content(r)'] = r
    BY <1>1 DEF LetsGo, Turns
  <2> QED
    BY <1>0, <2>1, <2>2, <2>3 DEF Turns, Content
<1>3. Pens'
  <2> SUFFICES ASSUME NEW r \in Receivers, rx'[r].pc \in Writing, ~Mute(r)'
               PROVE  /\ part'[Content(r)'] = rx'[r].fd
                      /\ Content(r)' \notin stale'
                      /\ data'[rx'[r].fd] = rx'[r].hashed
                      /\ rx'[r].pc = "verified" => rx'[r].hashed = Whole(Content(r)')
    BY DEF Pens, Whole, Content
  <2>1. Keeps(r) /\ rx[r].item # None /\ Content(r)' = Content(r)
    BY <1>1 DEF Writing, Carrying
  <2>2. rx[r].pc \in Writing /\ ~Mute(r)
    BY <2>1 DEF Keeps, Writing, Mute, Live
  <2>3. part'[Content(r)] = part[Content(r)] /\ (Content(r) \in stale' => Content(r) \in stale)
    BY <2>1, <2>2 DEF LetsGo
  <2> QED
    BY <1>0, <2>1, <2>2, <2>3 DEF Files, Pens, Keeps
<1>4. Separate'
  <2>1. \A s \in SHAs : part'[s] \in {part[s], None}
    BY DEF LetsGo
  <2>2. \A p \in DOMAIN inbox : inbox[p] # None
    BY DEF TypeOK
  <2> QED
    BY <1>0, <2>1, <2>2 DEF Files, Separate
<1>5. FilesKept
  BY <1>0 DEF FilesKept
<1>6. Landing'
  <2>1. ASSUME NEW r \in Receivers, rx'[r].pc = "verified"
        PROVE  /\ rx'[r].dst \in Places' /\ rx'[r].dst[1] = crew'.name[rx'[r].item]
               /\ rx'[r].dst \notin DOMAIN inbox'
    <3>1. Keeps(r) /\ rx[r].pc = "verified"
      BY <1>1, <2>1 DEF Keeps, Carrying
    <3> QED
      BY <1>0, <2>1, <3>1, TransferFixed DEF Files, Landing, Keeps, NameOf
  <2>2. ASSUME NEW r \in Receivers, rx'[r].pc = "landed", NEW i, i = rx'[r].item
        PROVE  Delivered(i)'
    <3>1. Keeps(r) /\ rx[r].pc = "landed" /\ rx[r].item # None
      BY <1>1, <2>2 DEF Keeps, Carrying
    <3>2. i = rx[r].item /\ i \in Items
      BY <2>2, <3>1, ContentType DEF Keeps
    <3>3. Delivered(i)
      BY <3>1, <3>2 DEF Files, Landing
    <3> QED
      BY <1>0, <1>5, <3>2, <3>3, KeptIsDelivered
  <2> QED
    BY <2>1, <2>2 DEF Landing, NameOf, Delivered
<1>7. InboxWhole'
  BY <1>0, <1>5, KeptIsWhole DEF Files
<1> QED
  BY <1>2, <1>3, <1>4, <1>5, <1>6, <1>7 DEF Files
\* A receiver that takes the lock of a content is the only one to carry it.
LEMMA LockKeeps ==
  ASSUME IFiles, NEW r \in crew.who, NEW i \in Items, WellBehaved(crew),
         UNCHANGED <<crew, part, stale, inbox, data>>, lockPartial(r, ShaOf[i]),
         rx[r].item = None, rx'[r].item = i, rx'[r].pc = "locked",
         \A q \in Receivers : q # r => rx'[q] = rx[q]
  PROVE  Turns' /\ Files' /\ FilesKept
<1> USE RunnersAreReceivers DEF IFiles, Basics
<1>1. i # None /\ ShaOf[i] \in SHAs
  OBVIOUS
<1>2. Content(r)' = ShaOf[i] /\ \A q \in Receivers : q # r => Content(q)' = Content(q)
  BY DEF Content
<1>3. ASSUME NEW q \in Receivers, q # r, rx[q].item # None
      PROVE  Content(q) # ShaOf[i] /\ Content(q) \in SHAs
  <2>1. q \in crew.who
    BY <1>3 DEF Working, Idle
  <2>2. crew.hours = 0
    BY <1>3, <2>1 DEF WellBehaved
  <2>3. holder[Content(q)] = q /\ Content(q) \in SHAs
    BY <1>3, <2>2, ContentType DEF Turns
  <2> QED
    BY <2>3 DEF lockPartial
<1>4. Turns'
  <2>1. \A p, q \in Receivers :
            p # q /\ rx'[p].item # None /\ rx'[q].item # None => Content(p)' # Content(q)'
    BY <1>2, <1>3 DEF Turns
  <2>2. crew.hours = 0 => \A s \in SHAs : lockfile'[s] # "old"
    BY <1>1 DEF lockPartial, Turns, TypeOK
  <2>3. crew.hours = 0 => \A q \in Receivers : rx'[q].item # None => holder'[Content(q)'] = q
    <3>1. holder'[ShaOf[i]] = r
      BY <1>1 DEF lockPartial, TypeOK
    <3>2. ASSUME crew.hours = 0, NEW q \in Receivers, q # r, rx[q].item # None
          PROVE  holder'[Content(q)] = q
      BY <1>3, <3>2 DEF lockPartial, Turns, TypeOK
    <3> QED
      BY <1>2, <3>1, <3>2
  <2> QED
    BY <2>1, <2>2, <2>3 DEF Turns, Content
<1>5. Pens'
  <2> SUFFICES ASSUME NEW q \in Receivers, rx'[q].pc \in Writing, ~Mute(q)'
               PROVE  /\ part'[ShaOf[rx'[q].item]] = rx'[q].fd
                      /\ ShaOf[rx'[q].item] \notin stale'
                      /\ data'[rx'[q].fd] = rx'[q].hashed
                      /\ rx'[q].pc = "verified" => rx'[q].hashed = Whole(ShaOf[rx'[q].item])
    BY DEF Pens, Whole, Content
  <2>1. q # r /\ rx'[q] = rx[q] /\ ~Mute(q)
    BY DEF Writing, Mute, Live
  <2> QED
    BY <2>1 DEF Pens, Files, Content
<1>6. Separate'
  BY DEF Separate, Files
<1>7. FilesKept
  BY DEF FilesKept
<1>8. Landing'
  BY TransferFixed DEF Landing, Files, Delivered, NameOf
<1>9. InboxWhole'
  BY <1>7, KeptIsWhole DEF Files
<1> QED
  BY <1>4, <1>5, <1>6, <1>7, <1>8, <1>9 DEF Files

\* A receiver writes into its partial, old or new, and goes on to another step.
WritesTo(r, n, to) ==
    /\ UNCHANGED <<crew, inbox, holder, lockfile>>
    /\ rx[r].item # None /\ n \in Inodes /\ to \in Writing \ {"verified"}
    /\ \A t \in SHAs : t # Content(r) => n # part[t]
    /\ \A p \in DOMAIN inbox : n # inbox[p]
    /\ part' = [part EXCEPT ![Content(r)] = n]
    /\ stale' \subseteq stale /\ Content(r) \notin stale'
    /\ \A m \in Inodes : m # n => data'[m] = data[m]
    /\ rx'[r].item = rx[r].item /\ rx'[r].pc = to /\ rx'[r].fd = n /\ rx'[r].hashed = data'[n]
    /\ \A q \in Receivers : q # r => rx'[q] = rx[q]

\* It disturbs no other file.
LEMMA WriteKeeps ==
  ASSUME IFiles, NEW r \in crew.who, NEW n, NEW to, WritesTo(r, n, to)
  PROVE  Turns' /\ Files' /\ FilesKept
<1> USE RunnersAreReceivers DEF IFiles, Basics, WritesTo
<1>1. \A q \in Receivers : rx'[q].item = rx[q].item /\ Content(q)' = Content(q)
  BY DEF Content
<1>2. Content(r) \in SHAs
  BY ContentType
<1>3. Turns'
  BY <1>1 DEF Turns, Content
<1>4. Pens'
  <2> SUFFICES ASSUME NEW q \in Receivers, rx'[q].pc \in Writing, ~Mute(q)'
               PROVE  /\ part'[Content(q)] = rx'[q].fd
                      /\ Content(q) \notin stale'
                      /\ data'[rx'[q].fd] = rx'[q].hashed
                      /\ rx'[q].pc = "verified" => rx'[q].hashed = Whole(Content(q))
    <3>1. \A q \in Receivers : ShaOf[rx'[q].item] = ShaOf[rx[q].item]
      BY <1>1
    <3> QED
      BY <3>1 DEF Pens, Whole, Content
  <2>1. CASE q = r
    BY <1>2, <2>1 DEF TypeOK
  <2>2. CASE q # r
    <3>1. rx[q].pc \in Writing /\ ~Mute(q) /\ rx[q].item # None
      BY <2>2 DEF Working, Writing, Carrying, Mute, Live
    <3>2. Content(q) # Content(r) /\ Content(q) \in SHAs
      BY <2>2, <3>1, ContentType DEF Turns
    <3>3. part[Content(q)] = rx[q].fd /\ rx[q].fd # n /\ rx[q].fd \in Inodes
      <4>1. part[Content(q)] = rx[q].fd /\ rx[q].fd # None
        BY <3>1 DEF Files, Pens, Working
      <4> QED
        BY <3>2, <4>1 DEF TypeOK
    <3> QED
      BY <2>2, <3>1, <3>2, <3>3 DEF Files, Pens, TypeOK
  <2> QED
    BY <2>1, <2>2
<1>5. Separate'
  <2>1. \A s, t \in SHAs : s # t /\ part'[s] # None => part'[s] # part'[t]
    BY <1>2 DEF Files, Separate, TypeOK
  <2>2. \A s \in SHAs, p \in DOMAIN inbox : inbox[p] # part'[s]
    BY <1>2 DEF Files, Separate, TypeOK
  <2> QED
    BY <2>1, <2>2 DEF Separate
<1>6. FilesKept
  BY DEF FilesKept, TypeOK
<1>7. Landing'
  <2>1. ASSUME NEW q \in Receivers, rx'[q].pc = "verified"
        PROVE  /\ rx'[q].dst \in Places' /\ rx'[q].dst[1] = crew'.name[rx'[q].item]
               /\ rx'[q].dst \notin DOMAIN inbox'
    <3>1. q # r
      BY <2>1
    <3> QED
      BY <2>1, <3>1, TransferFixed DEF Files, Landing, NameOf
  <2>2. ASSUME NEW q \in Receivers, rx'[q].pc = "landed", NEW i, i = rx'[q].item
        PROVE  Delivered(i)'
    <3>1. q # r
      BY <2>2 DEF Writing
    <3>2. rx[q].pc = "landed" /\ i = rx[q].item /\ i \in Items
      BY <2>2, <3>1, ContentType DEF Working, Carrying
    <3>3. Delivered(i)
      BY <3>2 DEF Files, Landing
    <3> QED
      BY <1>6, <3>2, <3>3, KeptIsDelivered
  <2> QED
    BY <2>1, <2>2 DEF Landing, NameOf, Delivered
<1>8. InboxWhole'
  BY <1>6, KeptIsWhole DEF Files
<1> QED
  BY <1>3, <1>4, <1>5, <1>6, <1>7, <1>8 DEF Files
\* A file whose hash agrees is whole, and the name looked up for it is free.
LEMMA VerifyKeeps ==
  ASSUME IFiles, NEW r \in crew.who, Verify(r)
  PROVE  Turns' /\ Files' /\ FilesKept
<1> USE RunnersAreReceivers DEF IFiles, Basics
<1> DEFINE free == uniquePath(NameOf(rx[r].item))
<1>1. /\ rx[r].pc = "streamed" /\ rx[r].hashed = Whole(Content(r))
      /\ rx' = [rx EXCEPT ![r].pc = "verified", ![r].dst = free]
      /\ UNCHANGED <<crew, lockfile, part, stale, inbox, data, holder>>
  BY DEF Verify, Intact, environment, directory
<1>2. /\ free \in Places /\ free[1] = NameOf(rx[r].item) /\ free \notin DOMAIN inbox
  BY <1>1, UniquePathIsFree, ContentType DEF Working, Carrying
<1> HIDE DEF free
<1>3. /\ rx'[r].pc = "verified" /\ rx'[r].dst = free /\ rx'[r].item = rx[r].item
      /\ rx'[r].fd = rx[r].fd /\ rx'[r].hashed = rx[r].hashed
      /\ \A q \in Receivers : q # r => rx'[q] = rx[q]
  BY <1>1 DEF TypeOK, Transfer
<1>0. UNCHANGED <<crew, lockfile, part, stale, inbox, data, holder>>
  BY <1>1
<1>4. \A q \in Receivers : rx'[q].item = rx[q].item
  BY <1>3
<1>5. Turns'
  BY <1>0, <1>4 DEF Turns, Content
<1>6. Pens'
  <2> SUFFICES ASSUME NEW q \in Receivers, rx'[q].pc \in Writing, ~Mute(q)'
               PROVE  /\ part'[ShaOf[rx'[q].item]] = rx'[q].fd
                      /\ ShaOf[rx'[q].item] \notin stale'
                      /\ data'[rx'[q].fd] = rx'[q].hashed
                      /\ rx'[q].pc = "verified" => rx'[q].hashed = Whole(ShaOf[rx'[q].item])
    BY DEF Pens, Whole, Content
  <2>1. CASE q = r
    <3>1. rx[r].pc \in Writing /\ ~Mute(r) /\ rx[r].hashed = Whole(ShaOf[rx[r].item])
      BY <1>1 DEF Writing, Mute, Content
    <3>2. /\ part[ShaOf[rx[r].item]] = rx[r].fd /\ ShaOf[rx[r].item] \notin stale
          /\ data[rx[r].fd] = rx[r].hashed
      BY <3>1 DEF Pens, Files, Content
    <3> QED
      BY <1>0, <1>3, <2>1, <3>1, <3>2
  <2>2. CASE q # r
    BY <1>0, <1>3, <2>2 DEF Pens, Files, Content, Mute, Live
  <2> QED
    BY <2>1, <2>2
<1>7. Separate'
  BY <1>1 DEF Separate, Files
<1>8. FilesKept
  BY <1>1 DEF FilesKept
<1>9. Landing'
  <2>1. ASSUME NEW q \in Receivers, rx'[q].pc = "verified"
        PROVE  /\ rx'[q].dst \in Places' /\ rx'[q].dst[1] = crew'.name[rx'[q].item]
               /\ rx'[q].dst \notin DOMAIN inbox'
    <3>1. CASE q = r
      BY <1>0, <1>2, <1>3, <3>1, TransferFixed DEF NameOf
    <3>2. CASE q # r
      BY <1>0, <1>3, <2>1, <3>2, TransferFixed DEF Files, Landing, NameOf
    <3> QED
      BY <3>1, <3>2
  <2>2. ASSUME NEW q \in Receivers, rx'[q].pc = "landed", NEW i, i = rx'[q].item
        PROVE  Delivered(i)'
    <3>1. q # r /\ rx[q].pc = "landed" /\ i = rx[q].item
      BY <1>3, <2>2
    <3> QED
      BY <1>0, <3>1 DEF Files, Landing, Delivered, NameOf, Whole
  <2> QED
    BY <2>1, <2>2 DEF Landing, NameOf, Delivered
<1>10. InboxWhole'
  BY <1>1, <1>8, KeptIsWhole DEF Files
<1> QED
  BY <1>5, <1>6, <1>7, <1>8, <1>9, <1>10 DEF Files

\* A rename delivers the file that was verified, under a name of its own.
LEMMA RenameKeeps ==
  ASSUME IFiles, NEW r \in crew.who, Rename(r), WellBehaved(crew)
  PROVE  Turns' /\ Files' /\ FilesKept
<1> USE RunnersAreReceivers DEF IFiles, Basics
<1> DEFINE x == rx[r].dst
           c == Content(r)
           n == part[c]
<1>1. /\ rx[r].pc = "verified" /\ n # None
      /\ inbox' = [q \in DOMAIN inbox \cup {x} |-> IF q = x THEN n ELSE inbox[q]]
      /\ part' = [part EXCEPT ![c] = None] /\ stale' = stale \ {c}
      /\ rx' = [rx EXCEPT ![r].pc = "landed"]
      /\ UNCHANGED <<crew, lockfile, data, holder>>
  BY DEF Rename, Step, environment
<1>2. /\ rx[r].item \in Items /\ c \in SHAs
  BY <1>1, ContentType DEF Working, Carrying
<1>3. n = rx[r].fd /\ data[n] = Whole(c)
  BY <1>1 DEF Files, Pens, Writing, Mute
<1>4. x \in Places /\ x[1] = NameOf(rx[r].item) /\ x \notin DOMAIN inbox
  BY <1>1 DEF Files, Landing
<1>5. \A s \in SHAs : s # c => part[s] # n
  BY <1>1, <1>2 DEF Files, Separate
<1>6. n \in Inodes
  BY <1>1, <1>2 DEF TypeOK
<1>7. /\ rx'[r].pc = "landed" /\ rx'[r].item = rx[r].item
      /\ \A q \in Receivers : q # r => rx'[q] = rx[q]
  BY <1>1 DEF TypeOK, Transfer
<1>8. /\ DOMAIN inbox' = DOMAIN inbox \cup {x} /\ inbox'[x] = n
      /\ \A p \in DOMAIN inbox : inbox'[p] = inbox[p]
  BY <1>1, <1>4
<1>9. part'[c] = None /\ \A s \in SHAs : s # c => part'[s] = part[s]
  BY <1>1, <1>2 DEF TypeOK
<1>10. Turns'
  <2>1. \A q \in Receivers : rx'[q].item = rx[q].item
    BY <1>7
  <2> QED
    BY <1>1, <2>1 DEF Turns, Content
<1>11. UNCHANGED <<crew, data>> /\ stale' \subseteq stale
  BY <1>1
<1>12. Content(r) = c
  OBVIOUS
<1> HIDE DEF x, n, c
<1>13. Pens'
  <2> SUFFICES ASSUME NEW q \in Receivers, rx'[q].pc \in Writing, ~Mute(q)'
               PROVE  /\ part'[ShaOf[rx'[q].item]] = rx'[q].fd
                      /\ ShaOf[rx'[q].item] \notin stale'
                      /\ data'[rx'[q].fd] = rx'[q].hashed
                      /\ rx'[q].pc = "verified" => rx'[q].hashed = Whole(ShaOf[rx'[q].item])
    BY DEF Pens, Whole, Content
  <2>1. q # r /\ rx'[q] = rx[q] /\ ~Mute(q)
    BY <1>7 DEF Writing, Mute, Live
  <2>2. rx[q].item # None /\ rx[r].item # None
    BY <1>1, <2>1 DEF Working, Writing, Carrying
  <2>3. Content(q) # c /\ Content(q) \in SHAs
    BY <1>12, <2>1, <2>2, ContentType DEF Turns
  <2> QED
    BY <1>9, <1>11, <2>1, <2>3 DEF Pens, Files, Content
<1>14. Separate'
  <2>1. \A s, t \in SHAs : s # t /\ part'[s] # None => part'[s] # part'[t]
    BY <1>9 DEF Files, Separate
  <2>2. \A p \in DOMAIN inbox' : inbox'[p] # None
    BY <1>6, <1>8 DEF TypeOK
  <2>3. \A s \in SHAs, p \in DOMAIN inbox' : inbox'[p] # part'[s]
    BY <1>5, <1>8, <1>9, <2>2 DEF Files, Separate
  <2> QED
    BY <2>1, <2>3 DEF Separate
<1>15. FilesKept
  BY <1>8, <1>11 DEF FilesKept
<1>16. Landing'
  <2>1. ASSUME NEW q \in Receivers, rx'[q].pc = "verified"
        PROVE  /\ rx'[q].dst \in Places' /\ rx'[q].dst[1] = crew'.name[rx'[q].item]
               /\ rx'[q].dst \notin DOMAIN inbox'
    <3>1. q # r /\ rx'[q] = rx[q]
      BY <1>7, <2>1
    <3>2. rx[q].dst \in Places /\ rx[q].dst[1] = NameOf(rx[q].item) /\ rx[q].dst \notin DOMAIN inbox
      BY <2>1, <3>1 DEF Files, Landing
    <3>3. rx[q].item # None /\ rx[r].item # None
      BY <1>1, <2>1, <3>1 DEF Working, Carrying
    <3>4. rx[q].item \in Items /\ rx[q].item # rx[r].item
      BY <3>1, <3>3, ContentType DEF Turns, Content
    <3>5. q \in crew.who
      BY <3>3 DEF Working, Idle
    <3>6. NameOf(rx[q].item) # NameOf(rx[r].item)
      BY <1>2, <3>1, <3>4, <3>5 DEF WellBehaved, NameOf
    <3>7. rx[q].dst # x
      BY <1>4, <3>2, <3>6
    <3> QED
      BY <1>8, <1>11, <3>1, <3>2, <3>7, TransferFixed DEF NameOf
  <2>2. ASSUME NEW q \in Receivers, rx'[q].pc = "landed", NEW i, i = rx'[q].item
        PROVE  Delivered(i)'
    <3>1. CASE q = r
      <4>1. i = rx[r].item /\ x \in DOMAIN inbox' /\ data'[inbox'[x]] = Whole(ShaOf[i])
        BY <1>3, <1>7, <1>8, <1>11, <1>12, <2>2, <3>1 DEF Content
      <4>2. x[1] = crew'.name[i]
        BY <1>4, <1>11, <4>1 DEF NameOf
      <4> QED
        BY <4>1, <4>2 DEF Delivered, NameOf, Whole
    <3>2. CASE q # r
      <4>1. rx[q].pc = "landed" /\ i = rx[q].item /\ i \in Items
        BY <1>7, <2>2, <3>2, ContentType DEF Working, Carrying
      <4>2. Delivered(i)
        BY <4>1 DEF Files, Landing
      <4> QED
        BY <1>11, <1>15, <4>1, <4>2, KeptIsDelivered
    <3> QED
      BY <3>1, <3>2
  <2> QED
    BY <2>1, <2>2 DEF Landing, NameOf, Delivered
<1>17. InboxWhole'
  <2> SUFFICES ASSUME NEW p \in DOMAIN inbox'
               PROVE  \E i \in Items : p[1] = crew'.name[i] /\ data'[inbox'[p]] = Whole(ShaOf[i])
    BY DEF InboxWhole, NameOf, Whole
  <2>1. CASE p = x
    BY <1>2, <1>3, <1>4, <1>8, <1>11, <1>12, <2>1 DEF NameOf, Content
  <2>2. CASE p \in DOMAIN inbox
    <3>1. PICK i \in Items : p[1] = NameOf(i) /\ data[inbox[p]] = Whole(ShaOf[i])
      BY <2>2 DEF Files, InboxWhole
    <3> QED
      BY <1>8, <1>11, <2>2, <3>1 DEF NameOf
  <2> QED
    BY <1>8, <2>1, <2>2
<1> QED
  BY <1>10, <1>13, <1>14, <1>15, <1>16, <1>17 DEF Files
\* Every step of a transfer keeps the files.
LEMMA WritesKeep ==
  ASSUME IFiles, Endless, WellBehaved(crew), Writes
  PROVE  Turns' /\ Files' /\ FilesKept
<1> USE RunnersAreReceivers DEF IFiles, Basics
<1>1. CASE \E r \in crew.who : Take(r)
  <2> PICK r \in crew.who : Take(r)
    BY <1>1
  <2> PICK i \in todo : /\ lockPartial(r, ShaOf[i])
                        /\ rx' = [rx EXCEPT ![r].pc = "locked", ![r].item = i, ![r].hashed = <<>>]
    BY DEF Take
  <2>1. i \in Items /\ rx[r].item = None
    BY DEF Take, TypeOK, Working, Carrying
  <2>2. UNCHANGED <<crew, part, stale, inbox, data>>
    BY DEF Take, environment
  <2>3. rx'[r].item = i /\ rx'[r].pc = "locked" /\ \A q \in Receivers : q # r => rx'[q] = rx[q]
    BY DEF TypeOK, Transfer
  <2> QED
    BY <2>1, <2>2, <2>3, LockKeeps
<1>2. CASE \E r \in crew.who : Direct(r)
  <2> PICK r \in crew.who : Direct(r)
    BY <1>2
  <2> PICK i \in Items : /\ lockPartial(r, ShaOf[i])
        /\ rx' = [rx EXCEPT ![r] = [Idle EXCEPT !.pc = "locked", !.via = "direct", !.item = i]]
    BY DEF Direct
  <2>1. rx[r].item = None
    BY DEF Direct, Working, Carrying
  <2>2. UNCHANGED <<crew, part, stale, inbox, data>>
    BY DEF Direct, environment
  <2>3. rx'[r].item = i /\ rx'[r].pc = "locked" /\ \A q \in Receivers : q # r => rx'[q] = rx[q]
    BY DEF TypeOK, Idle
  <2> QED
    BY <2>1, <2>2, <2>3, LockKeeps
<1>3. CASE \E r \in crew.who : Open(r)
  <2> PICK r \in crew.who : Open(r)
    BY <1>3
  <2> DEFINE c == Content(r)
             n == IF part[c] = None THEN FreeInode ELSE part[c]
             kept == IF part[c] = None THEN <<>> ELSE Boundary(c, data[n])
  <2>1. rx[r].item # None /\ c \in SHAs
    BY ContentType DEF Open, Working, Carrying
  <2>2. n \in Inodes
    BY <2>1, FreeInodeIsFree DEF TypeOK
  <2>3. /\ \A t \in SHAs : t # c => n # part[t]
        /\ \A p \in DOMAIN inbox : n # inbox[p]
    BY <2>1, FreeInodeIsFree DEF Files, Separate
  <2>4. /\ part' = [part EXCEPT ![c] = n] /\ data' = [data EXCEPT ![n] = kept]
        /\ stale' = stale \ {c}
        /\ rx' = [rx EXCEPT ![r].pc = "opened", ![r].fd = n, ![r].hashed = kept]
        /\ UNCHANGED <<crew, inbox, holder, lockfile>>
    BY DEF Open, environment
  <2>5. c = Content(r)
    OBVIOUS
  <2> HIDE DEF c, n, kept
  <2>6. data'[n] = kept /\ \A m \in Inodes : m # n => data'[m] = data[m]
    BY <2>2, <2>4 DEF TypeOK
  <2>7. /\ rx'[r].item = rx[r].item /\ rx'[r].pc = "opened" /\ rx'[r].fd = n
        /\ rx'[r].hashed = kept
        /\ \A q \in Receivers : q # r => rx'[q] = rx[q]
    BY <2>4 DEF TypeOK, Transfer
  <2>8. "opened" \in Writing /\ stale' \subseteq stale /\ Content(r) \notin stale'
    BY <2>4, <2>5 DEF Writing
  <2>9. UNCHANGED <<crew, inbox, holder, lockfile>> /\ part' = [part EXCEPT ![Content(r)] = n]
    BY <2>4, <2>5
  <2>10. WritesTo(r, n, "opened")
    BY <2>1, <2>2, <2>3, <2>5, <2>6, <2>7, <2>8, <2>9 DEF WritesTo
  <2> QED
    BY <2>10, WriteKeeps
<1>4. ASSUME NEW r \in crew.who, rx[r].pc \in Writing, ~Mute(r)
      PROVE  /\ rx[r].item # None /\ Content(r) \in SHAs
             /\ rx[r].fd \in Inodes /\ data[rx[r].fd] = rx[r].hashed
             /\ \A t \in SHAs : t # Content(r) => rx[r].fd # part[t]
             /\ \A p \in DOMAIN inbox : rx[r].fd # inbox[p]
             /\ part = [part EXCEPT ![Content(r)] = rx[r].fd]
             /\ Content(r) \notin stale
  <2>1. rx[r].item # None /\ rx[r].fd # None /\ Content(r) \in SHAs
    BY <1>4, ContentType DEF Working, Writing, Carrying
  <2>2. /\ part[Content(r)] = rx[r].fd /\ data[rx[r].fd] = rx[r].hashed
        /\ Content(r) \notin stale
    BY <1>4 DEF Files, Pens
  <2>3. part = [part EXCEPT ![Content(r)] = rx[r].fd]
    BY <2>1, <2>2 DEF TypeOK
  <2>4. rx[r].fd \in Inodes
    BY <2>1, <2>2 DEF TypeOK
  <2>5. /\ \A t \in SHAs : t # Content(r) => rx[r].fd # part[t]
        /\ \A p \in DOMAIN inbox : rx[r].fd # inbox[p]
    BY <2>1, <2>2 DEF Files, Separate
  <2> QED
    BY <2>1, <2>2, <2>3, <2>4, <2>5
<1>5. CASE \E r \in crew.who : Fetch(r)
  <2> PICK r \in crew.who : Fetch(r)
    BY <1>5
  <2> DEFINE kept == SubSeq(rx[r].hashed, 1, resumeOffset(Len(rx[r].hashed), Content(r)))
             n == rx[r].fd
  <2>1. rx[r].pc = "opened" /\ rx[r].pc \in Writing /\ ~Mute(r) /\ "stream" \in Writing
    BY DEF Fetch, Writing, Mute
  <2>2. /\ data' = [data EXCEPT ![n] = kept]
        /\ rx' = [rx EXCEPT ![r].pc = "stream", ![r].hashed = kept]
        /\ UNCHANGED <<crew, inbox, holder, lockfile, part, stale>>
    BY DEF Fetch, environment
  <2> HIDE DEF kept
  <2>3. data'[n] = kept /\ \A m \in Inodes : m # n => data'[m] = data[m]
    BY <1>4, <2>1, <2>2 DEF TypeOK
  <2>4. /\ rx'[r].item = rx[r].item /\ rx'[r].pc = "stream" /\ rx'[r].fd = n
        /\ rx'[r].hashed = kept
        /\ \A q \in Receivers : q # r => rx'[q] = rx[q]
    BY <2>2 DEF TypeOK, Transfer
  <2>5. /\ UNCHANGED <<crew, inbox, holder, lockfile>> /\ stale' \subseteq stale
        /\ part' = [part EXCEPT ![Content(r)] = n] /\ Content(r) \notin stale'
    BY <1>4, <2>1, <2>2
  <2>6. WritesTo(r, n, "stream")
    BY <1>4, <2>1, <2>3, <2>4, <2>5 DEF WritesTo
  <2> QED
    BY <2>6, WriteKeeps
<1>6. CASE \E r \in crew.who : Receive(r)
  <2> PICK r \in crew.who : Receive(r)
    BY <1>6
  <2> DEFINE k == Len(rx[r].hashed) + 1
             frame == Frame(rx[r].item, k)
             to == IF k = Chunks[Content(r)] THEN "streamed" ELSE "stream"
             n == rx[r].fd
  <2>1. rx[r].pc = "stream" /\ rx[r].pc \in Writing /\ ~Mute(r)
    BY DEF Receive, Writing, Mute
  <2>2. to \in Writing /\ to # "verified"
    BY DEF Writing
  <2>3. /\ data' = [data EXCEPT ![n] = Append(data[n], frame)]
        /\ rx' = [rx EXCEPT ![r].hashed = Append(rx[r].hashed, frame), ![r].pc = to]
        /\ stale' \subseteq stale
        /\ UNCHANGED <<crew, inbox, holder, lockfile, part>>
    BY <2>1 DEF Receive, environment, TypeOK
  <2> HIDE DEF k, frame, to
  <2>4. data'[n] = Append(rx[r].hashed, frame) /\ \A m \in Inodes : m # n => data'[m] = data[m]
    BY <1>4, <2>1, <2>3 DEF TypeOK
  <2>5. /\ rx'[r].item = rx[r].item /\ rx'[r].pc = to /\ rx'[r].fd = n
        /\ rx'[r].hashed = Append(rx[r].hashed, frame)
        /\ \A q \in Receivers : q # r => rx'[q] = rx[q]
    BY <2>3 DEF TypeOK, Transfer
  <2>6. /\ UNCHANGED <<crew, inbox, holder, lockfile>>
        /\ part' = [part EXCEPT ![Content(r)] = n] /\ Content(r) \notin stale'
    BY <1>4, <2>1, <2>3
  <2>7. WritesTo(r, n, to)
    BY <1>4, <2>1, <2>2, <2>3, <2>4, <2>5, <2>6 DEF WritesTo
  <2> QED
    BY <2>7, WriteKeeps
<1>7. CASE \E r \in crew.who : Verify(r) \/ Rename(r)
  BY <1>7, VerifyKeeps, RenameKeeps
<1> QED
  BY <1>1, <1>2, <1>3, <1>5, <1>6, <1>7 DEF Writes
-----------------------------------------------------------------------------
(* What a sender was told *)

\* What a sender is told: its item, or one of the same content, is kept.
Told(i) ==
    /\ send'[i] = "sent" => send[i] = "sent" \/ i \in parked' \/ Delivered(i)
    /\ send'[i] = "known" =>
        send[i] = "known" \/ \E j \in parked : ShaOf[j] = ShaOf[i]

\* The parked items stay parked, and no sender is told anything.
Silent == \A i \in Items : send'[i] \in {"sent", "known"} => send'[i] = send[i]
Quiet == UNCHANGED <<parked, dropped>> /\ Silent

\* Only a receiver whose file has landed reports it, only such an item or a
\* dropped one leaves the stash, and only a parked content is known to it.
LEMMA SendersAreTold ==
  ASSUME IFiles, [Next]_vars
  PROVE  /\ \A i \in Items : Told(i)
         /\ \A i \in parked : i \in parked' \cup dropped' \/ Delivered(i)
         /\ dropped \subseteq dropped'
<1> USE RunnersAreReceivers DEF IFiles, Basics
<1> SUFFICES ASSUME ~Quiet
             PROVE  /\ \A i \in Items : Told(i)
                    /\ \A i \in parked : i \in parked' \cup dropped' \/ Delivered(i)
                    /\ dropped \subseteq dropped'
  BY DEF Quiet, Silent, Told
<1>0. ASSUME NEW i, NEW v, v \notin {"sent", "known"}, send' = [send EXCEPT ![i] = v]
      PROVE  Silent
  BY <1>0 DEF Silent, TypeOK
<1>1. ASSUME NEW r \in crew.who, End(r)
      PROVE  Silent
  <2>1. send' = send \/ send' = [send EXCEPT ![rx[r].item] = "stash"]
    BY <1>1 DEF End
  <2> QED
    BY <1>0, <2>1 DEF Silent
<1>2. ASSUME \E r \in crew.who : PullDone(r) \/ FetchGone(r) \/ RenameFails(r) \/ Abort(r)
                                 \/ Kill(r) \/ Mismatch(r) \/ Cancel(r)
      PROVE  FALSE
  <2> PICK r \in crew.who : End(r) /\ UNCHANGED <<parked, dropped>>
    BY <1>2 DEF PullDone, FetchGone, RenameFails, Abort, Kill, Mismatch, Cancel, environment
  <2> QED
    BY <1>1 DEF Quiet
<1>3. ASSUME \E r \in crew.who : Ready(r)
      PROVE  FALSE
  <2> PICK r \in crew.who : Ready(r)
    BY <1>3
  <2>1. UNCHANGED <<parked, dropped>> /\ (End(r) \/ UNCHANGED send)
    BY DEF Ready, environment
  <2> QED
    BY <1>1, <2>1 DEF Quiet, Silent
<1>4. ASSUME \/ UNCHANGED vars \/ Listen \/ Hour
             \/ \E r \in crew.who : Pending(r) \/ Skip(r) \/ Take(r) \/ Open(r) \/ Fetch(r)
                    \/ Receive(r) \/ Verify(r) \/ Rename(r) \/ Recv(r)
      PROVE  FALSE
  <2>1. UNCHANGED <<parked, dropped, send>>
    BY <1>4 DEF vars, Listen, Hour, Pending, Skip, Take, Open, Fetch, Receive, Verify, Rename,
                Recv, environment
  <2> QED
    BY <2>1 DEF Quiet, Silent
<1>5. ASSUME \/ \E r \in crew.who : Direct(r) \/ Break(r)
             \/ \E i \in Items : Miss(i)
      PROVE  FALSE
  <2>1. UNCHANGED <<parked, dropped>>
    BY <1>5 DEF Direct, Break, Miss, sender, environment
  <2>2. \/ UNCHANGED send
        \/ \E i, v : v \in {"direct", "stash"} /\ send' = [send EXCEPT ![i] = v]
    BY <1>5 DEF Direct, Break, Miss
  <2>3. Silent
    BY <1>0, <2>2 DEF Silent
  <2> QED
    BY <2>1, <2>3 DEF Quiet
<1>6. ASSUME ListenStop
      PROVE  FALSE
  BY <1>6 DEF ListenStop, Quiet, Silent
<1>7. CASE \E r \in crew.who : Ack(r) \/ AckLost(r) \/ Silence(r)
  <2>1. PICK r \in crew.who : /\ \/ parked' = parked
                                \/ /\ rx[r].pc = "landed"
                                   /\ parked' = parked \ {rx[r].item}
                             /\ dropped' = dropped /\ Silent
    BY <1>1, <1>7 DEF Ack, AckLost, Silence, environment, Silent
  <2>2. rx[r].pc = "landed" => Delivered(rx[r].item)
    BY DEF Files, Landing
  <2>3. \A i \in Items : Told(i)
    BY <2>1 DEF Silent, Told
  <2> QED
    BY <2>1, <2>2, <2>3
<1>8. CASE \E r \in crew.who : Reply(r)
  <2> PICK r \in crew.who : /\ rx[r].pc = "landed" /\ UNCHANGED <<parked, dropped>>
                            /\ send' = send \/ send' = [send EXCEPT ![rx[r].item] = "sent"]
    BY <1>8 DEF Reply, environment
  <2>1. Delivered(rx[r].item)
    BY DEF Files, Landing
  <2>2. \A i \in Items : send'[i] = send[i] \/ (i = rx[r].item /\ send'[i] = "sent")
    BY DEF TypeOK
  <2>3. \A i \in Items : Told(i)
    BY <2>1, <2>2 DEF Told
  <2> QED
    BY <2>3
<1>9. CASE \E i \in Items : Deposit(i)
  BY <1>9 DEF Deposit, sender, environment, TypeOK, Told
<1>10. CASE \E i \in Items : DepositFails(i)
  <2> PICK i \in Items : DepositFails(i)
    BY <1>10
  <2>1. /\ parked \subseteq parked' /\ dropped' = dropped /\ send' = [send EXCEPT ![i] = "new"]
    BY DEF DepositFails, sender, environment
  <2>2. \A j \in Items : Told(j)
    BY <1>0, <2>1 DEF Silent, Told
  <2> QED
    BY <2>1, <2>2
<1>11. CASE \E i \in Items : Offer(i)
  <2> PICK i \in Items : Offer(i)
    BY <1>11
  <2>1. UNCHANGED <<parked, dropped>>
    BY DEF Offer, sender, environment
  <2>2. CASE \E j \in parked : ShaOf[j] = ShaOf[i]
    <3>1. \A k \in Items : send'[k] = send[k] \/ (k = i /\ send'[k] = "known")
      BY <2>2 DEF Offer, TypeOK
    <3>2. \A k \in Items : Told(k)
      BY <2>2, <3>1 DEF Told
    <3> QED
      BY <2>1, <3>2
  <2>3. CASE ~ \E j \in parked : ShaOf[j] = ShaOf[i]
    <3>1. send' = [send EXCEPT ![i] = "deposit"]
      BY <2>3 DEF Offer
    <3>2. Silent
      BY <1>0, <3>1
    <3> QED
      BY <2>1, <3>2 DEF Quiet
  <2> QED
    BY <2>2, <2>3
<1>12. CASE Dismiss \/ \E i \in Items : Expire(i)
  <2> PICK i : parked' = parked \ {i} /\ dropped' = dropped \cup {i} /\ UNCHANGED send
    BY <1>12 DEF Dismiss, Expire
  <2> QED
    BY DEF Told
<1> QED
  BY <1>2, <1>3, <1>4, <1>5, <1>6, <1>7, <1>8, <1>9, <1>10, <1>11, <1>12 DEF Next, Progress

-----------------------------------------------------------------------------
(* The theorems *)

\* A peer begins with an empty directory, and nobody told anything.
LEMMA InitHolds ==
  ASSUME Init PROVE IInv
<1>1. Basics
  BY InitBasics
<1>2. Turns
  BY DEF Init, Turns, Idle
<1>3. Files
  BY <1>1 DEF Init, Idle, Files, Pens, Separate, Landing, InboxWhole, Writing
<1>4. SentIsKept
  BY DEF Init, SentIsKept
<1> QED
  BY <1>1, <1>2, <1>3, <1>4 DEF IInv, Basics

\* Every step keeps the invariant, and every file that was delivered.
LEMMA NextHolds ==
  ASSUME IInv, Endless, \A c \in Crews : WellBehaved(c), [Next]_vars
  PROVE  IInv' /\ FilesKept
<1>1. IFiles /\ Basics /\ Landing /\ WellBehaved(crew)
  BY DEF IInv, IFiles, Basics, Files, TypeOK
<1>2. Basics'
  BY <1>1, NextBasics
<1>3. Turns' /\ Files' /\ FilesKept
  BY <1>1, StepKinds, LetsGoKeeps, WritesKeep
<1>4. SentIsKept'
  <2>1. ASSUME NEW i \in Items, Kept(i)
        PROVE  Kept(i)'
    <3>1. i \in parked' \/ i \in dropped' \/ Delivered(i)
      BY <1>1, <2>1, SendersAreTold DEF Kept
    <3> QED
      BY <1>3, <3>1, CrewIsFixed, KeptIsDelivered DEF Kept
  <2>2. ASSUME NEW i \in Items, send'[i] = "sent"
        PROVE  Kept(i)'
    <3>1. send[i] = "sent" \/ i \in parked' \/ Delivered(i)
      BY <1>1, <2>2, SendersAreTold DEF Told
    <3>2. send[i] = "sent" => Kept(i)
      BY DEF IInv, SentIsKept
    <3>3. i \in parked' => Kept(i)'
      BY DEF Kept
    <3> QED
      BY <2>1, <3>1, <3>2, <3>3 DEF Kept
  <2>3. ASSUME NEW i \in Items, send'[i] = "known"
        PROVE  \E j \in Items : ShaOf[j] = ShaOf[i] /\ Kept(j)'
    <3>1. send[i] = "known" \/ \E j \in parked : ShaOf[j] = ShaOf[i]
      BY <1>1, <2>3, SendersAreTold DEF Told
    <3>2. \E j \in Items : ShaOf[j] = ShaOf[i] /\ Kept(j)
      BY <1>1, <3>1 DEF IInv, SentIsKept, Kept, Basics, TypeOK
    <3> QED
      BY <2>1, <3>2
  <2> QED
    BY <2>2, <2>3 DEF SentIsKept, Kept, Delivered, NameOf
<1> QED
  BY <1>2, <1>3, <1>4 DEF IInv, Basics

\* What is said of well-behaved crews holds from the start and for ever.
THEOREM InboxInvariance ==
  ASSUME Endless, \A c \in Crews : WellBehaved(c)
  PROVE  Spec => []IInv
<1>1. Init => IInv
  BY InitHolds
<1>2. IInv /\ [Next]_vars => IInv'
  BY NextHolds
<1> QED
  BY <1>1, <1>2, PTL DEF Spec

\* Nothing torn, doubled or of another name is ever in the download directory,
\* whatever breaks, resumes, is killed or is edited under way (client.go:953).
THEOREM DeliveredFilesAreWhole ==
  ASSUME Endless, \A c \in Crews : WellBehaved(c)
  PROVE  Spec => []InboxWhole
<1>1. IInv => InboxWhole
  BY DEF IInv, Files
<1> QED
  BY <1>1, InboxInvariance, PTL

\* No two receivers have a partial of one content open (partial.go:34).
THEOREM ReceiversExclude ==
  ASSUME Endless, \A c \in Crews : WellBehaved(c)
  PROVE  Spec => []OneReceiver
<1>1. IInv => OneReceiver
  BY DEF IInv, Working, Writing, Carrying, Turns, OneReceiver
<1> QED
  BY <1>1, InboxInvariance, PTL

\* What a sender was told is sent is at the stash or delivered, or was dropped
\* on purpose (client.go:976-984, recv.go:359-375); of a sender whose content was
\* parked already that is so of an item of that content (serve.go:577-581).
THEOREM NothingSentIsLost ==
  ASSUME Endless, \A c \in Crews : WellBehaved(c)
  PROVE  Spec => []SentIsKept
<1>1. IInv => SentIsKept
  BY DEF IInv
<1> QED
  BY <1>1, InboxInvariance, PTL

\* A delivered file is never replaced by a later one (client.go:1050).
THEOREM NamesAreNotReused ==
  ASSUME Endless, \A c \in Crews : WellBehaved(c)
  PROVE  Spec => NeverOverwritten
<1>1. IInv /\ [Next]_vars =>
        [\A p \in DOMAIN inbox : p \in DOMAIN inbox' /\ inbox'[p] = inbox[p]]_vars
  BY NextHolds DEF FilesKept
<1> QED
  BY <1>1, InboxInvariance, PTL DEF Spec, NeverOverwritten
=============================================================================
