---------------------------- MODULE RosterProofs ----------------------------
(***************************************************************************)
(* Theorems about Roster, for any processes, devices, names, codes, parked *)
(* files and bounds.                                                       *)
(***************************************************************************)
EXTENDS Roster, TLAPS

USE RosterAssumption DEF Procs

\* A request that will name a member has a name, one that will enter a device
\* has a device, and a join that has not asked yet has no code.
Named ==
  \A p \in Procs :
    /\ pc[p] \in {"asking", "burning", "admitted", "renaming"} => req[p].name \in Names
    /\ pc[p] \in {"asking", "burning", "admitted"} => req[p].dev \in Devices
    /\ pc[p] = "asking" => req[p].code = None

Typed == TypeOK /\ Named

\* Joins that have burned the code and are not on the roster yet.
Holds(p, k) == pc[p] \in {"burning", "admitted"} /\ req[p].code = k

\* Without a restart a code is live, or with one join, or has let one device
\* in; one that is not minted is nowhere.
CodesOnce ==
  crashes = 0 => \A k \in Codes :
    /\ uses[k] <= 1
    /\ k \in codes => uses[k] = 0 /\ \A p \in Procs : ~Holds(p, k)
    /\ \A p \in Procs : Holds(p, k) => uses[k] = 0 /\ k \in minted
    /\ \A p, q \in Procs : Holds(p, k) /\ Holds(q, k) => p = q
    /\ uses[k] # 0 => k \in minted

\* A reload that finds roster.json unchanged has read what is there.
Fresh ==
  \A p \in Procs : clean[p] =>
    /\ pc[p] = "reloading"
    /\ ~crossed => snap[p] = Loaded

-----------------------------------------------------------------------------
\* A roster loaded from its file is a set of entries.
LEMMA LoadedType == TypeOK => Loaded \in SUBSET Member
BY DEF TypeOK, Loaded

\* Dropping a name leaves entries.
LEMMA WithoutType ==
  ASSUME NEW R \in SUBSET Member, NEW name
  PROVE  Without(R, name) \in SUBSET Member
BY DEF Without

\* A rename to a name leaves entries.
LEMMA RenamedType ==
  ASSUME NEW R \in SUBSET Member, NEW old, NEW new \in Names
  PROVE  Renamed(R, old, new) \in SUBSET Member
BY DEF Renamed, Member

\* Granting the admin flag leaves entries.
LEMMA PromotedType ==
  ASSUME NEW R \in SUBSET Member, NEW name
  PROVE  Promoted(R, name) \in SUBSET Member
<1> SUFFICES ASSUME NEW m \in R PROVE [m EXCEPT !.admin = @ \/ m.name = name] \in Member
  BY DEF Promoted
<1>1. (m.admin \/ m.name = name) \in BOOLEAN
  BY DEF Member
<1> QED
  BY <1>1 DEF Member

\* The devices of a roster are devices.
LEMMA DevicesType ==
  ASSUME NEW R \in SUBSET Member
  PROVE  DevicesOf(R) \in SUBSET Devices
BY DEF DevicesOf, Member

\* The empty request is a request.
LEMMA NoRequestType == NoRequest \in Requests
BY DEF NoRequest, Requests

\* The first state is typed.
LEMMA TypedInit == Init => Typed
<1> SUFFICES ASSUME Init PROVE Typed
  OBVIOUS
<1>1. TypeOK
  BY NoRequestType DEF Init, TypeOK, Labels
<1>2. Named
  BY DEF Init, Named
<1> QED
  BY <1>1, <1>2 DEF Typed

\* A process that takes up a request, with what its next steps need of it.
LEMMA RequestTyped ==
  ASSUME Typed, NEW p \in Procs, NEW r \in Requests, NEW l \in Labels,
         l \in {"asking", "burning", "admitted", "renaming"} => r.name \in Names,
         l \in {"asking", "burning", "admitted"} => r.dev \in Devices,
         l = "asking" => r.code = None,
         Request(p, r), Goto(p, l)
  PROVE  pc' \in [Procs -> Labels] /\ req' \in [Procs -> Requests] /\ Named'
BY DEF Typed, TypeOK, Named, Request, Goto

\* The fields of a process, as they are typed.
LocalTyped ==
  /\ pc \in [Procs -> Labels] /\ req \in [Procs -> Requests]
  /\ snap \in [Procs -> SUBSET Member] /\ held \in [Procs -> SUBSET minted]
  /\ clean \in [Procs -> BOOLEAN] /\ late \in SUBSET Procs /\ crossed \in BOOLEAN
  /\ work \in [Procs -> SUBSET Items]

\* A handler or command that ends leaves its variables typed.
LEMMA ReturnTyped ==
  ASSUME Typed, NEW p \in Procs, Return(p), minted' = minted
  PROVE  LocalTyped' /\ Named'
<1>1. LocalTyped'
  BY NoRequestType DEF Return, Goto, Typed, TypeOK, LocalTyped, Labels
<1>2. Named'
  BY DEF Return, Goto, Typed, TypeOK, Named
<1> QED
  BY <1>1, <1>2

\* Writing roster.json leaves it and its marks typed.
LEMMA WriteTyped ==
  ASSUME Typed, NEW p \in Procs, NEW R \in SUBSET Member, WriteRoster(p, R)
  PROVE  /\ roster' \in (SUBSET Member) \cup {None} /\ newer' \in BOOLEAN
         /\ clean' \in [Procs -> BOOLEAN] /\ late' \in SUBSET Procs /\ crossed' \in BOOLEAN
BY DEF WriteRoster, Typed, TypeOK

-----------------------------------------------------------------------------
\* Repointing or deleting a parked file leaves targets.
LEMMA SettleTyped ==
  ASSUME Typed, NEW p \in Procs, SettleFile(p)
  PROVE  Typed'
<1>1. PICK i \in work[p] :
        /\ work' = [work EXCEPT ![p] = work[p] \ {i}]
        /\ parked' = [parked EXCEPT ![i] =
             IF Follows(req[p]) /\ parked[i] # None THEN req[p].name ELSE None]
        /\ astray' \subseteq astray \cup {i}
  BY DEF SettleFile
<1>2. i \in Items /\ req[p].name \in Names \cup {None}
  BY DEF Typed, TypeOK, Requests
<1>3. parked' \in [Items -> Names \cup {None}]
  BY <1>1, <1>2 DEF Typed, TypeOK
<1>4. work' \in [Procs -> SUBSET Items] /\ astray' \subseteq Items
  BY <1>1, <1>2 DEF Typed, TypeOK
<1> QED
  BY <1>3, <1>4 DEF SettleFile, Typed, TypeOK, Named, memory, stamps, time, bounds

\* Every step keeps the state typed.
LEMMA TypedNext == Typed /\ [Next]_vars => Typed'
<1> SUFFICES ASSUME Typed, [Next]_vars PROVE Typed'
  OBVIOUS
<1>a. Loaded \in SUBSET Member
  BY LoadedType DEF Typed
<1> USE DEF Typed, TypeOK, Named, disk, memory, local, stamps, time, bounds
<1>1. ASSUME NEW c \in Procs, Receive(c) PROVE Typed'
  <2>1. snap' \in [Procs -> SUBSET Member] /\ clean' \in [Procs -> BOOLEAN]
    <3>1. CASE newer
      <4>1. snap' = [snap EXCEPT ![c] = Loaded] /\ clean' = [clean EXCEPT ![c] = TRUE]
        BY <1>1, <3>1, Zenon DEF Receive
      <4> QED
        BY <1>a, <4>1
    <3>2. CASE ~newer
      BY <1>1, <3>2 DEF Receive
    <3> QED
      BY <3>1, <3>2
  <2>2. pc' \in [Procs -> Labels] /\ Named'
    BY <1>1 DEF Receive, Goto, Labels
  <2> QED
    BY <1>1, <2>1, <2>2 DEF Receive
<1>2. ASSUME NEW c \in Procs, Reload(c) PROVE Typed'
  BY <1>2 DEF Reload, Goto, Request, Labels, Adopted
<1>3. ASSUME NEW c \in Procs, Bootstrap(c) PROVE Typed'
  <2>1. [req[c] EXCEPT !.admin = TRUE] \in Requests
    <3>1. req[c] \in Requests
      OBVIOUS
    <3> QED
      BY <3>1 DEF Requests
  <2>2. pc' \in [Procs -> Labels] /\ req' \in [Procs -> Requests] /\ Named'
    BY <1>3, <2>1, RequestTyped DEF Bootstrap, Labels, Requests
  <2> QED
    BY <1>3, <2>2 DEF Bootstrap
<1>4. ASSUME NEW c \in Procs, TakeInvite(c) PROVE Typed'
  BY <1>4 DEF TakeInvite, Goto, Request, Labels, UpdateCodes, Burned, Usable, Requests
<1>5. ASSUME NEW c \in Procs, SaveBurn(c) PROVE Typed'
  BY <1>5 DEF SaveBurn, Goto, Request, Labels
<1>6. ASSUME NEW c \in Procs, Append(c) PROVE Typed'
  BY <1>6 DEF Append, Goto, Request, Labels, Update, Member, Requests
<1>7. ASSUME NEW c \in Procs, Mint(c) PROVE Typed'
  <2>1. PICK k \in Codes \ minted :
          /\ codes' = codes \cup {k} /\ held' = [held EXCEPT ![c] = codes \cup {k}]
          /\ minted' = minted \cup {k}
          /\ Request(c, [NoRequest EXCEPT !.op = "invite", !.code = k])
    BY <1>7 DEF Mint, UpdateCodes
  <2>2. [NoRequest EXCEPT !.op = "invite", !.code = k] \in Requests
    BY NoRequestType DEF Requests
  <2>3. pc' \in [Procs -> Labels] /\ req' \in [Procs -> Requests] /\ Named'
    BY <1>7, <2>1, <2>2, RequestTyped DEF Mint, Labels
  <2> QED
    BY <1>7, <2>1, <2>3 DEF Mint
<1>8. ASSUME NEW c \in Procs, Remove(c) PROVE Typed'
  BY <1>8, WithoutType, DevicesType DEF Remove, Goto, Request, Labels, Update, Requests
<1>9. ASSUME NEW c \in Procs, ListFiles(c) PROVE Typed'
  BY <1>9 DEF ListFiles, Goto, Request, Labels, FilesOf
<1>10. ASSUME NEW c \in Procs, SettleFile(c) PROVE Typed'
  BY <1>10, SettleTyped
<1>11. ASSUME NEW c \in Procs, SweepInvites(c) PROVE Typed'
  BY <1>11 DEF SweepInvites, Goto, Request, Labels, UpdateCodes
<1>12. ASSUME NEW c \in Procs, JoinAsk(c) PROVE Typed'
  <2>1. PICK dev \in Devices, name \in Names :
          Request(c, [NoRequest EXCEPT !.op = "join", !.dev = dev, !.name = name])
    BY <1>12 DEF JoinAsk
  <2>2. [NoRequest EXCEPT !.op = "join", !.dev = dev, !.name = name] \in Requests
    BY <2>1, NoRequestType DEF Requests
  <2>3. pc' \in [Procs -> Labels] /\ req' \in [Procs -> Requests] /\ Named'
    BY <1>12, <2>1, <2>2, RequestTyped DEF JoinAsk, Labels, Requests, NoRequest
  <2> QED
    BY <1>12, <2>3 DEF JoinAsk
<1>13. ASSUME NEW c \in Procs, RejoinAsk(c) PROVE Typed'
  <2>1. PICK old \in Names, name \in Names :
          Request(c, [NoRequest EXCEPT !.op = "rejoin", !.old = old, !.name = name])
    BY <1>13 DEF RejoinAsk, NewName, Entries, Member
  <2>2. [NoRequest EXCEPT !.op = "rejoin", !.old = old, !.name = name] \in Requests
    BY <2>1, NoRequestType DEF Requests
  <2>3. pc' \in [Procs -> Labels] /\ req' \in [Procs -> Requests] /\ Named'
    BY <1>13, <2>1, <2>2, RequestTyped DEF RejoinAsk, Labels, Requests, NoRequest
  <2> QED
    BY <1>13, <2>3 DEF RejoinAsk
<1>14. ASSUME NEW c \in Procs, RemoveAsk(c) PROVE Typed'
  <2>1. PICK name \in Names :
          Request(c, [NoRequest EXCEPT !.op = "remove", !.name = name])
    <3>1. PICK name \in NamesOf(members) :
            Request(c, [NoRequest EXCEPT !.op = "remove", !.name = name])
      BY <1>14, Zenon DEF RemoveAsk
    <3>2. name \in Names
      BY DEF NamesOf, Member
    <3> QED
      BY <3>1, <3>2, Zenon
  <2>2. [NoRequest EXCEPT !.op = "remove", !.name = name] \in Requests
    BY <2>1, NoRequestType DEF Requests
  <2>3. pc' \in [Procs -> Labels] /\ req' \in [Procs -> Requests] /\ Named'
    BY <1>14, <2>1, <2>2, RequestTyped DEF RemoveAsk, Labels, Requests
  <2> QED
    BY <1>14, <2>3 DEF RemoveAsk
<1>15. ASSUME NEW c \in Procs, SendAsk(c) PROVE Typed'
  <2>1. PICK name \in Names :
          Request(c, [NoRequest EXCEPT !.op = "send", !.name = name])
    BY <1>15 DEF SendAsk, Member
  <2>2. [NoRequest EXCEPT !.op = "send", !.name = name] \in Requests
    BY <2>1, NoRequestType DEF Requests
  <2>3. pc' \in [Procs -> Labels] /\ req' \in [Procs -> Requests] /\ Named'
    BY <1>15, <2>1, <2>2, RequestTyped DEF SendAsk, Labels, Requests
  <2> QED
    BY <1>15, <2>3 DEF SendAsk
<1>16. ASSUME NEW c \in Procs, Rename(c) PROVE Typed'
  BY <1>16, RenamedType DEF Rename, Goto, Request, Labels, Update
<1>34. ASSUME NEW c \in Procs, Retarget(c) PROVE Typed'
  <2>1. CASE req[c].old = req[c].name
    BY <1>34, <2>1, ReturnTyped DEF Retarget, LocalTyped
  <2>2. CASE req[c].old # req[c].name
    <3>1. [req[c] EXCEPT !.op = "retarget"] \in Requests
      <4>1. req[c] \in Requests
        OBVIOUS
      <4> QED
        BY <4>1 DEF Requests
    <3>2. pc' \in [Procs -> Labels] /\ req' \in [Procs -> Requests] /\ Named'
      BY <1>34, <2>2, <3>1, RequestTyped DEF Retarget, Labels
    <3> QED
      BY <1>34, <2>2, <3>2 DEF Retarget
  <2> QED
    BY <2>1, <2>2
<1>17. ASSUME NEW c \in Procs, Answer(c) PROVE Typed'
  BY <1>17, ReturnTyped DEF Answer, LocalTyped
<1>18. ASSUME NEW c \in Procs, JoinRefused(c) PROVE Typed'
  BY <1>18, ReturnTyped DEF JoinRefused, LocalTyped
<1>19. ASSUME NEW c \in Procs, SaveMint(c) PROVE Typed'
  BY <1>19, ReturnTyped DEF SaveMint, LocalTyped
<1>20. ASSUME NEW c \in Procs, RemoveRefused(c) PROVE Typed'
  BY <1>20, ReturnTyped DEF RemoveRefused, LocalTyped
<1>21. ASSUME NEW c \in Procs, Settled(c) PROVE Typed'
  BY <1>21, ReturnTyped DEF Settled, LocalTyped
<1>22. ASSUME NEW c \in Procs, SendLost(c) PROVE Typed'
  BY <1>22, ReturnTyped DEF SendLost, LocalTyped
<1>23. ASSUME NEW c \in Procs, Park(c) PROVE Typed'
  BY <1>23, ReturnTyped DEF Park, LocalTyped, Requests
<1>24. ASSUME NEW c \in Procs, Take(c) PROVE Typed'
  BY <1>24, ReturnTyped DEF Take, LocalTyped
<1>25. ASSUME NEW c \in Procs, ToolFails(c) PROVE Typed'
  BY <1>25, ReturnTyped DEF ToolFails, LocalTyped
<1>26. ASSUME NEW c \in Procs, SavePruned(c) PROVE Typed'
  BY <1>26, ReturnTyped DEF SavePruned, LocalTyped
<1>27. ASSUME NEW c \in Procs, SaveFails(c) PROVE Typed'
  BY <1>27, ReturnTyped DEF SaveFails, GiveUp, LocalTyped
<1>28. ASSUME NEW c \in Procs, SaveRoster(c) PROVE Typed'
  BY <1>28, WriteTyped, NoRequestType DEF SaveRoster, Goto, Request, Labels, Requests
<1>29. ASSUME NEW t \in Procs, ToolLoad(t) PROVE Typed'
  <2>1. PICK m \in Loaded, r \in Requests, R \in SUBSET Member :
          snap' = [snap EXCEPT ![t] = R] /\ Request(t, r)
    <3>1. PICK m \in Loaded :
            \/ /\ snap' = [snap EXCEPT ![t] = Promoted(Loaded, m.name)]
               /\ Request(t, [NoRequest EXCEPT !.op = "grant", !.name = m.name])
            \/ /\ snap' = [snap EXCEPT ![t] = Without(Loaded, m.name)]
               /\ Request(t, [NoRequest EXCEPT !.op = "remove", !.name = m.name,
                    !.gone = DevicesOf(Loaded) \ DevicesOf(Without(Loaded, m.name))])
      BY <1>29 DEF ToolLoad
    <3>2. m.name \in Names
      BY <1>a DEF Member
    <3>3. DevicesOf(Loaded) \ DevicesOf(Without(Loaded, m.name)) \in SUBSET Devices
      BY <1>a, DevicesType
    <3>4. /\ [NoRequest EXCEPT !.op = "grant", !.name = m.name] \in Requests
          /\ [NoRequest EXCEPT !.op = "remove", !.name = m.name,
               !.gone = DevicesOf(Loaded) \ DevicesOf(Without(Loaded, m.name))] \in Requests
      BY <3>2, <3>3, NoRequestType DEF Requests
    <3>5. Promoted(Loaded, m.name) \in SUBSET Member /\ Without(Loaded, m.name) \in SUBSET Member
      BY <1>a, PromotedType, WithoutType
    <3> QED
      BY <3>1, <3>4, <3>5
  <2>2. pc' \in [Procs -> Labels] /\ req' \in [Procs -> Requests] /\ Named'
    BY <1>29, <2>1, RequestTyped DEF ToolLoad, Labels
  <2> QED
    BY <1>29, <2>1, <2>2 DEF ToolLoad
<1>30. ASSUME NEW t \in Procs, ToolSave(t) PROVE Typed'
  BY <1>30, WriteTyped, NoRequestType DEF ToolSave, Goto, Request, Labels, Requests
<1>31. CASE Expire
  BY <1>31 DEF Expire
<1>32. CASE Crash
  <2>1. /\ snap' \in [Procs -> SUBSET Member] /\ held' \in [Procs -> SUBSET minted]
        /\ clean' \in [Procs -> BOOLEAN] /\ work' \in [Procs -> SUBSET Items]
    BY <1>32 DEF Crash
  <2>2. pc' \in [Procs -> Labels] /\ req' \in [Procs -> Requests] /\ Named'
    BY <1>32, NoRequestType DEF Crash, Labels
  <2>3. newer' \in BOOLEAN
    BY <1>32 DEF Crash
  <2>4. members' \in SUBSET Member /\ codes' \in SUBSET minted
    BY <1>32, <1>a DEF Crash
  <2>5. late' \in SUBSET Procs
    BY <1>32 DEF Crash
  <2>6. crossed' \in BOOLEAN /\ crashes' \in Nat
    <3>1. crossed' \in BOOLEAN
      BY <1>32, Zenon DEF Crash
    <3>2. crashes' \in Nat
      BY <1>32 DEF Crash
    <3> QED
      BY <3>1, <3>2
  <2>7. UNCHANGED <<disk, time, uses, astray, faults>>
    BY <1>32 DEF Crash
  <2>8. TypeOK'
    BY <2>1, <2>2, <2>3, <2>4, <2>5, <2>6, <2>7
  <2> QED
    BY <2>2, <2>8
<1>33. CASE UNCHANGED vars
  BY <1>33 DEF vars, Holds
<1> QED
  BY <1>1, <1>2, <1>3, <1>4, <1>5, <1>6, <1>7, <1>8, <1>9, <1>10, <1>11, <1>12, <1>13, <1>14,
     <1>15, <1>16, <1>17, <1>18, <1>19, <1>20, <1>21, <1>22, <1>23, <1>24, <1>25, <1>26, <1>27,
     <1>28, <1>29, <1>30, <1>31, <1>32, <1>33, <1>34 DEF Next, Join, Manage, Spooled, Settle, Tool

-----------------------------------------------------------------------------
(***************************************************************************)
(* Invite codes.                                                           *)
(***************************************************************************)

\* A step that takes up no code and gives none back keeps the count.
LEMMA CodesKept ==
  ASSUME CodesOnce, crashes' >= crashes, crashes \in Nat, crashes' \in Nat,
         codes' \subseteq codes, minted' = minted, uses' = uses,
         \A p \in Procs, k \in Codes : Holds(p, k)' => Holds(p, k)
  PROVE  CodesOnce'
BY DEF CodesOnce

\* No step but a mint, a burn and an entry on the roster does.
LEMMA OtherSteps ==
  ASSUME Typed, [Next]_vars, ~Crash,
         \A c \in Conns : ~Mint(c) /\ ~TakeInvite(c) /\ ~Append(c)
  PROVE  /\ crashes' = crashes /\ codes' \subseteq codes /\ minted' = minted /\ uses' = uses
         /\ \A p \in Procs, k \in Codes : Holds(p, k)' => Holds(p, k)
<1> DEFINE Kept == /\ crashes' = crashes /\ codes' \subseteq codes
                   /\ minted' = minted /\ uses' = uses
                   /\ \A p \in Procs, k \in Codes : Holds(p, k)' => Holds(p, k)
<1> USE DEF Typed, TypeOK, Named, Holds, disk, memory, local, stamps, time, bounds
<1>1. ASSUME NEW c \in Conns, Receive(c) \/ Reload(c) \/ Answer(c) PROVE Kept
  BY <1>1 DEF Receive, Reload, Answer, Return, Goto
<1>2. ASSUME NEW c \in Conns, JoinAsk(c) \/ Bootstrap(c) \/ JoinRefused(c) PROVE Kept
  <2>1. CASE JoinAsk(c)
    BY <2>1 DEF JoinAsk, Goto, Request
  <2>2. CASE Bootstrap(c)
    BY <2>2 DEF Bootstrap, Goto, Request
  <2>3. CASE JoinRefused(c)
    BY <2>3 DEF JoinRefused, Return, Goto
  <2> QED
    BY <1>2, <2>1, <2>2, <2>3
<1>3. ASSUME NEW c \in Conns, SaveBurn(c) PROVE Kept
  BY <1>3 DEF SaveBurn, Goto
<1>4. ASSUME NEW c \in Conns, RejoinAsk(c) \/ Rename(c) \/ SaveMint(c) PROVE Kept
  BY <1>4 DEF RejoinAsk, Rename, SaveMint, Return, Goto, Request, Update
<1>13. ASSUME NEW c \in Conns, Retarget(c) PROVE Kept
  BY <1>13 DEF Retarget, Return, Goto, Request
<1>5. ASSUME NEW c \in Conns, RemoveAsk(c) \/ Remove(c) \/ RemoveRefused(c) PROVE Kept
  BY <1>5 DEF RemoveAsk, Remove, RemoveRefused, Return, Goto, Request, Update
<1>6. ASSUME NEW c \in Conns, Spooled(c) PROVE Kept
  BY <1>6 DEF Spooled, SendAsk, Park, SendLost, Take, Return, Goto, Request
<1>7. ASSUME NEW c \in Conns, SaveRoster(c) \/ SaveFails(c) PROVE Kept
  BY <1>7 DEF SaveRoster, SaveFails, GiveUp, Return, Goto, Request
<1>8. ASSUME NEW p \in Procs, Settle(p) PROVE Kept
  BY <1>8 DEF Settle, ListFiles, SettleFile, Settled, Return, Goto
<1>9. ASSUME NEW t \in Tools, Tool(t) PROVE Kept
  BY <1>9 DEF Tool, ToolLoad, ToolSave, ToolFails, Return, Goto, Request
<1>10. ASSUME NEW w \in Sweepers, SweepInvites(w) \/ SavePruned(w) PROVE Kept
  BY <1>10 DEF SweepInvites, SavePruned, UpdateCodes, Return, Goto
<1>11. CASE Expire
  BY <1>11 DEF Expire
<1>12. CASE UNCHANGED vars
  BY <1>12 DEF vars
<1> QED
  BY <1>1, <1>2, <1>3, <1>4, <1>5, <1>6, <1>7, <1>8, <1>9, <1>10, <1>11, <1>12, <1>13
     DEF Next, Join, Manage

\* Every step keeps the count.
LEMMA CodesNext == Typed /\ CodesOnce /\ [Next]_vars => CodesOnce'
<1> SUFFICES ASSUME Typed, CodesOnce, [Next]_vars PROVE CodesOnce'
  OBVIOUS
<1> USE DEF Typed, TypeOK
<1>1. ASSUME NEW c \in Conns, Mint(c) PROVE CodesOnce'
  BY <1>1 DEF Mint, UpdateCodes, Goto, Request, CodesOnce, Holds, bounds
<1>2. ASSUME NEW c \in Conns, TakeInvite(c) PROVE CodesOnce'
  BY <1>2 DEF TakeInvite, UpdateCodes, Burned, Usable, Goto, Request, CodesOnce, Holds, time, bounds
<1>3. ASSUME NEW c \in Conns, Append(c) PROVE CodesOnce'
  BY <1>3 DEF Append, Update, Goto, CodesOnce, Holds, time, bounds
<1>4. CASE Crash
  BY <1>4 DEF Crash, CodesOnce
<1>5. CASE ~Crash /\ \A c \in Conns : ~Mint(c) /\ ~TakeInvite(c) /\ ~Append(c)
  BY <1>5, OtherSteps, CodesKept
<1> QED
  BY <1>1, <1>2, <1>3, <1>4, <1>5

-----------------------------------------------------------------------------
(***************************************************************************)
(* The reload.                                                             *)
(***************************************************************************)

Reloads == Fresh /\ EditsAreSeen

\* Every step keeps the reload sound.
LEMMA ReloadsNext == Typed /\ Reloads /\ [Next]_vars => Reloads'
<1> SUFFICES ASSUME Typed, Reloads, [Next]_vars PROVE Reloads'
  OBVIOUS
<1> USE DEF Typed, TypeOK, Reloads, Fresh, EditsAreSeen, Loaded, disk, memory, local, time, bounds
<1>1. ASSUME NEW c \in Conns, Receive(c) PROVE Reloads'
  BY <1>1 DEF Receive, Goto, stamps
<1>2. ASSUME NEW c \in Conns, Reload(c) PROVE Reloads'
  BY <1>2 DEF Reload, Adopted, Goto, stamps
<1>3. ASSUME NEW c \in Conns, Append(c) \/ Rename(c) \/ Remove(c) PROVE Reloads'
  BY <1>3 DEF Append, Rename, Remove, Update, Goto, Request, stamps
<1>4. ASSUME NEW c \in Conns, SaveRoster(c) PROVE Reloads'
  BY <1>4 DEF SaveRoster, WriteRoster, Goto, Request, stamps
<1>5. ASSUME NEW c \in Conns, SaveFails(c) PROVE Reloads'
  BY <1>5 DEF SaveFails, GiveUp, Return, Goto, stamps
<1>6. ASSUME NEW t \in Tools, Tool(t) PROVE Reloads'
  <2>1. CASE ToolLoad(t)
    <3>1. UNCHANGED <<roster, members, newer, clean, crossed, faults>>
      BY <2>1 DEF ToolLoad, stamps
    <3>2. \A p \in Procs \ {t} : snap'[p] = snap[p] /\ pc'[p] = pc[p]
      BY <2>1 DEF ToolLoad, Goto
    <3>3. ~clean[t] /\ pc[t] # "saving"
      BY <2>1 DEF ToolLoad
    <3> QED
      BY <3>1, <3>2, <3>3
  <2>2. CASE ToolSave(t)
    BY <2>2 DEF ToolSave, WriteRoster, Goto, Request
  <2>3. CASE ToolFails(t)
    BY <2>3 DEF ToolFails, Return, Goto
  <2> QED
    BY <1>6, <2>1, <2>2, <2>3 DEF Tool
<1>7. CASE Crash
  BY <1>7 DEF Crash, stamps
<1>8. ASSUME NEW c \in Conns, JoinAsk(c) \/ Bootstrap(c) \/ TakeInvite(c) \/ RejoinAsk(c)
      PROVE  Reloads'
  BY <1>8 DEF JoinAsk, Bootstrap, TakeInvite, RejoinAsk, Goto, Request, stamps
<1>17. ASSUME NEW c \in Conns, Retarget(c) PROVE Reloads'
  BY <1>17 DEF Retarget, Return, Goto, Request, stamps
<1>9. ASSUME NEW c \in Conns, SaveBurn(c) PROVE Reloads'
  BY <1>9 DEF SaveBurn, Goto, stamps
<1>10. ASSUME NEW c \in Conns, Answer(c) \/ JoinRefused(c) \/ RemoveRefused(c) PROVE Reloads'
  BY <1>10 DEF Answer, JoinRefused, RemoveRefused, Return, Goto, stamps
<1>11. ASSUME NEW c \in Conns, Mint(c) \/ SaveMint(c) \/ RemoveAsk(c) PROVE Reloads'
  <2>1. CASE Mint(c)
    BY <2>1 DEF Mint, Goto, stamps
  <2>2. CASE SaveMint(c)
    BY <2>2 DEF SaveMint, Return, Goto
  <2>3. CASE RemoveAsk(c)
    BY <2>3 DEF RemoveAsk, Goto, stamps
  <2> QED
    BY <1>11, <2>1, <2>2, <2>3
<1>12. ASSUME NEW c \in Conns, Spooled(c) PROVE Reloads'
  BY <1>12 DEF Spooled, SendAsk, Park, SendLost, Take, Return, Goto, Request, stamps
<1>13. ASSUME NEW p \in Procs, Settle(p) PROVE Reloads'
  BY <1>13 DEF Settle, ListFiles, SettleFile, Settled, Return, Goto, stamps
<1>14. ASSUME NEW w \in Sweepers, SweepInvites(w) \/ SavePruned(w) PROVE Reloads'
  BY <1>14 DEF SweepInvites, SavePruned, Return, Goto, stamps
<1>15. CASE Expire
  BY <1>15 DEF Expire, stamps
<1>16. CASE UNCHANGED vars
  BY <1>16 DEF vars, stamps
<1> QED
  BY <1>1, <1>2, <1>3, <1>4, <1>5, <1>6, <1>7, <1>8, <1>9, <1>10, <1>11, <1>12, <1>13, <1>14,
     <1>15, <1>16, <1>17 DEF Next, Join, Manage

-----------------------------------------------------------------------------
\* The inductive invariant.
IInv == Typed /\ CodesOnce /\ Reloads

\* The first state satisfies it.
LEMMA IInvInit == Init => IInv
<1>1. Init => Typed
  BY TypedInit
<1>2. Init => CodesOnce
  BY DEF Init, CodesOnce, Holds
<1>3. Init => Reloads
  BY DEF Init, Reloads, Fresh, EditsAreSeen, Loaded
<1> QED
  BY <1>1, <1>2, <1>3 DEF IInv

\* Every step preserves it.
LEMMA IInvNext == IInv /\ [Next]_vars => IInv'
BY TypedNext, CodesNext, ReloadsNext DEF IInv

\* The inductive invariant holds in every reachable state.
THEOREM RosterInvariance == Spec => []IInv
BY IInvInit, IInvNext, PTL DEF Spec

\* Type correctness: in memory, in roster.json and in every copy about to be
\* saved the entries have a name and a device, and only minted codes are ever
\* recorded.
THEOREM RosterTypeCorrect == Spec => []TypeOK
<1>1. IInv => TypeOK
  BY DEF IInv, Typed
<1> QED
  BY RosterInvariance, <1>1, PTL

\* takeInvite: until the stash restarts a code admits one device, whatever joins,
\* mints and sweeps interleave and whatever saves fail.
THEOREM CodesAreSingleUse == Spec => []SingleUse
<1>1. IInv => SingleUse
  BY DEF IInv, CodesOnce, SingleUse
<1> QED
  BY RosterInvariance, <1>1, PTL

\* reloadRoster: with no save under way, failed or crossed, either memory holds
\* what roster.json holds or the next message reloads it.
THEOREM NoEditIsMissed == Spec => []EditsAreSeen
<1>1. IInv => EditsAreSeen
  BY DEF IInv, Reloads
<1> QED
  BY RosterInvariance, <1>1, PTL

-----------------------------------------------------------------------------
(***************************************************************************)
(* One process that does one thing at a time: a stash that takes its       *)
(* requests in turn, and stash-side commands run by somebody who waits for *)
(* them.  For any devices, names, codes, parked files and bounds, across   *)
(* crashes and saves that fail.                                            *)
(***************************************************************************)

\* There is one process at most.
Turns == \A p, q \in Procs : p = q
Only(c) == \A p \in Procs : p = c

\* No two entries of a roster share a name or a device.
Distinct(R) == \A m, n \in R : m.name = n.name \/ m.dev = n.dev => m = n

\* Behind the reload a request finds the roster in memory up to date: nobody
\* else writes the file, and what it writes itself it answers after.
Inside == {"received", "asking", "burning", "admitted", "renaming", "inviting", "removing",
           "depositing", "saving"}
InTouch ==
  /\ late = {} /\ ~crossed
  /\ \A p \in Procs : /\ pc[p] = "reloading" => clean[p]
                      /\ pc[p] \in Inside => ~newer

\* Only a connection serves a request, only the sweeper prunes.
Roles ==
  \A p \in Procs :
    \/ p \in Conns \/ pc[p] \in {"idle", "editing", "listing", "settling"}
    \/ p \in Sweepers /\ pc[p] = "pruning"

\* Entries are distinct wherever they are kept, and what a request was checked
\* against still holds when it acts.
Checked(p) ==
  /\ pc[p] \in {"asking", "burning", "admitted"} =>
       /\ req[p].op = "join" /\ req[p].gone = {}
       /\ req[p].dev \notin DevicesOf(members) /\ req[p].name \notin NamesOf(members)
  /\ pc[p] = "burning" => req[p].code # None
  /\ pc[p] = "admitted" /\ req[p].code = None => members = {}
  /\ pc[p] = "renaming" =>
       /\ req[p].op = "rejoin" /\ req[p].gone = {} /\ req[p].old \in NamesOf(members)
       /\ req[p].name = req[p].old \/ req[p].name \notin NamesOf(members)
  /\ pc[p] = "removing" => req[p].op = "remove" /\ req[p].name # req[p].old
  /\ pc[p] = "depositing" => req[p].name \in NamesOf(members)
Entered ==
  /\ Distinct(members) /\ Distinct(Loaded)
  /\ \A p \in Procs : Distinct(snap[p]) /\ Checked(p)

\* The name a request's files are parked for.
Prior(r) == IF Follows(r) THEN r.old ELSE r.name

\* From R to S a request moves its own device in or out, and at most its own
\* name goes.
Change(r, R, S) ==
  /\ r.op # "remove" => r.gone = {}
  /\ DevicesOf(S) = (DevicesOf(R) \ r.gone) \cup (IF r.op = "join" THEN {r.dev} ELSE {})
  /\ NamesOf(R) \subseteq NamesOf(S) \cup {Prior(r)}

\* A roster about to be saved changes the file by its request alone.
Changing ==
  \A p \in Procs :
    /\ pc[p] = "saving" => req[p].op \in {"join", "rejoin", "remove"}
    /\ pc[p] = "editing" => req[p].op \in {"grant", "remove"}
    /\ pc[p] \in {"saving", "editing"} =>
         /\ req[p].op # "remove" <=> req[p].name \in NamesOf(snap[p])
         /\ req[p].op = "remove" => req[p].name # req[p].old
         /\ faults = 0 \/ pc[p] = "editing" => Change(req[p], Loaded, snap[p])
         /\ faults = 0 /\ req[p].op = "join" /\ req[p].code = None => Loaded = {}

\* A parked file that is addressed to nobody is among those the request in
\* hand has still to repoint or to delete, or has been led astray.
Addressed == \A i \in Items \ astray : parked[i] \in NamesOf(Loaded) \cup {None}
Filing ==
  /\ \A p \in Procs :
       /\ pc[p] \in {"listing", "settling"} =>
            /\ req[p].op \in {"rejoin", "retarget", "remove"}
            /\ req[p].op = "rejoin" => req[p].name \in NamesOf(Loaded)
            /\ req[p].op = "retarget" => req[p].name \in Names
            /\ req[p].op = "remove" => req[p].name \notin NamesOf(Loaded)
       /\ pc[p] = "settling" => \A i \in work[p] : parked[i] = Prior(req[p])
  /\ crashes = 0 /\ faults = 0 =>
       \A i \in Items \ astray :
         \/ parked[i] \in NamesOf(Loaded) \cup {None}
         \/ \E p \in Procs : pc[p] = "listing" /\ parked[i] = Prior(req[p])
         \/ \E p \in Procs : pc[p] = "settling" /\ i \in work[p]

\* Until a save fails the file holds every invite memory holds, but for the one
\* being minted.
Invited ==
  faults = 0 =>
    /\ \A p \in Procs :
         /\ pc[p] \in {"burning", "inviting", "pruning"} => held[p] = codes
         /\ pc[p] = "burning" => req[p].code \in invites \ codes
         /\ pc[p] = "inviting" =>
              req[p].code \in minted /\ codes \subseteq invites \cup {req[p].code}
    /\ (\A p \in Procs : pc[p] # "inviting") => codes \subseteq invites

TurnsInv == InTouch /\ Roles /\ Entered /\ Changing /\ Filing /\ Invited
-----------------------------------------------------------------------------
(***************************************************************************)
(* Rosters.                                                                *)
(***************************************************************************)

\* An empty roster names nobody.
LEMMA EmptyRoster == Distinct({}) /\ NamesOf({}) = {} /\ DevicesOf({}) = {}
BY DEF Distinct, NamesOf, DevicesOf

\* What a removal does to a roster.
LEMMA WithoutMeans ==
  ASSUME NEW R \in SUBSET Member, NEW name, Distinct(R)
  PROVE  /\ Distinct(Without(R, name))
         /\ name \notin NamesOf(Without(R, name))
         /\ NamesOf(R) \subseteq NamesOf(Without(R, name)) \cup {name}
         /\ DevicesOf(Without(R, name)) \subseteq DevicesOf(R)
BY DEF Without, Distinct, NamesOf, DevicesOf

\* What a rename to its own name or to a free one does to a roster.
LEMMA RenamedMeans ==
  ASSUME NEW R \in SUBSET Member, NEW old \in NamesOf(R), NEW new \in Names, Distinct(R),
         new = old \/ new \notin NamesOf(R)
  PROVE  /\ Distinct(Renamed(R, old, new))
         /\ new \in NamesOf(Renamed(R, old, new))
         /\ NamesOf(R) \subseteq NamesOf(Renamed(R, old, new)) \cup {old}
         /\ DevicesOf(Renamed(R, old, new)) = DevicesOf(R)
<1> DEFINE S == Renamed(R, old, new)
           g(m) == [m EXCEPT !.name = IF m.name = old THEN new ELSE m.name]
<1>1. ASSUME NEW m \in R
      PROVE  /\ g(m) \in S /\ g(m).dev = m.dev /\ g(m).admin = m.admin
             /\ g(m).name = IF m.name = old THEN new ELSE m.name
  BY DEF Renamed, Member
<1>2. ASSUME NEW s \in S PROVE \E m \in R : s = g(m)
  BY DEF Renamed
<1> HIDE DEF S, g
<1>3. Distinct(S)
  <2> SUFFICES ASSUME NEW s \in S, NEW t \in S, s.name = t.name \/ s.dev = t.dev
               PROVE  s = t
    BY DEF Distinct
  <2>1. PICK m \in R, n \in R : s = g(m) /\ t = g(n)
    BY <1>2
  <2>2. m.name = n.name \/ m.dev = n.dev
    BY <1>1, <2>1 DEF NamesOf
  <2> QED
    BY <2>1, <2>2 DEF Distinct
<1>4. DevicesOf(S) = DevicesOf(R)
  BY <1>1, <1>2 DEF DevicesOf
<1>5. NamesOf(R) \subseteq NamesOf(S) \cup {old} /\ new \in NamesOf(S)
  BY <1>1 DEF NamesOf
<1> QED
  BY <1>3, <1>4, <1>5 DEF S

\* What a grant does to a roster.
LEMMA PromotedMeans ==
  ASSUME NEW R \in SUBSET Member, NEW name, Distinct(R)
  PROVE  /\ Distinct(Promoted(R, name))
         /\ NamesOf(Promoted(R, name)) = NamesOf(R)
         /\ DevicesOf(Promoted(R, name)) = DevicesOf(R)
<1> DEFINE S == Promoted(R, name)
           g(m) == [m EXCEPT !.admin = m.admin \/ m.name = name]
<1>1. ASSUME NEW m \in R
      PROVE  g(m) \in S /\ g(m).dev = m.dev /\ g(m).name = m.name
  BY DEF Promoted, Member
<1>2. ASSUME NEW s \in S PROVE \E m \in R : s = g(m)
  BY DEF Promoted
<1> HIDE DEF S, g
<1>3. Distinct(S)
  <2> SUFFICES ASSUME NEW s \in S, NEW t \in S, s.name = t.name \/ s.dev = t.dev
               PROVE  s = t
    BY DEF Distinct
  <2>1. PICK m \in R, n \in R : s = g(m) /\ t = g(n)
    BY <1>2
  <2> QED
    BY <1>1, <2>1 DEF Distinct
<1>4. DevicesOf(S) = DevicesOf(R) /\ NamesOf(S) = NamesOf(R)
  BY <1>1, <1>2 DEF DevicesOf, NamesOf
<1> QED
  BY <1>3, <1>4 DEF S

\* What an entry with a new name and a new device does to a roster.
LEMMA AppendMeans ==
  ASSUME NEW R, NEW m, Distinct(R), m.name \notin NamesOf(R), m.dev \notin DevicesOf(R)
  PROVE  /\ Distinct(R \cup {m})
         /\ NamesOf(R \cup {m}) = NamesOf(R) \cup {m.name}
         /\ DevicesOf(R \cup {m}) = DevicesOf(R) \cup {m.dev}
BY DEF Distinct, NamesOf, DevicesOf

\* The file after a save holds what was saved.
LEMMA WriteMeans ==
  ASSUME NEW R \in SUBSET Member, NEW p, WriteRoster(p, R)
  PROVE  Loaded' = R
BY NoneAssumption DEF WriteRoster, Loaded

\* An untouched file loads as before.
LEMMA LoadedKept == UNCHANGED roster => Loaded' = Loaded
BY DEF Loaded

\* Behind the reload memory holds what the file holds, unless a save failed.
LEMMA UpToDate ==
  ASSUME NEW c \in Procs, Only(c), IInv, InTouch, faults = 0,
         pc[c] \in Inside \ {"saving"}
  PROVE  members = Loaded
BY DEF Only, IInv, Reloads, EditsAreSeen, InTouch, Inside

-----------------------------------------------------------------------------
(***************************************************************************)
(* Steps.                                                                  *)
(***************************************************************************)

\* Rosters that stay as they are stay distinct.
LEMMA EnteredKept ==
  ASSUME NEW c \in Procs, Only(c), TurnsInv, UNCHANGED <<roster, members>>, Checked(c)',
         snap'[c] \in {snap[c], {}}
  PROVE  Entered'
<1>1. Loaded' = Loaded
  BY LoadedKept
<1> QED
  BY <1>1, EmptyRoster DEF Only, TurnsInv, Entered

\* A handler that ends leaves nothing behind but what is recorded.
LEMMA TurnReturns ==
  ASSUME NEW c \in Procs, Only(c), IInv, TurnsInv, Return(c), UNCHANGED <<roster, members>>,
         crashes' = 0 /\ faults' = 0 => Addressed', faults' = 0 => codes' \subseteq invites'
  PROVE  TurnsInv'
<1> USE DEF Only, IInv, Typed, TypeOK, Return, Goto
<1>1. InTouch' /\ Roles' /\ Changing'
  BY DEF TurnsInv, InTouch, Roles, Changing, Inside
<1>2. Entered'
  <2>1. Checked(c)' /\ snap'[c] = {}
    BY DEF Checked
  <2> QED
    BY <2>1, EnteredKept
<1>3. Filing' /\ Invited'
  BY DEF Filing, Addressed, Invited
<1> QED
  BY <1>1, <1>2, <1>3 DEF TurnsInv

\* Outside the spool's handlers every file is addressed to somebody.
LEMMA OthersAddressed ==
  ASSUME NEW c \in Procs, Only(c), TurnsInv, crashes = 0, faults = 0,
         pc[c] \notin {"listing", "settling"} \/ (pc[c] = "settling" /\ work[c] = {})
  PROVE  Addressed
BY DEF Only, TurnsInv, Filing, Addressed

\* The requests that end: refused, failed, lost or done.
LEMMA TurnEnds ==
  ASSUME NEW c \in Procs, Only(c), IInv, TurnsInv,
         \/ Answer(c) \/ JoinRefused(c) \/ RemoveRefused(c) \/ SendLost(c)
         \/ SaveFails(c) \/ ToolFails(c) \/ SaveMint(c) \/ SavePruned(c)
         \/ Park(c) \/ Take(c) \/ Settled(c)
  PROVE  TurnsInv'
<1> DEFINE Ends == /\ Return(c) /\ UNCHANGED <<roster, members>>
                   /\ crashes' = 0 /\ faults' = 0 => Addressed'
                   /\ faults' = 0 => codes' \subseteq invites'
<1>1. SUFFICES Ends
  BY TurnReturns
<1>2. /\ crashes \in Nat /\ faults \in Nat
      /\ faults = 0 /\ pc[c] # "inviting" => codes \subseteq invites
      /\ faults = 0 /\ pc[c] \in {"inviting", "pruning"} => held[c] = codes
  BY DEF IInv, Typed, TypeOK, TurnsInv, Invited, Only
<1>3. UNCHANGED roster => Loaded' = Loaded
  BY LoadedKept
<1>4. /\ crashes = 0 /\ faults = 0
      /\ pc[c] \notin {"listing", "settling"} \/ (pc[c] = "settling" /\ work[c] = {})
      => Addressed
  BY OthersAddressed
<1>5. CASE Answer(c) \/ JoinRefused(c) \/ RemoveRefused(c) \/ SendLost(c)
  BY <1>2, <1>3, <1>4, <1>5
     DEF Answer, JoinRefused, RemoveRefused, SendLost, disk, memory, bounds, Addressed
<1>6. CASE SaveFails(c) \/ ToolFails(c)
  BY <1>2, <1>6 DEF SaveFails, GiveUp, ToolFails, disk, memory
<1>7. CASE SaveMint(c) \/ SavePruned(c)
  BY <1>2, <1>3, <1>4, <1>7 DEF SaveMint, SavePruned, memory, Addressed
<1>8. CASE Park(c)
  <2>1. faults = 0 => req[c].name \in NamesOf(Loaded)
    BY <1>8, UpToDate DEF Park, TurnsInv, Entered, Checked, Inside
  <2>2. PICK i \in Items : parked' = [parked EXCEPT ![i] = req[c].name]
    BY <1>8 DEF Park
  <2>3. crashes' = 0 /\ faults' = 0 => Addressed'
    BY <1>3, <1>4, <1>8, <2>1, <2>2 DEF Park, bounds, Addressed, IInv, Typed, TypeOK
  <2> QED
    BY <1>2, <1>8, <2>3 DEF Park, memory, bounds
<1>9. CASE Take(c)
  <2>1. PICK i \in Items : parked' = [parked EXCEPT ![i] = None]
    BY <1>9 DEF Take
  <2>2. crashes' = 0 /\ faults' = 0 => Addressed'
    BY <1>3, <1>4, <1>9, <2>1 DEF Take, bounds, Addressed, IInv, Typed, TypeOK
  <2> QED
    BY <1>2, <1>9, <2>2 DEF Take, memory, bounds
<1>10. CASE Settled(c)
  BY <1>2, <1>3, <1>4, <1>10 DEF Settled, disk, memory, bounds, Addressed
<1> QED
  BY <1>5, <1>6, <1>7, <1>8, <1>9, <1>10

\* A message arrives and finds memory up to date, or brings it up to date.
LEMMA TurnReceives ==
  ASSUME NEW c \in Conns, Only(c), IInv, TurnsInv, Receive(c) \/ Reload(c)
  PROVE  TurnsInv'
<1> USE DEF Only, IInv, Typed, TypeOK, Goto, disk, memory, time, bounds
<1>1. Loaded' = Loaded
  BY LoadedKept DEF Receive, Reload
<1>2. CASE Receive(c)
  <2>1. InTouch' /\ Roles'
    BY <1>2 DEF Receive, TurnsInv, InTouch, Roles, Inside
  <2>2. Entered'
    <3>1. snap'[c] \in {snap[c], Loaded} /\ Checked(c)'
      BY <1>2 DEF Receive, Checked
    <3> QED
      BY <1>1, <1>2, <3>1 DEF Receive, TurnsInv, Entered
  <2>3. Changing' /\ Filing' /\ Invited'
    BY <1>1, <1>2 DEF Receive, TurnsInv, Changing, Filing, Invited
  <2> QED
    BY <2>1, <2>2, <2>3 DEF TurnsInv
<1>3. CASE Reload(c)
  <2>1. InTouch' /\ Roles'
    BY <1>3 DEF Reload, TurnsInv, InTouch, Roles, Inside
  <2>2. Entered'
    <3>1. snap'[c] = {} /\ Checked(c)' /\ members' = snap[c]
      BY <1>3 DEF Reload, Adopted, Checked
    <3> QED
      BY <1>1, <3>1, EmptyRoster DEF TurnsInv, Entered
  <2>3. Changing' /\ Filing' /\ Invited'
    BY <1>1, <1>3 DEF Reload, TurnsInv, Changing, Filing, Invited
  <2> QED
    BY <2>1, <2>2, <2>3 DEF TurnsInv
<1> QED
  BY <1>2, <1>3

\* A request is checked against the roster and goes on.
LEMMA TurnAsks ==
  ASSUME NEW c \in Conns, Only(c), IInv, TurnsInv,
         JoinAsk(c) \/ RejoinAsk(c) \/ RemoveAsk(c) \/ SendAsk(c)
  PROVE  TurnsInv'
<1> USE DEF Only, IInv, Typed, TypeOK, Goto, Request, disk, memory, stamps, time, bounds,
            NoRequest
<1>1. Loaded' = Loaded
  BY LoadedKept DEF JoinAsk, RejoinAsk, RemoveAsk, SendAsk
<1>a. c \in Procs /\ UNCHANGED <<roster, members, snap>>
  BY DEF JoinAsk, RejoinAsk, RemoveAsk, SendAsk
<1>2. CASE JoinAsk(c)
  <2>1. InTouch' /\ Roles'
    BY <1>2 DEF JoinAsk, TurnsInv, InTouch, Roles, Inside
  <2>2. Entered'
    <3>1. PICK dev \in Devices, name \in Names :
            /\ dev \notin DevicesOf(members) /\ name \notin NamesOf(members)
            /\ req' = [req EXCEPT ![c] =
                        [NoRequest EXCEPT !.op = "join", !.dev = dev, !.name = name]]
      <4>1. PICK dev \in Devices, name \in Names :
              /\ Entries(dev) = {} /\ NameFree(name)
              /\ Request(c, [NoRequest EXCEPT !.op = "join", !.dev = dev, !.name = name])
        BY <1>2, Zenon DEF JoinAsk
      <4>2. dev \notin DevicesOf(members) /\ name \notin NamesOf(members)
        BY <4>1 DEF Entries, NameFree, DevicesOf
      <4> QED
        BY <4>1, <4>2, Zenon DEF Request
    <3>2. pc'[c] = "asking"
      BY <1>2, <3>1 DEF JoinAsk
    <3>3. Checked(c)'
      BY <1>a, <3>1, <3>2 DEF Checked
    <3> QED
      BY <1>a, <3>3, EnteredKept
  <2>3. Changing'
    BY <1>1, <1>2 DEF JoinAsk, TurnsInv, Changing
  <2>4. Filing'
    BY <1>1, <1>2 DEF JoinAsk, TurnsInv, Filing
  <2>5. Invited'
    BY <1>2 DEF JoinAsk, TurnsInv, Invited
  <2> QED
    BY <2>1, <2>2, <2>3, <2>4, <2>5 DEF TurnsInv
<1>3. CASE RejoinAsk(c)
  <2>1. InTouch' /\ Roles'
    BY <1>3 DEF RejoinAsk, TurnsInv, InTouch, Roles, Inside
  <2>2. Entered'
    <3>1. PICK old \in NamesOf(members), name \in Names :
            /\ name = old \/ name \notin NamesOf(members)
            /\ req' = [req EXCEPT ![c] =
                        [NoRequest EXCEPT !.op = "rejoin", !.old = old, !.name = name]]
      <4>0. PICK dev \in Devices, asked \in Names \cup {None} :
              \E me \in Entries(dev) :
                /\ asked \in {None, me.name} \/ NameFree(asked)
                /\ Request(c, [NoRequest EXCEPT !.op = "rejoin", !.old = me.name,
                                                !.name = NewName(me, asked)])
        BY <1>3, Zenon DEF RejoinAsk
      <4>1. PICK me \in Entries(dev) :
              /\ asked \in {None, me.name} \/ NameFree(asked)
              /\ Request(c, [NoRequest EXCEPT !.op = "rejoin", !.old = me.name,
                                              !.name = NewName(me, asked)])
        BY <4>0
      <4>2. /\ me.name \in NamesOf(members) /\ NewName(me, asked) \in Names
            /\ NewName(me, asked) = me.name \/ NewName(me, asked) \notin NamesOf(members)
        BY <4>1 DEF Entries, NewName, NameFree, NamesOf, Member
      <4> QED
        BY <4>1, <4>2, Zenon DEF Request
    <3>2. pc'[c] = "renaming"
      BY <1>3, <3>1 DEF RejoinAsk
    <3>3. Checked(c)'
      BY <1>a, <3>1, <3>2 DEF Checked
    <3> QED
      BY <1>a, <3>3, EnteredKept
  <2>3. Changing'
    BY <1>1, <1>3 DEF RejoinAsk, TurnsInv, Changing
  <2>4. Filing'
    BY <1>1, <1>3 DEF RejoinAsk, TurnsInv, Filing
  <2>5. Invited'
    BY <1>3 DEF RejoinAsk, TurnsInv, Invited
  <2> QED
    BY <2>1, <2>2, <2>3, <2>4, <2>5 DEF TurnsInv
<1>4. CASE RemoveAsk(c)
  <2>1. InTouch' /\ Roles'
    BY <1>4 DEF RemoveAsk, TurnsInv, InTouch, Roles, Inside
  <2>2. Entered'
    <3>1. PICK name \in NamesOf(members) :
            req' = [req EXCEPT ![c] = [NoRequest EXCEPT !.op = "remove", !.name = name]]
      BY <1>4 DEF RemoveAsk
    <3>2. pc'[c] = "removing"
      BY <1>4, <3>1 DEF RemoveAsk
    <3>3. Checked(c)'
      BY <1>a, <3>1, <3>2 DEF Checked, NamesOf, Member
    <3> QED
      BY <1>a, <3>3, EnteredKept
  <2>3. Changing'
    BY <1>1, <1>4 DEF RemoveAsk, TurnsInv, Changing
  <2>4. Filing'
    BY <1>1, <1>4 DEF RemoveAsk, TurnsInv, Filing
  <2>5. Invited'
    BY <1>4 DEF RemoveAsk, TurnsInv, Invited
  <2> QED
    BY <2>1, <2>2, <2>3, <2>4, <2>5 DEF TurnsInv
<1>5. CASE SendAsk(c)
  <2>1. InTouch' /\ Roles'
    BY <1>5 DEF SendAsk, TurnsInv, InTouch, Roles, Inside
  <2>2. Entered'
    <3>1. PICK name \in NamesOf(members) :
            req' = [req EXCEPT ![c] = [NoRequest EXCEPT !.op = "send", !.name = name]]
      BY <1>5 DEF SendAsk, NamesOf
    <3>2. pc'[c] = "depositing"
      BY <1>5, <3>1 DEF SendAsk
    <3>3. Checked(c)'
      BY <1>a, <3>1, <3>2 DEF Checked
    <3> QED
      BY <1>a, <3>3, EnteredKept
  <2>3. Changing'
    BY <1>1, <1>5 DEF SendAsk, TurnsInv, Changing
  <2>4. Filing'
    BY <1>1, <1>5 DEF SendAsk, TurnsInv, Filing
  <2>5. Invited'
    BY <1>5 DEF SendAsk, TurnsInv, Invited
  <2> QED
    BY <2>1, <2>2, <2>3, <2>4, <2>5 DEF TurnsInv
<1> QED
  BY <1>2, <1>3, <1>4, <1>5

\* Invites are minted, burned, saved and pruned.
LEMMA TurnInvites ==
  ASSUME NEW c \in Procs, Only(c), IInv, TurnsInv,
         \/ c \in Conns /\ (Bootstrap(c) \/ TakeInvite(c) \/ SaveBurn(c) \/ Mint(c))
         \/ c \in Sweepers /\ SweepInvites(c)
  PROVE  TurnsInv'
<1> USE DEF Only, IInv, Typed, TypeOK, Goto, Request, disk, memory, stamps, time, bounds
<1>1. Loaded' = Loaded
  BY LoadedKept DEF Bootstrap, TakeInvite, SaveBurn, Mint, SweepInvites
<1>a. UNCHANGED <<roster, members, snap>>
  BY DEF Bootstrap, TakeInvite, SaveBurn, Mint, SweepInvites
<1>b. Checked(c) /\ req[c] \in Requests
  BY DEF TurnsInv, Entered
<1>2. CASE Bootstrap(c)
  <2>1. InTouch' /\ Roles'
    BY <1>2 DEF Bootstrap, TurnsInv, InTouch, Roles, Inside
  <2>2. Entered'
    <3>1. Checked(c)'
      BY <1>a, <1>b, <1>2 DEF Bootstrap, Checked, Requests
    <3> QED
      BY <1>a, <3>1, EnteredKept
  <2>3. Changing'
    BY <1>1, <1>2 DEF Bootstrap, TurnsInv, Changing
  <2>4. Filing'
    BY <1>1, <1>2 DEF Bootstrap, TurnsInv, Filing
  <2>5. Invited'
    BY <1>2 DEF Bootstrap, TurnsInv, Invited
  <2> QED
    BY <2>1, <2>2, <2>3, <2>4, <2>5 DEF TurnsInv
<1>3. CASE TakeInvite(c)
  <2>1. InTouch' /\ Roles'
    BY <1>3 DEF TakeInvite, UpdateCodes, Burned, Usable, TurnsInv, InTouch, Roles, Inside
  <2>2. Entered'
    <3>1. Checked(c)'
      <4>1. PICK k \in Codes : req' = [req EXCEPT ![c] = [req[c] EXCEPT !.code = k]]
        BY <1>3 DEF TakeInvite, Usable
      <4>2. /\ req'[c].op = req[c].op /\ req'[c].gone = req[c].gone /\ req'[c].code # None
            /\ req'[c].dev = req[c].dev /\ req'[c].name = req[c].name
        BY <1>b, <4>1 DEF Requests
      <4>3. pc[c] = "asking" /\ pc'[c] = "burning"
        BY <1>3 DEF TakeInvite
      <4> QED
        BY <1>a, <1>b, <4>2, <4>3 DEF Checked
    <3> QED
      BY <1>a, <3>1, EnteredKept
  <2>3. Changing'
    BY <1>1, <1>3 DEF TakeInvite, UpdateCodes, Burned, Usable, TurnsInv, Changing
  <2>4. Filing'
    BY <1>1, <1>3 DEF TakeInvite, UpdateCodes, Burned, Usable, TurnsInv, Filing
  <2>5. Invited'
    BY <1>3 DEF TakeInvite, UpdateCodes, Burned, Usable, TurnsInv, Invited
  <2> QED
    BY <2>1, <2>2, <2>3, <2>4, <2>5 DEF TurnsInv
<1>4. CASE SaveBurn(c)
  <2>1. InTouch' /\ Roles'
    BY <1>4 DEF SaveBurn, TurnsInv, InTouch, Roles, Inside
  <2>2. Entered'
    <3>1. Checked(c)'
      BY <1>a, <1>b, <1>4 DEF SaveBurn, Checked
    <3> QED
      BY <1>a, <3>1, EnteredKept
  <2>3. Changing'
    BY <1>1, <1>4 DEF SaveBurn, TurnsInv, Changing
  <2>4. Filing'
    BY <1>1, <1>4 DEF SaveBurn, TurnsInv, Filing
  <2>5. Invited'
    BY <1>4 DEF SaveBurn, TurnsInv, Invited
  <2> QED
    BY <2>1, <2>2, <2>3, <2>4, <2>5 DEF TurnsInv
<1>5. CASE Mint(c)
  <2>1. InTouch' /\ Roles'
    BY <1>5 DEF Mint, UpdateCodes, NoRequest, TurnsInv, InTouch, Roles, Inside
  <2>2. Entered'
    <3>1. Checked(c)'
      BY <1>a, <1>b, <1>5 DEF Mint, Checked
    <3> QED
      BY <1>a, <3>1, EnteredKept
  <2>3. Changing'
    BY <1>1, <1>5 DEF Mint, UpdateCodes, NoRequest, TurnsInv, Changing
  <2>4. Filing'
    BY <1>1, <1>5 DEF Mint, UpdateCodes, NoRequest, TurnsInv, Filing
  <2>5. Invited'
    <3>1. PICK k \in Codes \ minted :
            /\ codes' = codes \cup {k} /\ held' = [held EXCEPT ![c] = codes \cup {k}]
            /\ minted' = minted \cup {k} /\ req'[c].code = k
      <4>1. PICK m \in members, k \in Codes \ minted :
              /\ UpdateCodes(c, codes \cup {k})
              /\ minted' = minted \cup {k}
              /\ Request(c, [NoRequest EXCEPT !.op = "invite", !.code = k])
        BY <1>5, Zenon DEF Mint
      <4>2. req'[c].code = k
        BY <4>1 DEF NoRequest
      <4> QED
        BY <4>1, <4>2 DEF UpdateCodes
    <3>2. pc[c] = "received" /\ pc'[c] = "inviting" /\ UNCHANGED <<invites, faults>>
      BY <1>5 DEF Mint
    <3> QED
      BY <3>1, <3>2 DEF TurnsInv, Invited
  <2> QED
    BY <2>1, <2>2, <2>3, <2>4, <2>5 DEF TurnsInv
<1>6. CASE SweepInvites(c)
  <2>1. InTouch' /\ Roles'
    BY <1>6 DEF SweepInvites, UpdateCodes, TurnsInv, InTouch, Roles, Inside
  <2>2. Entered'
    <3>1. Checked(c)'
      BY <1>a, <1>b, <1>6 DEF SweepInvites, Checked
    <3> QED
      BY <1>a, <3>1, EnteredKept
  <2>3. Changing'
    BY <1>1, <1>6 DEF SweepInvites, UpdateCodes, TurnsInv, Changing
  <2>4. Filing'
    BY <1>1, <1>6 DEF SweepInvites, UpdateCodes, TurnsInv, Filing
  <2>5. Invited'
    BY <1>6 DEF SweepInvites, UpdateCodes, TurnsInv, Invited
  <2> QED
    BY <2>1, <2>2, <2>3, <2>4, <2>5 DEF TurnsInv
<1> QED
  BY <1>2, <1>3, <1>4, <1>5, <1>6

\* A request changes the roster in memory and takes the copy to save.
LEMMA TurnUpdates ==
  ASSUME NEW c \in Conns, NEW R \in SUBSET Member, Only(c), IInv, TurnsInv, Update(c, R),
         pc[c] \in {"admitted", "renaming", "removing"}, Distinct(R), Change(req'[c], members, R),
         UNCHANGED <<disk, codes, newer, held, stamps, time, astray, bounds>>,
         req'[c].op \in {"join", "rejoin", "remove"},
         req'[c].op # "remove" <=> req'[c].name \in NamesOf(R),
         req'[c].op = "remove" => req'[c].name # req'[c].old,
         req'[c].op = "join" /\ req'[c].code = None => members = {}
  PROVE  TurnsInv'
<1>1. /\ c \in Procs /\ Loaded' = Loaded /\ pc'[c] = "saving" /\ snap'[c] = R /\ members' = R
      /\ UNCHANGED <<newer, clean, late, crossed, parked, astray, codes, invites, crashes,
                     faults>>
  BY LoadedKept DEF Update, Goto, disk, stamps, bounds, IInv, Typed, TypeOK
<1>2. faults = 0 => members = Loaded
  BY <1>1, UpToDate DEF TurnsInv, Inside
<1>3. InTouch' /\ Roles'
  BY <1>1 DEF Only, TurnsInv, InTouch, Roles, Inside
<1>4. Entered'
  <2>1. Distinct(Loaded) /\ Checked(c)'
    BY <1>1 DEF TurnsInv, Entered, Checked
  <2> QED
    BY <1>1, <2>1 DEF Only, Entered
<1>5. Changing'
  <2>1. faults = 0 => Change(req'[c], Loaded', snap'[c])
    BY <1>1, <1>2
  <2>2. faults = 0 /\ req'[c].op = "join" /\ req'[c].code = None => Loaded' = {}
    BY <1>1, <1>2
  <2> QED
    BY <1>1, <2>1, <2>2 DEF Only, Changing
<1>6. Filing'
  <2>1. crashes = 0 /\ faults = 0 => Addressed
    BY <1>1, OthersAddressed
  <2> QED
    BY <1>1, <2>1 DEF Only, Filing, Addressed
<1>7. Invited'
  BY <1>1 DEF Only, TurnsInv, Invited
<1> QED
  BY <1>3, <1>4, <1>5, <1>6, <1>7 DEF TurnsInv

\* A join, a rename and a removal change the roster by their own entry.
LEMMA TurnChanges ==
  ASSUME NEW c \in Conns, Only(c), IInv, TurnsInv, Append(c) \/ Rename(c) \/ Remove(c)
  PROVE  TurnsInv'
<1>1. /\ c \in Procs /\ members \in SUBSET Member /\ Distinct(members) /\ Checked(c)
      /\ req[c] \in Requests /\ req \in [Procs -> Requests]
      /\ pc[c] \in {"admitted", "renaming"} => req[c].name \in Names
      /\ pc[c] = "admitted" => req[c].dev \in Devices
  BY DEF IInv, Typed, TypeOK, Named, TurnsInv, Entered
<1>2. CASE Append(c)
  <2> DEFINE m == [name |-> req[c].name, dev |-> req[c].dev, admin |-> req[c].admin]
             R == members \cup {m}
  <2>1. /\ pc[c] = "admitted" /\ Update(c, R) /\ req' = req
        /\ UNCHANGED <<disk, codes, newer, held, stamps, time, astray, bounds>>
    BY <1>2 DEF Append
  <2>2. m \in Member /\ m.name = req[c].name /\ m.dev = req[c].dev
    BY <1>1, <2>1 DEF Member, Requests
  <2>3. /\ req[c].op = "join" /\ req[c].gone = {}
        /\ req[c].dev \notin DevicesOf(members) /\ req[c].name \notin NamesOf(members)
        /\ req[c].code = None => members = {}
    BY <1>1, <2>1 DEF Checked
  <2> HIDE DEF m
  <2>4. /\ Distinct(R) /\ NamesOf(R) = NamesOf(members) \cup {req[c].name}
        /\ DevicesOf(R) = DevicesOf(members) \cup {req[c].dev}
    BY <1>1, <2>2, <2>3, AppendMeans
  <2>5. Change(req[c], members, R) /\ R \in SUBSET Member
    BY <1>1, <2>2, <2>3, <2>4 DEF Change
  <2> HIDE DEF R
  <2> QED
    BY <2>1, <2>3, <2>4, <2>5, TurnUpdates
<1>3. CASE Rename(c)
  <2> DEFINE R == Renamed(members, req[c].old, req[c].name)
  <2>1. /\ pc[c] = "renaming" /\ Update(c, R) /\ req' = req
        /\ UNCHANGED <<disk, codes, newer, held, stamps, time, astray, bounds>>
    BY <1>3 DEF Rename
  <2>2. /\ req[c].op = "rejoin" /\ req[c].gone = {} /\ req[c].old \in NamesOf(members)
        /\ req[c].name = req[c].old \/ req[c].name \notin NamesOf(members)
        /\ req[c].name \in Names
    BY <1>1, <2>1 DEF Checked
  <2>3. /\ Distinct(R) /\ req[c].name \in NamesOf(R) /\ DevicesOf(R) = DevicesOf(members)
        /\ NamesOf(members) \subseteq NamesOf(R) \cup {req[c].old}
    BY <1>1, <2>2, RenamedMeans
  <2>4. R \in SUBSET Member
    BY <1>1, <2>2, RenamedType
  <2>5. Change(req[c], members, R)
    BY <2>2, <2>3 DEF Change, Prior, Follows
  <2> HIDE DEF R
  <2> QED
    BY <2>1, <2>2, <2>3, <2>4, <2>5, TurnUpdates
<1>4. CASE Remove(c)
  <2> DEFINE R == Without(members, req[c].name)
             gone == DevicesOf(members) \ DevicesOf(R)
  <2>1. /\ pc[c] = "removing" /\ Update(c, R) /\ req' = [req EXCEPT ![c] = [@ EXCEPT !.gone = gone]]
        /\ UNCHANGED <<disk, codes, newer, held, stamps, time, astray, bounds>>
    BY <1>4 DEF Remove, Request
  <2>2. /\ req'[c].op = req[c].op /\ req'[c].name = req[c].name /\ req'[c].old = req[c].old
        /\ req'[c].gone = gone
    BY <1>1, <2>1 DEF Requests
  <2>3. req[c].op = "remove" /\ req[c].name # req[c].old
    BY <1>1, <2>1 DEF Checked
  <2>4. /\ Distinct(R) /\ req[c].name \notin NamesOf(R)
        /\ NamesOf(members) \subseteq NamesOf(R) \cup {req[c].name}
        /\ DevicesOf(R) \subseteq DevicesOf(members)
    BY <1>1, WithoutMeans
  <2>5. R \in SUBSET Member
    BY <1>1, WithoutType
  <2>6. Change(req'[c], members, R)
    BY <2>2, <2>3, <2>4 DEF Change, Prior, Follows
  <2> HIDE DEF R, gone
  <2> QED
    BY <2>1, <2>2, <2>3, <2>4, <2>5, <2>6, TurnUpdates
<1> QED
  BY <1>2, <1>3, <1>4

\* A copy is saved: what it was made for is all that changes in the file.
LEMMA TurnWrites ==
  ASSUME NEW c \in Procs, Only(c), IInv, TurnsInv, SaveRoster(c) \/ ToolSave(c),
         c \in Conns \/ pc[c] # "saving"
  PROVE  TurnsInv'
<1> DEFINE R == snap[c]
<1>1. /\ R \in SUBSET Member /\ Distinct(R) /\ req[c] \in Requests /\ req \in [Procs -> Requests]
      /\ pc \in [Procs -> Labels] /\ snap \in [Procs -> SUBSET Member]
  BY DEF IInv, Typed, TypeOK, TurnsInv, Entered
<1>2. /\ pc[c] \in {"saving", "editing"} /\ WriteRoster(c, R) /\ snap' = [snap EXCEPT ![c] = {}]
      /\ UNCHANGED <<invites, parked, astray, members, codes, crashes, faults>>
  BY DEF SaveRoster, ToolSave, bounds
<1>3. /\ req[c].op # "remove" <=> req[c].name \in NamesOf(R)
      /\ req[c].op = "remove" => req[c].name # req[c].old
      /\ req[c].op \in {"join", "rejoin", "remove", "grant"}
      /\ faults = 0 => NamesOf(Loaded) \subseteq NamesOf(R) \cup {Prior(req[c])}
  BY <1>2 DEF TurnsInv, Changing, Change
<1>4. \/ /\ pc'[c] = "idle" /\ req[c].op # "remove"
         /\ req[c].op = "rejoin" => req[c].old = req[c].name
      \/ /\ pc'[c] = "listing" /\ req[c].op \in {"rejoin", "remove"}
         /\ req'[c].op = req[c].op /\ req'[c].name = req[c].name /\ req'[c].old = req[c].old
  <2>1. CASE SaveRoster(c)
    <3>1. pc[c] = "saving" /\ req[c].op \in {"join", "rejoin", "remove"}
      BY <2>1 DEF SaveRoster, TurnsInv, Changing
    <3>2. CASE req[c].op = "join" \/ req[c].old = req[c].name
      <4>1. pc'[c] = "idle"
        BY <1>1, <2>1, <3>2 DEF SaveRoster, Goto
      <4> QED
        BY <1>3, <3>2, <4>1
    <3>3. CASE ~(req[c].op = "join" \/ req[c].old = req[c].name)
      <4>1. pc'[c] = "listing" /\ req' = [req EXCEPT ![c] = [req[c] EXCEPT !.gone = {}]]
        BY <1>1, <2>1, <3>3 DEF SaveRoster, Goto, Request
      <4> QED
        BY <1>1, <3>1, <3>3, <4>1 DEF Requests
    <3> QED
      BY <3>2, <3>3
  <2>2. CASE ToolSave(c)
    <3>1. pc[c] = "editing" /\ req[c].op \in {"grant", "remove"}
      BY <2>2 DEF ToolSave, TurnsInv, Changing
    <3>2. CASE req[c].op = "remove"
      <4>1. pc'[c] = "listing" /\ req' = [req EXCEPT ![c] = [req[c] EXCEPT !.gone = {}]]
        BY <1>1, <2>2, <3>2 DEF ToolSave, Goto, Request
      <4> QED
        BY <1>1, <3>2, <4>1 DEF Requests
    <3>3. CASE req[c].op # "remove"
      <4>1. pc'[c] = "idle"
        BY <1>1, <2>2, <3>3 DEF ToolSave, Goto
      <4> QED
        BY <3>1, <3>3, <4>1
    <3> QED
      BY <3>2, <3>3
  <2> QED
    BY <2>1, <2>2
<1>5. Loaded' = R
  BY <1>1, <1>2, WriteMeans
<1>6. InTouch' /\ Roles'
  BY <1>2, <1>4 DEF WriteRoster, Only, TurnsInv, InTouch, Roles, Inside
<1>7. Entered'
  <2>1. Checked(c)' /\ snap'[c] = {}
    BY <1>1, <1>2, <1>4 DEF Checked
  <2> QED
    BY <1>1, <1>2, <1>5, <2>1, EmptyRoster DEF Only, TurnsInv, Entered
<1>8. Changing' /\ Invited'
  BY <1>2, <1>4 DEF Only, TurnsInv, Changing, Invited
<1>9. Filing'
  <2>1. /\ pc'[c] = "listing" => /\ req'[c].op \in {"rejoin", "remove"}
                                 /\ req'[c].op = "rejoin" => req'[c].name \in NamesOf(Loaded')
                                 /\ req'[c].op = "remove" => req'[c].name \notin NamesOf(Loaded')
        /\ pc'[c] # "settling"
    BY <1>3, <1>4, <1>5
  <2>2. ASSUME crashes = 0, faults = 0, NEW i \in Items \ astray
        PROVE  \/ parked'[i] \in NamesOf(Loaded') \cup {None}
               \/ pc'[c] = "listing" /\ parked'[i] = Prior(req'[c])
    <3>1. parked'[i] \in NamesOf(Loaded) \cup {None}
      BY <1>2, <2>2, OthersAddressed DEF Addressed
    <3>2. \/ parked'[i] \in NamesOf(R) \cup {None} \/ parked'[i] = Prior(req[c])
      BY <1>3, <2>2, <3>1
    <3>3. CASE pc'[c] = "idle"
      BY <1>3, <1>4, <1>5, <3>2, <3>3 DEF Prior, Follows
    <3>4. CASE pc'[c] = "listing"
      BY <1>4, <1>5, <3>2, <3>4 DEF Prior, Follows
    <3> QED
      BY <1>4, <3>3, <3>4
  <2> QED
    BY <1>2, <2>1, <2>2 DEF Only, Filing
<1> QED
  BY <1>6, <1>7, <1>8, <1>9 DEF TurnsInv

\* A command reads the file and prepares its change.
LEMMA TurnLoads ==
  ASSUME NEW c \in Tools, Only(c), IInv, TurnsInv, ToolLoad(c)
  PROVE  TurnsInv'
<1>1. /\ c \in Procs /\ Loaded \in SUBSET Member /\ Distinct(Loaded) /\ Distinct(members)
      /\ req \in [Procs -> Requests] /\ snap \in [Procs -> SUBSET Member]
      /\ pc \in [Procs -> Labels]
  BY LoadedType DEF IInv, Typed, TypeOK, TurnsInv, Entered
<1>2. /\ pc[c] = "idle" /\ pc'[c] = "editing" /\ Loaded' = Loaded
      /\ UNCHANGED <<roster, members, newer, codes, parked, astray, invites, stamps, crashes,
                     faults, minted>>
  BY <1>1, LoadedKept DEF ToolLoad, Goto, disk, memory, bounds, time
<1>3. PICK m \in Loaded :
        \/ /\ snap' = [snap EXCEPT ![c] = Promoted(Loaded, m.name)]
           /\ Request(c, [NoRequest EXCEPT !.op = "grant", !.name = m.name])
        \/ /\ snap' = [snap EXCEPT ![c] = Without(Loaded, m.name)]
           /\ Request(c, [NoRequest EXCEPT !.op = "remove", !.name = m.name,
                !.gone = DevicesOf(Loaded) \ DevicesOf(Without(Loaded, m.name))])
  BY DEF ToolLoad
<1>4. m.name \in NamesOf(Loaded) /\ m.name \in Names
  BY <1>1 DEF NamesOf, Member
<1>5. /\ req'[c].op \in {"grant", "remove"} /\ Distinct(snap'[c])
      /\ req'[c].op # "remove" <=> req'[c].name \in NamesOf(snap'[c])
      /\ req'[c].op = "remove" => req'[c].name # req'[c].old
      /\ Change(req'[c], Loaded, snap'[c])
  <2>1. CASE /\ snap' = [snap EXCEPT ![c] = Promoted(Loaded, m.name)]
             /\ Request(c, [NoRequest EXCEPT !.op = "grant", !.name = m.name])
    <3>1. snap'[c] = Promoted(Loaded, m.name)
      BY <1>1, <2>1
    <3>2. req'[c].op = "grant" /\ req'[c].name = m.name /\ req'[c].gone = {}
      BY <1>1, <2>1 DEF Request, NoRequest
    <3> QED
      BY <1>1, <1>4, <3>1, <3>2, PromotedMeans DEF Change
  <2>2. CASE /\ snap' = [snap EXCEPT ![c] = Without(Loaded, m.name)]
             /\ Request(c, [NoRequest EXCEPT !.op = "remove", !.name = m.name,
                  !.gone = DevicesOf(Loaded) \ DevicesOf(Without(Loaded, m.name))])
    <3>1. snap'[c] = Without(Loaded, m.name)
      BY <1>1, <2>2
    <3>2. /\ req'[c].op = "remove" /\ req'[c].name = m.name /\ req'[c].old = None
          /\ req'[c].gone = DevicesOf(Loaded) \ DevicesOf(snap'[c])
      BY <1>1, <2>2, <3>1 DEF Request, NoRequest
    <3>3. /\ Distinct(snap'[c]) /\ m.name \notin NamesOf(snap'[c])
          /\ NamesOf(Loaded) \subseteq NamesOf(snap'[c]) \cup {m.name}
          /\ DevicesOf(snap'[c]) \subseteq DevicesOf(Loaded)
      BY <1>1, <3>1, WithoutMeans
    <3> QED
      BY <1>4, <3>2, <3>3 DEF Change, Prior, Follows
  <2> QED
    BY <1>3, <2>1, <2>2
<1>6. InTouch' /\ Roles'
  BY <1>1, <1>2 DEF stamps, Only, TurnsInv, InTouch, Roles, Inside
<1>7. Entered'
  <2>1. Checked(c)'
    BY <1>2 DEF Checked
  <2> QED
    BY <1>1, <1>2, <1>5, <2>1 DEF Only, Entered
<1>8. Changing' /\ Invited'
  BY <1>1, <1>2, <1>5 DEF Only, TurnsInv, Changing, Invited
<1>9. Filing'
  <2>1. crashes = 0 /\ faults = 0 => Addressed
    BY <1>1, <1>2, OthersAddressed
  <2> QED
    BY <1>1, <1>2, <2>1 DEF Only, Filing, Addressed
<1> QED
  BY <1>6, <1>7, <1>8, <1>9 DEF TurnsInv

\* The parked files of a name are listed, and follow it or go.
LEMMA TurnSettles ==
  ASSUME NEW c \in Procs, Only(c), IInv, TurnsInv, ListFiles(c) \/ SettleFile(c)
  PROVE  TurnsInv'
<1>1. /\ Loaded' = Loaded /\ pc \in [Procs -> Labels] /\ work \in [Procs -> SUBSET Items]
      /\ parked \in [Items -> Names \cup {None}]
      /\ UNCHANGED <<roster, members, codes, newer, req, snap, held, invites, stamps, minted,
                     crashes, faults>>
  BY LoadedKept
     DEF ListFiles, SettleFile, disk, memory, time, bounds, IInv, Typed, TypeOK
<1>2. pc[c] \in {"listing", "settling"} /\ pc'[c] = "settling"
  BY <1>1 DEF ListFiles, SettleFile, Goto
<1>3. /\ req[c].op \in {"rejoin", "retarget", "remove"}
      /\ req[c].op = "rejoin" => req[c].name \in NamesOf(Loaded)
      /\ req[c].op = "retarget" => req[c].name \in Names
      /\ req[c].op = "remove" => req[c].name \notin NamesOf(Loaded)
      /\ pc[c] = "settling" => \A i \in work[c] : parked[i] = Prior(req[c])
      /\ crashes = 0 /\ faults = 0 =>
           \A i \in Items \ astray :
             \/ parked[i] \in NamesOf(Loaded) \cup {None}
             \/ pc[c] = "listing" /\ parked[i] = Prior(req[c])
             \/ pc[c] = "settling" /\ i \in work[c]
  BY <1>2 DEF Only, TurnsInv, Filing
<1>4. /\ \A i \in work'[c] : parked'[i] = Prior(req[c])
      /\ crashes = 0 /\ faults = 0 =>
           \A i \in Items \ astray' :
             parked'[i] \in NamesOf(Loaded) \cup {None} \/ i \in work'[c]
  <2>1. CASE ListFiles(c)
    BY <1>1, <1>3, <2>1 DEF ListFiles, FilesOf, Prior, disk
  <2>2. CASE SettleFile(c)
    <3>1. PICK i \in work[c] :
            /\ work' = [work EXCEPT ![c] = @ \ {i}]
            /\ parked' = [parked EXCEPT ![i] =
                 IF Follows(req[c]) /\ @ # None THEN req[c].name ELSE None]
            /\ astray' = (astray \ {i}) \cup {j \in {i} : req[c].op = "retarget"}
      BY <2>2 DEF SettleFile
    <3>2. /\ i \in Items /\ work'[c] = work[c] \ {i}
          /\ parked'[i] \in {None} \cup (IF Follows(req[c]) THEN {req[c].name} ELSE {})
          /\ \A j \in Items \ {i} : parked'[j] = parked[j] /\ (j \in astray' <=> j \in astray)
          /\ i \in astray' <=> req[c].op = "retarget"
          /\ work[c] \subseteq Items
      BY <1>1, <3>1
    <3>3. pc[c] = "settling"
      BY <2>2 DEF SettleFile
    <3> QED
      BY <1>3, <3>2, <3>3 DEF Follows
  <2> QED
    BY <2>1, <2>2
<1>5. InTouch' /\ Roles'
  BY <1>1, <1>2 DEF stamps, Only, TurnsInv, InTouch, Roles, Inside
<1>6. Entered'
  <2>1. Checked(c)'
    BY <1>2 DEF Checked
  <2> QED
    BY <1>1, <2>1, EnteredKept
<1>7. Changing' /\ Invited'
  BY <1>1, <1>2 DEF Only, TurnsInv, Changing, Invited
<1>8. Filing'
  BY <1>1, <1>2, <1>3, <1>4 DEF Only, Filing
<1> QED
  BY <1>5, <1>6, <1>7, <1>8 DEF TurnsInv

\* A re-join with an unreadable key leaves the roster and goes on with the spool.
LEMMA TurnRetargets ==
  ASSUME NEW c \in Conns, Only(c), IInv, TurnsInv, Retarget(c)
  PROVE  TurnsInv'
<1>1. /\ c \in Procs /\ Loaded' = Loaded /\ pc[c] = "renaming" /\ req[c].name \in Names
      /\ UNCHANGED <<roster, members, newer, codes, parked, astray, invites, crashes, faults,
                     minted>>
      /\ pc \in [Procs -> Labels] /\ req \in [Procs -> Requests]
      /\ crashes = 0 /\ faults = 0 => Addressed
      /\ faults = 0 => codes \subseteq invites
  <2>1. pc[c] = "renaming" /\ UNCHANGED <<disk, memory, time, astray, bounds>>
    BY DEF Retarget
  <2>2. crashes = 0 /\ faults = 0 => Addressed
    BY <2>1, OthersAddressed
  <2>3. faults = 0 => codes \subseteq invites
    BY <2>1 DEF Only, TurnsInv, Invited
  <2> QED
    BY <2>1, <2>2, <2>3, LoadedKept
       DEF disk, memory, time, bounds, IInv, Typed, TypeOK, Named
<1>2. CASE req[c].old = req[c].name
  <2>1. Return(c)
    BY <1>2 DEF Retarget
  <2>2. crashes' = 0 /\ faults' = 0 => Addressed'
    BY <1>1 DEF Addressed
  <2> QED
    BY <1>1, <2>1, <2>2, TurnReturns
<1>3. CASE req[c].old # req[c].name
  <2>1. /\ pc' = [pc EXCEPT ![c] = "listing"]
        /\ req' = [req EXCEPT ![c] = [req[c] EXCEPT !.op = "retarget"]]
        /\ UNCHANGED <<snap, held, stamps, work>>
    BY <1>3 DEF Retarget, Goto, Request
  <2>2. pc'[c] = "listing" /\ req'[c].op = "retarget" /\ req'[c].name = req[c].name
    BY <1>1, <2>1 DEF Requests
  <2>3. InTouch' /\ Roles'
    BY <1>1, <2>1, <2>2 DEF stamps, Only, TurnsInv, InTouch, Roles, Inside
  <2>4. Entered'
    <3>1. Checked(c)'
      BY <2>2 DEF Checked
    <3> QED
      BY <1>1, <2>1, <3>1, EnteredKept
  <2>5. Changing' /\ Invited'
    BY <1>1, <2>1, <2>2 DEF Only, TurnsInv, Changing, Invited
  <2>6. Filing'
    BY <1>1, <2>2 DEF Only, Filing, Addressed
  <2> QED
    BY <2>3, <2>4, <2>5, <2>6 DEF TurnsInv
<1> QED
  BY <1>2, <1>3

\* The stash dies and boots from its files; a command goes on.
LEMMA TurnCrashes ==
  ASSUME IInv, TurnsInv, Crash
  PROVE  TurnsInv'
<1>1. /\ Loaded' = Loaded /\ members' = Loaded /\ crashes' # 0 /\ late' = {} /\ ~crossed'
      /\ UNCHANGED <<roster, invites, parked, astray, faults, minted>> /\ codes' \subseteq invites
  BY LoadedKept DEF Crash, disk, time, IInv, Typed, TypeOK, TurnsInv, InTouch
<1>2. ASSUME NEW p \in Procs
      PROVE  \/ /\ pc'[p] = "idle" /\ snap'[p] = {} /\ req'[p] = NoRequest
             \/ /\ pc'[p] = pc[p] /\ pc[p] \in {"idle", "editing", "listing", "settling"}
                /\ snap'[p] = snap[p] /\ req'[p] = req[p] /\ work'[p] = work[p]
  BY DEF Crash, TurnsInv, Roles
<1>3. InTouch' /\ Roles'
  BY <1>1, <1>2 DEF InTouch, Roles, Inside
<1>4. Entered'
  <2>1. ASSUME NEW p \in Procs PROVE Distinct(snap'[p]) /\ Checked(p)'
    BY <1>2, EmptyRoster DEF TurnsInv, Entered, Checked
  <2> QED
    BY <1>1, <2>1 DEF TurnsInv, Entered
<1>5. Changing'
  BY <1>1, <1>2 DEF TurnsInv, Changing
<1>6. Filing'
  BY <1>1, <1>2 DEF TurnsInv, Filing
<1>7. Invited'
  BY <1>1, <1>2 DEF Invited
<1> QED
  BY <1>3, <1>4, <1>5, <1>6, <1>7 DEF TurnsInv

\* Every step of the one process keeps the invariant.
LEMMA TurnsNext == ASSUME Turns PROVE IInv /\ TurnsInv /\ [Next]_vars => TurnsInv'
<1> SUFFICES ASSUME IInv, TurnsInv, [Next]_vars PROVE TurnsInv'
  OBVIOUS
<1>1. ASSUME NEW c \in Procs PROVE Only(c)
  BY DEF Turns, Only
<1>2. ASSUME NEW c \in Conns, Receive(c) \/ Reload(c) \/ Answer(c) PROVE TurnsInv'
  BY <1>1, <1>2, TurnReceives, TurnEnds
<1>3. ASSUME NEW c \in Conns, Join(c) PROVE TurnsInv'
  BY <1>1, <1>3, TurnAsks, TurnInvites, TurnChanges, TurnRetargets, TurnEnds DEF Join
<1>4. ASSUME NEW c \in Conns, Manage(c) PROVE TurnsInv'
  BY <1>1, <1>4, TurnAsks, TurnInvites, TurnChanges, TurnEnds DEF Manage
<1>5. ASSUME NEW c \in Conns, Spooled(c) PROVE TurnsInv'
  BY <1>1, <1>5, TurnAsks, TurnEnds DEF Spooled
<1>6. ASSUME NEW c \in Conns, SaveRoster(c) \/ SaveFails(c) PROVE TurnsInv'
  BY <1>1, <1>6, TurnWrites, TurnEnds
<1>7. ASSUME NEW p \in Procs, Settle(p) PROVE TurnsInv'
  BY <1>1, <1>7, TurnSettles, TurnEnds DEF Settle
<1>8. ASSUME NEW t \in Tools, Tool(t) PROVE TurnsInv'
  <2>1. t \in Procs /\ Only(t) /\ (ToolSave(t) => pc[t] # "saving")
    BY <1>1 DEF ToolSave
  <2> QED
    BY <1>8, <2>1, TurnLoads, TurnWrites, TurnEnds DEF Tool
<1>9. ASSUME NEW w \in Sweepers, SweepInvites(w) \/ SavePruned(w) PROVE TurnsInv'
  BY <1>1, <1>9, TurnInvites, TurnEnds
<1>10. CASE Expire \/ UNCHANGED vars
  <2>1. UNCHANGED <<disk, memory, local, minted, astray, bounds>>
    BY <1>10 DEF Expire, vars, time
  <2>2. Loaded' = Loaded
    BY <2>1, LoadedKept DEF disk
  <2>3. InTouch' /\ Roles' /\ Entered'
    BY <2>1, <2>2 DEF memory, local, stamps, TurnsInv, InTouch, Roles, Entered, Checked
  <2>4. Changing' /\ Filing' /\ Invited'
    BY <2>1, <2>2 DEF disk, memory, local, bounds, TurnsInv, Changing, Filing, Invited
  <2> QED
    BY <2>3, <2>4 DEF TurnsInv
<1>11. CASE Crash
  BY <1>11, TurnCrashes
<1> QED
  BY <1>2, <1>3, <1>4, <1>5, <1>6, <1>7, <1>8, <1>9, <1>10, <1>11 DEF Next

\* The first state satisfies the invariant.
LEMMA TurnsInit == Init => TurnsInv
<1> SUFFICES ASSUME Init PROVE TurnsInv
  OBVIOUS
<1>1. InTouch /\ Roles /\ Changing /\ Filing /\ Invited
  BY DEF Init, InTouch, Roles, Changing, Filing, Invited, Inside
<1>2. Entered
  BY EmptyRoster DEF Init, Entered, Checked, Loaded
<1> QED
  BY <1>1, <1>2 DEF TurnsInv

\* The invariant of a stash that takes turns holds in every reachable state.
THEOREM RosterTurns == ASSUME Turns PROVE Spec => [](IInv /\ TurnsInv)
<1>1. Init => IInv /\ TurnsInv
  BY IInvInit, TurnsInit
<1>2. IInv /\ TurnsInv /\ [Next]_vars => (IInv /\ TurnsInv)'
  BY IInvNext, TurnsNext
<1> QED
  BY <1>1, <1>2, PTL DEF Spec

-----------------------------------------------------------------------------
(***************************************************************************)
(* What follows.                                                           *)
(***************************************************************************)

\* A device has one entry and a name stands for one device, in memory and in
\* roster.json: what opJoin and a rename checked under the mutex still holds when
\* they change the roster, even if saves fail in between.
THEOREM OneEntry == ASSUME Turns PROVE Spec => []OneEntryEach
<1>1. TurnsInv => OneEntryEach
  BY DEF TurnsInv, Entered, Distinct, OneEntryEach
<1> QED
  BY RosterTurns, <1>1, PTL

\* Between requests every parked file is addressed to a member: a rename or a
\* removal has found all that was parked for the old name, and no deposit has
\* written a name that went while it streamed.  Only files that a re-join with an
\* unreadable key and a new name has moved may belong to nobody.
THEOREM FilesHaveMembers == ASSUME Turns PROVE Spec => []ParkedForMember
<1>1. TurnsInv => ParkedForMember
  BY DEF TurnsInv, Filing, ParkedForMember, Resting, AddressesMembers
<1> QED
  BY RosterTurns, <1>1, PTL

\* Only a save changes roster.json.
LEMMA Writers ==
  ASSUME [Next]_vars
  PROVE  \/ UNCHANGED roster
         \/ \E c \in Conns : SaveRoster(c)
         \/ \E t \in Tools : ToolSave(t)
<1> USE DEF disk
<1>1. ASSUME NEW c \in Conns, Receive(c) \/ Reload(c) \/ Answer(c) \/ Spooled(c) \/ SaveFails(c)
      PROVE  UNCHANGED roster
  BY <1>1 DEF Receive, Reload, Answer, Spooled, SendAsk, Park, SendLost, Take, SaveFails
<1>2. ASSUME NEW c \in Conns, Join(c) \/ Manage(c)
      PROVE  UNCHANGED roster
  BY <1>2 DEF Join, JoinAsk, Bootstrap, TakeInvite, SaveBurn, JoinRefused, Append, RejoinAsk,
              Rename, Retarget, Manage, Mint, SaveMint, RemoveAsk, Remove, RemoveRefused
<1>3. ASSUME NEW p, Settle(p) \/ ToolLoad(p) \/ ToolFails(p) \/ SweepInvites(p) \/ SavePruned(p)
      PROVE  UNCHANGED roster
  BY <1>3 DEF Settle, ListFiles, SettleFile, Settled, ToolLoad, ToolFails, SweepInvites,
              SavePruned
<1>4. Expire \/ Crash \/ UNCHANGED vars => UNCHANGED roster
  BY DEF Expire, Crash, vars
<1> QED
  BY <1>1, <1>2, <1>3, <1>4 DEF Next, Tool

\* roster.json gains a device only with the save of that device's own join and
\* loses one only with the save of its own removal, until a save fails: the copy
\* a request saves differs from the file by that request alone, since nobody has
\* written the file between the reload in front of the request and its save.
THEOREM ChangesAreOwn == ASSUME Turns PROVE Spec => OwnChangesOnly
<1>1. IInv /\ TurnsInv /\ [Next]_vars => [faults = 0 => OwnChange]_vars
  <2> SUFFICES ASSUME IInv, TurnsInv, [Next]_vars, faults = 0 PROVE OwnChange
    OBVIOUS
  <2>1. CASE UNCHANGED roster
    BY <2>1, LoadedKept DEF OwnChange
  <2>2. ASSUME NEW c \in Procs, WriteRoster(c, snap[c]), pc[c] \in {"saving", "editing"},
               pc[c] = "saving" => c \in Conns, pc[c] = "editing" => c \in Tools
        PROVE  OwnChange
    <3>1. snap[c] \in SUBSET Member
      BY DEF IInv, Typed, TypeOK
    <3>2. Loaded' = snap[c]
      BY <2>2, <3>1, WriteMeans
    <3>3. /\ Change(req[c], Loaded, snap[c])
          /\ req[c].op = "join" => pc[c] = "saving"
      BY <2>2 DEF TurnsInv, Changing
    <3> QED
      BY <2>2, <3>2, <3>3 DEF OwnChange, Change
  <2>3. ASSUME NEW c \in Conns, SaveRoster(c) PROVE OwnChange
    BY <2>2, <2>3 DEF SaveRoster
  <2>4. ASSUME NEW t \in Tools, ToolSave(t) PROVE OwnChange
    BY <2>2, <2>4 DEF ToolSave
  <2> QED
    BY <2>1, <2>3, <2>4, Writers
<1> QED
  BY RosterTurns, <1>1, PTL DEF Spec, OwnChangesOnly

\* Nobody but its recipient deletes a parked file while the name it is parked for
\* is in roster.json: a removal reaches the spool only once it is durable, and a
\* rename repoints what it finds.
THEOREM FilesAreKept == ASSUME Turns PROVE Spec => FilesStayWithMember
<1>1. IInv /\ TurnsInv /\ [Next]_vars => [FilesStay]_vars
  <2> SUFFICES ASSUME IInv, TurnsInv, [Next]_vars PROVE FilesStay
    OBVIOUS
  <2>1. None \notin NamesOf(Loaded) /\ parked \in [Items -> Names \cup {None}]
    BY LoadedType DEF IInv, Typed, TypeOK, NamesOf, Member
  <2>2. CASE UNCHANGED parked
    BY <2>1, <2>2 DEF FilesStay
  <2>3. ASSUME NEW c \in Conns, Take(c) PROVE FilesStay
    BY <2>3 DEF Take, FilesStay
  <2>4. ASSUME NEW c \in Conns, Park(c) PROVE FilesStay
    BY <2>1, <2>4 DEF Park, FilesStay
  <2>5. ASSUME NEW p \in Procs, SettleFile(p) PROVE FilesStay
    <3>1. PICK i \in work[p] :
            parked' = [parked EXCEPT ![i] =
              IF Follows(req[p]) /\ @ # None THEN req[p].name ELSE None]
      BY <2>5 DEF SettleFile
    <3>2. /\ pc[p] = "settling" /\ parked[i] = Prior(req[p]) /\ i \in Items
          /\ req[p].op \in {"rejoin", "retarget", "remove"}
          /\ req[p].op = "rejoin" => req[p].name \in NamesOf(Loaded)
          /\ req[p].op = "retarget" => req[p].name \in Names
          /\ req[p].op = "remove" => req[p].name \notin NamesOf(Loaded)
      BY <2>5 DEF SettleFile, TurnsInv, Filing, IInv, Typed, TypeOK
    <3>3. parked'[i] = None => parked[i] \notin NamesOf(Loaded)
      BY <2>1, <3>1, <3>2 DEF Prior, Follows
    <3>4. \A j \in Items \ {i} : parked'[j] = parked[j]
      BY <2>1, <3>1
    <3> QED
      BY <2>1, <3>3, <3>4 DEF FilesStay
  <2>6. \/ UNCHANGED parked
        \/ \E c \in Conns : Take(c) \/ Park(c)
        \/ \E p \in Procs : SettleFile(p)
    <3> USE DEF disk
    <3>1. ASSUME NEW c \in Conns, Receive(c) \/ Reload(c) \/ Answer(c) \/ SaveRoster(c)
                                  \/ SaveFails(c)
          PROVE  UNCHANGED parked
      BY <3>1 DEF Receive, Reload, Answer, SaveRoster, SaveFails
    <3>2. ASSUME NEW c \in Conns, Join(c) \/ Manage(c) \/ SendAsk(c) \/ SendLost(c)
          PROVE  UNCHANGED parked
      BY <3>2 DEF Join, JoinAsk, Bootstrap, TakeInvite, SaveBurn, JoinRefused, Append,
                  RejoinAsk, Rename, Retarget, Manage, Mint, SaveMint, RemoveAsk, Remove,
                  RemoveRefused, SendAsk, SendLost
    <3>3. ASSUME NEW p, \/ ListFiles(p) \/ Settled(p) \/ ToolLoad(p) \/ ToolSave(p)
                        \/ ToolFails(p) \/ SweepInvites(p) \/ SavePruned(p)
          PROVE  UNCHANGED parked
      BY <3>3 DEF ListFiles, Settled, ToolLoad, ToolSave, ToolFails, SweepInvites, SavePruned
    <3>4. Expire \/ Crash \/ UNCHANGED vars => UNCHANGED parked
      BY DEF Expire, Crash, vars
    <3> QED
      BY <3>1, <3>2, <3>3, <3>4 DEF Next, Spooled, Settle, Tool
  <2> QED
    BY <2>2, <2>3, <2>4, <2>5, <2>6
<1> QED
  BY RosterTurns, <1>1, PTL DEF Spec, FilesStayWithMember

-----------------------------------------------------------------------------
(***************************************************************************)
(* The refinement of Admission.                                            *)
(***************************************************************************)

\* What Door hides, with one process: the code a join has presented, and the one
\* that is minted but not handed out.
Shows(c) ==
  IF c \in Conns /\ req[c].op = "join" /\ req[c].code # None /\ pc[c] \in {"admitted", "saving"}
  THEN {req[c].code} ELSE {}
Hides(c) == IF pc[c] = "inviting" THEN {req[c].code} ELSE {}

\* The steps of Admission, as the one process takes them.
Inner == DevicesOf(Loaded)
Known(c) == minted \ Hides(c)
Still(c) ==
  Inner' = Inner /\ invites' = invites /\ Shows(c)' = Shows(c) /\ Known(c)' = Known(c)
Enters(c) ==
  \E d \in Devices :
    /\ Inner' = Inner \cup {d} /\ invites' = invites /\ Known(c)' = Known(c)
    /\ \/ Inner = {} /\ Shows(c)' = Shows(c)
       \/ \E k \in Codes : k \in Shows(c) /\ Shows(c)' = Shows(c) \ {k}
Issues(c) ==
  \E k \in Codes \ Known(c) :
    /\ Known(c)' = Known(c) \cup {k} /\ invites' \subseteq invites \cup {k}
    /\ Inner' = Inner /\ Shows(c)' = Shows(c)
Presents(c) ==
  \E k \in Codes \cap invites :
    /\ invites' \subseteq invites \ {k} /\ Shows(c)' = Shows(c) \cup {k}
    /\ Inner' = Inner /\ Known(c)' = Known(c)
Leaves(c) ==
  \E D \in SUBSET Devices :
    /\ Inner' = Inner \ D
    /\ invites' = invites /\ Shows(c)' = Shows(c) /\ Known(c)' = Known(c)
Loses(c) ==
  \E K \in SUBSET Codes :
    /\ invites' = invites \ K /\ Shows(c)' \subseteq Shows(c)
    /\ Inner' = Inner /\ Known(c)' = Known(c)
DoorStep(c) ==
  Still(c) \/ Enters(c) \/ Issues(c) \/ Presents(c) \/ Leaves(c) \/ Loses(c)

\* They are steps of Admission.
LEMMA DoorSteps ==
  ASSUME NEW c \in Procs, Only(c), DoorStep(c)
  PROVE  [Door!Next]_(Door!vars)
<1> DEFINE Shown == {req[p].code : p \in {q \in Conns : /\ req[q].op = "join"
                                                       /\ req[q].code # None
                                                       /\ pc[q] \in {"admitted", "saving"}}}
           Issued == {k \in minted : \A p \in Procs : pc[p] = "inviting" => req[p].code # k}
<1>1. Shown = Shows(c) /\ Shown' = Shows(c)'
  BY DEF Only, Shows
<1>2. Issued = Known(c) /\ Issued' = Known(c)'
  BY DEF Only, Known, Hides
<1>3. Inner = DevicesOf(Loaded) /\ Inner' = DevicesOf(Loaded)'
  BY DEF Inner
<1>4. CASE Still(c)
  BY <1>1, <1>2, <1>3, <1>4 DEF Still, Door!vars
<1>5. CASE Enters(c)
  BY <1>1, <1>2, <1>3, <1>5 DEF Enters, Door!Next, Door!Found, Door!Enter
<1>6. CASE Issues(c)
  BY <1>1, <1>2, <1>3, <1>6 DEF Issues, Door!Next, Door!Issue
<1>7. CASE Presents(c)
  BY <1>1, <1>2, <1>3, <1>7 DEF Presents, Door!Next, Door!Show
<1>8. CASE Leaves(c)
  BY <1>1, <1>2, <1>3, <1>8 DEF Leaves, Door!Next, Door!Leave
<1>9. CASE Loses(c)
  BY <1>1, <1>2, <1>3, <1>9 DEF Loses, Door!Next, Door!Lose
<1> QED
  BY <1>4, <1>5, <1>6, <1>7, <1>8, <1>9 DEF DoorStep

\* What the proofs below know of the one process.
DoorFacts(c) ==
  /\ c \in Procs /\ Only(c) /\ IInv /\ TurnsInv
  /\ req \in [Procs -> Requests] /\ pc \in [Procs -> Labels]
  /\ codes \subseteq Codes /\ invites \subseteq Codes /\ minted \subseteq Codes

\* A request that neither saves anything nor mints presents nothing either.
LEMMA DoorQuiet ==
  ASSUME NEW c, DoorFacts(c), UNCHANGED <<roster, invites, minted>>,
         pc[c] \notin {"inviting", "admitted", "saving"},
         pc'[c] \notin {"inviting", "admitted"}, pc'[c] = "saving" => req'[c].op # "join"
  PROVE  DoorStep(c)
<1>1. Inner' = Inner
  BY DEF Inner, Loaded, DevicesOf
<1>2. Shows(c)' = Shows(c) /\ Known(c)' = Known(c)
  BY DEF Shows, Known, Hides
<1> QED
  BY <1>1, <1>2 DEF DoorStep, Still

\* A join asks, presents an invite or founds the mesh, and is on the roster.
LEMMA DoorJoins ==
  ASSUME NEW c \in Conns, DoorFacts(c), Join(c), faults' = 0
  PROVE  DoorStep(c)
<1> USE DEF Goto, disk, memory, time, bounds
<1>1. CASE JoinAsk(c) \/ JoinRefused(c) \/ TakeInvite(c) \/ RejoinAsk(c) \/ Retarget(c)
  <2>1. /\ UNCHANGED <<roster, invites, minted>>
        /\ pc[c] \notin {"inviting", "admitted", "saving"}
        /\ pc'[c] \in {"idle", "asking", "burning", "renaming", "listing"}
    BY <1>1 DEF JoinAsk, JoinRefused, TakeInvite, RejoinAsk, Retarget, Return, DoorFacts
  <2> QED
    BY <2>1, DoorQuiet
<1>2. CASE Rename(c)
  <2>1. /\ UNCHANGED <<roster, invites, minted, req>> /\ pc[c] = "renaming"
        /\ pc'[c] = "saving"
    BY <1>2 DEF Rename, Update, DoorFacts
  <2>2. req[c].op = "rejoin"
    BY <2>1 DEF DoorFacts, TurnsInv, Entered, Checked
  <2> QED
    BY <2>1, <2>2, DoorQuiet
<1>3. CASE Bootstrap(c)
  <2>1. /\ UNCHANGED <<roster, invites, minted>> /\ pc[c] = "asking" /\ pc'[c] = "admitted"
        /\ req' = [req EXCEPT ![c] = [req[c] EXCEPT !.admin = TRUE]]
    BY <1>3 DEF Bootstrap, Request, DoorFacts
  <2>2. req'[c].code = None
    BY <2>1 DEF DoorFacts, IInv, Typed, Named, Requests
  <2>3. Shows(c)' = Shows(c) /\ Known(c)' = Known(c)
    BY <2>1, <2>2 DEF Shows, Known, Hides
  <2>4. Inner' = Inner
    BY <2>1 DEF Inner, Loaded, DevicesOf
  <2> QED
    BY <2>1, <2>3, <2>4 DEF DoorStep, Still
<1>4. CASE SaveBurn(c)
  <2>1. /\ UNCHANGED <<roster, minted, req>> /\ pc[c] = "burning" /\ pc'[c] = "admitted"
        /\ invites' = held[c] /\ faults = 0
    BY <1>4 DEF SaveBurn, DoorFacts, IInv, Typed, TypeOK
  <2>2. /\ held[c] = codes /\ codes \subseteq invites /\ req[c].code \in invites \ codes
        /\ req[c].code # None /\ req[c].op = "join"
    BY <2>1 DEF DoorFacts, Only, TurnsInv, Entered, Checked, Invited
  <2>3. /\ Shows(c) = {} /\ Shows(c)' = {req[c].code} /\ Known(c)' = Known(c)
    BY <2>1, <2>2 DEF Shows, Known, Hides
  <2>4. Inner' = Inner
    BY <2>1 DEF Inner, Loaded, DevicesOf
  <2>5. Presents(c)
    BY <2>1, <2>2, <2>3, <2>4 DEF Presents, DoorFacts
  <2> QED
    BY <2>5 DEF DoorStep
<1>5. CASE Append(c)
  <2>1. /\ UNCHANGED <<roster, invites, minted, req>> /\ pc[c] = "admitted" /\ pc'[c] = "saving"
    BY <1>5 DEF Append, Update, DoorFacts
  <2>2. Shows(c)' = Shows(c) /\ Known(c)' = Known(c)
    BY <2>1 DEF Shows, Known, Hides
  <2>3. Inner' = Inner
    BY <2>1 DEF Inner, Loaded, DevicesOf
  <2> QED
    BY <2>1, <2>2, <2>3 DEF DoorStep, Still
<1> QED
  BY <1>1, <1>2, <1>3, <1>4, <1>5 DEF Join

\* An invite is minted, then issued with the save; a removal is asked for.
LEMMA DoorManages ==
  ASSUME NEW c \in Conns, DoorFacts(c), Manage(c), faults' = 0
  PROVE  DoorStep(c)
<1> USE DEF Goto, disk, memory, time, bounds
<1>1. CASE RemoveAsk(c) \/ RemoveRefused(c)
  <2>1. /\ UNCHANGED <<roster, invites, minted>>
        /\ pc[c] \notin {"inviting", "admitted", "saving"}
        /\ pc'[c] \in {"idle", "removing"}
    BY <1>1 DEF RemoveAsk, RemoveRefused, Return, DoorFacts
  <2> QED
    BY <2>1, DoorQuiet
<1>2. CASE Remove(c)
  <2>1. PICK gone : req' = [req EXCEPT ![c] = [req[c] EXCEPT !.gone = gone]]
    BY <1>2 DEF Remove, Request
  <2>2. /\ UNCHANGED <<roster, invites, minted>> /\ pc[c] = "removing" /\ pc'[c] = "saving"
    BY <1>2 DEF Remove, Update, DoorFacts
  <2>3. req'[c].op = "remove"
    BY <2>1, <2>2 DEF DoorFacts, TurnsInv, Entered, Checked, Requests
  <2> QED
    BY <2>2, <2>3, DoorQuiet
<1>3. CASE Mint(c)
  <2>1. PICK k \in Codes \ minted :
          /\ minted' = minted \cup {k}
          /\ req' = [req EXCEPT ![c] = [NoRequest EXCEPT !.op = "invite", !.code = k]]
    <3>1. PICK m \in members, k \in Codes \ minted :
            /\ minted' = minted \cup {k}
            /\ Request(c, [NoRequest EXCEPT !.op = "invite", !.code = k])
      BY <1>3, Zenon DEF Mint
    <3> QED
      BY <3>1 DEF Request
  <2>2. UNCHANGED <<roster, invites>> /\ pc[c] = "received" /\ pc'[c] = "inviting"
    BY <1>3 DEF Mint, DoorFacts
  <2>3. req'[c].code = k
    BY <2>1 DEF DoorFacts, NoRequest
  <2>4. Shows(c)' = Shows(c) /\ Known(c)' = Known(c)
    BY <2>1, <2>2, <2>3 DEF Shows, Known, Hides
  <2>5. Inner' = Inner
    BY <2>2 DEF Inner, Loaded, DevicesOf
  <2> QED
    BY <2>2, <2>4, <2>5 DEF DoorStep, Still
<1>4. CASE SaveMint(c)
  <2>1. /\ UNCHANGED <<roster, minted>> /\ pc[c] = "inviting" /\ pc'[c] = "idle"
        /\ invites' = held[c] /\ faults = 0
    BY <1>4 DEF SaveMint, Return, DoorFacts, IInv, Typed, TypeOK
  <2>2. /\ held[c] = codes /\ req[c].code \in minted
        /\ codes \subseteq invites \cup {req[c].code}
    BY <2>1 DEF DoorFacts, TurnsInv, Invited
  <2>3. /\ Shows(c)' = Shows(c) /\ Known(c) = minted \ {req[c].code} /\ Known(c)' = minted
    BY <2>1 DEF Shows, Known, Hides
  <2>4. Inner' = Inner
    BY <2>1 DEF Inner, Loaded, DevicesOf
  <2>5. Issues(c)
    BY <2>1, <2>2, <2>3, <2>4 DEF Issues, DoorFacts
  <2> QED
    BY <2>5 DEF DoorStep
<1> QED
  BY <1>1, <1>2, <1>3, <1>4 DEF Manage

\* A saved roster lets a device in, lets one out, or neither.
LEMMA DoorSaves ==
  ASSUME NEW c, DoorFacts(c), faults' = 0,
         \/ c \in Conns /\ SaveRoster(c)
         \/ c \in Tools /\ ToolSave(c)
  PROVE  DoorStep(c)
<1>1. /\ UNCHANGED <<invites, minted, faults>> /\ pc[c] \in {"saving", "editing"}
      /\ pc'[c] \in {"idle", "listing"} /\ WriteRoster(c, snap[c])
      /\ pc[c] = "saving" => c \in Conns
  BY DEF SaveRoster, ToolSave, Goto, time, bounds, DoorFacts
<1>2. snap[c] \in SUBSET Member /\ req[c] \in Requests
  BY DEF DoorFacts, IInv, Typed, TypeOK
<1>3. Inner' = DevicesOf(snap[c])
  <2>1. Loaded' = snap[c]
    BY <1>1, <1>2, WriteMeans
  <2> QED
    BY <2>1 DEF Inner, DevicesOf
<1>4. /\ req[c].op # "remove" => req[c].gone = {}
      /\ DevicesOf(snap[c]) = (Inner \ req[c].gone)
                               \cup (IF req[c].op = "join" THEN {req[c].dev} ELSE {})
      /\ req[c].op = "join" => pc[c] = "saving"
      /\ req[c].op = "join" /\ req[c].code = None => Loaded = {}
  BY <1>1 DEF DoorFacts, TurnsInv, Changing, Change, Inner
<1>5. Known(c)' = Known(c) /\ Shows(c)' = {}
  BY <1>1 DEF Known, Shows, Hides
<1>6. CASE req[c].op = "join"
  <2>1. Inner' = Inner \cup {req[c].dev}
    BY <1>3, <1>4, <1>6
  <2>2. req[c].dev \in Devices
    BY <1>2, <1>3, <2>1, DevicesType
  <2>3. CASE req[c].code = None
    <3>1. Inner = {} /\ Shows(c) = {}
      BY <1>4, <1>6, <2>3, EmptyRoster DEF Inner, Shows
    <3>2. Enters(c)
      BY <1>1, <1>5, <2>1, <2>2, <3>1 DEF Enters
    <3> QED
      BY <3>2 DEF DoorStep
  <2>4. CASE req[c].code # None
    <3>1. Shows(c) = {req[c].code} /\ req[c].code \in Codes
      BY <1>1, <1>2, <1>4, <1>6, <2>4 DEF Shows, Requests
    <3>2. Enters(c)
      BY <1>1, <1>5, <2>1, <2>2, <3>1 DEF Enters
    <3> QED
      BY <3>2 DEF DoorStep
  <2> QED
    BY <2>3, <2>4
<1>7. CASE req[c].op # "join"
  <2>1. Inner' = Inner \ req[c].gone /\ Shows(c) = {} /\ req[c].gone \in SUBSET Devices
    BY <1>2, <1>3, <1>4, <1>7 DEF Shows, Requests
  <2>2. Leaves(c)
    BY <1>1, <1>5, <2>1 DEF Leaves
  <2> QED
    BY <2>2 DEF DoorStep
<1> QED
  BY <1>6, <1>7

\* Nothing else opens the door: the reload, the spool, the commands' reads, and
\* the sweep, which can only lose invites.
LEMMA DoorElsewhere ==
  ASSUME NEW c, DoorFacts(c), faults' = 0,
         \/ Receive(c) \/ Reload(c) \/ Answer(c) \/ Spooled(c) \/ SaveFails(c)
         \/ Settle(c) \/ ToolLoad(c) \/ ToolFails(c) \/ SweepInvites(c) \/ SavePruned(c)
  PROVE  DoorStep(c)
<1> USE DEF Goto, disk, memory, time, bounds
<1>1. faults \in Nat
  BY DEF DoorFacts, IInv, Typed, TypeOK
<1> DEFINE Quiet == /\ UNCHANGED <<roster, invites, minted>>
                    /\ pc[c] \notin {"inviting", "admitted", "saving"}
                    /\ pc'[c] \notin {"inviting", "admitted", "saving"}
<1>2. Quiet => DoorStep(c)
  BY DoorQuiet
<1>3. CASE Receive(c) \/ Reload(c) \/ Answer(c)
  <2>1. Quiet
    BY <1>3 DEF Receive, Reload, Answer, Return, DoorFacts
  <2> QED
    BY <1>2, <2>1
<1>4. CASE Spooled(c)
  <2>1. Quiet
    BY <1>4 DEF Spooled, SendAsk, Park, SendLost, Take, Return, DoorFacts
  <2> QED
    BY <1>2, <2>1
<1>5. CASE Settle(c)
  <2>1. Quiet
    BY <1>5 DEF Settle, ListFiles, SettleFile, Settled, Return, DoorFacts
  <2> QED
    BY <1>2, <2>1
<1>6. CASE SaveFails(c) \/ ToolFails(c)
  BY <1>1, <1>6 DEF SaveFails, ToolFails
<1>7. CASE ToolLoad(c) \/ SweepInvites(c)
  <2>1. Quiet
    BY <1>7 DEF ToolLoad, SweepInvites, DoorFacts
  <2> QED
    BY <1>2, <2>1
<1>8. CASE SavePruned(c)
  <2>1. /\ UNCHANGED <<roster, minted>> /\ pc[c] = "pruning" /\ pc'[c] = "idle"
        /\ invites' = held[c] /\ faults = 0
    BY <1>1, <1>8 DEF SavePruned, Return, DoorFacts
  <2>2. held[c] = codes /\ codes \subseteq invites
    BY <2>1 DEF DoorFacts, Only, TurnsInv, Invited
  <2>3. Shows(c)' = Shows(c) /\ Known(c)' = Known(c)
    BY <2>1 DEF Shows, Known, Hides
  <2>4. Inner' = Inner
    BY <2>1 DEF Inner, Loaded, DevicesOf
  <2>5. invites' = invites \ (invites \ codes) /\ invites \ codes \in SUBSET Codes
    BY <2>1, <2>2 DEF DoorFacts
  <2>6. Loses(c)
    BY <2>3, <2>4, <2>5 DEF Loses
  <2> QED
    BY <2>6 DEF DoorStep
<1> QED
  BY <1>3, <1>4, <1>5, <1>6, <1>7, <1>8

\* A crash loses what was presented, and hands out the code being minted.
LEMMA DoorCrash ==
  ASSUME NEW c, DoorFacts(c), Crash
  PROVE  DoorStep(c)
<1>1. UNCHANGED <<roster, invites, minted>> /\ pc'[c] \notin {"inviting", "admitted", "saving"}
  BY DEF Crash, disk, time, DoorFacts, TurnsInv, Roles
<1>2. Inner' = Inner /\ Shows(c)' = {} /\ Known(c)' = minted
  BY <1>1 DEF Inner, Loaded, DevicesOf, Shows, Known, Hides
<1>3. CASE pc[c] = "inviting"
  <2>1. Shows(c) = {} /\ Known(c) = minted \ {req[c].code}
    BY <1>3 DEF Shows, Known, Hides
  <2>2. CASE req[c].code \in minted
    <3>1. Issues(c)
      BY <1>1, <1>2, <2>1, <2>2 DEF Issues, DoorFacts
    <3> QED
      BY <3>1 DEF DoorStep
  <2>3. CASE req[c].code \notin minted
    <3>1. Known(c) = minted
      BY <2>1, <2>3
    <3>2. Still(c)
      BY <1>1, <1>2, <2>1, <3>1 DEF Still
    <3> QED
      BY <3>2 DEF DoorStep
  <2> QED
    BY <2>2, <2>3
<1>4. CASE pc[c] # "inviting"
  <2>1. Known(c) = minted /\ invites' = invites \ {}
    BY <1>1, <1>4 DEF Known, Hides
  <2>2. Loses(c)
    BY <1>2, <2>1 DEF Loses
  <2> QED
    BY <2>2 DEF DoorStep
<1> QED
  BY <1>3, <1>4

\* Until a save fails every step is one of Admission or a stutter.
LEMMA DoorNext ==
  ASSUME Turns, IInv, TurnsInv, [Next]_vars, faults' = 0
  PROVE  [Door!Next]_(Door!vars)
<1>1. ASSUME NEW c \in Procs PROVE DoorFacts(c)
  BY DEF Turns, DoorFacts, Only, IInv, Typed, TypeOK
<1>2. ASSUME NEW c \in Procs, DoorStep(c) PROVE [Door!Next]_(Door!vars)
  BY <1>1, <1>2, DoorSteps DEF DoorFacts
<1>3. ASSUME NEW c \in Conns,
             \/ Receive(c) \/ Reload(c) \/ Answer(c)
             \/ Join(c) \/ Manage(c) \/ Spooled(c) \/ SaveRoster(c) \/ SaveFails(c)
      PROVE  [Door!Next]_(Door!vars)
  <2>1. c \in Procs /\ DoorFacts(c)
    BY <1>1
  <2>2. DoorStep(c)
    BY <1>3, <2>1, DoorJoins, DoorManages, DoorSaves, DoorElsewhere
  <2> QED
    BY <1>2, <2>1, <2>2
<1>4. ASSUME NEW p \in Procs, Settle(p) PROVE [Door!Next]_(Door!vars)
  BY <1>1, <1>2, <1>4, DoorElsewhere
<1>5. ASSUME NEW t \in Tools, Tool(t) PROVE [Door!Next]_(Door!vars)
  <2>1. t \in Procs /\ DoorFacts(t)
    BY <1>1
  <2>2. DoorStep(t)
    BY <1>5, <2>1, DoorSaves, DoorElsewhere DEF Tool
  <2> QED
    BY <1>2, <2>1, <2>2
<1>6. ASSUME NEW w \in Sweepers, SweepInvites(w) \/ SavePruned(w)
      PROVE  [Door!Next]_(Door!vars)
  <2>1. w \in Procs /\ DoorFacts(w)
    BY <1>1
  <2>2. DoorStep(w)
    BY <1>6, <2>1, DoorElsewhere
  <2> QED
    BY <1>2, <2>1, <2>2
<1> DEFINE Same == UNCHANGED <<roster, invites, minted, pc, req>>
<1>7. Same => UNCHANGED Door!vars
  <2> SUFFICES ASSUME Same PROVE UNCHANGED Door!vars
    OBVIOUS
  <2>1. DevicesOf(Loaded)' = DevicesOf(Loaded)
    BY DEF Loaded, DevicesOf
  <2> QED
    BY <2>1 DEF Door!vars
<1>8. Expire \/ UNCHANGED vars => Same
  BY DEF Expire, vars, disk, local, time
<1>9. CASE Crash
  <2>1. CASE \E c \in Procs : TRUE
    BY <1>1, <1>2, <1>9, <2>1, DoorCrash
  <2>2. CASE Procs = {}
    <3>1. UNCHANGED <<roster, invites, minted>> /\ Conns = {}
      BY <1>9, <2>2 DEF Crash, disk, time
    <3>2. DevicesOf(Loaded)' = DevicesOf(Loaded)
      BY <3>1 DEF Loaded, DevicesOf
    <3> QED
      BY <2>2, <3>1, <3>2 DEF Door!vars
  <2> QED
    BY <2>1, <2>2
<1> QED
  BY <1>3, <1>4, <1>5, <1>6, <1>7, <1>8, <1>9 DEF Next

\* The stash implements Admission until a save fails, across crashes: the first
\* member founds the mesh, everybody else comes in on an invite that was issued
\* once and is used up, on disk too, before its device is on the roster.
THEOREM DoorIsKept == ASSUME Turns PROVE Spec => KeepsDoor
<1>1. Init => Door!Init
  BY EmptyRoster DEF Init, Door!Init, Loaded
<1>2. IInv /\ TurnsInv /\ [Next]_vars => [faults' = 0 => [Door!Next]_(Door!vars)]_vars
  BY DoorNext
<1> QED
  BY RosterTurns, <1>1, <1>2, PTL DEF Spec, KeepsDoor
=============================================================================
