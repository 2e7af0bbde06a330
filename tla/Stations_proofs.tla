--------------------------- MODULE Stations_proofs ---------------------------
(* Proofs about Stations, for any number of users, stations, workers and     *)
(* requests.                                                                 *)
EXTENDS Stations, TLAPS

USE ConstantsAssumption

(* Every table keeps the types of its columns, and a worker has a request    *)
(* exactly while it serves one.                                              *)
THEOREM TypeCorrect == Spec => []TypeOK
<1> USE DEF TypeOK, Steps, Rows
<1>1. Init => TypeOK
  BY DEF Init
<1>2. TypeOK /\ [Next]_vars => TypeOK'
  <2> SUFFICES ASSUME TypeOK, [Next]_vars PROVE TypeOK'
    OBVIOUS
  <2> USE DEF tables, ghosts, RowsOf, Return, Goto, Unconfirmed
  <2>1. ASSUME NEW w \in Workers, NEW step \in Steps \ {"idle"},
               NEW spins \in SUBSET (Spins \union {NoSpin}),
               Receive(w, step, spins)
        PROVE TypeOK'
    <3>1. PICK u \in Users, s \in StationIds, sp \in spins :
            req' = [req EXCEPT ![w] = [id |-> nextReq, user |-> u,
                                       station |-> s, spin |-> sp]]
      BY <2>1 DEF Receive
    <3>2. [id |-> nextReq, user |-> u, station |-> s, spin |-> sp] \in Request
      BY <2>1 DEF Receive, Request
    <3>3. QED
      BY <2>1, <3>1, <3>2 DEF Receive
  <2>2. ASSUME NEW w \in Workers,
               ReceivePush(w) \/ ReceiveEdit(w) \/ ReceiveCreate(w) \/ ReceiveDelete(w)
        PROVE TypeOK'
    BY <2>2, <2>1 DEF ReceivePush, ReceiveEdit, ReceiveCreate, ReceiveDelete
  <2>3. ASSUME NEW w \in Workers, CheckPush(w) \/ CheckEdit(w)
        PROVE TypeOK'
    BY <2>3 DEF CheckPush, CheckEdit
  <2>4. ASSUME NEW w \in Workers, UpsertNowPlaying(w)
        PROVE TypeOK'
    <3>1. req[w] \in Request /\ req[w].station \in StationIds
      BY <2>4 DEF UpsertNowPlaying, Request
    <3>2. QED
      BY <2>4, <3>1 DEF UpsertNowPlaying, Upserted
  <2>5. ASSUME NEW w \in Workers, AppendHistory(w)
        PROVE TypeOK'
    <3>1. req[w] \in Request
      BY <2>5 DEF AppendHistory
    <3>2. QED
      BY <2>5, <3>1 DEF AppendHistory
  <2>6. ASSUME NEW w \in Workers, EditStation(w) \/ CreateStation(w) \/ DeleteStation(w)
        PROVE TypeOK'
    <3>1. req[w].user \in Users /\ req[w].station \in StationIds
      BY <2>6 DEF EditStation, CreateStation, DeleteStation, Request
    <3>2. CASE EditStation(w)
      BY <3>1, <3>2 DEF EditStation
    <3>3. CASE CreateStation(w)
      BY <3>1, <3>3 DEF CreateStation
    <3>4. CASE DeleteStation(w)
      BY <3>1, <3>4 DEF DeleteStation
    <3>5. QED
      BY <2>6, <3>2, <3>3, <3>4
  <2>7. ASSUME NEW w \in Workers, StatementFails(w)
        PROVE TypeOK'
    BY <2>7 DEF StatementFails
  <2>8. CASE Crash
    BY <2>8 DEF Crash
  <2>9. CASE UNCHANGED vars
    BY <2>9 DEF vars
  <2>10. QED
    BY <2>2, <2>3, <2>4, <2>5, <2>6, <2>7, <2>8, <2>9
       DEF Next, Worker, Quiescent
<1>3. QED
  BY <1>1, <1>2, PTL DEF Spec

-----------------------------------------------------------------------------
(* What the statements of a handler do to the tables, one lemma for all the  *)
(* invariants below: the steps that touch no table at all.                   *)
LEMMA HandlerOnlySteps ==
  ASSUME NEW w \in Workers,
         \/ ReceivePush(w) \/ ReceiveEdit(w) \/ ReceiveCreate(w) \/ ReceiveDelete(w)
         \/ CheckPush(w) \/ CheckEdit(w)
  PROVE  UNCHANGED <<tables, ghosts>>
  BY DEF ReceivePush, ReceiveEdit, ReceiveCreate, ReceiveDelete, Receive,
         CheckPush, CheckEdit

(* No row of now_playing or spin_history without its station: the two        *)
(* inserts of a push meet the foreign key, a delete takes the rows along.    *)
THEOREM NoOrphans == Spec => []NoOrphanRows
<1> USE DEF NoOrphanRows, Exists
<1>1. Init => NoOrphanRows
  BY DEF Init
<1>2. TypeOK /\ NoOrphanRows /\ [Next]_vars => NoOrphanRows'
  <2> SUFFICES ASSUME TypeOK, NoOrphanRows, [Next]_vars PROVE NoOrphanRows'
    OBVIOUS
  <2> USE DEF TypeOK, Rows, Request
  <2>1. ASSUME NEW w \in Workers, UpsertNowPlaying(w)
        PROVE NoOrphanRows'
    BY <2>1 DEF UpsertNowPlaying, Upserted, ForeignKey
  <2>2. ASSUME NEW w \in Workers, AppendHistory(w)
        PROVE NoOrphanRows'
    BY <2>2 DEF AppendHistory, ForeignKey
  <2>3. ASSUME NEW w \in Workers, EditStation(w)
        PROVE NoOrphanRows'
    BY <2>3 DEF EditStation
  <2>4. ASSUME NEW w \in Workers, CreateStation(w)
        PROVE NoOrphanRows'
    <3>1. req[w].user \in Users /\ req[w].station \in StationIds
      BY <2>4 DEF CreateStation
    <3>2. \A s \in StationIds : owner[s] # Absent => owner'[s] # Absent
      BY <2>4, <3>1 DEF CreateStation
    <3>3. QED
      BY <2>4, <3>2 DEF CreateStation
  <2>5. ASSUME NEW w \in Workers, DeleteStation(w)
        PROVE NoOrphanRows'
    <3> DEFINE s == req[w].station
    <3>1. CASE DeleteMatches(s, req[w].user)
      <4>1. /\ owner' = [owner EXCEPT ![s] = Absent]
            /\ nowPlaying' = [nowPlaying EXCEPT ![s] = NoPush]
            /\ history' = history \ RowsOf(s)
        BY <2>5, <3>1 DEF DeleteStation
      <4>2. s \in StationIds
        BY <2>5 DEF DeleteStation
      <4>3. \A x \in StationIds : nowPlaying'[x] # NoPush => owner'[x] # Absent
        BY <4>1, <4>2
      <4>4. \A h \in history' : owner'[h.push.station] # Absent
        BY <4>1, <4>2 DEF RowsOf
      <4>5. QED
        BY <4>3, <4>4
    <3>2. CASE ~ DeleteMatches(s, req[w].user)
      BY <2>5, <3>2 DEF DeleteStation
    <3>3. QED
      BY <3>1, <3>2
  <2>6. ASSUME NEW w \in Workers, StatementFails(w)
        PROVE NoOrphanRows'
    BY <2>6 DEF StatementFails, tables
  <2>7. CASE Crash
    BY <2>7 DEF Crash, tables
  <2>8. CASE UNCHANGED vars
    BY <2>8 DEF vars, tables
  <2>9. QED
    BY <2>1, <2>2, <2>3, <2>4, <2>5, <2>6, <2>7, <2>8, HandlerOnlySteps
       DEF Next, Worker, Quiescent, tables
<1>3. QED
  BY <1>1, <1>2, TypeCorrect, PTL DEF Spec

-----------------------------------------------------------------------------
(* Nothing is written to a station by a user who never owned it. The checks  *)
(* may be stale when the write happens, but who passed one was entitled      *)
(* then, and entitlement is never lost: OwnersOnRecord ties the owner column *)
(* to the claims, WritingHandlersEntitled carries the verdict of a check     *)
(* across the statements that follow it.                                     *)
THEOREM WritersOwned == Spec => []WritersWereOwners
<1> DEFINE Inv == OwnersOnRecord /\ WritingHandlersEntitled /\ WritersWereOwners
<1> USE DEF OwnersOnRecord, WritingHandlersEntitled, WritersWereOwners, Entitled
<1>1. Init => Inv
  BY DEF Init
<1>2. TypeOK /\ Inv /\ [Next]_vars => Inv'
  <2> SUFFICES ASSUME TypeOK, Inv, [Next]_vars PROVE Inv'
    OBVIOUS
  <2> USE DEF TypeOK, Rows, Request
  <2>1. ASSUME NEW w \in Workers, NEW step \in Steps, NEW spins,
               Receive(w, step, spins), step \notin {"upsert", "append", "edit"}
        PROVE Inv'
    BY <2>1 DEF Receive, tables, ghosts
  <2>2. ASSUME NEW w \in Workers,
               ReceivePush(w) \/ ReceiveEdit(w) \/ ReceiveCreate(w) \/ ReceiveDelete(w)
        PROVE Inv'
    BY <2>2, <2>1 DEF ReceivePush, ReceiveEdit, ReceiveCreate, ReceiveDelete, Steps
  <2>3. ASSUME NEW w \in Workers, CheckPush(w)
        PROVE Inv'
    <3>1. req[w].user \in Users /\ req[w].station \in StationIds
      BY <2>3 DEF CheckPush
    <3>2. MayPush(req[w]) => Entitled(req[w].user, req[w].station)
      BY <3>1 DEF MayPush
    <3>3. QED
      BY <2>3, <3>2 DEF CheckPush, Goto, Return, tables, ghosts
  <2>4. ASSUME NEW w \in Workers, CheckEdit(w)
        PROVE Inv'
    <3>1. req[w].user \in Users /\ req[w].station \in StationIds
      BY <2>4 DEF CheckEdit
    <3>2. owner[req[w].station] = req[w].user => Entitled(req[w].user, req[w].station)
      BY <3>1
    <3>3. QED
      BY <2>4, <3>2 DEF CheckEdit, Goto, Return, tables, ghosts
  <2>5. ASSUME NEW w \in Workers, UpsertNowPlaying(w)
        PROVE Inv'
    <3>1. Entitled(req[w].user, req[w].station)
      BY <2>5 DEF UpsertNowPlaying
    <3>2. WritersWereOwners'
      BY <2>5, <3>1 DEF UpsertNowPlaying, Upserted
    <3>3. OwnersOnRecord' /\ WritingHandlersEntitled'
      BY <2>5, <3>1 DEF UpsertNowPlaying, Goto, Return
    <3>4. QED
      BY <3>2, <3>3
  <2>6. ASSUME NEW w \in Workers, AppendHistory(w)
        PROVE Inv'
    <3>1. Entitled(req[w].user, req[w].station)
      BY <2>6 DEF AppendHistory
    <3>2. QED
      BY <2>6, <3>1 DEF AppendHistory, Return
  <2>7. ASSUME NEW w \in Workers, EditStation(w)
        PROVE Inv'
    <3>1. Entitled(req[w].user, req[w].station)
      BY <2>7 DEF EditStation
    <3>2. QED
      BY <2>7, <3>1 DEF EditStation, Return, ghosts
  <2>8. ASSUME NEW w \in Workers, CreateStation(w)
        PROVE Inv'
    <3>1. req[w].user \in Users /\ req[w].station \in StationIds
      BY <2>8 DEF CreateStation
    <3>2. claims \subseteq claims'
      BY <2>8 DEF CreateStation
    <3>3. OwnersOnRecord'
      BY <2>8, <3>1, <3>2 DEF CreateStation
    <3>4. WritersWereOwners'
      BY <2>8, <3>1, <3>2 DEF CreateStation
    <3>5. WritingHandlersEntitled'
      BY <2>8, <3>2 DEF CreateStation, Return
    <3>6. QED
      BY <3>3, <3>4, <3>5
  <2>9. ASSUME NEW w \in Workers, DeleteStation(w)
        PROVE Inv'
    <3>1. req[w].station \in StationIds
      BY <2>9 DEF DeleteStation
    <3>2. OwnersOnRecord'
      BY <2>9, <3>1 DEF DeleteStation
    <3>3. WritersWereOwners'
      BY <2>9, <3>1 DEF DeleteStation, RowsOf
    <3>4. WritingHandlersEntitled'
      BY <2>9 DEF DeleteStation, Return
    <3>5. QED
      BY <3>2, <3>3, <3>4
  <2>10. ASSUME NEW w \in Workers, StatementFails(w)
         PROVE Inv'
    BY <2>10 DEF StatementFails, Return, tables
  <2>11. CASE Crash
    BY <2>11 DEF Crash, tables
  <2>12. CASE UNCHANGED vars
    BY <2>12 DEF vars, tables, ghosts
  <2>13. QED
    BY <2>2, <2>3, <2>4, <2>5, <2>6, <2>7, <2>8, <2>9, <2>10, <2>11, <2>12
       DEF Next, Worker, Quiescent
<1>3. Inv => WritersWereOwners
  OBVIOUS
<1>4. QED
  BY <1>1, <1>2, <1>3, TypeCorrect, PTL DEF Spec

-----------------------------------------------------------------------------
(* A push that shows in now_playing is in the log, about to be appended, or  *)
(* was not confirmed to its caller. PlayingInPlace is needed because a       *)
(* delete removes the playing row and the log rows of one station together.  *)
THEOREM CurrentSpinAccounted == Spec => []CurrentSpinAccountedFor
<1> DEFINE Inv == PlayingInPlace /\ CurrentSpinAccountedFor
<1> USE DEF PlayingInPlace, CurrentSpinAccountedFor
<1>1. Init => Inv
  BY DEF Init
<1>2. TypeOK /\ Inv /\ [Next]_vars => Inv'
  <2> SUFFICES ASSUME TypeOK, Inv, [Next]_vars PROVE Inv'
    OBVIOUS
  <2> USE DEF TypeOK, Rows, Request, Steps
  <2>1. ASSUME NEW w \in Workers, NEW step \in Steps, NEW spins,
               Receive(w, step, spins)
        PROVE Inv'
    <3>1. UNCHANGED <<nowPlaying, history, unconfirmed>> /\ pc[w] = "idle"
      BY <2>1 DEF Receive, tables, ghosts
    <3>2. \A v \in Workers \ {w} : pc'[v] = pc[v] /\ req'[v] = req[v]
      BY <2>1 DEF Receive
    <3>3. QED
      BY <3>1, <3>2
  <2>2. ASSUME NEW w \in Workers,
               ReceivePush(w) \/ ReceiveEdit(w) \/ ReceiveCreate(w) \/ ReceiveDelete(w)
        PROVE Inv'
    BY <2>2, <2>1 DEF ReceivePush, ReceiveEdit, ReceiveCreate, ReceiveDelete
  <2>3. ASSUME NEW w \in Workers, CheckPush(w) \/ CheckEdit(w)
        PROVE Inv'
    BY <2>3 DEF CheckPush, CheckEdit, Goto, Return, tables, ghosts
  <2>4. ASSUME NEW w \in Workers, UpsertNowPlaying(w)
        PROVE Inv'
    <3> DEFINE s == req[w].station
    <3>1. pc[w] = "upsert" /\ s \in StationIds /\ UNCHANGED history
      BY <2>4 DEF UpsertNowPlaying
    <3>2. CASE ForeignKey(s)
      <4>1. nowPlaying' = [nowPlaying EXCEPT ![s] = req[w]]
        BY <2>4, <3>2 DEF UpsertNowPlaying, Upserted
      <4>2. \/ Goto(w, "append") /\ unconfirmed' = unconfirmed
            \/ Return(w) /\ unconfirmed' = unconfirmed \union {req[w]}
        BY <2>4, <3>2 DEF UpsertNowPlaying
      <4>3. \A v \in Workers \ {w} : pc'[v] = pc[v] /\ req'[v] = req[v]
        BY <4>2 DEF Goto, Return
      <4>4. \/ pc'[w] = "append" /\ req'[w] = req[w]
            \/ req[w] \in unconfirmed'
        BY <4>2 DEF Goto, Return
      <4>5. unconfirmed \subseteq unconfirmed'
        BY <4>2
      <4>6. PlayingInPlace'
        BY <3>1, <4>1
      <4>7. CurrentSpinAccountedFor'
        BY <3>1, <4>1, <4>3, <4>4, <4>5
      <4>8. QED
        BY <4>6, <4>7
    <3>3. CASE ~ ForeignKey(s)
      BY <2>4, <3>1, <3>3 DEF UpsertNowPlaying, Return
    <3>4. QED
      BY <3>2, <3>3
  <2>5. ASSUME NEW w \in Workers, AppendHistory(w)
        PROVE Inv'
    <3>1. /\ \A v \in Workers \ {w} : pc'[v] = pc[v] /\ req'[v] = req[v]
          /\ UNCHANGED nowPlaying
          /\ history \subseteq history' /\ unconfirmed \subseteq unconfirmed'
      BY <2>5 DEF AppendHistory, Return
    <3>2. (\E h \in history' : h.push = req[w]) \/ req[w] \in unconfirmed'
      <4>1. CASE ForeignKey(req[w].station)
        <5>1. [id |-> nextRow, push |-> req[w]] \in history'
          BY <2>5, <4>1 DEF AppendHistory
        <5>2. [id |-> nextRow, push |-> req[w]].push = req[w]
          OBVIOUS
        <5>3. QED
          BY <5>1, <5>2
      <4>2. CASE ~ ForeignKey(req[w].station)
        BY <2>5, <4>2 DEF AppendHistory
      <4>3. QED
        BY <4>1, <4>2
    <3>3. QED
      BY <3>1, <3>2
  <2>6. ASSUME NEW w \in Workers, EditStation(w) \/ CreateStation(w)
        PROVE Inv'
    BY <2>6 DEF EditStation, CreateStation, Return, ghosts
  <2>7. ASSUME NEW w \in Workers, DeleteStation(w)
        PROVE Inv'
    <3> DEFINE s == req[w].station
    <3>1. /\ pc[w] = "delete" /\ s \in StationIds /\ UNCHANGED unconfirmed
          /\ \A v \in Workers \ {w} : pc'[v] = pc[v] /\ req'[v] = req[v]
      BY <2>7 DEF DeleteStation, Return
    <3>2. CASE DeleteMatches(s, req[w].user)
      <4>1. /\ nowPlaying' = [nowPlaying EXCEPT ![s] = NoPush]
            /\ history' = history \ RowsOf(s)
        BY <2>7, <3>2 DEF DeleteStation
      <4>2. ASSUME NEW x \in StationIds, nowPlaying'[x] # NoPush
            PROVE /\ nowPlaying'[x] = nowPlaying[x]
                  /\ nowPlaying[x].station = x /\ x # s
        BY <3>1, <4>1, <4>2
      <4>3. PlayingInPlace'
        BY <4>2
      <4>4. ASSUME NEW x \in StationIds, nowPlaying'[x] # NoPush,
                   NEW h \in history, h.push = nowPlaying[x]
            PROVE h \in history'
        BY <4>1, <4>2, <4>4 DEF RowsOf
      <4>5. CurrentSpinAccountedFor'
        BY <3>1, <4>2, <4>4
      <4>6. QED
        BY <4>3, <4>5
    <3>3. CASE ~ DeleteMatches(s, req[w].user)
      BY <2>7, <3>1, <3>3 DEF DeleteStation
    <3>4. QED
      BY <3>2, <3>3
  <2>8. ASSUME NEW w \in Workers, StatementFails(w)
        PROVE Inv'
    BY <2>8 DEF StatementFails, Unconfirmed, Return, tables
  <2>9. CASE Crash
    BY <2>9 DEF Crash, Unconfirmed, tables
  <2>10. CASE UNCHANGED vars
    BY <2>10 DEF vars, tables, ghosts
  <2>11. QED
    BY <2>2, <2>3, <2>4, <2>5, <2>6, <2>7, <2>8, <2>9, <2>10
       DEF Next, Worker, Quiescent
<1>3. QED
  BY <1>1, <1>2, TypeCorrect, PTL DEF Spec

-----------------------------------------------------------------------------
(* An accepted push keeps its row until its station is deleted.              *)
THEOREM AcceptedLogged == Spec => []AcceptedIsLogged
<1> USE DEF AcceptedIsLogged
<1>1. Init => AcceptedIsLogged
  BY DEF Init
<1>2. TypeOK /\ AcceptedIsLogged /\ [Next]_vars => AcceptedIsLogged'
  <2> SUFFICES ASSUME TypeOK, AcceptedIsLogged, [Next]_vars
               PROVE AcceptedIsLogged'
    OBVIOUS
  <2>1. ASSUME NEW w \in Workers, AppendHistory(w)
        PROVE AcceptedIsLogged'
    <3>1. history \subseteq history'
      BY <2>1 DEF AppendHistory
    <3>2. \/ accepted' = accepted
          \/ /\ accepted' = accepted \union {req[w]}
             /\ \E h \in history' : h.push = req[w]
      BY <2>1 DEF AppendHistory
    <3>3. QED
      BY <3>1, <3>2
  <2>2. ASSUME NEW w \in Workers, DeleteStation(w)
        PROVE AcceptedIsLogged'
    BY <2>2 DEF DeleteStation, RowsOf
  <2>3. ASSUME NEW w \in Workers,
               \/ UpsertNowPlaying(w) \/ EditStation(w) \/ CreateStation(w)
               \/ StatementFails(w)
        PROVE AcceptedIsLogged'
    BY <2>3 DEF UpsertNowPlaying, EditStation, CreateStation, StatementFails,
                tables, ghosts
  <2>4. CASE Crash
    BY <2>4 DEF Crash, tables
  <2>5. CASE UNCHANGED vars
    BY <2>5 DEF vars, tables, ghosts
  <2>6. QED
    BY <2>1, <2>2, <2>3, <2>4, <2>5, HandlerOnlySteps
       DEF Next, Worker, Quiescent, tables, ghosts
<1>3. QED
  BY <1>1, <1>2, TypeCorrect, PTL DEF Spec

-----------------------------------------------------------------------------
(* Requests are numbered once and rows too: what makes an append the only    *)
(* one of its request, and its row the newest of the table. The numbers of   *)
(* the requests in progress are distinct, and none of them is in the log.    *)
LEMMA Numbered == Spec => [](RequestsNumbered /\ RowsNumbered)
<1> DEFINE Inv == RequestsNumbered /\ RowsNumbered
<1> USE DEF RequestsNumbered, RowsNumbered, Busy
<1>1. Init => Inv
  BY DEF Init
<1>2. TypeOK /\ Inv /\ [Next]_vars => Inv'
  <2> SUFFICES ASSUME TypeOK, Inv, [Next]_vars PROVE Inv'
    OBVIOUS
  <2> USE DEF TypeOK, Rows
  <2>1. ASSUME NEW w \in Workers, NEW step \in Steps, NEW spins,
               Receive(w, step, spins)
        PROVE Inv'
    <3>1. PICK u \in Users, s \in StationIds, sp \in spins :
            req' = [req EXCEPT ![w] = [id |-> nextReq, user |-> u,
                                       station |-> s, spin |-> sp]]
      BY <2>1 DEF Receive
    <3>2. req'[w].id = nextReq /\ nextReq' = nextReq + 1 /\ nextReq \in Nat
      BY <2>1, <3>1 DEF Receive
    <3>3. /\ \A v \in Workers \ {w} : pc'[v] = pc[v] /\ req'[v] = req[v]
          /\ UNCHANGED <<history, nextRow>>
      BY <2>1, <3>1 DEF Receive, tables
    <3>4. \A v \in Workers \ {w} : Busy(v) => req[v].id \in Nat
      BY DEF Request
    <3>5. \A h \in history : h.push.id \in Nat
      BY DEF Request
    <3>6. QED
      BY <3>2, <3>3, <3>4, <3>5
  <2>2. ASSUME NEW w \in Workers,
               ReceivePush(w) \/ ReceiveEdit(w) \/ ReceiveCreate(w) \/ ReceiveDelete(w)
        PROVE Inv'
    BY <2>2, <2>1 DEF ReceivePush, ReceiveEdit, ReceiveCreate, ReceiveDelete, Steps
  <2>3. ASSUME NEW w \in Workers, NEW step \in Steps, Busy(w),
               Goto(w, step) \/ Return(w),
               history' \subseteq history, UNCHANGED <<nextRow, nextReq>>
        PROVE Inv'
    <3>1. /\ \A v \in Workers \ {w} : pc'[v] = pc[v] /\ req'[v] = req[v]
          /\ Busy(w)' => req'[w] = req[w]
      BY <2>3 DEF Goto, Return
    <3>2. QED
      BY <2>3, <3>1
  <2>4. ASSUME NEW w \in Workers,
               \/ CheckPush(w) \/ CheckEdit(w) \/ UpsertNowPlaying(w)
               \/ EditStation(w) \/ CreateStation(w) \/ DeleteStation(w)
               \/ StatementFails(w)
        PROVE Inv'
    <3>1. Busy(w) /\ (\E step \in Steps : Goto(w, step) \/ Return(w))
      BY <2>4 DEF CheckPush, CheckEdit, UpsertNowPlaying, EditStation,
                  CreateStation, DeleteStation, StatementFails, Steps
    <3>2. history' \subseteq history /\ UNCHANGED <<nextRow, nextReq>>
      BY <2>4 DEF CheckPush, CheckEdit, UpsertNowPlaying, EditStation,
                  CreateStation, DeleteStation, StatementFails, tables
    <3>3. QED
      BY <3>1, <3>2, <2>3
  <2>5. ASSUME NEW w \in Workers, AppendHistory(w)
        PROVE Inv'
    <3>1. CASE ForeignKey(req[w].station)
      <4>1. /\ history' = history \union {[id |-> nextRow, push |-> req[w]]}
            /\ nextRow' = nextRow + 1 /\ UNCHANGED nextReq
            /\ Busy(w) /\ pc' = [pc EXCEPT ![w] = "idle"]
            /\ \A v \in Workers \ {w} : req'[v] = req[v]
        BY <2>5, <3>1 DEF AppendHistory, Return
      <4>2. \A h \in history' :
              \/ h \in history
              \/ h.id = nextRow /\ h.push = req[w]
        BY <4>1
      <4>3. \A v \in Workers : Busy(v)' => Busy(v) /\ v # w /\ req'[v] = req[v]
        BY <4>1
      <4>4. RowsNumbered'
        BY <4>1, <4>2
      <4>5. RequestsNumbered'
        BY <4>1, <4>2, <4>3
      <4>6. QED
        BY <4>4, <4>5
    <3>2. CASE ~ ForeignKey(req[w].station)
      <4>1. Busy(w) /\ Return(w) /\ "idle" \in Steps
        BY <2>5 DEF AppendHistory, Steps
      <4>2. UNCHANGED <<history, nextRow, nextReq>>
        BY <2>5, <3>2 DEF AppendHistory
      <4>3. QED
        BY <4>1, <4>2, <2>3
    <3>3. QED
      BY <3>1, <3>2
  <2>6. CASE Crash
    BY <2>6 DEF Crash, tables
  <2>7. CASE UNCHANGED vars
    BY <2>7 DEF vars, tables
  <2>8. QED
    BY <2>2, <2>4, <2>5, <2>6, <2>7 DEF Next, Worker, Quiescent
<1>3. QED
  BY <1>1, <1>2, TypeCorrect, PTL DEF Spec

(* A request leaves at most one row in spin_history.                         *)
THEOREM NoDoubleRows == Spec => []OneRowPerPush
<1> USE DEF OneRowPerPush
<1>1. Init => OneRowPerPush
  BY DEF Init
<1>2. TypeOK /\ RequestsNumbered /\ OneRowPerPush /\ [Next]_vars => OneRowPerPush'
  <2> SUFFICES ASSUME TypeOK, RequestsNumbered, OneRowPerPush, [Next]_vars
               PROVE OneRowPerPush'
    OBVIOUS
  <2>1. ASSUME NEW w \in Workers, AppendHistory(w)
        PROVE OneRowPerPush'
    <3>1. \A h \in history : h.push.id # req[w].id
      BY <2>1 DEF AppendHistory, RequestsNumbered, Busy
    <3>2. \/ history' = history
          \/ history' = history \union {[id |-> nextRow, push |-> req[w]]}
      BY <2>1 DEF AppendHistory
    <3>3. QED
      BY <3>1, <3>2
  <2>2. ASSUME history' \subseteq history
        PROVE OneRowPerPush'
    BY <2>2
  <2>3. ASSUME NEW w \in Workers,
               \/ UpsertNowPlaying(w) \/ EditStation(w) \/ CreateStation(w)
               \/ DeleteStation(w) \/ StatementFails(w)
        PROVE history' \subseteq history
    BY <2>3 DEF UpsertNowPlaying, EditStation, CreateStation, DeleteStation,
                StatementFails, tables
  <2>4. CASE Crash \/ UNCHANGED vars
    BY <2>2, <2>4 DEF Crash, vars, tables
  <2>5. QED
    BY <2>1, <2>2, <2>3, <2>4, HandlerOnlySteps
       DEF Next, Worker, Quiescent, tables
<1>3. QED
  BY <1>1, <1>2, TypeCorrect, Numbered, PTL DEF Spec

-----------------------------------------------------------------------------
(* Without overlapping or unconfirmed pushes, the newest row of a station's  *)
(* log is what is playing: the one appender left is the push that plays      *)
(* (AppenderIsCurrent), and the row it appends is the newest (RowsNumbered). *)
THEOREM LogFollows == Spec => []LogFollowsAir
<1> DEFINE Inv == PlayingInPlace /\ AppenderIsCurrent /\ LogFollowsAir
<1> USE DEF PlayingInPlace, AppenderIsCurrent, LogFollowsAir, InFlight, RowsOf
<1>1. Init => Inv
  BY DEF Init
<1>2. TypeOK /\ RowsNumbered /\ Inv /\ [Next]_vars => Inv'
  <2> SUFFICES ASSUME TypeOK, RowsNumbered, Inv, [Next]_vars PROVE Inv'
    OBVIOUS
  <2> USE DEF TypeOK, Rows, RowsNumbered
  <2>1. ASSUME NEW w \in Workers, pc[w] # "append", pc'[w] # "append",
               \A v \in Workers \ {w} : pc'[v] = pc[v] /\ req'[v] = req[v],
               UNCHANGED <<nowPlaying, history, unconfirmed, overlapped>>
        PROVE Inv'
    BY <2>1
  <2>2. ASSUME NEW w \in Workers, NEW step \in Steps, NEW spins,
               Receive(w, step, spins), step # "append"
        PROVE Inv'
    <3>1. /\ pc[w] # "append" /\ pc'[w] # "append"
          /\ \A v \in Workers \ {w} : pc'[v] = pc[v] /\ req'[v] = req[v]
          /\ UNCHANGED <<nowPlaying, history, unconfirmed, overlapped>>
      BY <2>2 DEF Receive, tables, ghosts
    <3>2. QED
      BY <3>1, <2>1
  <2>3. ASSUME NEW w \in Workers,
               ReceivePush(w) \/ ReceiveEdit(w) \/ ReceiveCreate(w) \/ ReceiveDelete(w)
        PROVE Inv'
    BY <2>3, <2>2 DEF ReceivePush, ReceiveEdit, ReceiveCreate, ReceiveDelete, Steps
  <2>4. ASSUME NEW w \in Workers,
               \/ CheckPush(w) \/ CheckEdit(w) \/ EditStation(w) \/ CreateStation(w)
        PROVE Inv'
    <3>1. /\ pc[w] # "append" /\ pc'[w] # "append"
          /\ \A v \in Workers \ {w} : pc'[v] = pc[v] /\ req'[v] = req[v]
      BY <2>4 DEF CheckPush, CheckEdit, EditStation, CreateStation, Goto, Return
    <3>2. UNCHANGED <<nowPlaying, history, unconfirmed, overlapped>>
      BY <2>4 DEF CheckPush, CheckEdit, EditStation, CreateStation, tables, ghosts
    <3>3. QED
      BY <3>1, <3>2, <2>1
  <2>5. ASSUME NEW w \in Workers, UpsertNowPlaying(w)
        PROVE Inv'
    <3>0. PICK s \in StationIds : s = req[w].station
      BY <2>5 DEF UpsertNowPlaying, Request
    <3> USE <3>0
    <3>1. pc[w] = "upsert" /\ req[w] \in Request /\ s \in StationIds
      BY <2>5 DEF UpsertNowPlaying, Request
    <3>2. CASE ForeignKey(s)
      <4>1. /\ nowPlaying' = [nowPlaying EXCEPT ![s] = req[w]]
            /\ UNCHANGED history
        BY <2>5, <3>2 DEF UpsertNowPlaying, Upserted
      <4>2. overlapped' = IF InFlight(s) THEN overlapped \union {s} ELSE overlapped
        BY <2>5, <3>2 DEF UpsertNowPlaying
      <4>3. \/ Goto(w, "append") /\ unconfirmed' = unconfirmed
            \/ Return(w) /\ unconfirmed' = unconfirmed \union {req[w]}
        BY <2>5, <3>2 DEF UpsertNowPlaying
      <4>4. \A v \in Workers \ {w} : pc'[v] = pc[v] /\ req'[v] = req[v]
        BY <4>3 DEF Goto, Return
      <4>5. \/ pc'[w] = "append" /\ req'[w] = req[w]
            \/ pc'[w] # "append" /\ req[w] \in unconfirmed'
        BY <3>1, <4>3 DEF Goto, Return
      <4>6. unconfirmed \subseteq unconfirmed' /\ overlapped \subseteq overlapped'
        BY <4>2, <4>3
      <4>7. PlayingInPlace'
        BY <3>1, <4>1
      <4>8. AppenderIsCurrent'
        BY <3>1, <4>1, <4>2, <4>4, <4>5, <4>6
      <4>9. LogFollowsAir'
        <5>1. ASSUME NEW x \in StationIds, x # s
              PROVE nowPlaying'[x] = nowPlaying[x] /\ (InFlight(x) => InFlight(x)')
          BY <3>1, <4>1, <4>4, <5>1
        <5>2. InFlight(s)' \/ \E p \in unconfirmed' : p.station = s
          BY <4>5
        <5>3. \A x \in StationIds : RowsOf(x)' = RowsOf(x)
          BY <4>1
        <5>4. ASSUME NEW x \in StationIds, nowPlaying'[x] # NoPush, ~ InFlight(x)',
                     x \notin overlapped', \A p \in unconfirmed' : p.station # x
              PROVE \E h \in history' : /\ h.push = nowPlaying'[x]
                                        /\ \A g \in RowsOf(x)' : g.id <= h.id
          <6>1. x # s
            BY <5>2, <5>4
          <6>2. PICK h \in history : /\ h.push = nowPlaying[x]
                                     /\ \A g \in RowsOf(x) : g.id <= h.id
            BY <4>6, <5>1, <5>4, <6>1
          <6>3. QED
            BY <4>1, <5>1, <5>3, <6>1, <6>2
        <5>5. QED
          BY <5>4
      <4>10. QED
        BY <4>7, <4>8, <4>9
    <3>3. CASE ~ ForeignKey(s)
      <4>1. /\ pc'[w] # "append"
            /\ \A v \in Workers \ {w} : pc'[v] = pc[v] /\ req'[v] = req[v]
            /\ UNCHANGED <<nowPlaying, history, unconfirmed, overlapped>>
        BY <2>5, <3>3 DEF UpsertNowPlaying, Return
      <4>2. QED
        BY <3>1, <4>1, <2>1
    <3>4. QED
      BY <3>2, <3>3
  <2>6. ASSUME NEW w \in Workers, AppendHistory(w)
        PROVE Inv'
    <3>0. PICK s \in StationIds : s = req[w].station
      BY <2>6 DEF AppendHistory, Request
    <3> USE <3>0
    <3> DEFINE row == [id |-> nextRow, push |-> req[w]]
    <3>1. /\ pc[w] = "append" /\ pc'[w] # "append"
          /\ req[w] \in Request /\ s \in StationIds
          /\ \A v \in Workers \ {w} : pc'[v] = pc[v] /\ req'[v] = req[v]
          /\ UNCHANGED <<nowPlaying, overlapped>>
      BY <2>6 DEF AppendHistory, Return, Request
    <3>2. unconfirmed \subseteq unconfirmed'
      BY <2>6 DEF AppendHistory
    <3>3. history' \in {history, history \union {row}}
      BY <2>6 DEF AppendHistory
    <3>4. \/ req[w] \in unconfirmed'
          \/ history' = history \union {row}
      BY <2>6 DEF AppendHistory
    <3>5. row.id = nextRow /\ row.push = req[w]
      OBVIOUS
    <3>6. PlayingInPlace' /\ AppenderIsCurrent'
      BY <3>1, <3>2
    <3>7. ASSUME NEW x \in StationIds, x # s
          PROVE RowsOf(x)' = RowsOf(x) /\ (InFlight(x) => InFlight(x)')
      BY <3>1, <3>3, <3>5, <3>7
    <3>8. ASSUME nowPlaying[s] # NoPush, s \notin overlapped,
                 \A p \in unconfirmed' : p.station # s
          PROVE /\ row \in history' /\ row.push = nowPlaying[s]
                /\ \A g \in RowsOf(s)' : g.id <= row.id
      BY <3>1, <3>2, <3>4, <3>5, <3>8
    <3>9. LogFollowsAir'
      <4>1. ASSUME NEW x \in StationIds, nowPlaying'[x] # NoPush, ~ InFlight(x)',
                   x \notin overlapped', \A p \in unconfirmed' : p.station # x
            PROVE \E h \in history' : /\ h.push = nowPlaying'[x]
                                      /\ \A g \in RowsOf(x)' : g.id <= h.id
        <5>1. CASE x = s
          <6>1. nowPlaying[s] # NoPush /\ s \notin overlapped
            BY <3>1, <4>1, <5>1
          <6>2. /\ row \in history' /\ row.push = nowPlaying[s]
                /\ \A g \in RowsOf(s)' : g.id <= row.id
            BY <3>8, <4>1, <5>1, <6>1
          <6> HIDE DEF row
          <6>3. QED
            BY <3>1, <5>1, <6>2
        <5>2. CASE x # s
          <6>1. PICK h \in history : /\ h.push = nowPlaying[x]
                                     /\ \A g \in RowsOf(x) : g.id <= h.id
            BY <3>1, <3>2, <3>7, <4>1, <5>2
          <6>2. h \in history'
            BY <3>3
          <6>3. QED
            BY <3>1, <3>7, <5>2, <6>1, <6>2
        <5>3. QED
          BY <5>1, <5>2
      <4>2. QED
        BY <4>1
    <3>10. QED
      BY <3>6, <3>9
  <2>7. ASSUME NEW w \in Workers, DeleteStation(w)
        PROVE Inv'
    <3>0. PICK s \in StationIds : s = req[w].station
      BY <2>7 DEF DeleteStation, Request
    <3> USE <3>0
    <3>1. /\ pc[w] # "append" /\ pc'[w] # "append" /\ s \in StationIds
          /\ \A v \in Workers \ {w} : pc'[v] = pc[v] /\ req'[v] = req[v]
          /\ UNCHANGED <<unconfirmed, overlapped>>
      BY <2>7 DEF DeleteStation, Return, Request
    <3>2. CASE DeleteMatches(s, req[w].user)
      <4>1. /\ nowPlaying' = [nowPlaying EXCEPT ![s] = NoPush]
            /\ history' = history \ RowsOf(s)
        BY <2>7, <3>2 DEF DeleteStation
      <4>2. ASSUME NEW x \in StationIds, nowPlaying'[x] # NoPush
            PROVE /\ nowPlaying'[x] = nowPlaying[x]
                  /\ nowPlaying[x].station = x /\ x # s
        BY <3>1, <4>1, <4>2
      <4>3. PlayingInPlace' /\ AppenderIsCurrent'
        BY <3>1, <4>2
      <4>4. ASSUME NEW x \in StationIds, x # s
            PROVE RowsOf(x)' = RowsOf(x) /\ (InFlight(x) => InFlight(x)')
        BY <3>1, <4>1, <4>4
      <4>5. LogFollowsAir'
        <5>1. ASSUME NEW x \in StationIds, nowPlaying'[x] # NoPush, ~ InFlight(x)',
                     x \notin overlapped', \A p \in unconfirmed' : p.station # x
              PROVE \E h \in history' : /\ h.push = nowPlaying'[x]
                                        /\ \A g \in RowsOf(x)' : g.id <= h.id
          <6>1. PICK h \in history : /\ h.push = nowPlaying[x]
                                     /\ \A g \in RowsOf(x) : g.id <= h.id
            BY <3>1, <4>2, <4>4, <5>1
          <6>2. h \in RowsOf(x)
            BY <4>2, <5>1, <6>1
          <6>3. QED
            BY <4>2, <4>4, <5>1, <6>1, <6>2
        <5>2. QED
          BY <5>1
      <4>6. QED
        BY <4>3, <4>5
    <3>3. CASE ~ DeleteMatches(s, req[w].user)
      <4>1. UNCHANGED <<nowPlaying, history>>
        BY <2>7, <3>3 DEF DeleteStation
      <4>2. QED
        BY <3>1, <4>1, <2>1
    <3>4. QED
      BY <3>2, <3>3
  <2>8. ASSUME NEW w \in Workers, StatementFails(w)
        PROVE Inv'
    <3>1. /\ pc'[w] # "append"
          /\ \A v \in Workers \ {w} : pc'[v] = pc[v] /\ req'[v] = req[v]
          /\ UNCHANGED <<nowPlaying, history, overlapped>>
      BY <2>8 DEF StatementFails, Return, tables
    <3>2. /\ unconfirmed \subseteq unconfirmed'
          /\ pc[w] = "append" => req[w] \in unconfirmed'
      BY <2>8 DEF StatementFails, Unconfirmed
    <3>3. QED
      BY <3>1, <3>2
  <2>9. CASE Crash
    <3>1. /\ \A w \in Workers : pc'[w] # "append"
          /\ UNCHANGED <<nowPlaying, history, overlapped>>
      BY <2>9 DEF Crash, tables
    <3>2. /\ unconfirmed \subseteq unconfirmed'
          /\ \A w \in Workers : pc[w] = "append" => req[w] \in unconfirmed'
      BY <2>9 DEF Crash, Unconfirmed
    <3>3. QED
      BY <3>1, <3>2
  <2>10. CASE UNCHANGED vars
    BY <2>10 DEF vars, tables, ghosts
  <2>11. QED
    BY <2>3, <2>4, <2>5, <2>6, <2>7, <2>8, <2>9, <2>10
       DEF Next, Worker, Quiescent
<1>3. QED
  BY <1>1, <1>2, TypeCorrect, Numbered, PTL DEF Spec

-----------------------------------------------------------------------------
(* The handlers implement StationService: every statement is one of its      *)
(* promises or changes nothing it can see.                                   *)
THEOREM Refinement == Spec => ImplementsService
<1> USE DEF Journal, RowsOf
<1>1. Init => Service!AInit
  BY DEF Init, Service!AInit
<1>2. TypeOK /\ RequestsNumbered /\ [Next]_vars => [Service!ANext]_(Service!avars)
  <2> SUFFICES ASSUME TypeOK, RequestsNumbered, [Next]_vars
               PROVE [Service!ANext]_(Service!avars)
    OBVIOUS
  <2> USE DEF TypeOK, Rows
  <2>1. ASSUME UNCHANGED <<owner, nowPlaying, history, accepted>>
        PROVE UNCHANGED Service!avars
    BY <2>1 DEF Service!avars
  <2>2. ASSUME NEW w \in Workers, UpsertNowPlaying(w)
        PROVE [Service!ANext]_(Service!avars)
    <3>1. CASE ForeignKey(req[w].station)
      <4>1. PICK p \in Request : p = req[w]
        BY <2>2 DEF UpsertNowPlaying
      <4>2. Journal' = Journal
        BY <2>2 DEF UpsertNowPlaying
      <4>3. Service!Air(p)
        BY <2>2, <3>1, <4>1, <4>2 DEF UpsertNowPlaying, Upserted, ForeignKey, Exists,
                                Service!Air
      <4>4. QED
        BY <4>1, <4>3 DEF Service!ANext
    <3>2. CASE ~ ForeignKey(req[w].station)
      BY <2>1, <2>2, <3>2 DEF UpsertNowPlaying
    <3>3. QED
      BY <3>1, <3>2
  <2>3. ASSUME NEW w \in Workers, AppendHistory(w)
        PROVE [Service!ANext]_(Service!avars)
    <3>0. PICK p \in Request : p = req[w]
      BY <2>3 DEF AppendHistory
    <3> USE <3>0
    <3>1. CASE ForeignKey(p.station)
      <4>1. p \in Request /\ p.station \in StationIds /\ Busy(w)
        BY <2>3 DEF AppendHistory, Request, Busy
      <4>2. history' = history \union {[id |-> nextRow, push |-> p]}
        BY <2>3, <3>1 DEF AppendHistory
      <4>3. p \notin Journal[p.station]
        BY <4>1 DEF RequestsNumbered
      <4>4. Journal' = [Journal EXCEPT ![p.station] = @ \union {p}]
        <5>1. ASSUME NEW x \in StationIds
              PROVE Journal'[x] = IF x = p.station THEN Journal[x] \union {p}
                                                   ELSE Journal[x]
          <6>1. PICK row \in {[id |-> nextRow, push |-> p]} : row.push = p
            OBVIOUS
          <6>2. RowsOf(x)' = IF x = p.station THEN RowsOf(x) \union {row}
                                              ELSE RowsOf(x)
            BY <4>2, <6>1
          <6>3. Journal'[x] = {h.push : h \in RowsOf(x)'}
                /\ Journal[x] = {h.push : h \in RowsOf(x)}
            OBVIOUS
          <6>4. QED
            BY <6>1, <6>2, <6>3
        <5>2. Journal = [x \in StationIds |-> Journal[x]]
              /\ Journal' = [x \in StationIds |-> Journal'[x]]
          OBVIOUS
        <5> HIDE DEF Journal
        <5>3. QED
          BY <4>1, <5>1, <5>2
      <4> HIDE DEF Journal
      <4>5. Service!Enter(p)
        BY <2>3, <3>1, <4>3, <4>4 DEF AppendHistory, ForeignKey, Exists,
                                      Service!Enter
      <4>6. QED
        BY <4>1, <4>5 DEF Service!ANext
    <3>2. CASE ~ ForeignKey(p.station)
      BY <2>1, <2>3, <3>2 DEF AppendHistory
    <3>3. QED
      BY <3>1, <3>2
  <2>4. ASSUME NEW w \in Workers, CreateStation(w)
        PROVE [Service!ANext]_(Service!avars)
    <3>1. PICK u \in Users, s \in StationIds : u = req[w].user /\ s = req[w].station
      BY <2>4 DEF CreateStation, Request
    <3> USE <3>1
    <3>2. CASE Exists(s)
      BY <2>1, <2>4, <3>2 DEF CreateStation
    <3>3. CASE ~ Exists(s)
      <4>1. Journal' = Journal
        BY <2>4 DEF CreateStation
      <4>2. Service!Claim(u, s)
        BY <2>4, <3>3, <4>1 DEF CreateStation, Exists, Service!Claim
      <4>3. QED
        BY <3>1, <4>2 DEF Service!ANext
    <3>4. QED
      BY <3>2, <3>3
  <2>5. ASSUME NEW w \in Workers, DeleteStation(w)
        PROVE [Service!ANext]_(Service!avars)
    <3>1. PICK u \in Users, s \in StationIds : u = req[w].user /\ s = req[w].station
      BY <2>5 DEF DeleteStation, Request
    <3> USE <3>1
    <3>2. CASE DeleteMatches(s, u)
      <4>1. history' = history \ RowsOf(s)
        BY <2>5, <3>2 DEF DeleteStation
      <4>2. Journal' = [Journal EXCEPT ![s] = {}]
        <5>1. ASSUME NEW x \in StationIds
              PROVE Journal'[x] = IF x = s THEN {} ELSE Journal[x]
          BY <4>1
        <5>2. Journal = [x \in StationIds |-> Journal[x]]
              /\ Journal' = [x \in StationIds |-> Journal'[x]]
          OBVIOUS
        <5> HIDE DEF Journal
        <5>3. QED
          BY <3>1, <5>1, <5>2
      <4> HIDE DEF Journal
      <4>3. Service!Retire(s)
        BY <2>5, <3>1, <3>2, <4>2 DEF DeleteStation, DeleteMatches, Service!Retire
      <4>4. QED
        BY <3>1, <4>3 DEF Service!ANext
    <3>3. CASE ~ DeleteMatches(s, u)
      BY <2>1, <2>5, <3>3 DEF DeleteStation
    <3>4. QED
      BY <3>2, <3>3
  <2>6. ASSUME NEW w \in Workers, EditStation(w) \/ StatementFails(w)
        PROVE [Service!ANext]_(Service!avars)
    BY <2>1, <2>6 DEF EditStation, StatementFails, tables, ghosts
  <2>7. CASE Crash \/ UNCHANGED vars
    BY <2>1, <2>7 DEF Crash, vars, tables, ghosts
  <2>8. QED
    BY <2>1, <2>2, <2>3, <2>4, <2>5, <2>6, <2>7, HandlerOnlySteps
       DEF Next, Worker, Quiescent, tables, ghosts
<1>3. QED
  BY <1>1, <1>2, TypeCorrect, Numbered, PTL DEF Spec, ImplementsService, Service!ASpec

=============================================================================
