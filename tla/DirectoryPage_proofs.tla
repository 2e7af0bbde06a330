------------------------ MODULE DirectoryPage_proofs ------------------------
(***************************************************************************)
(* Proofs about DirectoryPage, for any stations, searches, tag lists and   *)
(* bounds: what the detail panel shows is the current station's latest, is *)
(* about to be replaced, or is excused. The invariant is inductive once it *)
(* is known that no answer is newer than the tags (AnswersNotAhead): an    *)
(* answer that is older than the tags and does not overwrite a newer one   *)
(* meets a list that was stale already, and so explained by another        *)
(* request.                                                                *)
(***************************************************************************)
EXTENDS DirectoryPage, TLAPS

USE ApiAssumption, PageAssumption

AnswersNotAhead ==
  \A c \in calls : c.op \in Lists /\ c.at = "answered" => c.data <= tags[c.arg]

IInv == TypeOK /\ AnswersNotAhead /\ StaleExplained

-----------------------------------------------------------------------------
(* What is sent and answered.                                                *)

(* A request a page may send.                                                *)
Fit(r) ==
  /\ r.op \in Ops
  /\ IF r.op = "list" THEN r.arg \in Queries ELSE r.arg \in Stations

LEMMA FreshProper ==
  ASSUME NEW r, Fit(r), Free(r) # {}
  PROVE  /\ Proper(Fresh(r)) /\ Fresh(r).at = "sent"
         /\ Fresh(r).op = r.op /\ Fresh(r).arg = r.arg
<1>1. (CHOOSE n \in Free(r) : TRUE) \in 1..MaxSame
  BY DEF Free
<1> DEFINE k == CHOOSE n \in Free(r) : TRUE
<1>2. Fresh(r) = [op |-> r.op, arg |-> r.arg, n |-> k, at |-> "sent", data |-> Unanswered]
  BY DEF Fresh
<1>3. k \in 1..MaxSame
  BY <1>1
<1> HIDE DEF k
<1> QED  BY <1>2, <1>3 DEF Proper, Call, Fit

(* The requests R, sent by the user or in place of the settled call c.       *)
Sends(R) ==
  /\ \A c \in calls' \ calls : Proper(c) /\ c.at = "sent"
  /\ \A r \in R : \E c \in calls' : c.op = r.op /\ c.arg = r.arg /\ c.at = "sent"

LEMMA SendSends ==
  ASSUME NEW R, \A r \in R : Fit(r), Send(R)
  PROVE  Sends(R) /\ calls \subseteq calls'
  BY FreshProper DEF Send, Sends

LEMMA SettleSends ==
  ASSUME NEW R, \A r \in R : Fit(r), NEW c \in calls, Settle(c, R)
  PROVE  Sends(R) /\ calls \ {c} \subseteq calls'
  BY FreshProper DEF Settle, Sends

-----------------------------------------------------------------------------
(* Steps that answer nothing.                                                *)

Explained(v) ==
  shown[v] = Latest(v) \/ v \in excused \/ \E c \in calls : Refreshes(c, v)

LEMMA StaleIs ==
  /\ StaleExplained <=> (current # None => \A v \in Views : Explained(v))
  /\ StaleExplained' <=> (current' # None => \A v \in Views : Explained(v)')
  BY DEF StaleExplained, Explained

(* Requests may have been sent, and nothing else happened to calls.          *)
Grown ==
  /\ calls \subseteq calls'
  /\ \A c \in calls' \ calls : Proper(c) /\ c.at = "sent"

LEMMA GrownNotAhead ==
  ASSUME IInv, Grown, tags' = tags
  PROVE  AnswersNotAhead' /\ \A c \in calls' : Proper(c)
  BY DEF IInv, TypeOK, AnswersNotAhead, Grown

(* Another request in flight takes no explanation away.                      *)
LEMMA AskedStale ==
  ASSUME IInv, Grown, UNCHANGED <<current, shown, tags, excused>>
  PROVE  StaleExplained'
<1> SUFFICES ASSUME current # None, NEW v \in Views, Explained(v) PROVE Explained(v)'
  BY StaleIs DEF IInv
<1>1. \A c \in calls : Refreshes(c, v) => c \in calls' /\ Refreshes(c, v)'
  BY DEF Refreshes, Grown
<1> QED  BY <1>1 DEF Explained, Latest

(* loadStation excuses nothing and asks for every part of the panel.         *)
LEMMA LoadStale ==
  ASSUME NEW s \in Stations, Load(s)
  PROVE  Grown /\ StaleExplained' /\ current' = s /\ excused' = {}
<1> DEFINE R == {Request(v, s) : v \in Views}
<1>1. Send(R) /\ current' = s /\ excused' = {}
  BY DEF Load, Asked
<1>2. \A r \in R : Fit(r)
  BY DEF Fit, Request, Ops, Views
<1>6. \A v \in Views : Request(v, s) \in R
  OBVIOUS
<1>7. \A v \in Views : Request(v, s).op = v /\ Request(v, s).arg = s
  BY DEF Request
<1> HIDE DEF R
<1>3. Sends(R) /\ calls \subseteq calls'
  BY <1>1, <1>2, SendSends
<1>4. \A v \in Views : \E c \in calls' : c.op = v /\ c.arg = s /\ c.at = "sent"
  BY <1>3, <1>6, <1>7 DEF Sends
<1>5. \A v \in Views : Explained(v)'
  BY <1>1, <1>4 DEF Explained, Refreshes
<1> QED  BY <1>1, <1>3, <1>5, StaleIs DEF Grown, Sends

LEMMA LoadIfOtherStale ==
  ASSUME IInv, NEW s \in Stations, LoadIfOther(s), UNCHANGED <<shown, tags>>
  PROVE  /\ Grown /\ StaleExplained'
         /\ current' \in Stations \union {None} /\ excused' \subseteq Views
<1>1. CASE s # current
  BY <1>1, LoadStale DEF LoadIfOther
<1>2. CASE s = current
  <2>1. UNCHANGED <<calls, current, excused>>
    BY <1>2 DEF LoadIfOther
  <2>2. Grown
    BY <2>1 DEF Grown
  <2> QED  BY <2>1, <2>2, AskedStale DEF IInv, TypeOK
<1> QED  BY <1>1, <1>2

LEMMA InitInv == Init => IInv
<1> SUFFICES ASSUME Init PROVE IInv
  OBVIOUS
<1>1. TypeOK
  <2>1. \A c \in calls : Proper(c)
    BY DEF Init, Proper, Call, Ops
  <2>2. shown \in [Views -> [station : Stations \union {None}, ver : Nat]]
    BY DEF Init, Nothing
  <2> QED  BY <2>1, <2>2 DEF Init, PlayerBuilt, TypeOK
<1>2. AnswersNotAhead
  BY DEF Init, AnswersNotAhead
<1>3. StaleExplained
  BY DEF Init, StaleExplained
<1> QED  BY <1>1, <1>2, <1>3 DEF IInv

LEMMA UserInv == ASSUME IInv, User PROVE IInv'
<1> USE DEF IInv, page, player
<1>1. clicks' \in Nat
  BY DEF User, Click, TypeOK
<1>2. ASSUME Grown, StaleExplained', UNCHANGED <<shown, tags>>,
             current' \in Stations \union {None}, excused' \subseteq Views,
             search' \in Queries, table' = table,
             stream' \in Stations \union {None}, playing' \in BOOLEAN
      PROVE  IInv'
  BY <1>1, <1>2, GrownNotAhead DEF TypeOK
<1>3. ASSUME NEW op, NEW x, Send({Request(op, x)}), Fit(Request(op, x)) PROVE Grown
  BY <1>3, SendSends DEF Sends, Grown
<1>4. Rows \subseteq Stations
  BY DEF Rows, TypeOK
<1>5. ASSUME NEW q \in Queries, Search(q) PROVE IInv'
  <2>1. Grown
    BY <1>3, <1>5 DEF Search, Fit, Request, Ops
  <2> QED  BY <1>2, <1>5, <2>1, AskedStale DEF Search, TypeOK
<1>6. ASSUME NEW s \in Stations, Select(s) \/ TagRow(s) PROVE IInv'
  <2>1. Load(s) /\ UNCHANGED <<search, table, shown, player, tags>>
    BY <1>6 DEF Select, TagRow
  <2> QED  BY <1>2, <2>1, LoadStale DEF TypeOK
<1>7. ASSUME NEW s \in Stations, PlayRow(s) \/ LoadRow(s) PROVE IInv'
  <2>1. /\ LoadIfOther(s) /\ UNCHANGED <<search, table, shown, tags>>
        /\ stream' = s /\ playing' \in BOOLEAN
    BY <1>7 DEF PlayRow, LoadRow, LoadStream
  <2> QED  BY <1>2, <2>1, LoadIfOtherStale DEF TypeOK
<1>8. CASE Play \/ Stop
  <2>1. UNCHANGED <<calls, page, stream, tags, excused>> /\ playing' \in BOOLEAN
    BY <1>8 DEF Play, Stop
  <2>2. Grown
    BY <2>1 DEF Grown
  <2> QED  BY <1>2, <2>1, <2>2, AskedStale DEF TypeOK
<1>9. CASE AddTag \/ RemoveTag
  <2>1. UNCHANGED <<page, player, tags, excused>>
    BY <1>9 DEF AddTag, RemoveTag
  <2>2. Grown
    BY <1>3, <1>9 DEF AddTag, RemoveTag, Fit, Request, Ops, Changes, TypeOK
  <2> QED  BY <1>2, <2>1, <2>2, AskedStale DEF TypeOK
<1>10. ASSUME NEW s \in Stations, Push(s) PROVE Grown
  <2>1. Fit(Request("push", s))
    BY DEF Fit, Request, Ops
  <2> QED  BY <1>3, <1>10, <2>1 DEF Push, Grown
<1>11. CASE PushCurrent
  <2>1. UNCHANGED <<page, player, tags, excused>> /\ Grown
    BY <1>10, <1>11 DEF PushCurrent, TypeOK
  <2> QED  BY <1>2, <2>1, AskedStale DEF TypeOK
<1>12. ASSUME NEW s \in Stations, PushRow(s) PROVE IInv'
  <2>1. /\ Grown /\ current' = s /\ UNCHANGED <<search, table, shown, player, tags>>
        /\ excused' = IF s = current THEN excused ELSE Views
    BY <1>10, <1>12 DEF PushRow
  <2>2. StaleExplained'
    <3>1. CASE s = current
      BY <2>1, <3>1, AskedStale
    <3>2. CASE s # current
      BY <2>1, <3>2, StaleIs DEF Explained
    <3> QED  BY <3>1, <3>2
  <2> QED  BY <1>2, <2>1, <2>2 DEF TypeOK
<1> QED  BY <1>5, <1>6, <1>7, <1>8, <1>9, <1>11, <1>12 DEF User

-----------------------------------------------------------------------------
(* The daemon answers.                                                       *)

LEMMA AnswerProper ==
  ASSUME NEW c, Proper(c), NEW d \in Nat
  PROVE  /\ Proper(Answered(c, d))
         /\ Answered(c, d).op = c.op /\ Answered(c, d).arg = c.arg
         /\ Answered(c, d).at = "answered" /\ Answered(c, d).data = d
  BY DEF Answered, Proper, Call

(* Only tags change, and calls: c is answered d.                             *)
Answers(c, d) ==
  /\ d \in Nat
  /\ Answer(c, d)
  /\ UNCHANGED <<clicks, page, player, excused>>
  /\ tags' \in [Stations -> Nat]
  /\ \A s \in Stations : tags[s] <= tags'[s]
  /\ c.op \in Lists => d = tags[c.arg] /\ tags' = tags
  /\ c.op \notin Lists => c.op \in Changes \/ tags' = tags
  /\ \A s \in Stations : s # c.arg => tags'[s] = tags[s]

LEMMA AnswersInv ==
  ASSUME IInv, NEW c \in calls, NEW d, Answers(c, d)
  PROVE  IInv'
<1> USE DEF IInv
<1>1. Proper(c) /\ c.at = "sent"
  BY DEF TypeOK, Answers, Answer
<1>2. PICK a : /\ Proper(a) /\ a.op = c.op /\ a.arg = c.arg
               /\ a.at = "answered" /\ a.data = d
               /\ calls' = (calls \ {c}) \union {a}
  BY <1>1, AnswerProper DEF Answers, Answer
<1>3. TypeOK'
  BY <1>2 DEF TypeOK, Answers, page, player
<1>4. \A x \in calls : Proper(x) /\ (x.op \in Lists => x.arg \in Stations)
  BY DEF TypeOK, Proper
<1>5. AnswersNotAhead'
  <2> SUFFICES ASSUME NEW x \in calls', x.op \in Lists, x.at = "answered"
               PROVE  x.data <= tags'[x.arg]
    BY DEF AnswersNotAhead
  <2>1. CASE x = a
    <3>1. x.data = tags'[x.arg] /\ c.arg \in Stations
      BY <1>2, <1>4, <2>1 DEF Answers
    <3>2. tags'[x.arg] \in Nat
      BY <1>2, <2>1, <3>1 DEF Answers
    <3> QED  BY <3>1, <3>2
  <2>2. CASE x # a
    <3>1. x \in calls /\ x.arg \in Stations /\ x.data \in Nat
      BY <1>2, <1>4, <2>2 DEF Proper
    <3>2. x.data <= tags[x.arg] /\ tags[x.arg] <= tags'[x.arg]
      BY <3>1 DEF AnswersNotAhead, Answers
    <3>3. tags[x.arg] \in Nat /\ tags'[x.arg] \in Nat
      BY <3>1 DEF TypeOK, Answers
    <3> QED  BY <3>1, <3>2, <3>3
  <2> QED  BY <2>1, <2>2
<1>6. StaleExplained'
  <2> SUFFICES ASSUME current # None, NEW v \in Views, Explained(v) PROVE Explained(v)'
    BY StaleIs DEF Answers, page
  <2>1. UNCHANGED <<current, shown, excused>> /\ current \in Stations
    BY DEF Answers, page, TypeOK
  <2>2. CASE c.op \in Changes /\ v \in Lists /\ c.arg = current
    BY <1>2, <2>1, <2>2 DEF Explained, Refreshes
  <2>3. CASE ~ (c.op \in Changes /\ v \in Lists /\ c.arg = current)
    <3>1. v = "detail" \/ tags'[current] = tags[current]
      BY <2>1, <2>3 DEF Answers, Views
    <3>2. Latest(v)' = Latest(v)
      BY <2>1, <3>1 DEF Latest
    <3>3. \A x \in calls : x # c /\ Refreshes(x, v) => x \in calls' /\ Refreshes(x, v)'
      BY <1>2, <2>1, <3>1 DEF Refreshes, Views
    <3>4. Refreshes(c, v) => Refreshes(a, v)'
      BY <1>1, <1>2, <2>1, <2>3 DEF Refreshes, Views, Answers
    <3> QED  BY <1>2, <2>1, <3>2, <3>3, <3>4 DEF Explained
  <2> QED  BY <2>2, <2>3
<1> QED  BY <1>3, <1>5, <1>6

LEMMA ServeInv == ASSUME IInv, NEW c \in calls, Serve(c) PROVE IInv'
<1>1. Proper(c) /\ tags \in [Stations -> Nat]
  BY DEF IInv, TypeOK
<1>2. UNCHANGED <<clicks, page, player, excused>>
  BY DEF Serve
<1>3. CASE ReadDirectory(c) \/ ReadDetail(c) \/ QueuePush(c)
  <2>1. Answers(c, 0)
    BY <1>1, <1>2, <1>3 DEF Answers, ReadDirectory, ReadDetail, QueuePush
  <2> QED  BY <2>1, AnswersInv
<1>4. CASE ReadTags(c)
  <2>1. c.arg \in Stations
    BY <1>1, <1>4 DEF ReadTags, Proper
  <2>2. Answers(c, tags[c.arg])
    BY <1>1, <1>2, <1>4, <2>1 DEF Answers, ReadTags
  <2> QED  BY <2>2, AnswersInv
<1>5. CASE ChangeTags(c)
  <2>1. c.arg \in Stations /\ c.op \in Changes /\ c.op \notin Lists
    BY <1>1, <1>5 DEF ChangeTags, Proper, Changes
  <2>2. tags' \in [Stations -> Nat] /\ (\A s \in Stations : tags[s] <= tags'[s])
    BY <1>1, <1>5, <2>1 DEF ChangeTags, Changed
  <2>3. \A s \in Stations : s # c.arg => tags'[s] = tags[s]
    BY <1>1, <1>5, <2>1 DEF ChangeTags, Changed
  <2>4. Answers(c, 0)
    BY <1>2, <1>5, <2>1, <2>2, <2>3 DEF Answers, ChangeTags
  <2> QED  BY <2>4, AnswersInv
<1> QED  BY <1>3, <1>4, <1>5 DEF Serve

-----------------------------------------------------------------------------
(* The replies are handled, or do not come.                                  *)

(* A part that c would not refresh keeps its explanation when c is settled.  *)
LEMMA Kept ==
  ASSUME NEW v, Explained(v), NEW c, ~ Refreshes(c, v), calls \ {c} \subseteq calls',
         shown'[v] = shown[v], v \in excused => v \in excused',
         UNCHANGED <<current, tags>>
  PROVE  Explained(v)'
<1>1. \A x \in calls : Refreshes(x, v) => x \in calls' /\ Refreshes(x, v)'
  BY DEF Refreshes
<1>2. Latest(v)' = Latest(v)
  BY DEF Latest
<1> QED  BY <1>1, <1>2 DEF Explained

(* The reply to c is handled; R is asked next.                               *)
Settles(c, R) ==
  /\ \A r \in R : Fit(r)
  /\ Settle(c, R)
  /\ UNCHANGED <<clicks, tags>>

LEMMA SettleNotAhead ==
  ASSUME IInv, NEW c \in calls, NEW R, Settles(c, R)
  PROVE  /\ AnswersNotAhead' /\ (\A x \in calls' : Proper(x))
         /\ Sends(R) /\ calls \ {c} \subseteq calls'
<1>1. Sends(R) /\ calls \ {c} \subseteq calls'
  BY SettleSends DEF Settles
<1>2. \A x \in calls' : Proper(x)
  BY <1>1 DEF Sends, IInv, TypeOK
<1>3. AnswersNotAhead'
  BY <1>1 DEF Sends, IInv, AnswersNotAhead, Settles
<1> QED  BY <1>1, <1>2, <1>3

LEMMA HandleInv == ASSUME IInv, NEW c \in calls, Handle(c) PROVE IInv'
<1> USE DEF IInv, page, player
<1>1. Proper(c) /\ UNCHANGED <<clicks, tags>>
  BY DEF Handle, TypeOK
<1>2. CASE ListReceived(c) \/ PushReceived(c)
  <2>1. Settles(c, {}) /\ UNCHANGED <<search, current, shown, player, excused>>
    BY <1>1, <1>2 DEF Settles, ListReceived, PushReceived
  <2>2. table' \in Queries \union {None}
    BY <1>1, <1>2 DEF ListReceived, PushReceived, Proper, TypeOK
  <2>3. calls \ {c} \subseteq calls' /\ AnswersNotAhead' /\ (\A x \in calls' : Proper(x))
    BY <2>1, SettleNotAhead
  <2>4. \A v \in Views : ~ Refreshes(c, v)
    BY <1>2 DEF ListReceived, PushReceived, Refreshes, Views, Changes
  <2>5. StaleExplained'
    <3> SUFFICES ASSUME current # None, NEW v \in Views, Explained(v) PROVE Explained(v)'
      BY <2>1, StaleIs
    <3> QED  BY <1>1, <2>1, <2>3, <2>4, Kept
  <2> QED  BY <1>1, <2>1, <2>2, <2>3, <2>5 DEF TypeOK
<1>3. CASE DetailReceived(c)
  <2>1. /\ Settles(c, {}) /\ UNCHANGED <<search, table, current>>
        /\ stream' = c.arg /\ playing' = FALSE
    BY <1>1, <1>3 DEF Settles, DetailReceived, LoadStream
  <2>2. c.op = "detail" /\ c.arg \in Stations /\ "detail" \in Views
    BY <1>1, <1>3 DEF DetailReceived, Proper, Views
  <2>3. calls \ {c} \subseteq calls' /\ AnswersNotAhead' /\ (\A x \in calls' : Proper(x))
    BY <2>1, SettleNotAhead
  <2>4. /\ shown' \in [Views -> [station : Stations \union {None}, ver : Nat]]
        /\ shown'["detail"] = [station |-> c.arg, ver |-> 0]
        /\ \A v \in Views \ {"detail"} : shown'[v] = shown[v]
    BY <1>3, <2>2 DEF DetailReceived, TypeOK
  <2>5. /\ excused' \subseteq Views /\ excused \ {"detail"} \subseteq excused'
        /\ c.arg # current => "detail" \in excused'
    BY <1>3, <2>2 DEF DetailReceived, TypeOK
  <2>6. StaleExplained'
    <3> SUFFICES ASSUME current # None, NEW v \in Views, Explained(v) PROVE Explained(v)'
      BY <2>1, StaleIs
    <3>1. CASE v = "detail"
      BY <2>1, <2>4, <2>5, <3>1 DEF Explained, Latest
    <3>2. CASE v # "detail"
      <4>1. ~ Refreshes(c, v)
        BY <2>2, <3>2 DEF Refreshes, Changes
      <4> QED  BY <1>1, <2>1, <2>3, <2>4, <2>5, <3>2, <4>1, Kept
    <3> QED  BY <3>1, <3>2
  <2> QED  BY <1>1, <2>1, <2>2, <2>3, <2>4, <2>5, <2>6 DEF TypeOK
<1>4. CASE TagsReceived(c)
  <2>1. Settles(c, {}) /\ UNCHANGED <<search, table, current, player>> /\ c.op \in Lists
    BY <1>1, <1>4 DEF Settles, TagsReceived
  <2>2. /\ c.op \in Views /\ c.op # "detail" /\ c.op \notin Changes /\ c.op # "list"
    BY <2>1 DEF Views, Changes
  <2>3. c.arg \in Stations /\ c.at = "answered" /\ c.data \in Nat
    BY <1>1, <2>1, <2>2 DEF Proper, Settles, Settle
  <2>4. calls \ {c} \subseteq calls' /\ AnswersNotAhead' /\ (\A x \in calls' : Proper(x))
    BY <2>1, SettleNotAhead
  <2>5. ASSUME NEW v \in Views, v # c.op, Explained(v),
               shown'[v] = shown[v], v \in excused => v \in excused'
        PROVE  Explained(v)'
    <3>1. ~ Refreshes(c, v)
      BY <2>2, <2>5 DEF Refreshes
    <3> QED  BY <1>1, <2>1, <2>4, <2>5, <3>1, Kept
  <2>6. CASE ~ ForCurrent(c)
    <3>1. UNCHANGED <<shown, excused>> /\ c.arg # current
      BY <1>4, <2>6 DEF TagsReceived, ForCurrent
    <3>2. StaleExplained'
      <4> SUFFICES ASSUME current # None, NEW v \in Views, Explained(v)
                   PROVE  Explained(v)'
        BY <2>1, StaleIs
      <4>1. ~ Refreshes(c, v)
        BY <3>1 DEF Refreshes
      <4> QED  BY <1>1, <2>1, <2>4, <3>1, <4>1, Kept
    <3> QED  BY <1>1, <2>1, <2>4, <3>1, <3>2 DEF TypeOK
  <2>7. CASE ForCurrent(c)
    <3>1. /\ shown' = [shown EXCEPT ![c.op] = [station |-> c.arg, ver |-> c.data]]
          /\ excused' = IF Overtaken(c) THEN excused \union {c.op}
                        ELSE IF c.data = tags[c.arg] THEN excused \ {c.op}
                        ELSE excused
          /\ c.arg = current
      BY <1>4, <2>7 DEF TagsReceived, ForCurrent
    <3>2. /\ shown' \in [Views -> [station : Stations \union {None}, ver : Nat]]
          /\ shown'[c.op] = [station |-> c.arg, ver |-> c.data]
          /\ \A v \in Views \ {c.op} : shown'[v] = shown[v]
      BY <2>2, <2>3, <3>1 DEF TypeOK
    <3>3. excused' \subseteq Views /\ excused \ {c.op} \subseteq excused'
      BY <2>2, <3>1 DEF TypeOK
    <3>4. Explained(c.op) => Explained(c.op)'
      <4>1. CASE Overtaken(c)
        BY <3>1, <4>1 DEF Explained
      <4>2. CASE c.data = tags[c.arg]
        <5>1. shown'[c.op] = Latest(c.op)'
          BY <1>1, <2>1, <2>2, <3>1, <3>2, <4>2 DEF Latest
        <5> QED  BY <5>1 DEF Explained
      <4>3. CASE ~ Overtaken(c) /\ c.data # tags[c.arg]
        <5>1. c.data < tags[c.arg]
          BY <2>1, <2>3, <4>3 DEF AnswersNotAhead, TypeOK
        <5>2. shown[c.op] # Latest(c.op)
          BY <2>2, <3>1, <4>3, <5>1 DEF Latest, Overtaken
        <5>3. excused' = excused
          BY <3>1, <4>3
        <5>4. ~ Refreshes(c, c.op)
          BY <2>2, <2>3, <3>1, <4>3 DEF Refreshes
        <5>5. \A x \in calls : Refreshes(x, c.op) => x \in calls' /\ Refreshes(x, c.op)'
          BY <1>1, <2>1, <2>4, <5>4 DEF Refreshes
        <5> QED  BY <5>2, <5>3, <5>5 DEF Explained
      <4> QED  BY <4>1, <4>2, <4>3
    <3>5. StaleExplained'
      <4> SUFFICES ASSUME current # None, NEW v \in Views, Explained(v)
                   PROVE  Explained(v)'
        BY <2>1, StaleIs
      <4>1. CASE v = c.op
        BY <3>4, <4>1
      <4>2. CASE v # c.op
        BY <2>5, <3>2, <3>3, <4>2
      <4> QED  BY <4>1, <4>2
    <3> QED  BY <1>1, <2>1, <2>4, <3>2, <3>3, <3>5 DEF TypeOK
  <2> QED  BY <2>6, <2>7
<1>5. CASE ChangeReceived(c)
  <2> DEFINE R == IF ForCurrent(c) THEN RefreshLists(c) ELSE {}
  <2>1. c.op \in Changes /\ c.op \notin Views /\ c.arg \in Stations
    BY <1>1, <1>5 DEF ChangeReceived, Changes, Views, Proper
  <2>2. \A r \in R : Fit(r)
    BY <2>1 DEF RefreshLists, Request, Fit, Ops, Views
  <2>3. c.arg = current => \A l \in Lists : Request(l, c.arg) \in R
    BY DEF ForCurrent, RefreshLists
  <2>8. \A l \in Lists : Request(l, c.arg).op = l /\ Request(l, c.arg).arg = c.arg
    BY DEF Request
  <2>4. Settle(c, R) /\ UNCHANGED <<page, player, excused>>
    BY <1>5 DEF ChangeReceived
  <2> HIDE DEF R
  <2>5. Settles(c, R)
    BY <1>1, <2>2, <2>4 DEF Settles
  <2>6. /\ calls \ {c} \subseteq calls' /\ AnswersNotAhead' /\ (\A x \in calls' : Proper(x))
        /\ Sends(R)
    BY <2>5, SettleNotAhead
  <2>7. StaleExplained'
    <3> SUFFICES ASSUME current # None, NEW v \in Views, Explained(v) PROVE Explained(v)'
      BY <2>4, StaleIs
    <3>1. CASE c.arg = current /\ v \in Lists
      <4>1. PICK x \in calls' : x.op = v /\ x.arg = current /\ x.at = "sent"
        BY <2>3, <2>6, <2>8, <3>1 DEF Sends
      <4> QED  BY <2>4, <4>1 DEF Explained, Refreshes
    <3>2. CASE ~ (c.arg = current /\ v \in Lists)
      <4>1. ~ Refreshes(c, v)
        BY <2>1, <3>2 DEF Refreshes
      <4> QED  BY <1>1, <2>4, <2>6, <4>1, Kept
    <3> QED  BY <3>1, <3>2
  <2> QED  BY <1>1, <2>4, <2>6, <2>7 DEF TypeOK
<1> QED  BY <1>2, <1>3, <1>4, <1>5 DEF Handle

LEMMA FailsInv == ASSUME IInv, NEW c \in calls, RequestFails(c) PROVE IInv'
<1> USE DEF IInv, page, player
<1>1. /\ calls' = calls \ {c} /\ excused' = excused \union Misses(c)
      /\ UNCHANGED <<clicks, search, table, current, shown, stream, playing, tags>>
  BY DEF RequestFails, Fail
<1>2. Misses(c) \subseteq Views
  BY DEF Misses, Views
<1>3. TypeOK'
  BY <1>1, <1>2 DEF TypeOK
<1>4. AnswersNotAhead'
  BY <1>1 DEF AnswersNotAhead
<1>5. StaleExplained'
  <2> SUFFICES ASSUME current # None, NEW v \in Views, Explained(v) PROVE Explained(v)'
    BY <1>1, StaleIs
  <2>1. CASE Refreshes(c, v)
    <3>1. v \in Misses(c)
      BY <2>1 DEF Refreshes, Misses, Views, Changes
    <3> QED  BY <1>1, <3>1 DEF Explained
  <2>2. CASE ~ Refreshes(c, v)
    BY <1>1, <2>2, Kept
  <2> QED  BY <2>1, <2>2
<1> QED  BY <1>3, <1>4, <1>5

-----------------------------------------------------------------------------
(* The theorems.                                                             *)

LEMMA StutterInv == ASSUME IInv, UNCHANGED vars PROVE IInv'
<1>1. UNCHANGED <<calls, clicks, search, table, current, shown, stream, playing,
                  tags, excused>>
  BY DEF vars, page, player
<1>2. TypeOK' /\ AnswersNotAhead'
  BY <1>1 DEF IInv, TypeOK, AnswersNotAhead
<1>3. Grown
  BY <1>1 DEF Grown
<1> QED  BY <1>1, <1>2, <1>3, AskedStale DEF IInv

LEMMA NextInv == IInv /\ [Next]_vars => IInv'
  BY UserInv, ServeInv, HandleInv, FailsInv, StutterInv DEF Next

LEMMA Invariant == Spec => []IInv
  BY InitInv, NextInv, PTL DEF Spec

(* The page, the player, the requests in flight and the history variables    *)
(* keep their types (DirectoryPage.cpp, MainWindow.cpp:207-256).             *)
THEOREM PageTypes == Spec => []TypeOK
<1>1. IInv => TypeOK
  BY DEF IInv
<1> QED  BY <1>1, Invariant, PTL

(* Whatever the panel shows that is not the current station's latest is      *)
(* about to be replaced, or was left behind by a failed request, an          *)
(* overtaken reply or the push menu (DirectoryPage.cpp:154-159, 237-293).    *)
THEOREM StaleIsExplained == Spec => []StaleExplained
<1>1. IInv => StaleExplained
  BY DEF IInv
<1> QED  BY <1>1, Invariant, PTL

=============================================================================
