---------------------------- MODULE Tables_proofs ----------------------------
(***************************************************************************)
(* Proofs about Tables, for any users, platforms, slugs, releases, deploys *)
(* and bounds. Its three parts touch disjoint tables, so each is proved by *)
(* itself, and the last section puts the invariants together.              *)
(*                                                                         *)
(* Social: every queued post goes out through an account of its pusher,    *)
(* and a push answered 200 or 409 did all or nothing. An account's id is   *)
(* never given twice (AccountsDistinct), so what a push resolved stays its *)
(* user's or goes away (ResolvedOwn); a push still owes one post for each  *)
(* account it has left, and has queued one for each other (LeftToDo).      *)
(*                                                                         *)
(* Podcasts: the handlers implement PodcastService. What a handler has     *)
(* found is still so when it uses it, or the feed is gone for good,        *)
(* because no feed's id is given twice (IdsDistinct, FoundStays). What the *)
(* limit of a document leaves of its episodes is some of them              *)
(* (NewestAmong), and the handlers and the service leave the same          *)
(* (SameNewest).                                                           *)
(*                                                                         *)
(* Migrate: the schema grows in the order of the files, and nothing is     *)
(* recorded, or published by a run that came to its end, that is not there *)
(* whole. A script that has come   *)
(* to a file has found every earlier one recorded, or has applied it       *)
(* itself (ScriptsSound); what is applied stays applied. And the other     *)
(* side of it: a file that cannot run twice, once broken off half-way, is  *)
(* never completed by any run (TornStaysTorn).                             *)
(***************************************************************************)
EXTENDS Tables, TLAPS

-----------------------------------------------------------------------------
(* Social.                                                                   *)
AccountsDistinct ==
  /\ \A a \in accounts : a.id < nextAccount
  /\ \A a, b \in accounts : a.id = b.id => a = b

Numbered ==
  /\ \A r \in pushes : r.n <= arrived
  /\ \A r, q \in pushes : r.n = q.n => r = q
  /\ \A d \in answers : d.n <= arrived /\ \A r \in pushes : r.n # d.n
  /\ \A j \in queue : j.of <= arrived

ResolvedOwn ==
  /\ \A r \in pushes : \A id \in r.accounts :
       id < nextAccount /\ \A a \in accounts : a.id = id => a.user = r.user
  /\ \A d \in answers : \A id \in d.accounts : id < nextAccount

Has(n, id) == \E j \in queue : j.of = n /\ j.account = id

Owes(r) ==
  /\ r.left \subseteq r.accounts
  /\ r.at = "start" => r.accounts = {}
  /\ r.accounts = {} => \A j \in queue : j.of # r.n
  /\ \A id \in r.left : ~ Has(r.n, id)
  /\ \A id \in r.accounts \ r.left : Connected(id) => Has(r.n, id)

LeftToDo == \A r \in pushes : Owes(r)

SocialInv ==
  /\ TypeOK
  /\ AccountsDistinct
  /\ Numbered
  /\ ResolvedOwn
  /\ LeftToDo
  /\ PostsThroughOwnAccount
  /\ PushAllOrTold

(* The answers hold as long as no post of theirs goes, and no id they name   *)
(* is given to a new account.                                                *)
AnswersKept ==
  \A d \in answers :
    /\ d.status = 200 => \A id \in d.accounts : Connected(id) => Has(d.n, id)
    /\ d.status = 409 => \A j \in queue : j.of # d.n

NoneTwice ==
  \A j, k \in queue : j.of = k.of /\ j.account = k.account => j = k

LEMMA PushAllIs ==
  /\ PushAllOrTold <=> AnswersKept /\ NoneTwice
  /\ PushAllOrTold' <=> AnswersKept' /\ NoneTwice'
<1>1. \A n, id : JobsOf(n, id) # {} <=> Has(n, id)
  BY DEF JobsOf, Has
<1>2. \A n, id : JobsOf(n, id)' # {} <=> Has(n, id)'
  BY DEF JobsOf, Has
<1> QED  BY <1>1, <1>2 DEF PushAllOrTold, AnswersKept, NoneTwice

LEMMA SocialInitInv == Init => SocialInv
<1> SUFFICES ASSUME Init PROVE SocialInv
  OBVIOUS
<1> USE DEF Init
<1>1. TypeOK /\ AccountsDistinct /\ Numbered /\ ResolvedOwn /\ LeftToDo
  BY DEF TypeOK, AccountsDistinct, Numbered, ResolvedOwn, LeftToDo
<1>2. PostsThroughOwnAccount
  BY DEF PostsThroughOwnAccount
<1>3. PushAllOrTold
  BY DEF PushAllOrTold
<1> QED  BY <1>1, <1>2, <1>3 DEF SocialInv

(* A new account has an id that nothing names yet. *)
LEMMA ConnectInv ==
  ASSUME SocialInv, NEW u \in Users, NEW p \in Platforms, Connect(u, p)
  PROVE  SocialInv'
<1> USE DEF SocialInv, Connect
<1>1. PICK push \in BOOLEAN :
        accounts' = accounts \union
          {[id |-> nextAccount, user |-> u, platform |-> p, push |-> push]}
  OBVIOUS
<1>2. TypeOK'
  BY <1>1 DEF TypeOK, Account
<1>3. AccountsDistinct'
  BY <1>1 DEF AccountsDistinct, TypeOK, Account
<1>4. Numbered'
  BY DEF Numbered
<1>5. ResolvedOwn'
  <2>1. \A r \in pushes' : \A id \in r.accounts :
          id < nextAccount' /\ \A a \in accounts' : a.id = id => a.user = r.user
    BY <1>1 DEF ResolvedOwn, TypeOK, Pending
  <2>2. \A d \in answers' : \A id \in d.accounts : id < nextAccount'
    BY DEF ResolvedOwn, TypeOK, Told
  <2> QED  BY <2>1, <2>2 DEF ResolvedOwn
<1>6. \A id \in Nat : id < nextAccount => (Connected(id)' <=> Connected(id))
  BY <1>1 DEF Connected, TypeOK
<1>7. LeftToDo'
  <2> SUFFICES ASSUME NEW r \in pushes PROVE Owes(r)'
    BY DEF LeftToDo
  <2>1. r.accounts \subseteq Nat /\ \A id \in r.accounts : id < nextAccount
    BY DEF ResolvedOwn, TypeOK, Pending
  <2> QED  BY <1>6, <2>1 DEF LeftToDo, Owes, Has
<1>8. PostsThroughOwnAccount'
  BY <1>1 DEF PostsThroughOwnAccount
<1>9. PushAllOrTold'
  <2>1. \A d \in answers : d.accounts \subseteq Nat /\ \A id \in d.accounts : id < nextAccount
    BY DEF ResolvedOwn, TypeOK, Told
  <2>2. AnswersKept'
    BY <1>6, <2>1, PushAllIs DEF AnswersKept, Has
  <2>3. NoneTwice'
    BY PushAllIs DEF NoneTwice
  <2> QED  BY <2>2, <2>3, PushAllIs
<1> QED  BY <1>2, <1>3, <1>4, <1>5, <1>7, <1>8, <1>9

(* The posts of a disconnected account go, and no post of another.           *)
LEMMA DisconnectInv ==
  ASSUME SocialInv, NEW u \in Users, NEW p \in Platforms, Disconnect(u, p)
  PROVE  SocialInv'
<1> USE DEF SocialInv, Disconnect
<1>1. PICK a \in accounts :
        /\ accounts' = accounts \ {a}
        /\ queue' = {j \in queue : j.account # a.id}
  OBVIOUS
<1>2. TypeOK'
  BY <1>1 DEF TypeOK
<1>3. AccountsDistinct'
  BY <1>1 DEF AccountsDistinct
<1>4. Numbered'
  <2>1. arrived' \in Nat /\ arrived \in Nat /\ arrived < arrived'
    BY DEF TypeOK
  <2>2. \A r \in pushes : r.n \in Nat
    BY DEF TypeOK, Pending
  <2>3. \A d \in answers : d.n \in Nat
    BY DEF TypeOK, Told
  <2>4. \A j \in queue : j.of \in Nat
    BY DEF TypeOK, Job
  <2> QED  BY <1>1, <2>1, <2>2, <2>3, <2>4 DEF Numbered
<1>5. ResolvedOwn'
  BY <1>1 DEF ResolvedOwn
<1>6. \A id : Connected(id)' => Connected(id) /\ id # a.id
  BY <1>1 DEF Connected, AccountsDistinct
<1>7. \A n, id : /\ Has(n, id)' => Has(n, id)
                 /\ Has(n, id) /\ id # a.id => Has(n, id)'
  BY <1>1 DEF Has
<1>8. LeftToDo'
  <2> SUFFICES ASSUME NEW r \in pushes PROVE Owes(r)'
    BY DEF LeftToDo
  <2>1. Owes(r)
    BY DEF LeftToDo
  <2>2. r.accounts = {} => \A j \in queue' : j.of # r.n
    BY <1>1, <2>1 DEF Owes
  <2>4. \A id \in r.left : ~ Has(r.n, id)'
    BY <1>7, <2>1 DEF Owes
  <2>3. \A id \in r.accounts \ r.left : Connected(id)' => Has(r.n, id)'
    BY <1>6, <1>7, <2>1 DEF Owes
  <2> QED  BY <2>1, <2>2, <2>3, <2>4 DEF Owes
<1>9. PostsThroughOwnAccount'
  BY <1>1 DEF PostsThroughOwnAccount
<1>10. PushAllOrTold'
  <2>1. AnswersKept'
    BY <1>1, <1>6, <1>7, PushAllIs DEF AnswersKept
  <2>2. NoneTwice'
    BY <1>1, PushAllIs DEF NoneTwice
  <2> QED  BY <2>1, <2>2, PushAllIs
<1> QED  BY <1>2, <1>3, <1>4, <1>5, <1>8, <1>9, <1>10

(* A new push has a number that nothing names yet. *)
LEMMA PushInv ==
  ASSUME SocialInv, NEW u \in Users, NEW ps \in SUBSET Platforms, Push(u, ps)
  PROVE  SocialInv'
<1> DEFINE new == [n |-> arrived + 1, user |-> u, platforms |-> ps, at |-> "start",
                   accounts |-> {}, left |-> {}]
<1> USE DEF SocialInv, Push, tables
<1>1. pushes' = pushes \union {new}
  OBVIOUS
<1>2. TypeOK'
  <2>1. new \in Pending /\ arrived' \in Nat
    BY DEF TypeOK, Pending
  <2> HIDE DEF new
  <2> QED  BY <1>1, <2>1 DEF TypeOK
<1>3. arrived' \in Nat /\ arrived \in Nat /\ arrived < arrived' /\ new.n = arrived'
  BY DEF TypeOK
<1>4. Numbered'
  <2>2. \A r \in pushes : r.n \in Nat /\ r.n <= arrived
    BY DEF TypeOK, Pending, Numbered
  <2>3. \A d \in answers : d.n \in Nat /\ d.n <= arrived
    BY DEF TypeOK, Told, Numbered
  <2>4. \A j \in queue : j.of \in Nat /\ j.of <= arrived
    BY DEF TypeOK, Job, Numbered
  <2> HIDE DEF new
  <2> QED  BY <1>1, <1>3, <2>2, <2>3, <2>4 DEF Numbered
<1>5. AccountsDistinct' /\ PostsThroughOwnAccount'
  BY DEF AccountsDistinct, PostsThroughOwnAccount
<1>6. ResolvedOwn'
  BY <1>1 DEF ResolvedOwn
<1>7. LeftToDo'
  <2> SUFFICES ASSUME NEW r \in pushes' PROVE Owes(r)'
    BY DEF LeftToDo
  <2>1. CASE r \in pushes
    BY <2>1 DEF LeftToDo, Owes, Has, Connected
  <2>2. CASE r = new
    <3>1. \A j \in queue : j.of \in Nat /\ j.of <= arrived
      BY DEF TypeOK, Job, Numbered
    <3>2. \A j \in queue : j.of # r.n
      BY <1>3, <2>2, <3>1
    <3> QED  BY <2>2, <3>2 DEF Owes
  <2> QED  BY <1>1, <2>1, <2>2
<1>8. PushAllOrTold'
  <2>1. AnswersKept' /\ NoneTwice'
    BY PushAllIs DEF AnswersKept, NoneTwice, Has, Connected
  <2> QED  BY <2>1, PushAllIs
<1> QED  BY <1>2, <1>4, <1>5, <1>6, <1>7, <1>8

(* One step of a handler: r queues the posts J, for accounts it has left; it *)
(* goes on as the one push in Q or ends with the one answer in D.            *)
HandlerStep(r, J, Q, D) ==
  /\ J \subseteq Job /\ Q \subseteq Pending /\ D \subseteq Told
  /\ UNCHANGED <<accounts, nextAccount, arrived>> /\ nextJob' \in Nat
  /\ queue' = queue \union J
  /\ pushes' = (pushes \ {r}) \union Q
  /\ answers' = answers \union D
  /\ \A j \in J :
       j.of = r.n /\ j.user = r.user /\ j.account \in r.left /\ Connected(j.account)
  /\ \A j, k \in J : j = k
  /\ \A q \in Q :
       /\ q.n = r.n /\ Owes(q)'
       /\ \A id \in q.accounts :
            id < nextAccount /\ \A a \in accounts : a.id = id => a.user = q.user
  /\ \A q, p \in Q : q = p
  /\ \A d \in D :
       /\ d.n = r.n
       /\ \A id \in d.accounts : id < nextAccount
       /\ d.status = 200 => \A id \in d.accounts : Connected(id) => Has(d.n, id)'
       /\ d.status = 409 => \A j \in queue' : j.of # d.n
  /\ Q = {} \/ D = {}

LEMMA HandlerInv ==
  ASSUME SocialInv, NEW r \in pushes, NEW J, NEW Q, NEW D, HandlerStep(r, J, Q, D)
  PROVE  SocialInv'
<1> USE DEF HandlerStep
<1> USE DEF SocialInv
<1>1. TypeOK' /\ AccountsDistinct'
  BY DEF TypeOK, AccountsDistinct
<1>2. Numbered'
  <2>1. (\A p \in pushes' : p.n <= arrived) /\ (\A d \in answers' : d.n <= arrived)
    BY DEF Numbered
  <2>2. \A p, q \in pushes' : p.n = q.n => p = q
    BY DEF Numbered
  <2>3. \A d \in answers' : \A p \in pushes' : p.n # d.n
    BY DEF Numbered
  <2>4. \A j \in queue' : j.of <= arrived
    BY DEF Numbered
  <2> QED  BY <2>1, <2>2, <2>3, <2>4 DEF Numbered
<1>3. ResolvedOwn'
  <2>1. \A q \in pushes' : \A id \in q.accounts :
          id < nextAccount /\ \A a \in accounts : a.id = id => a.user = q.user
    BY DEF ResolvedOwn
  <2>2. \A d \in answers' : \A id \in d.accounts : id < nextAccount
    BY DEF ResolvedOwn
  <2> QED  BY <2>1, <2>2 DEF ResolvedOwn
<1>4. /\ \A n, id : Has(n, id) => Has(n, id)'
      /\ \A n, id : Has(n, id)' /\ n # r.n => Has(n, id)
      /\ \A id : Connected(id)' <=> Connected(id)
  BY DEF Has, Connected
<1>5. LeftToDo'
  <2> SUFFICES ASSUME NEW q \in pushes' PROVE Owes(q)'
    BY DEF LeftToDo
  <2>1. CASE q \in Q
    BY <2>1
  <2>2. CASE q \in pushes \ {r}
    <3>1. q.n # r.n /\ Owes(q)
      BY <2>2 DEF Numbered, LeftToDo
    <3>2. q.accounts = {} => \A j \in queue' : j.of # q.n
      BY <3>1 DEF Owes
    <3>3. \A id \in q.left : ~ Has(q.n, id)'
      BY <1>4, <3>1 DEF Owes
    <3>4. \A id \in q.accounts \ q.left : Connected(id)' => Has(q.n, id)'
      BY <1>4, <3>1 DEF Owes
    <3> QED  BY <3>1, <3>2, <3>3, <3>4 DEF Owes
  <2> QED  BY <2>1, <2>2
<1>6. PostsThroughOwnAccount'
  <2> SUFFICES ASSUME NEW j \in queue' 
               PROVE  \E a \in accounts : a.id = j.account /\ a.user = j.user
    BY DEF PostsThroughOwnAccount
  <2>1. CASE j \in queue
    BY <2>1 DEF PostsThroughOwnAccount
  <2>2. CASE j \in J
    <3>1. PICK a \in accounts : a.id = j.account
      BY <2>2 DEF Connected
    <3>2. j.account \in r.accounts
      BY <2>2 DEF LeftToDo, Owes
    <3> QED  BY <2>2, <3>1, <3>2 DEF ResolvedOwn
  <2> QED  BY <2>1, <2>2
<1>7. PushAllOrTold'
  <2>1. AnswersKept'
    <3> SUFFICES ASSUME NEW d \in answers'
                 PROVE  /\ d.status = 200 =>
                             \A id \in d.accounts : Connected(id) => Has(d.n, id)'
                        /\ d.status = 409 => \A j \in queue' : j.of # d.n
      BY <1>4 DEF AnswersKept
    <3>1. CASE d \in D
      BY <3>1
    <3>2. CASE d \in answers
      <4>1. d.n # r.n
        BY <3>2 DEF Numbered
      <4> QED  BY <1>4, <3>2, <4>1, PushAllIs DEF AnswersKept
    <3> QED  BY <3>1, <3>2
  <2>2. NoneTwice'
    <3>1. \A j \in queue, k \in J : ~ (j.of = k.of /\ j.account = k.account)
      BY DEF LeftToDo, Owes, Has
    <3> QED  BY <3>1, PushAllIs DEF NoneTwice
  <2> QED  BY <2>1, <2>2, PushAllIs
<1> QED  BY <1>1, <1>2, <1>3, <1>5, <1>6, <1>7

(* A push that ends without a post, at its start with 409 or anywhere with   *)
(* 503.                                                                      *)
LEMMA EndInv ==
  ASSUME SocialInv, NEW r \in pushes, NEW status \in {409, 503}, Answer(r, status),
         status = 409 => r.at = "start", UNCHANGED <<tables, arrived>>
  PROVE  SocialInv'
<1> DEFINE d == [n |-> r.n, user |-> r.user, status |-> status, accounts |-> r.accounts]
<1> USE DEF SocialInv, Answer, tables
<1>1. r \in Pending /\ d \in Told /\ nextJob' \in Nat
  BY DEF TypeOK, Pending, Told
<1>2. /\ d.n = r.n /\ d.status # 200
      /\ \A id \in d.accounts : id < nextAccount
  BY DEF ResolvedOwn
<1>3. d.status = 409 => \A j \in queue : j.of # d.n
  BY DEF LeftToDo, Owes
<1>4. answers' = answers \union {d} /\ pushes' = (pushes \ {r}) \union {}
  OBVIOUS
<1> HIDE DEF d
<1>5. queue' = queue \union {} /\ UNCHANGED <<accounts, nextAccount, arrived>>
  OBVIOUS
<1>6. HandlerStep(r, {}, {}, {d})
  BY <1>1, <1>2, <1>3, <1>4, <1>5 DEF HandlerStep
<1> QED  BY <1>6, HandlerInv

LEMMA ResolveInv == ASSUME SocialInv, NEW r \in pushes, Resolve(r) PROVE SocialInv'
<1>1. {a.id : a \in OfCaller(r)} \in SUBSET Nat
  BY DEF SocialInv, TypeOK, Account, OfCaller
<1>2. PICK ids \in SUBSET Nat : ids = {a.id : a \in OfCaller(r)}
  BY <1>1
<1> DEFINE q == [n |-> r.n, user |-> r.user, platforms |-> r.platforms, at |-> "insert",
                 accounts |-> ids, left |-> ids]
<1>3. CASE ids = {}
  BY <1>2, <1>3, EndInv DEF Resolve
<1>4. CASE ids # {}
  <2>1. r \in Pending /\ UNCHANGED <<tables, arrived>> /\ Insert(r, ids, ids)
    BY <1>2, <1>4 DEF Resolve, SocialInv, TypeOK
  <2>2. \A id \in ids : id < nextAccount /\ \A a \in accounts : a.id = id => a.user = r.user
    BY <1>2 DEF SocialInv, TypeOK, Account, AccountsDistinct, OfCaller
  <2>3. q \in Pending
    BY <2>1 DEF Pending
  <2>4. pushes' = (pushes \ {r}) \union {q} /\ UNCHANGED answers
    BY <2>1 DEF Insert
  <2>5. \A j \in queue : j.of # r.n
    BY DEF SocialInv, LeftToDo, Owes, Resolve
  <2>6. Owes(q)'
    BY <1>4, <2>1, <2>5 DEF Owes, Has, tables
  <2>7. q.n = r.n /\ q.user = r.user /\ q.accounts = ids
    OBVIOUS
  <2> HIDE DEF q
  <2>8. /\ queue' = queue \union {} /\ answers' = answers \union {} /\ nextJob' \in Nat
        /\ UNCHANGED <<accounts, nextAccount, arrived>>
    BY <2>1, <2>4 DEF tables, SocialInv, TypeOK
  <2>9. HandlerStep(r, {}, {q}, {})
    BY <2>2, <2>3, <2>4, <2>6, <2>7, <2>8 DEF HandlerStep
  <2> QED  BY <2>9, HandlerInv
<1> QED  BY <1>3, <1>4

(* A post for an account that is still there; the push goes on or is done.   *)
LEMMA EnqueueInv == ASSUME SocialInv, NEW r \in pushes, Enqueue(r) PROVE SocialInv'
<1> USE DEF Enqueue
<1>1. r \in Pending /\ Owes(r) /\ r.at = "insert"
  BY DEF SocialInv, TypeOK, LeftToDo
<1>2. PICK id \in r.left :
        IF Connected(id)
        THEN /\ queue' = queue \union
                  {[id |-> nextJob, user |-> r.user, account |-> id, of |-> r.n]}
             /\ nextJob' = nextJob + 1
             /\ Proceed(r, id)
        ELSE Answer(r, 503) /\ UNCHANGED <<queue, nextJob>>
  OBVIOUS
<1>3. CASE ~ Connected(id)
  BY <1>2, <1>3, EndInv DEF tables
<1>4. CASE Connected(id)
  <2>1. nextJob \in Nat /\ id \in Nat /\ id \in r.accounts /\ r.left \subseteq r.accounts
    BY <1>1 DEF SocialInv, TypeOK, Pending, Owes
  <2>2. PICK new \in Job :
          new = [id |-> nextJob, user |-> r.user, account |-> id, of |-> r.n]
    BY <1>1, <2>1 DEF Pending, Job
  <2>3. /\ queue' = queue \union {new} /\ nextJob' \in Nat /\ Proceed(r, id)
        /\ UNCHANGED <<accounts, nextAccount, arrived>>
    BY <1>2, <1>4, <2>1, <2>2
  <2>4. new.of = r.n /\ new.user = r.user /\ new.account = id
    BY <2>2
  <2>5. \A a \in r.accounts : a < nextAccount
                             /\ \A b \in accounts : b.id = a => b.user = r.user
    BY DEF SocialInv, ResolvedOwn
  <2>6. \A a \in r.accounts \ (r.left \ {id}) : Connected(a)' => Has(r.n, a)'
    <3>1. \A a : Connected(a)' <=> Connected(a)
      BY <2>3 DEF Connected
    <3>2. Has(r.n, id)'
      BY <2>3, <2>4 DEF Has
    <3>3. \A a : Has(r.n, a) => Has(r.n, a)'
      BY <2>3 DEF Has
    <3> QED  BY <1>1, <3>1, <3>2, <3>3 DEF Owes
  <2>7. \A a \in r.left \ {id} : ~ Has(r.n, a)'
    BY <1>1, <2>3, <2>4 DEF Owes, Has
  <2>8. CASE r.left = {id}
    <3> DEFINE d == [n |-> r.n, user |-> r.user, status |-> 200, accounts |-> r.accounts]
    <3>1. /\ answers' = answers \union {d} /\ pushes' = (pushes \ {r}) \union {}
          /\ d \in Told /\ d.n = r.n /\ d.status = 200 /\ d.accounts = r.accounts
      BY <1>1, <2>3, <2>8 DEF Proceed, Answer, Told, Pending
    <3> HIDE DEF d
    <3>2. \A a \in r.accounts : Connected(a) => Has(r.n, a)'
      <4>1. \A a : Connected(a)' <=> Connected(a)
        BY <2>3 DEF Connected
      <4> QED  BY <2>6, <2>8, <4>1
    <3>3. HandlerStep(r, {new}, {}, {d})
      BY <1>4, <2>3, <2>4, <2>5, <3>1, <3>2 DEF HandlerStep
    <3> QED  BY <3>3, HandlerInv
  <2>9. CASE r.left # {id}
    <3> DEFINE q == [n |-> r.n, user |-> r.user, platforms |-> r.platforms, at |-> "insert",
                     accounts |-> r.accounts, left |-> r.left \ {id}]
    <3>1. /\ pushes' = (pushes \ {r}) \union {q} /\ answers' = answers \union {}
          /\ q.n = r.n /\ q.user = r.user /\ q.accounts = r.accounts
      BY <2>3, <2>9 DEF Proceed, Insert
    <3>2. q \in Pending
      BY <1>1 DEF Pending
    <3>3. Owes(q)'
      BY <2>1, <2>6, <2>7 DEF Owes
    <3> HIDE DEF q
    <3>4. HandlerStep(r, {new}, {q}, {})
      BY <1>4, <2>3, <2>4, <2>5, <3>1, <3>2, <3>3 DEF HandlerStep
    <3> QED  BY <3>4, HandlerInv
  <2> QED  BY <2>8, <2>9
<1> QED  BY <1>3, <1>4

LEMMA CrashInv == SocialInv /\ Crash => SocialInv'
<1> SUFFICES ASSUME SocialInv, Crash PROVE SocialInv'
  OBVIOUS
<1> USE DEF SocialInv, Crash, tables
<1>1. TypeOK' /\ AccountsDistinct' /\ Numbered' /\ ResolvedOwn' /\ LeftToDo'
  BY DEF TypeOK, AccountsDistinct, Numbered, ResolvedOwn, LeftToDo
<1>2. PostsThroughOwnAccount'
  BY DEF PostsThroughOwnAccount
<1>3. AnswersKept' /\ NoneTwice'
  BY PushAllIs DEF AnswersKept, NoneTwice, Has, Connected
<1> QED  BY <1>1, <1>2, <1>3, PushAllIs

LEMMA SocialStutterInv == SocialInv /\ UNCHANGED vars => SocialInv'
<1> SUFFICES ASSUME SocialInv, UNCHANGED vars PROVE SocialInv'
  OBVIOUS
<1> USE DEF SocialInv, vars, tables
<1>1. TypeOK' /\ AccountsDistinct' /\ Numbered' /\ ResolvedOwn'
  BY DEF TypeOK, AccountsDistinct, Numbered, ResolvedOwn
<1>2. LeftToDo' /\ PostsThroughOwnAccount'
  BY DEF LeftToDo, Owes, Has, Connected, PostsThroughOwnAccount
<1>3. AnswersKept' /\ NoneTwice'
  BY PushAllIs DEF AnswersKept, NoneTwice, Has, Connected
<1> QED  BY <1>1, <1>2, <1>3, PushAllIs

LEMMA SocialNextInv == SocialInv /\ [Next]_vars => SocialInv'
<1> SUFFICES ASSUME SocialInv, [Next]_vars PROVE SocialInv'
  OBVIOUS
<1>1. ASSUME NEW u \in Users, NEW p \in Platforms, Connect(u, p) PROVE SocialInv'
  BY <1>1, ConnectInv
<1>2. ASSUME NEW u \in Users, NEW p \in Platforms, Disconnect(u, p) PROVE SocialInv'
  BY <1>2, DisconnectInv
<1>3. ASSUME NEW u \in Users, NEW ps \in SUBSET Platforms \ {{}}, Push(u, ps) PROVE SocialInv'
  BY <1>3, PushInv
<1>4. ASSUME NEW r \in pushes, Resolve(r) PROVE SocialInv'
  BY <1>4, ResolveInv
<1>5. ASSUME NEW r \in pushes, Enqueue(r) PROVE SocialInv'
  BY <1>5, EnqueueInv
<1>6. ASSUME NEW r \in pushes, Throw(r) PROVE SocialInv'
  BY <1>6, EndInv DEF Throw
<1>7. CASE Crash
  BY <1>7, CrashInv
<1>8. CASE UNCHANGED vars
  BY <1>8, SocialStutterInv
<1> QED  BY <1>1, <1>2, <1>3, <1>4, <1>5, <1>6, <1>7, <1>8 DEF Next

LEMMA SocialInvariant == Spec => []SocialInv
  BY SocialInitInv, SocialNextInv, PTL DEF Spec

(* The tables, the pushes and the answers keep their types.                  *)
THEOREM SocialTypes == Spec => []TypeOK
<1>1. SocialInv => TypeOK
  BY DEF SocialInv
<1> QED  BY <1>1, SocialInvariant, PTL

(* Every queued post goes out through an account of the user who pushed it   *)
(* (main.cpp:1243-1295).                                                     *)
THEOREM PostsOwn == Spec => []PostsThroughOwnAccount
<1>1. SocialInv => PostsThroughOwnAccount
  BY DEF SocialInv
<1> QED  BY <1>1, SocialInvariant, PTL

(* A push answered 200 queued one post for each of its accounts that is      *)
(* still connected, one answered 409 none, and none queues two for one       *)
(* (main.cpp:1262-1306).                                                     *)
THEOREM PushesAll == Spec => []PushAllOrTold
<1>1. SocialInv => PushAllOrTold
  BY DEF SocialInv
<1> QED  BY <1>1, SocialInvariant, PTL

-----------------------------------------------------------------------------
(* Podcasts.                                                                  *)
USE PodcastsAssumption

(* Ids are not given twice. *)
IdsDistinct ==
  /\ nextFeed \in 1..(MaxFeeds + 1) /\ nextEpisode \in 1..(MaxEpisodes + 1)
  /\ \A x \in feeds : x.id \in 1..(nextFeed - 1)
  /\ \A x, y \in feeds : x.id = y.id \/ (x.user = y.user /\ x.slug = y.slug) => x = y
  /\ \A e \in episodes : e.id \in 1..(nextEpisode - 1)
  /\ \A d, e \in episodes : d.id = e.id => d = e

(* A request for a slug names one; the feed a handler has found was there,   *)
(* and its id is given to no other.                                          *)
FoundStays ==
  \A r \in requests :
    /\ r.kind \in {"createFeed", "rss"} => r.slug \in Slugs
    /\ r.at # "start" => r.feed \in 1..(nextFeed - 1)
    /\ r.kind = "post" /\ r.at = "checked" =>
         \A x \in feeds : x.id = r.feed => x.user = r.user

PodInv ==
  /\ Pod!TypeOK
  /\ IdsDistinct
  /\ FoundStays
  /\ Pod!EpisodesByOwner
  /\ Pod!DocumentsOfOneFeed

Asked == [n : Nat, kind : Pod!Kinds, user : Users, slug : Slugs \union {NoSlug},
          feed : Nat, ep : Nat, at : {"start", "checked", "found"}]

LEMMA PodInitInv == Pod!Init => PodInv
  BY DEF Pod!Init, PodInv, Pod!TypeOK, IdsDistinct, FoundStays, Pod!EpisodesByOwner,
         Pod!DocumentsOfOneFeed

(* A handler that ends leaves the others what they found.                    *)
LEMMA FoundKept ==
  ASSUME PodInv, requests' \subseteq requests, nextFeed' \in Nat, nextFeed <= nextFeed',
         \A x \in feeds' : x \in feeds \/ x.id = nextFeed
  PROVE  FoundStays'
  BY DEF PodInv, FoundStays, IdsDistinct

LEMMA ArriveInv == ASSUME PodInv, Pod!Arrive PROVE PodInv'
<1> USE DEF PodInv
<1>1. PICK u \in Users, kind \in Pod!Kinds, slug \in Slugs \union {NoSlug},
           f \in Nat, e \in Nat :
        /\ Pod!Receive(kind, u, slug, f, e)
        /\ kind \in {"createFeed", "rss"} => slug \in Slugs
  BY DEF Pod!Arrive, Pod!Kinds
<1> DEFINE r == Pod!Request(arrived', kind, u, slug, f, e)
<1>2. r \in Asked /\ r.at = "start" /\ (r.kind \in {"createFeed", "rss"} => r.slug \in Slugs)
  BY <1>1 DEF Asked, Pod!Request, Pod!TypeOK, Pod!Receive
<1>3. /\ requests' = requests \union {r} /\ arrived' \in Nat
      /\ UNCHANGED <<feeds, nextFeed, episodes, nextEpisode, documents>>
  BY <1>1 DEF Pod!Receive, Pod!TypeOK, Pod!tables
<1> HIDE DEF r
<1>4. Pod!TypeOK'
  BY <1>2, <1>3 DEF Pod!TypeOK, Asked
<1>5. FoundStays'
  BY <1>2, <1>3 DEF FoundStays
<1>6. IdsDistinct' /\ Pod!EpisodesByOwner' /\ Pod!DocumentsOfOneFeed'
  BY <1>3 DEF IdsDistinct, Pod!EpisodesByOwner, Pod!DocumentsOfOneFeed
<1> QED  BY <1>4, <1>5, <1>6

LEMMA CreateFeedInv == ASSUME PodInv, NEW r \in requests, Pod!CreateFeed(r) PROVE PodInv'
<1> USE DEF PodInv
<1>1. r \in Asked /\ r.slug \in Slugs
  BY DEF Pod!TypeOK, Asked, FoundStays, Pod!CreateFeed, Pod!At
<1>2. /\ requests' \subseteq requests
      /\ UNCHANGED <<episodes, nextEpisode, arrived, documents>>
  BY DEF Pod!CreateFeed, Pod!Return
<1>3. CASE Pod!Duplicate(r)
  <2>1. UNCHANGED <<feeds, nextFeed>>
    BY <1>3 DEF Pod!CreateFeed
  <2>2. Pod!TypeOK' /\ IdsDistinct' /\ Pod!EpisodesByOwner' /\ Pod!DocumentsOfOneFeed'
    BY <1>2, <2>1 DEF Pod!TypeOK, IdsDistinct, Pod!EpisodesByOwner, Pod!DocumentsOfOneFeed
  <2>3. FoundStays'
    BY <1>2, <2>1, FoundKept DEF IdsDistinct
  <2> QED  BY <2>2, <2>3
<1>4. CASE ~ Pod!Duplicate(r)
  <2> DEFINE new == [id |-> nextFeed, user |-> r.user, slug |-> r.slug]
  <2>1. /\ feeds' = feeds \union {new} /\ nextFeed' = nextFeed + 1
        /\ nextFeed <= MaxFeeds
    BY <1>4 DEF Pod!CreateFeed
  <2>2. Pod!TypeOK' /\ Pod!EpisodesByOwner' /\ Pod!DocumentsOfOneFeed'
    BY <1>1, <1>2, <2>1 DEF Pod!TypeOK, Asked, Pod!EpisodesByOwner, Pod!DocumentsOfOneFeed
  <2>3. \A x \in feeds : x.id # new.id /\ ~ (x.user = new.user /\ x.slug = new.slug)
    BY <1>4 DEF Pod!Duplicate, IdsDistinct
  <2>4. new.id = nextFeed
    OBVIOUS
  <2> HIDE DEF new
  <2>5. \A x, y \in feeds' :
          x.id = y.id \/ (x.user = y.user /\ x.slug = y.slug) => x = y
    BY <2>1, <2>3 DEF IdsDistinct
  <2>6. IdsDistinct'
    BY <1>2, <2>1, <2>4, <2>5 DEF IdsDistinct
  <2>7. FoundStays'
    BY <1>2, <2>1, <2>4, FoundKept DEF IdsDistinct
  <2> QED  BY <2>2, <2>6, <2>7
<1> QED  BY <1>3, <1>4

LEMMA DeleteFeedInv == ASSUME PodInv, NEW r \in requests, Pod!DeleteFeed(r) PROVE PodInv'
<1> USE DEF PodInv
<1>1. /\ feeds' \subseteq feeds /\ episodes' \subseteq episodes
      /\ requests' \subseteq requests
      /\ UNCHANGED <<nextFeed, nextEpisode, arrived, documents>>
  BY DEF Pod!DeleteFeed, Pod!Return
<1>2. \A e \in episodes' : \A x \in feeds : x.id = e.feed => x \in feeds'
  BY DEF Pod!DeleteFeed, Pod!Rows
<1>3. Pod!TypeOK' /\ IdsDistinct' /\ Pod!DocumentsOfOneFeed'
  BY <1>1 DEF Pod!TypeOK, IdsDistinct, Pod!DocumentsOfOneFeed
<1>4. FoundStays'
  BY <1>1, FoundKept DEF IdsDistinct
<1>5. Pod!EpisodesByOwner'
  BY <1>1, <1>2 DEF Pod!EpisodesByOwner
<1> QED  BY <1>3, <1>4, <1>5

(* The handlers that only read the tables.                                   *)
LEMMA ContinueInv ==
  ASSUME PodInv, NEW r \in requests, NEW step \in {"checked", "found"}, NEW f,
         Pod!Continue(r, step, f),
         UNCHANGED <<Pod!tables, arrived, documents>>,
         \E x \in feeds : x.id = f,
         r.kind = "post" => \E x \in feeds : x.id = f /\ x.user = r.user
  PROVE  PodInv'
<1> USE DEF PodInv, Pod!tables
<1> DEFINE s == [r EXCEPT !.at = step, !.feed = f]
<1>1. r \in Asked /\ f \in Nat /\ f \in 1..(nextFeed - 1)
  BY DEF Pod!TypeOK, Asked, IdsDistinct
<1>2. /\ s \in Asked /\ s.kind = r.kind /\ s.feed = f /\ s.slug = r.slug
      /\ s.user = r.user
  BY <1>1 DEF Asked
<1>3. requests' = (requests \ {r}) \union {s}
  BY DEF Pod!Continue
<1> HIDE DEF s
<1>4. Pod!TypeOK'
  BY <1>2, <1>3 DEF Pod!TypeOK, Asked
<1>5. FoundStays'
  BY <1>1, <1>2, <1>3 DEF FoundStays, IdsDistinct
<1>6. IdsDistinct' /\ Pod!EpisodesByOwner' /\ Pod!DocumentsOfOneFeed'
  BY DEF IdsDistinct, Pod!EpisodesByOwner, Pod!DocumentsOfOneFeed
<1> QED  BY <1>4, <1>5, <1>6

LEMMA ReturnInv ==
  ASSUME PodInv, NEW r \in requests, Pod!Return(r),
         UNCHANGED <<Pod!tables, arrived, documents>>
  PROVE  PodInv'
<1> USE DEF PodInv, Pod!tables
<1>1. requests' \subseteq requests
  BY DEF Pod!Return
<1>2. Pod!TypeOK' /\ IdsDistinct' /\ Pod!EpisodesByOwner' /\ Pod!DocumentsOfOneFeed'
  BY <1>1 DEF Pod!TypeOK, IdsDistinct, Pod!EpisodesByOwner, Pod!DocumentsOfOneFeed
<1>3. FoundStays'
  BY <1>1, FoundKept DEF IdsDistinct
<1> QED  BY <1>2, <1>3

LEMMA CheckFeedInv == ASSUME PodInv, NEW r \in requests, Pod!CheckFeed(r) PROVE PodInv'
  BY ContinueInv, ReturnInv DEF Pod!CheckFeed, Pod!Owns

LEMMA FindFeedInv == ASSUME PodInv, NEW r \in requests, Pod!FindFeed(r) PROVE PodInv'
  BY ContinueInv, ReturnInv DEF Pod!FindFeed, Pod!At

LEMMA InsertEpisodeInv == ASSUME PodInv, NEW r \in requests, Pod!InsertEpisode(r) PROVE PodInv'
<1> USE DEF PodInv
<1>1. r \in Asked /\ r.kind = "post" /\ r.at = "checked"
  BY DEF Pod!InsertEpisode, Pod!At, Pod!TypeOK, Asked
<1>2. requests' \subseteq requests /\ UNCHANGED <<feeds, nextFeed, arrived, documents>>
  BY DEF Pod!InsertEpisode, Pod!Return
<1>3. FoundStays' /\ Pod!DocumentsOfOneFeed'
  BY <1>2, FoundKept DEF IdsDistinct, Pod!DocumentsOfOneFeed
<1>4. CASE ~ Pod!IsFeed(r.feed)
  <2>1. UNCHANGED <<episodes, nextEpisode>>
    BY <1>4 DEF Pod!InsertEpisode
  <2> QED  BY <1>2, <1>3, <2>1 DEF Pod!TypeOK, IdsDistinct, Pod!EpisodesByOwner
<1>5. CASE Pod!IsFeed(r.feed)
  <2>1. PICK t \in Seconds :
          /\ episodes' = episodes \union
               {[id |-> nextEpisode, feed |-> r.feed, by |-> r.user, second |-> t]}
          /\ nextEpisode' = nextEpisode + 1 /\ nextEpisode <= MaxEpisodes
    BY <1>5 DEF Pod!InsertEpisode
  <2>2. \E x \in feeds : x.id = r.feed /\ x.user = r.user
    BY <1>1, <1>5 DEF Pod!IsFeed, FoundStays
  <2>3. Pod!TypeOK'
    BY <1>1, <1>2, <2>1 DEF Pod!TypeOK, Pod!Episode, Asked
  <2>4. IdsDistinct'
    BY <1>2, <2>1 DEF IdsDistinct
  <2>5. Pod!EpisodesByOwner'
    BY <1>2, <2>1, <2>2 DEF Pod!EpisodesByOwner
  <2> QED  BY <1>3, <2>3, <2>4, <2>5
<1> QED  BY <1>4, <1>5

LEMMA DeleteEpisodeInv == ASSUME PodInv, NEW r \in requests, Pod!DeleteEpisode(r) PROVE PodInv'
<1> USE DEF PodInv
<1>1. /\ requests' \subseteq requests /\ episodes' \subseteq episodes
      /\ UNCHANGED <<feeds, nextFeed, nextEpisode, arrived, documents>>
  BY DEF Pod!DeleteEpisode, Pod!Return
<1>2. Pod!TypeOK' /\ IdsDistinct' /\ Pod!EpisodesByOwner' /\ Pod!DocumentsOfOneFeed'
  BY <1>1 DEF Pod!TypeOK, IdsDistinct, Pod!EpisodesByOwner, Pod!DocumentsOfOneFeed
<1>3. FoundStays'
  BY <1>1, FoundKept DEF IdsDistinct
<1> QED  BY <1>2, <1>3

(* What a document lists is some of the feed's episodes.                     *)
LEMMA NewestAmong == \A S, n : \A some \in Pod!Newest(S, n) : some \subseteq S
  BY DEF Pod!Newest

LEMMA SendDocumentInv == ASSUME PodInv, NEW r \in requests, Pod!SendDocument(r) PROVE PodInv'
<1> USE DEF PodInv, Pod!tables
<1>0. PICK listed \in Pod!RowsOfFeed(r) :
        documents' = documents \union
          {[user |-> r.user, slug |-> r.slug, feed |-> r.feed, episodes |-> listed]}
  BY DEF Pod!SendDocument
<1> DEFINE d == [user |-> r.user, slug |-> r.slug, feed |-> r.feed, episodes |-> listed]
<1>1. r \in Asked /\ r.slug \in Slugs
  BY DEF Pod!TypeOK, Asked, FoundStays, Pod!SendDocument, Pod!At
<1>2. /\ requests' \subseteq requests /\ documents' = documents \union {d}
      /\ UNCHANGED <<feeds, nextFeed, episodes, nextEpisode, arrived>>
  BY <1>0 DEF Pod!SendDocument, Pod!Return
<1>3. d.episodes \subseteq episodes /\ \A e \in d.episodes : e.feed = d.feed
  <2>1. listed \subseteq Pod!Rows(r.feed)
    BY <1>0, NewestAmong DEF Pod!RowsOfFeed
  <2> QED  BY <2>1 DEF Pod!Rows
<1>4. d \in [user : Users, slug : Slugs, feed : Nat, episodes : SUBSET Pod!Episode]
  BY <1>1, <1>3 DEF Pod!TypeOK, Asked
<1> HIDE DEF d
<1>5. Pod!TypeOK' /\ IdsDistinct' /\ Pod!EpisodesByOwner'
  BY <1>2, <1>4 DEF Pod!TypeOK, IdsDistinct, Pod!EpisodesByOwner
<1>6. Pod!DocumentsOfOneFeed'
  BY <1>2, <1>3 DEF Pod!DocumentsOfOneFeed
<1>7. FoundStays'
  BY <1>2, FoundKept DEF IdsDistinct
<1> QED  BY <1>5, <1>6, <1>7

LEMMA PodNextInv == PodInv /\ [Pod!Next]_(Pod!vars) => PodInv'
<1> SUFFICES ASSUME PodInv, [Pod!Next]_(Pod!vars) PROVE PodInv'
  OBVIOUS
<1>1. CASE UNCHANGED Pod!vars
  BY <1>1 DEF Pod!vars, Pod!tables, PodInv, Pod!TypeOK, IdsDistinct, FoundStays, Pod!EpisodesByOwner,
              Pod!DocumentsOfOneFeed
<1>2. ASSUME NEW r \in requests, Pod!ListEpisodes(r) \/ Pod!Fail(r) PROVE PodInv'
  BY <1>2, ReturnInv DEF Pod!ListEpisodes, Pod!Fail
<1> QED  BY <1>1, <1>2, ArriveInv, CreateFeedInv, DeleteFeedInv, CheckFeedInv, InsertEpisodeInv,
            DeleteEpisodeInv, FindFeedInv, SendDocumentInv DEF Pod!Next

-----------------------------------------------------------------------------
(* Each handler's statement is one step of PodcastService, or none.          *)

LEMMA PodInitRefines == Pod!Init => Pod!Service!AInit
  BY DEF Pod!Init, Pod!Service!AInit

LEMMA SameNewest == \A S, n : Pod!Newest(S, n) = Pod!Service!Newest(S, n)
<1>1. \A S : Pod!Cardinality(S) = Pod!Service!Cardinality(S)
  BY Zenon DEF Pod!Cardinality, Pod!Service!Cardinality
<1> QED  BY <1>1 DEF Pod!Newest, Pod!Service!Newest

LEMMA PodStepRefines ==
  ASSUME PodInv, Pod!Next PROVE Pod!Service!ANext \/ UNCHANGED Pod!Service!avars
<1> USE DEF PodInv
<1>1. CASE UNCHANGED <<Pod!tables, documents>>
  BY <1>1 DEF Pod!tables, Pod!Service!avars
<1>2. CASE Pod!Arrive
  BY <1>1, <1>2 DEF Pod!Arrive, Pod!Receive
<1>3. ASSUME NEW r \in requests, Pod!CreateFeed(r)
      PROVE  Pod!Service!ANext \/ UNCHANGED Pod!Service!avars
  <2>1. r \in Asked /\ r.slug \in Slugs
    BY <1>3 DEF Pod!TypeOK, Asked, FoundStays, Pod!CreateFeed, Pod!At
  <2>2. CASE Pod!Duplicate(r)
    BY <1>1, <1>3, <2>2 DEF Pod!CreateFeed, Pod!tables
  <2>3. CASE ~ Pod!Duplicate(r)
    <3>1. nextFeed \in 1..MaxFeeds /\ nextFeed \notin 1..(nextFeed - 1)
      BY <1>3 DEF Pod!CreateFeed, IdsDistinct
    <3>2. 1..(nextFeed' - 1) = 1..(nextFeed - 1) \union {nextFeed}
      BY <1>3, <2>3, <3>1 DEF Pod!CreateFeed
    <3>3. Pod!Service!Claim(r.user, r.slug)
      BY <1>3, <2>3, <3>1, <3>2 DEF Pod!CreateFeed, Pod!Duplicate, Pod!Service!Claim
    <3> QED  BY <2>1, <3>3 DEF Pod!Service!ANext, Asked
  <2> QED  BY <2>2, <2>3
<1>4. ASSUME NEW r \in requests, Pod!DeleteFeed(r)
      PROVE  Pod!Service!ANext \/ UNCHANGED Pod!Service!avars
  <2>1. CASE ~ Pod!Owns(r)
    BY <1>1, <1>4, <2>1 DEF Pod!DeleteFeed, Pod!tables
  <2>2. CASE Pod!Owns(r)
    <3>1. PICK x \in feeds : x.id = r.feed /\ x.user = r.user
      BY <2>2 DEF Pod!Owns
    <3>2. feeds' = feeds \ {x}
      BY <1>4, <2>2, <3>1 DEF Pod!DeleteFeed, IdsDistinct
    <3>3. Pod!Service!Retire(x)
      BY <1>4, <2>2, <3>1, <3>2
         DEF Pod!DeleteFeed, Pod!Rows, Pod!Service!Retire, Pod!Service!EpisodesOf
    <3> QED  BY <3>3 DEF Pod!Service!ANext
  <2> QED  BY <2>1, <2>2
<1>5. ASSUME NEW r \in requests, Pod!InsertEpisode(r)
      PROVE  Pod!Service!ANext \/ UNCHANGED Pod!Service!avars
  <2>1. CASE ~ Pod!IsFeed(r.feed)
    BY <1>1, <1>5, <2>1 DEF Pod!InsertEpisode, Pod!tables
  <2>2. CASE Pod!IsFeed(r.feed)
    <3>1. PICK x \in feeds : x.id = r.feed /\ x.user = r.user
      BY <1>5, <2>2 DEF Pod!IsFeed, FoundStays, Pod!InsertEpisode, Pod!At
    <3>2. nextEpisode \in 1..MaxEpisodes /\ nextEpisode \notin 1..(nextEpisode - 1)
      BY <1>5 DEF Pod!InsertEpisode, IdsDistinct
    <3>3. 1..(nextEpisode' - 1) = 1..(nextEpisode - 1) \union {nextEpisode}
      BY <1>5, <2>2, <3>2 DEF Pod!InsertEpisode
    <3>5. PICK t \in Seconds :
            episodes' = episodes \union
              {[id |-> nextEpisode, feed |-> x.id, by |-> x.user, second |-> t]}
      BY <1>5, <2>2, <3>1 DEF Pod!InsertEpisode
    <3>6. UNCHANGED <<feeds, nextFeed, documents>>
      BY <1>5 DEF Pod!InsertEpisode
    <3>4. Pod!Service!Post(x)
      BY <3>2, <3>3, <3>5, <3>6 DEF Pod!Service!Post
    <3> QED  BY <3>4 DEF Pod!Service!ANext
  <2> QED  BY <2>1, <2>2
<1>6. ASSUME NEW r \in requests, Pod!DeleteEpisode(r)
      PROVE  Pod!Service!ANext \/ UNCHANGED Pod!Service!avars
  <2>1. CASE episodes' = episodes
    BY <1>1, <1>6, <2>1 DEF Pod!DeleteEpisode, Pod!tables
  <2>2. CASE episodes' # episodes
    <3>1. PICK e \in episodes : e.id = r.ep /\ e.feed = r.feed /\ Pod!Owns(r)
      BY <1>6, <2>2 DEF Pod!DeleteEpisode
    <3>2. episodes' = episodes \ {e}
      BY <1>6, <3>1 DEF Pod!DeleteEpisode, IdsDistinct
    <3>3. Pod!Service!Remove(e)
      BY <1>6, <3>2 DEF Pod!DeleteEpisode, Pod!Service!Remove
    <3> QED  BY <3>3 DEF Pod!Service!ANext
  <2> QED  BY <2>1, <2>2
<1>7. ASSUME NEW r \in requests, Pod!SendDocument(r)
      PROVE  Pod!Service!ANext \/ UNCHANGED Pod!Service!avars
  <2>1. r.feed \in 1..MaxFeeds
    BY <1>7 DEF Pod!SendDocument, Pod!At, FoundStays, IdsDistinct
  <2>0. PICK listed \in Pod!RowsOfFeed(r) :
          documents' = documents \union
            {[user |-> r.user, slug |-> r.slug, feed |-> r.feed, episodes |-> listed]}
    BY <1>7 DEF Pod!SendDocument
  <2> DEFINE d == [user |-> r.user, slug |-> r.slug, feed |-> r.feed, episodes |-> listed]
  <2>2. /\ documents' = documents \union {d}
        /\ d.feed = r.feed /\ d.episodes = listed
    BY <2>0
  <2>5. listed \in Pod!Service!Newest(Pod!Service!EpisodesOf(r.feed), DocumentLimit)
    BY <2>0, SameNewest DEF Pod!RowsOfFeed, Pod!Rows, Pod!Service!EpisodesOf
  <2> HIDE DEF d
  <2>3. {[feed |-> x.feed, episodes |-> x.episodes] : x \in documents'}
          = {[feed |-> x.feed, episodes |-> x.episodes] : x \in documents}
            \union {[feed |-> r.feed, episodes |-> listed]}
    BY <2>2
  <2>4. Pod!Service!Publish(r.feed)
    BY <1>7, <2>3, <2>5 DEF Pod!SendDocument, Pod!tables, Pod!Service!Publish
  <2> QED  BY <2>1, <2>4 DEF Pod!Service!ANext
<1>8. ASSUME NEW r \in requests,
             Pod!CheckFeed(r) \/ Pod!ListEpisodes(r) \/ Pod!FindFeed(r) \/ Pod!Fail(r)
      PROVE  UNCHANGED Pod!Service!avars
  BY <1>1, <1>8
     DEF Pod!CheckFeed, Pod!ListEpisodes, Pod!FindFeed, Pod!Fail, Pod!Service!avars,
         Pod!tables
<1> QED  BY <1>2, <1>3, <1>4, <1>5, <1>6, <1>7, <1>8 DEF Pod!Next

-----------------------------------------------------------------------------
(* Migrate.                                                                   *)
USE ReleaseAssumption

(* What the place a script has come to says of the schema. *)
Sound(d) ==
  LET f == run[d].file IN
  /\ run[d].at \in {"check", "apply", "record"} => \A g \in 1..Files : g < f => Mig!Applied(g)
  /\ run[d].at = "apply" => run[d].stmt < Statements[f] /\ run[d].stmt <= done[f]
  /\ run[d].at = "record" => Mig!Applied(f)
  /\ run[d].at = "finish" => \A g \in 1..Files : Mig!Applied(g)

ScriptsSound == \A d \in Deploys : Sound(d)

MigInv == Mig!TypeOK /\ ScriptsSound /\ Mig!MigratedInOrder

(* A file that fails when it is repeated, partly applied, and no script is   *)
(* in the middle of it.                                                      *)
Torn(f) ==
  /\ f \in Once /\ 0 < done[f] /\ done[f] < Statements[f]
  /\ \A d \in Deploys : run[d].at = "apply" /\ run[d].file = f => run[d].stmt = 0

TornStaysTorn == [][\A f \in 1..Files : Torn(f) => Torn(f)']_(Mig!vars)

-----------------------------------------------------------------------------
(* Steps that leave the schema, the history and the release alone.           *)

Places == [at : {"idle", "check", "apply", "record", "finish", "skip"}, file : 1..Files, stmt : Nat]

LEMMA GotoPlace ==
  ASSUME Mig!TypeOK, NEW d \in Deploys, NEW at, NEW f, NEW i, Mig!Goto(d, at, f, i)
  PROVE  /\ run'[d] = [at |-> at, file |-> f, stmt |-> i]
         /\ \A e \in Deploys : e # d => run'[e] = run[e]
         /\ [at |-> at, file |-> f, stmt |-> i] \in Places => run' \in [Deploys -> Places]
  BY DEF Mig!Goto, Mig!TypeOK, Places

(* What is applied stays applied, and so every other script stays sound.     *)
LEMMA ScriptsStay ==
  ASSUME MigInv, NEW d \in Deploys, Sound(d)',
         Mig!TypeOK',
         \A f \in 1..Files : done[f] <= done'[f],
         \A e \in Deploys : e # d => run'[e] = run[e]
  PROVE  ScriptsSound' /\ \A f \in 1..Files : Mig!Applied(f) => Mig!Applied(f)'
<1>1. \A f \in 1..Files : Mig!Applied(f) => Mig!Applied(f)'
  BY DEF MigInv, Mig!TypeOK, Mig!Applied, Mig!Parameters
<1>2. ASSUME NEW e \in Deploys, e # d PROVE Sound(e)'
  <2>1. run'[e] = run[e] /\ run[e].file \in 1..Files /\ run[e].stmt \in Nat /\ Sound(e)
    BY <1>2 DEF MigInv, Mig!TypeOK, ScriptsSound
  <2>2. done[run[e].file] \in Nat /\ done'[run[e].file] \in Nat
    BY <2>1 DEF MigInv, Mig!TypeOK
  <2> QED  BY <1>1, <2>1, <2>2 DEF Sound
<1> QED  BY <1>1, <1>2 DEF ScriptsSound

(* A step of one script that changes no table.                               *)
LEMMA QuietInv ==
  ASSUME MigInv, NEW d \in Deploys, Sound(d)',
         UNCHANGED <<done, history>>, runs' \in Nat,
         run' \in [Deploys -> Places],
         \A e \in Deploys : e # d => run'[e] = run[e],
         published' \subseteq {"migrated", "skipped"},
         "migrated" \in published' =>
           "migrated" \in published \/ \A f \in 1..Files : Mig!Applied(f)
  PROVE  MigInv'
<1>1. Mig!TypeOK'
  BY DEF MigInv, Mig!TypeOK, Places
<1>2. ScriptsSound'
  <2>1. done \in [1..Files -> Nat] /\ done' = done
    BY DEF MigInv, Mig!TypeOK
  <2>2. \A f \in 1..Files : done[f] <= done'[f]
    BY <2>1
  <2> QED  BY <1>1, <2>2, ScriptsStay
<1>3. Mig!MigratedInOrder'
  BY DEF MigInv, Mig!MigratedInOrder, Mig!Applied
<1> QED  BY <1>1, <1>2, <1>3 DEF MigInv

LEMMA MigInitInv == Mig!Init => MigInv
<1> SUFFICES ASSUME Mig!Init PROVE MigInv
  OBVIOUS
<1> USE DEF Mig!Init, Mig!Parameters, Mig!Idle
<1>1. Mig!TypeOK
  <2>1. done \in [1..Files -> Nat] /\ \A f \in 1..Files : done[f] <= Statements[f]
    OBVIOUS
  <2>2. run \in [Deploys -> Places]
    BY DEF Places
  <2> QED  BY <2>1, <2>2 DEF Mig!TypeOK, Places
<1>2. ScriptsSound
  BY DEF ScriptsSound, Sound
<1>3. Mig!MigratedInOrder
  BY DEF Mig!MigratedInOrder
<1> QED  BY <1>1, <1>2, <1>3 DEF MigInv

LEMMA StartInv == ASSUME MigInv, NEW d \in Deploys, Mig!Start(d) PROVE MigInv'
<1>1. PICK at \in {"check", "skip"} :
        Mig!Goto(d, at, 1, 0) /\ UNCHANGED <<done, history, published>> /\ runs' \in Nat
  BY DEF Mig!Start, MigInv, Mig!TypeOK
<1>2. /\ run'[d] = [at |-> at, file |-> 1, stmt |-> 0]
      /\ \A e \in Deploys : e # d => run'[e] = run[e]
      /\ run' \in [Deploys -> Places]
  BY <1>1, GotoPlace DEF MigInv, Places, Mig!Parameters
<1>3. Sound(d)'
  BY <1>2 DEF Sound
<1> QED  BY <1>1, <1>2, <1>3, QuietInv DEF MigInv, Mig!TypeOK

(* The end of a run, wherever it comes. *)
LEMMA StopInv ==
  ASSUME MigInv, NEW d \in Deploys, NEW f, Mig!Stop(d, f),
         UNCHANGED <<done, history, runs, published>>
  PROVE  MigInv'
<1>1. /\ run'[d] = [at |-> "idle", file |-> 1, stmt |-> 0]
      /\ \A e \in Deploys : e # d => run'[e] = run[e]
      /\ run' \in [Deploys -> Places]
  BY GotoPlace DEF MigInv, Places, Mig!Parameters, Mig!Stop
<1>2. Sound(d)'
  BY <1>1 DEF Sound
<1> QED  BY <1>1, <1>2, QuietInv DEF MigInv, Mig!TypeOK

(* Where the script goes after a file that is there whole.                   *)
LEMMA NextFile ==
  ASSUME Mig!TypeOK, NEW d \in Deploys, Mig!Next1(d, run[d].file), done' = done,
         \A g \in 1..Files : g <= run[d].file => Mig!Applied(g)
  PROVE  /\ Sound(d)'
         /\ run' \in [Deploys -> Places]
         /\ \A e \in Deploys : e # d => run'[e] = run[e]
<1> DEFINE f == run[d].file
<1>1. f \in 1..Files /\ Files \in Nat
  BY DEF Mig!TypeOK, Mig!Parameters
<1>2. \A g : Mig!Applied(g)' <=> Mig!Applied(g)
  BY DEF Mig!Applied
<1> HIDE DEF f
<1>3. CASE f = Files
  <2>1. Mig!Goto(d, "finish", f, 0)
    BY <1>3 DEF Mig!Next1, f
  <2>2. run'[d] = [at |-> "finish", file |-> f, stmt |-> 0]
    BY <2>1, GotoPlace
  <2>3. Sound(d)'
    BY <1>1, <1>2, <1>3, <2>2 DEF Sound, f
  <2> QED  BY <1>1, <2>1, <2>3, GotoPlace DEF Places
<1>4. CASE f # Files
  <2>1. Mig!Goto(d, "check", f + 1, 0) /\ f + 1 \in 1..Files
    BY <1>1, <1>4 DEF Mig!Next1, f
  <2>2. run'[d] = [at |-> "check", file |-> f + 1, stmt |-> 0]
    BY <2>1, GotoPlace
  <2>3. Sound(d)'
    BY <1>1, <1>2, <2>2 DEF Sound, f
  <2> QED  BY <2>1, <2>3, GotoPlace DEF Places
<1> QED  BY <1>3, <1>4

LEMMA CheckInv == ASSUME MigInv, NEW d \in Deploys, Mig!Check(d) PROVE MigInv'
<1> DEFINE f == run[d].file
<1>1. /\ f \in 1..Files /\ run[d].at = "check"
      /\ \A g \in 1..Files : g < f => Mig!Applied(g)
  BY DEF Mig!Check, MigInv, Mig!TypeOK, ScriptsSound, Sound
<1>2. CASE f \in history /\ Mig!Next1(d, f)
  <2>1. \A g \in 1..Files : g <= f => Mig!Applied(g)
    BY <1>1, <1>2 DEF MigInv, Mig!MigratedInOrder
  <2> QED  BY <1>2, <2>1, NextFile, QuietInv DEF Mig!Check, MigInv, Mig!TypeOK
<1>3. CASE Mig!Goto(d, "apply", f, 0)
  <2>1. /\ run'[d] = [at |-> "apply", file |-> f, stmt |-> 0]
        /\ \A e \in Deploys : e # d => run'[e] = run[e]
        /\ run' \in [Deploys -> Places]
    BY <1>1, <1>3, GotoPlace DEF MigInv, Places
  <2>2. Sound(d)'
    BY <1>1, <2>1 DEF Sound, Mig!Applied, Mig!Check, MigInv, Mig!TypeOK, Mig!Parameters
  <2> QED  BY <2>1, <2>2, QuietInv DEF Mig!Check, MigInv, Mig!TypeOK
<1> QED  BY <1>2, <1>3 DEF Mig!Check

LEMMA ApplyInv == ASSUME MigInv, NEW d \in Deploys, Mig!Apply(d) PROVE MigInv'
<1>0. run[d].file \in 1..Files /\ run[d].stmt \in Nat
  BY DEF MigInv, Mig!TypeOK
<1>4. PICK f \in 1..Files, i \in Nat : f = run[d].file /\ i = run[d].stmt + 1
  BY <1>0
<1>1. /\ i \in Nat \ {0} /\ i <= Statements[f] /\ i <= done[f] + 1
      /\ \A g \in 1..Files : g < f => Mig!Applied(g)
      /\ done \in [1..Files -> Nat] /\ Statements[f] \in Nat /\ done[f] <= Statements[f]
  <2>1. done \in [1..Files -> Nat] /\ done[f] <= Statements[f] /\ run[d].stmt \in Nat
    BY <1>0 DEF MigInv, Mig!TypeOK
  <2>2. Statements[f] \in Nat
    BY DEF Mig!Parameters
  <2>3. Sound(d) /\ run[d].at = "apply"
    BY DEF Mig!Apply, MigInv, ScriptsSound
  <2>4. /\ run[d].stmt < Statements[f] /\ run[d].stmt <= done[f]
        /\ \A g \in 1..Files : g < f => Mig!Applied(g)
    BY <1>4, <2>3 DEF Sound
  <2>5. done[f] \in Nat
    BY <2>1
  <2> QED  BY <1>4, <2>1, <2>2, <2>4, <2>5
<1>2. CASE f \in Once /\ i <= done[f]
  BY <1>2, <1>4, StopInv DEF Mig!Apply
<1>3. CASE ~ (f \in Once /\ i <= done[f])
  <2>1. /\ done' = [done EXCEPT ![f] = IF i > done[f] THEN i ELSE done[f]]
        /\ Mig!Goto(d, IF i = Statements[f] THEN "record" ELSE "apply", f, i)
        /\ UNCHANGED <<history, runs, published>>
    BY <1>3, <1>4 DEF Mig!Apply
  <2>2. /\ run'[d] = [at |-> IF i = Statements[f] THEN "record" ELSE "apply", file |-> f,
                      stmt |-> i]
        /\ \A e \in Deploys : e # d => run'[e] = run[e]
        /\ run' \in [Deploys -> Places]
    BY <1>1, <1>4, <2>1, GotoPlace DEF MigInv, Places
  <2>3. /\ done' \in [1..Files -> Nat]
        /\ done'[f] = IF i > done[f] THEN i ELSE done[f]
        /\ \A g \in 1..Files : g # f => done'[g] = done[g]
    BY <1>1, <2>1
  <2>4. /\ \A g \in 1..Files : done[g] <= done'[g]
        /\ \A g \in 1..Files : done'[g] <= Statements[g]
    <3>1. \A g \in 1..Files : done[g] \in Nat /\ done[g] <= Statements[g]
      BY <1>1 DEF MigInv, Mig!TypeOK
    <3>2. \A g \in 1..Files : Statements[g] \in Nat
      BY DEF Mig!Parameters
    <3> QED  BY <1>1, <2>3, <3>1, <3>2
  <2>5. Mig!TypeOK'
    BY <2>1, <2>2, <2>3, <2>4 DEF MigInv, Mig!TypeOK, Places
  <2>6. \A g \in 1..Files : Mig!Applied(g) => Mig!Applied(g)'
    BY <2>3, <2>4 DEF Mig!Applied, MigInv, Mig!TypeOK, Mig!Parameters
  <2>7. Sound(d)'
    <3>1. \A g \in 1..Files : g < f => Mig!Applied(g)'
      BY <1>1, <2>6
    <3>2. i = Statements[f] => Mig!Applied(f)'
      BY <1>1, <2>3, <2>4 DEF Mig!Applied
    <3>3. i # Statements[f] => i < Statements[f] /\ i <= done'[f]
      BY <1>1, <2>3
    <3> QED  BY <2>2, <3>1, <3>2, <3>3 DEF Sound
  <2>8. ScriptsSound'
    BY <2>2, <2>4, <2>5, <2>7, ScriptsStay
  <2>9. Mig!MigratedInOrder'
    <3>1. \A h, g \in 1..Files : done'[h] > 0 /\ g < h => Mig!Applied(g)'
      <4> SUFFICES ASSUME NEW h \in 1..Files, NEW g \in 1..Files, done'[h] > 0, g < h
                   PROVE  Mig!Applied(g)'
        OBVIOUS
      <4>1. CASE h = f
        BY <1>1, <2>6, <4>1
      <4>2. CASE h # f
        BY <2>3, <2>6, <4>2 DEF MigInv, Mig!MigratedInOrder
      <4> QED  BY <4>1, <4>2
    <3>2. \A h \in history' : Mig!Applied(h)'
      BY <2>1, <2>6 DEF MigInv, Mig!TypeOK, Mig!MigratedInOrder
    <3>3. "migrated" \in published' => \A h \in 1..Files : Mig!Applied(h)'
      BY <2>1, <2>6 DEF MigInv, Mig!MigratedInOrder
    <3> QED  BY <3>1, <3>2, <3>3 DEF Mig!MigratedInOrder
  <2> QED  BY <2>5, <2>8, <2>9 DEF MigInv
<1> QED  BY <1>2, <1>3

LEMMA RecordInv == ASSUME MigInv, NEW d \in Deploys, Mig!Record(d) PROVE MigInv'
<1> DEFINE f == run[d].file
<1>1. f \in 1..Files /\ \A g \in 1..Files : g <= f => Mig!Applied(g)
  BY DEF Mig!Record, MigInv, Mig!TypeOK, ScriptsSound, Sound
<1>2. CASE f \in history
  BY <1>2, StopInv DEF Mig!Record
<1>3. CASE f \notin history
  <2>1. /\ Mig!Next1(d, f) /\ history' = history \union {f}
        /\ UNCHANGED <<done, runs, published>>
    BY <1>3 DEF Mig!Record
  <2>2. /\ Sound(d)' /\ run' \in [Deploys -> Places]
        /\ \A e \in Deploys : e # d => run'[e] = run[e]
    BY <1>1, <2>1, NextFile DEF MigInv
  <2>3. Mig!TypeOK'
    BY <1>1, <2>1, <2>2 DEF MigInv, Mig!TypeOK, Places
  <2>4. ScriptsSound'
    <3>0. done \in [1..Files -> Nat] /\ done' = done
      BY <2>1 DEF MigInv, Mig!TypeOK
    <3>1. \A g \in 1..Files : done[g] <= done'[g]
      BY <3>0
    <3> QED  BY <2>2, <2>3, <3>1, ScriptsStay
  <2>5. Mig!MigratedInOrder'
    BY <1>1, <2>1 DEF MigInv, Mig!MigratedInOrder, Mig!Applied
  <2> QED  BY <2>3, <2>4, <2>5 DEF MigInv
<1> QED  BY <1>2, <1>3

LEMMA FinishInv == ASSUME MigInv, NEW d \in Deploys, Mig!Finish(d) PROVE MigInv'
<1>1. run[d].at = "finish" => \A g \in 1..Files : Mig!Applied(g)
  BY DEF Mig!Finish, MigInv, ScriptsSound, Sound
<1>2. /\ Mig!Goto(d, "idle", 1, 0) /\ UNCHANGED <<done, history, runs>>
      /\ published' \subseteq published \union {"migrated", "skipped"}
      /\ "migrated" \in published' => "migrated" \in published \/ run[d].at = "finish"
  BY DEF Mig!Finish
<1>3. /\ run'[d] = [at |-> "idle", file |-> 1, stmt |-> 0]
      /\ \A e \in Deploys : e # d => run'[e] = run[e]
      /\ run' \in [Deploys -> Places]
  BY <1>2, GotoPlace DEF MigInv, Places, Mig!Parameters
<1>4. Sound(d)'
  BY <1>3 DEF Sound
<1> QED  BY <1>1, <1>2, <1>3, <1>4, QuietInv DEF MigInv, Mig!TypeOK

LEMMA MigNextInv == ASSUME MigInv, [Mig!Next]_(Mig!vars) PROVE MigInv'
<1>1. ASSUME NEW d \in Deploys, Mig!Break(d) PROVE MigInv'
  BY <1>1, StopInv DEF Mig!Break
<1>2. CASE UNCHANGED Mig!vars
  BY <1>2 DEF Mig!vars, MigInv, Mig!TypeOK, ScriptsSound, Sound, Mig!MigratedInOrder, Mig!Applied
<1> QED  BY <1>1, <1>2, StartInv, CheckInv, ApplyInv, RecordInv, FinishInv DEF Mig!Next

LEMMA MigInvariant == Mig!Spec => []MigInv
<1>1. Mig!Init => MigInv
  BY MigInitInv
<1>2. MigInv /\ [Mig!Next]_(Mig!vars) => MigInv'
  BY MigNextInv
<1> QED  BY <1>1, <1>2, PTL DEF Mig!Spec

(* A statement of a file that is torn fails, and its script stops: no run    *)
(* completes the file, whatever else the deploys do (migrate.sh:62, sql/006  *)
(* and sql/009).                                                             *)
THEOREM NeverRepaired == Mig!Spec => TornStaysTorn
<1>1. ASSUME MigInv, [Mig!Next]_(Mig!vars), NEW f \in 1..Files, Torn(f) PROVE Torn(f)'
  <2>1. Mig!TypeOK /\ \A d \in Deploys : run[d] \in Places
    BY <1>1 DEF MigInv, Mig!TypeOK, Places
  <2>2. ASSUME NEW d \in Deploys, done' = done,
               \A e \in Deploys : e # d => run'[e] = run[e],
               run'[d].stmt = 0
        PROVE  Torn(f)'
    BY <1>1, <2>2 DEF Torn
  <2>3. ASSUME NEW d \in Deploys, NEW at, NEW g, Mig!Goto(d, at, g, 0), done' = done
        PROVE  Torn(f)'
    <3>1. /\ run'[d] = [at |-> at, file |-> g, stmt |-> 0]
          /\ \A e \in Deploys : e # d => run'[e] = run[e]
      BY <2>1, <2>3, GotoPlace
    <3> QED  BY <2>2, <2>3, <3>1
  <2>4. ASSUME NEW d \in Deploys, Mig!Apply(d) PROVE Torn(f)'
    <3>1. PICK g \in 1..Files, i \in Nat : g = run[d].file /\ i = run[d].stmt + 1
      BY <2>1 DEF Places
    <3>2. CASE g \in Once /\ i <= done[g]
      BY <2>3, <2>4, <3>1, <3>2 DEF Mig!Apply, Mig!Stop
    <3>3. CASE ~ (g \in Once /\ i <= done[g])
      <4>1. /\ done' = [done EXCEPT ![g] = IF i > done[g] THEN i ELSE done[g]]
            /\ Mig!Goto(d, IF i = Statements[g] THEN "record" ELSE "apply", g, i)
        BY <2>4, <3>1, <3>3 DEF Mig!Apply
      <4>2. g # f
        <5>1. CASE g = f
          <6>1. run[d].stmt = 0 /\ f \in Once /\ 0 < done[f]
            BY <1>1, <2>4, <3>1, <5>1 DEF Torn, Mig!Apply
          <6>2. done[f] \in Nat
            BY <2>1 DEF Mig!TypeOK
          <6> QED  BY <3>1, <3>3, <5>1, <6>1, <6>2
        <5> QED  BY <5>1
      <4>3. done'[f] = done[f]
        BY <2>1, <4>1, <4>2 DEF Mig!TypeOK
      <4>4. run'[d].file = g /\ \A e \in Deploys : e # d => run'[e] = run[e]
        BY <2>1, <4>1 DEF Mig!Goto, Mig!TypeOK
      <4> QED  BY <1>1, <4>2, <4>3, <4>4 DEF Torn
    <3> QED  BY <3>2, <3>3
  <2>5. ASSUME NEW d \in Deploys, Mig!Start(d) \/ Mig!Finish(d) \/ Mig!Break(d) PROVE Torn(f)'
    BY <2>3, <2>5 DEF Mig!Start, Mig!Finish, Mig!Break, Mig!Stop
  <2>6. ASSUME NEW d \in Deploys, Mig!Check(d) \/ Mig!Record(d) PROVE Torn(f)'
    BY <2>3, <2>6 DEF Mig!Check, Mig!Record, Mig!Next1, Mig!Stop
  <2>7. CASE UNCHANGED Mig!vars
    BY <1>1, <2>7 DEF Mig!vars, Torn
  <2> QED  BY <1>1, <2>4, <2>5, <2>6, <2>7 DEF Mig!Next
<1>2. MigInv /\ [Mig!Next]_(Mig!vars) => [\A f \in 1..Files : Torn(f) => Torn(f)']_(Mig!vars)
  BY <1>1
<1> QED  BY <1>2, MigInvariant, PTL DEF Mig!Spec, TornStaysTorn

-----------------------------------------------------------------------------
(* The parts together.                                                       *)

TablesInv ==
  /\ part = "social" => SocialInv
  /\ part = "podcasts" => PodInv
  /\ part = "migrate" => MigInv

LEMMA TablesInitInv == TablesInit => TablesInv
  BY SocialInitInv, PodInitInv, MigInitInv DEF TablesInit, TablesInv

LEMMA TablesNextInv == TablesInv /\ [TablesNext]_allVars => TablesInv'
<1> SUFFICES ASSUME TablesInv, [TablesNext]_allVars PROVE TablesInv'
  OBVIOUS
<1>1. part' = part
  BY DEF TablesNext, allVars
<1>2. CASE part = "social"
  <2>1. [Next]_vars
    BY <1>2 DEF TablesNext, allVars
  <2> QED  BY <1>1, <1>2, <2>1, SocialNextInv DEF TablesInv
<1>3. CASE part = "podcasts"
  <2>1. [Pod!Next]_(Pod!vars)
    BY <1>3 DEF TablesNext, allVars, podcastsVars, vars, Pod!vars, Pod!tables
  <2> QED  BY <1>1, <1>3, <2>1, PodNextInv DEF TablesInv
<1>4. CASE part = "migrate"
  <2>1. [Mig!Next]_(Mig!vars)
    BY <1>4 DEF TablesNext, allVars, migrateVars, Mig!vars
  <2> QED  BY <1>1, <1>4, <2>1, MigNextInv DEF TablesInv
<1> QED  BY <1>1, <1>2, <1>3, <1>4 DEF TablesInv

LEMMA TablesInvariant == TablesSpec => []TablesInv
  BY TablesInitInv, TablesNextInv, PTL DEF TablesSpec

(* The tables, the requests, the answers, the documents and the scripts keep *)
(* their types (main.cpp:1200-1420, 2380-2615, migrate.sh).                  *)
THEOREM TablesTypes == TablesSpec => []TypesOK
<1>1. TablesInv => TypesOK
  BY DEF TablesInv, TypesOK, SocialInv, PodInv, MigInv
<1> QED  BY <1>1, TablesInvariant, PTL

(* The feed of every episode is there and belongs to the user who posted it, *)
(* though the handler looked it up in another statement                      *)
(* (main.cpp:2453-2485).                                                     *)
THEOREM EpisodesOwned == TablesSpec => []EpisodesByOwner
<1>1. TablesInv => EpisodesByOwner
  BY DEF TablesInv, EpisodesByOwner, PodInv
<1> QED  BY <1>1, TablesInvariant, PTL

(* Every statement of the podcast handlers is one step of PodcastService or  *)
(* changes nothing it knows of (main.cpp:2380-2615).                         *)
THEOREM PodcastRefinement == TablesSpec => ImplementsPodcastService
<1>1. TablesInit => Pod!Service!AInit
  <2>1. NoPodcasts => Pod!Service!AInit
    BY DEF NoPodcasts, Pod!Service!AInit
  <2> QED  BY <2>1, PodInitRefines DEF TablesInit
<1>2. TablesInv /\ [TablesNext]_allVars => [Pod!Service!ANext]_(Pod!Service!avars)
  <2>1. CASE UNCHANGED podcastsVars
    BY <2>1 DEF podcastsVars, Pod!Service!avars
  <2>2. ASSUME TablesInv, TablesNext, part = "podcasts"
        PROVE  [Pod!Service!ANext]_(Pod!Service!avars)
    BY <2>2, PodStepRefines DEF TablesNext, TablesInv
  <2>3. TablesNext /\ part # "podcasts" => UNCHANGED podcastsVars
    BY DEF TablesNext
  <2>4. UNCHANGED allVars => UNCHANGED podcastsVars
    BY DEF allVars
  <2> QED  BY <2>1, <2>2, <2>3, <2>4
<1>3. TablesSpec => Pod!Service!ASpec
  BY <1>1, <1>2, TablesInvariant, PTL DEF TablesSpec, Pod!Service!ASpec
<1> QED  BY <1>3 DEF ImplementsPodcastService

(* A file touches the schema only when every earlier one is there whole, and *)
(* what is recorded, or published by a run that did not skip its files, is   *)
(* there whole (migrate.sh:53-67).                                           *)
THEOREM InOrder == TablesSpec => []MigratedInOrder
<1>1. TablesInv => MigratedInOrder
  BY DEF TablesInv, MigratedInOrder, MigInv
<1> QED  BY <1>1, TablesInvariant, PTL

=============================================================================
