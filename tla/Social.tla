------------------------------- MODULE Social -------------------------------
(***************************************************************************)
(* The social endpoints of tagstackd (daemon/src/main.cpp) over the tables *)
(* social_accounts and social_post_queue (sql/019).                        *)
(*                                                                         *)
(* A push resolves the caller's accounts in one statement and then queues  *)
(* one post for each in a statement of its own; every statement commits by *)
(* itself. Accounts are connected by nothing in this code base, and        *)
(* nothing drains the queue: both are external.                            *)
(***************************************************************************)
EXTENDS Naturals, FiniteSets

CONSTANTS
  Users,       \* cc_user_link.user_id of the callers
  Platforms,
  MaxAccounts, \* bound: accounts ever connected
  MaxRequests  \* bound: requests that arrive

ASSUME SocialAssumption == MaxAccounts \in Nat /\ MaxRequests \in Nat

VARIABLES
  accounts,    \* rows of social_accounts: [id, user, platform, push]
  nextAccount, \* its AUTO_INCREMENT
  queue,       \* rows of social_post_queue: [id, user, account, of]
  nextJob,     \* its AUTO_INCREMENT
  pushes,      \* the pushes in their handlers
  arrived,     \* counts the requests
  answers      \* history: the answers of the pushes: [n, user, status, accounts]

tables == <<accounts, nextAccount, queue, nextJob>>
vars == <<tables, pushes, arrived, answers>>

Init ==
  /\ accounts = {} /\ nextAccount = 1
  /\ queue = {} /\ nextJob = 1
  /\ pushes = {} /\ arrived = 0
  /\ answers = {}

-----------------------------------------------------------------------------
(* The accounts.                                                             *)

(* External: uk_user_platform keeps one account per user and platform.       *)
Connect(u, p) ==
  /\ nextAccount <= MaxAccounts
  /\ ~ \E a \in accounts : a.user = u /\ a.platform = p
  /\ \E push \in BOOLEAN :
       accounts' = accounts \union {[id |-> nextAccount, user |-> u, platform |-> p, push |-> push]}
  /\ nextAccount' = nextAccount + 1
  /\ UNCHANGED <<queue, nextJob, pushes, arrived, answers>>

(* DELETE /me/social/:platform; fk_spq_account cascades to the queue.        *)
Disconnect(u, p) ==
  /\ arrived < MaxRequests
  /\ arrived' = arrived + 1
  /\ \E a \in accounts :
       /\ a.user = u /\ a.platform = p
       /\ accounts' = accounts \ {a}
       /\ queue' = {j \in queue : j.account # a.id}
  /\ UNCHANGED <<nextAccount, nextJob, pushes, answers>>

-----------------------------------------------------------------------------
(* POST /me/social/push                                                      *)

Push(u, platforms) ==
  /\ arrived < MaxRequests
  /\ arrived' = arrived + 1
  /\ pushes' = pushes \union
       {[n |-> arrived', user |-> u, platforms |-> platforms, at |-> "start",
         accounts |-> {}, left |-> {}]}
  /\ UNCHANGED <<tables, answers>>

Answer(r, status) ==
  /\ pushes' = pushes \ {r}
  /\ answers' = answers \union
       {[n |-> r.n, user |-> r.user, status |-> status, accounts |-> r.accounts]}

(* r goes on with the inserts of left, of the accounts it resolved.          *)
Insert(r, ids, left) ==
  /\ pushes' = (pushes \ {r}) \union
       {[n |-> r.n, user |-> r.user, platforms |-> r.platforms, at |-> "insert",
         accounts |-> ids, left |-> left]}
  /\ UNCHANGED answers

(* The accounts a push may use, and a mutant that forgets whose they are.    *)
OfAnyone(r) == {a \in accounts : a.platform \in r.platforms /\ a.push}
OfCaller(r) == {a \in accounts : a.user = r.user /\ a.platform \in r.platforms /\ a.push}

(* SELECT id, platform FROM social_accounts: 409, or on to the inserts.      *)
Resolve(r) ==
  /\ r.at = "start"
  /\ LET ids == {a.id : a \in OfCaller(r)} IN
     IF ids = {} THEN Answer(r, 409)
     ELSE Insert(r, ids, ids)
  /\ UNCHANGED <<tables, arrived>>

Connected(id) == \E a \in accounts : a.id = id

(* What follows an insert: the next account, or 200.                         *)
Proceed(r, id) ==
  IF r.left = {id} THEN Answer(r, 200)
  ELSE Insert(r, r.accounts, r.left \ {id})

(* Mutant of Enqueue: an account whose insert fails is passed over.          *)
EnqueueOrSkip(r) ==
  /\ r.at = "insert"
  /\ \E id \in r.left :
       /\ Proceed(r, id)
       /\ \/ Connected(id)
             /\ queue' = queue \union {[id |-> nextJob, user |-> r.user, account |-> id, of |-> r.n]}
          \/ queue' = queue
  /\ nextJob' = nextJob + 1
  /\ UNCHANGED <<accounts, nextAccount, arrived>>

(* INSERT INTO social_post_queue, one account after the other: the foreign   *)
(* key refuses an account that was disconnected since (503).                 *)
Enqueue(r) ==
  /\ r.at = "insert"
  /\ \E id \in r.left :
       IF Connected(id)
       THEN /\ queue' = queue \union {[id |-> nextJob, user |-> r.user, account |-> id, of |-> r.n]}
            /\ nextJob' = nextJob + 1
            /\ Proceed(r, id)
       ELSE Answer(r, 503) /\ UNCHANGED <<queue, nextJob>>
  /\ UNCHANGED <<accounts, nextAccount, arrived>>

(* A statement throws, before or after it committed: 503.                    *)
Throw(r) == Answer(r, 503) /\ UNCHANGED <<tables, arrived>>

(* The daemon dies: no answer.                                               *)
Crash ==
  /\ pushes # {}
  /\ pushes' = {}
  /\ UNCHANGED <<tables, arrived, answers>>

Next ==
  \/ \E u \in Users, p \in Platforms : Connect(u, p) \/ Disconnect(u, p)
  \/ \E u \in Users, ps \in SUBSET Platforms \ {{}} : Push(u, ps)
  \/ \E r \in pushes : Resolve(r) \/ Enqueue(r) \/ Throw(r)
  \/ Crash

Spec == Init /\ [][Next]_vars

-----------------------------------------------------------------------------
(* Properties.                                                               *)

Account == [id : Nat, user : Users, platform : Platforms, push : BOOLEAN]
Job == [id : Nat, user : Users, account : Nat, of : Nat]
Pending == [n : Nat, user : Users, platforms : SUBSET Platforms,
            at : {"start", "insert"}, accounts : SUBSET Nat, left : SUBSET Nat]
Told == [n : Nat, user : Users, status : {200, 409, 503}, accounts : SUBSET Nat]

(* Types of the tables, the pushes and the answers.                          *)
TypeOK ==
  /\ accounts \subseteq Account /\ nextAccount \in Nat
  /\ queue \subseteq Job /\ nextJob \in Nat
  /\ pushes \subseteq Pending /\ arrived \in Nat
  /\ answers \subseteq Told

JobsOf(n, id) == {j \in queue : j.of = n /\ j.account = id}

(* A push answered 200 has queued one post for every account it resolved     *)
(* that is still connected, one answered 409 has queued none, and no push,   *)
(* answered or not, queues two for an account (main.cpp:1262-1306). Between  *)
(* them lies the half-done push, which only a 503 or a crash may leave.      *)
PushAllOrTold ==
  /\ \A d \in answers :
       /\ d.status = 200 => \A id \in d.accounts : Connected(id) => JobsOf(d.n, id) # {}
       /\ d.status = 409 => ~ \E j \in queue : j.of = d.n
  /\ \A j, k \in queue : j.of = k.of /\ j.account = k.account => j = k

(* Every queued post goes out through an account of the user who pushed it,  *)
(* though accounts come and go between the look-up and the inserts           *)
(* (main.cpp:1243-1295).                                                     *)
PostsThroughOwnAccount ==
  \A j \in queue : \E a \in accounts : a.id = j.account /\ a.user = j.user

=============================================================================
