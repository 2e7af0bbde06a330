--------------------------- MODULE Identity_proofs ---------------------------
(***************************************************************************)
(* Proofs about Identity, for any accounts, names and workers and any       *)
(* number of renames and logins. A token keeps its account because a row    *)
(* keeps its account (Updated) and the user_id that is minted for was read  *)
(* from the account's row (ReadBackOwn); a login is refused for a reused    *)
(* name only because a row that is hit by name has had that name's account  *)
(* (RowsExplained) and the snapshot's account has had it too                *)
(* (SnapshotsBorne).                                                        *)
(***************************************************************************)
EXTENDS Identity, TLAPS

USE IdentityAssumption

IInv ==
  /\ TypeOK
  /\ OneRowEach
  /\ RowsExplained
  /\ TokensKeepAccount
  /\ NamesBorne
  /\ SnapshotsBorne
  /\ UpsertedOrReused
  /\ ReadBackOwn
  /\ RefusedOnlyForReuse

(* A name that two accounts have had stays such a name. *)
LEMMA ReusedStays ==
  borne \subseteq borne' => \A n \in Names : Reused(n) => Reused(n)'
  BY DEF Reused

(* A worker that was not waiting for its row before the step has one now, and *)
(* no account loses its row.                                                 *)
LEMMA UpsertedStays ==
  ASSUME UpsertedOrReused, borne \subseteq borne',
         \A r \in link : \E s \in link' : s.account = r.account,
         \A v \in Workers : pc'[v] = "select" =>
           \/ pc[v] = "select" /\ cc'[v] = cc[v]
           \/ \E s \in link' : s.account = cc'[v].account
           \/ \E n \in Names : Reused(n)
  PROVE  UpsertedOrReused'
<1> SUFFICES ASSUME NEW v \in Workers, pc'[v] = "select",
                    ~ \E n \in Names : Reused(n)'
             PROVE  \E s \in link' : s.account = cc'[v].account
  BY DEF UpsertedOrReused, SameAccount
<1>1. ~ \E n \in Names : Reused(n)
  BY ReusedStays
<1>2. CASE pc[v] = "select" /\ cc'[v] = cc[v]
  <2>1. PICK r \in link : r.account = cc[v].account
    BY <1>1, <1>2 DEF UpsertedOrReused, SameAccount
  <2> QED  BY <1>2, <2>1
<1> QED  BY <1>1, <1>2

(* A worker that has just read a user_id read it from its account's row.      *)
LEMMA ReadBackStays ==
  ASSUME ReadBackOwn,
         \A r \in link : \E s \in link' : s.account = r.account /\ s.user = r.user,
         \A v \in Workers : pc'[v] = "mint" =>
           \/ pc[v] = "mint" /\ cc'[v] = cc[v] /\ uid'[v] = uid[v]
           \/ \E s \in link' : s.account = cc'[v].account /\ s.user = uid'[v]
  PROVE  ReadBackOwn'
<1> SUFFICES ASSUME NEW v \in Workers, pc'[v] = "mint"
             PROVE  \E s \in link' : s.account = cc'[v].account /\ s.user = uid'[v]
  BY DEF ReadBackOwn, SameAccount
<1>1. CASE pc[v] = "mint" /\ cc'[v] = cc[v] /\ uid'[v] = uid[v]
  <2>1. PICK r \in link : r.account = cc[v].account /\ r.user = uid[v]
    BY <1>1 DEF ReadBackOwn, SameAccount
  <2> QED  BY <1>1, <2>1
<1> QED  BY <1>1

LEMMA InitInv == Init => IInv
<1> SUFFICES ASSUME Init PROVE IInv
  OBVIOUS
<1> USE DEF Init
<1>1. TypeOK
  <2>1. borne \subseteq Accounts \X Names
    OBVIOUS
  <2>2. /\ pc \in [Workers -> {"idle", "upsert", "select", "mint"}]
        /\ cc \in [Workers -> CcUser \union {NoLogin}]
        /\ uid \in [Workers -> Nat]
    OBVIOUS
  <2>3. /\ link \subseteq Row /\ nextUser \in Nat \ {0}
        /\ tokens \subseteq Token /\ refused \subseteq Accounts
        /\ renames \in 0..MaxRenames /\ logins \in 0..MaxLogins
    OBVIOUS
  <2> QED  BY <2>1, <2>2, <2>3 DEF TypeOK
<1>4. NamesBorne
  BY DEF NamesBorne
<1>2. OneRowEach /\ RowsExplained /\ TokensKeepAccount /\ RefusedOnlyForReuse
  BY DEF OneRowEach, RowsExplained, TokensKeepAccount, RefusedOnlyForReuse
<1>3. SnapshotsBorne /\ UpsertedOrReused /\ ReadBackOwn
  BY DEF SnapshotsBorne, UpsertedOrReused, ReadBackOwn
<1> QED  BY <1>1, <1>2, <1>3, <1>4 DEF IInv

(* The forum's names only ever add to borne. *)
LEMMA RenameInv == IInv /\ Rename => IInv'
<1> SUFFICES ASSUME IInv, Rename PROVE IInv'
  OBVIOUS
<1> USE DEF IInv, Rename, tables, handler
<1>1. TypeOK'
  BY DEF TypeOK
<1>2. borne \subseteq borne'
  OBVIOUS
<1>3. \A n \in Names : Reused(n) => Reused(n)'
  BY <1>2, ReusedStays
<1>4. OneRowEach' /\ TokensKeepAccount' /\ RowsExplained' /\ SnapshotsBorne'
  BY <1>2 DEF OneRowEach, TokensKeepAccount, RowsExplained, SnapshotsBorne
<1>7. NamesBorne'
  BY DEF NamesBorne, TypeOK
<1>5. UpsertedOrReused'
  BY <1>2, UpsertedStays
<1>6. ReadBackOwn' /\ RefusedOnlyForReuse'
  BY <1>3, ReadBackStays DEF RefusedOnlyForReuse
<1> QED  BY <1>1, <1>4, <1>5, <1>6, <1>7

(* Whatever ends a login leaves the tables, and no other worker notices. *)
LEMMA Ends ==
  ASSUME NEW W \in SUBSET Workers,
         IInv,
         pc' = [w \in Workers |-> IF w \in W THEN "idle" ELSE pc[w]],
         cc' = [w \in Workers |-> IF w \in W THEN NoLogin ELSE cc[w]],
         uid' = [w \in Workers |-> IF w \in W THEN 0 ELSE uid[w]],
         UNCHANGED <<forum, borne, renames, link, nextUser, refused, logins>>,
         tokens' \subseteq Token,
         \A t \in tokens' : \E r \in link : r.user = t.user /\ r.account = t.account
  PROVE  IInv'
<1> USE DEF IInv
<1>1. TypeOK'
  BY DEF TypeOK
<1>2. OneRowEach' /\ RowsExplained' /\ TokensKeepAccount' /\ RefusedOnlyForReuse'
  <2>1. OneRowEach' /\ RowsExplained'
    BY DEF OneRowEach, RowsExplained
  <2>2. TokensKeepAccount'
    BY DEF TokensKeepAccount
  <2>3. RefusedOnlyForReuse'
    BY ReusedStays DEF RefusedOnlyForReuse
  <2> QED  BY <2>1, <2>2, <2>3
<1>3. NamesBorne' /\ SnapshotsBorne'
  BY DEF NamesBorne, SnapshotsBorne
<1>4. UpsertedOrReused'
  BY UpsertedStays
<1>5. ReadBackOwn'
  BY ReadBackStays
<1> QED  BY <1>1, <1>2, <1>3, <1>4, <1>5

LEMMA FailInv == ASSUME NEW w \in Workers PROVE IInv /\ StatementFails(w) => IInv'
<1> SUFFICES ASSUME IInv, StatementFails(w) PROVE IInv'
  OBVIOUS
<1> USE DEF StatementFails, Return, outside, tables
<1>1. /\ pc' = [v \in Workers |-> IF v \in {w} THEN "idle" ELSE pc[v]]
      /\ cc' = [v \in Workers |-> IF v \in {w} THEN NoLogin ELSE cc[v]]
      /\ uid' = [v \in Workers |-> IF v \in {w} THEN 0 ELSE uid[v]]
  BY DEF IInv, TypeOK
<1>2. /\ tokens' \subseteq Token
      /\ \A t \in tokens' : \E r \in link : r.user = t.user /\ r.account = t.account
  BY DEF IInv, TypeOK, TokensKeepAccount
<1> QED  BY <1>1, <1>2, Ends

LEMMA CrashInv == IInv /\ Crash => IInv'
<1> SUFFICES ASSUME IInv, Crash PROVE IInv'
  OBVIOUS
<1> USE DEF Crash, outside, tables
<1>1. /\ pc' = [v \in Workers |-> IF v \in Workers THEN "idle" ELSE pc[v]]
      /\ cc' = [v \in Workers |-> IF v \in Workers THEN NoLogin ELSE cc[v]]
      /\ uid' = [v \in Workers |-> IF v \in Workers THEN 0 ELSE uid[v]]
  OBVIOUS
<1>2. /\ tokens' \subseteq Token
      /\ \A t \in tokens' : \E r \in link : r.user = t.user /\ r.account = t.account
  BY DEF IInv, TypeOK, TokensKeepAccount
<1> QED  BY <1>1, <1>2, Ends

LEMMA MintInv == ASSUME NEW w \in Workers PROVE IInv /\ Mint(w) => IInv'
<1> SUFFICES ASSUME IInv, Mint(w) PROVE IInv'
  OBVIOUS
<1> USE DEF Mint, Return, outside
<1>1. /\ pc' = [v \in Workers |-> IF v \in {w} THEN "idle" ELSE pc[v]]
      /\ cc' = [v \in Workers |-> IF v \in {w} THEN NoLogin ELSE cc[v]]
      /\ uid' = [v \in Workers |-> IF v \in {w} THEN 0 ELSE uid[v]]
  BY DEF IInv, TypeOK
<1> DEFINE new == [user |-> uid[w], account |-> cc[w].account]
<1>2. PICK r \in link : r.user = uid[w] /\ r.account = cc[w].account
  BY DEF IInv, ReadBackOwn, SameAccount
<1>3. new \in Token /\ new.user = r.user /\ new.account = r.account
  BY <1>2 DEF IInv, TypeOK, Row, Token
<1>4. tokens' = tokens \union {new}
  OBVIOUS
<1>5. /\ tokens' \subseteq Token
      /\ \A t \in tokens' : \E s \in link : s.user = t.user /\ s.account = t.account
  BY <1>2, <1>3, <1>4 DEF IInv, TypeOK, TokensKeepAccount
<1>6. UNCHANGED <<forum, borne, renames, link, nextUser, refused, logins>>
  OBVIOUS
<1> HIDE DEF new, Mint, Return, outside
<1>7. {w} \in SUBSET Workers
  OBVIOUS
<1> QED  BY <1>1, <1>5, <1>6, <1>7, Ends

LEMMA LookUpInv == ASSUME NEW w \in Workers PROVE IInv /\ LookUp(w) => IInv'
<1> SUFFICES ASSUME IInv, LookUp(w) PROVE IInv'
  OBVIOUS
<1> USE DEF IInv, LookUp, outside, tables
<1>1. PICK u \in CcUser : u.name = forum[u.account] /\ cc' = [cc EXCEPT ![w] = u]
  BY DEF Snapshot
<1>2. TypeOK'
  BY <1>1 DEF TypeOK
<1>3. OneRowEach' /\ RowsExplained' /\ TokensKeepAccount' /\ RefusedOnlyForReuse'
  <2>1. OneRowEach' /\ RowsExplained'
    BY DEF OneRowEach, RowsExplained
  <2>2. TokensKeepAccount'
    BY DEF TokensKeepAccount
  <2>3. RefusedOnlyForReuse'
    BY ReusedStays DEF RefusedOnlyForReuse
  <2> QED  BY <2>1, <2>2, <2>3
<1>4. NamesBorne' /\ SnapshotsBorne'
  BY <1>1 DEF NamesBorne, SnapshotsBorne, TypeOK, CcUser
<1>5. UpsertedOrReused' /\ ReadBackOwn'
  BY <1>1, UpsertedStays, ReadBackStays DEF TypeOK
<1> QED  BY <1>2, <1>3, <1>4, <1>5

(* Neither key is taken. *)
LEMMA InsertInv ==
  ASSUME NEW w \in Workers, IInv, pc[w] = "upsert", NEW u \in CcUser, cc[w] = u,
         Duplicate(u) = {},
         link' = link \union {[user |-> nextUser, account |-> u.account,
                               name |-> u.name, profile |-> u.account]},
         nextUser' = nextUser + 1,
         pc' = [pc EXCEPT ![w] = "select"],
         UNCHANGED <<cc, uid, refused, outside, tokens, logins>>
  PROVE  IInv'
<1> USE DEF IInv, outside
<1> DEFINE new == [user |-> nextUser, account |-> u.account,
                   name |-> u.name, profile |-> u.account]
<1>1. new \in Row /\ <<u.account, u.name>> \in borne
  BY DEF TypeOK, Row, CcUser, SnapshotsBorne
<1>2. \A r \in link : r.account # u.account /\ r.name # u.name /\ r.user < nextUser
  BY DEF Duplicate, SameAccount, SameName, OneRowEach
<1>3. TypeOK'
  BY <1>1 DEF TypeOK
<1>4. OneRowEach'
  BY <1>2 DEF OneRowEach, TypeOK, Row
<1>5. RowsExplained' /\ TokensKeepAccount'
  BY <1>1 DEF RowsExplained, TokensKeepAccount
<1>6. NamesBorne' /\ SnapshotsBorne'
  BY DEF NamesBorne, SnapshotsBorne, TypeOK
<1>9. RefusedOnlyForReuse'
  BY DEF RefusedOnlyForReuse, Reused
<1>a. new \in link' /\ new.account = u.account /\ link \subseteq link'
  OBVIOUS
<1> HIDE DEF new
<1>7. UpsertedOrReused'
  BY <1>a, UpsertedStays DEF TypeOK
<1>8. ReadBackOwn'
  BY <1>a, ReadBackStays DEF TypeOK
<1> QED  BY <1>3, <1>4, <1>5, <1>6, <1>7, <1>8, <1>9

(* The row r is updated, its own account's or the one that has the name. *)
LEMMA UpdateInv ==
  ASSUME NEW w \in Workers, IInv, pc[w] = "upsert", NEW u \in CcUser, cc[w] = u,
         NEW r \in Duplicate(u), Updatable(r, u),
         link' = (link \ {r}) \union {Updated(r, u)},
         pc' = [pc EXCEPT ![w] = "select"],
         UNCHANGED <<nextUser, cc, uid, refused, outside, tokens, logins>>
  PROVE  IInv'
<1> USE DEF IInv, outside
<1> DEFINE new == Updated(r, u)
<1>1. /\ r \in link /\ r \in Row
      /\ r.account = u.account \/ r.name = u.name
      /\ \A s \in link : s.name = u.name => s = r
  BY DEF Duplicate, SameAccount, SameName, Updatable, TypeOK
<1>2. /\ new \in Row /\ new.user = r.user /\ new.account = r.account
      /\ new.name = u.name /\ new.profile = u.account
  BY <1>1 DEF Updated, Row, CcUser
<1>3. <<u.account, u.name>> \in borne /\ <<r.account, u.name>> \in borne
  BY <1>1 DEF SnapshotsBorne, RowsExplained
<1>a. \A s \in link' : (s \in link /\ s # r) \/ s = new
  OBVIOUS
<1>b. \A s \in link : \E t \in link' : t.user = s.user /\ t.account = s.account
  BY <1>2
<1> HIDE DEF new
<1>4. TypeOK'
  BY <1>2, <1>a DEF TypeOK
<1>5. OneRowEach'
  BY <1>1, <1>2, <1>a DEF OneRowEach
<1>6. RowsExplained'
  BY <1>2, <1>3, <1>a DEF RowsExplained
<1>7. TokensKeepAccount'
  BY <1>b DEF TokensKeepAccount
<1>8. NamesBorne' /\ SnapshotsBorne'
  BY DEF NamesBorne, SnapshotsBorne, TypeOK
<1>11. RefusedOnlyForReuse'
  BY DEF RefusedOnlyForReuse, Reused
<1>9. UpsertedOrReused'
  <2>1. (\E s \in link' : s.account = u.account) \/ \E n \in Names : Reused(n)
    <3>1. CASE r.account = u.account
      BY <3>1, <1>1, <1>b
    <3>2. CASE r.account # u.account
      BY <3>2, <1>1, <1>3 DEF Reused, Row, CcUser
    <3> QED  BY <3>1, <3>2
  <2> QED  BY <1>b, <2>1, UpsertedStays DEF TypeOK
<1>10. ReadBackOwn'
  BY <1>b, ReadBackStays DEF TypeOK
<1> QED  BY <1>4, <1>5, <1>6, <1>7, <1>8, <1>9, <1>10, <1>11

(* A refused login changes nothing; the account's name has been another's. *)
LEMMA RefuseInv ==
  ASSUME NEW w \in Workers, IInv, pc[w] # "idle",
         Return(w), refused' = refused \union {cc[w].account},
         \E n \in Names : Reused(n),
         UNCHANGED <<outside, tables, logins>>
  PROVE  IInv'
<1> USE DEF IInv, Return, outside, tables
<1>1. cc[w] \in CcUser /\ cc[w].account \in Accounts
  BY DEF TypeOK, CcUser
<1>2. TypeOK'
  BY <1>1 DEF TypeOK
<1>3. OneRowEach' /\ RowsExplained' /\ TokensKeepAccount' /\ RefusedOnlyForReuse'
  <2>1. OneRowEach' /\ RowsExplained'
    BY DEF OneRowEach, RowsExplained
  <2>2. TokensKeepAccount'
    BY DEF TokensKeepAccount
  <2>3. RefusedOnlyForReuse'
    BY ReusedStays DEF RefusedOnlyForReuse
  <2> QED  BY <2>1, <2>2, <2>3
<1>4. NamesBorne' /\ SnapshotsBorne'
  BY DEF NamesBorne, SnapshotsBorne, TypeOK
<1>5. UpsertedOrReused' /\ ReadBackOwn'
  BY UpsertedStays, ReadBackStays DEF TypeOK
<1> QED  BY <1>2, <1>3, <1>4, <1>5

LEMMA UpsertInv == ASSUME NEW w \in Workers PROVE IInv /\ UpsertLink(w) => IInv'
<1> SUFFICES ASSUME IInv, UpsertLink(w) PROVE IInv'
  OBVIOUS
<1>1. PICK u \in CcUser : cc[w] = u
  BY DEF UpsertLink, IInv, TypeOK
<1>2. pc[w] = "upsert" /\ UNCHANGED <<outside, tokens, logins>>
  BY DEF UpsertLink
<1>3. CASE Duplicate(u) = {}
  <2>1. /\ link' = link \union {[user |-> nextUser, account |-> u.account,
                                 name |-> u.name, profile |-> u.account]}
        /\ nextUser' = nextUser + 1
        /\ pc' = [pc EXCEPT ![w] = "select"]
        /\ UNCHANGED <<cc, uid, refused>>
    BY <1>1, <1>3 DEF UpsertLink
  <2> QED  BY <1>1, <1>2, <1>3, <2>1, InsertInv
<1>4. ASSUME NEW r \in Duplicate(u), Updatable(r, u),
             link' = (link \ {r}) \union {Updated(r, u)},
             pc' = [pc EXCEPT ![w] = "select"],
             UNCHANGED <<nextUser, cc, uid, refused>>
      PROVE  IInv'
  BY <1>1, <1>2, <1>4, UpdateInv
<1>5. ASSUME NEW r \in Duplicate(u), ~ Updatable(r, u),
             Return(w), refused' = refused \union {u.account},
             UNCHANGED <<link, nextUser>>
      PROVE  IInv'
  <2>1. PICK s \in link : s.name = u.name /\ s # r
    BY <1>5 DEF Updatable, SameName
  <2>2. r \in link /\ r.account = u.account
    BY <1>5, <2>1 DEF Duplicate, SameAccount, SameName, IInv, OneRowEach
  <2>3. s.account # u.account
    BY <2>1, <2>2 DEF IInv, OneRowEach
  <2>4. <<s.account, u.name>> \in borne /\ <<u.account, u.name>> \in borne
    BY <1>1, <1>2, <2>1 DEF IInv, RowsExplained, SnapshotsBorne
  <2>a. s.account \in Accounts /\ u.account \in Accounts /\ u.name \in Names
    BY <2>1 DEF CcUser, IInv, TypeOK, Row
  <2>5. \E n \in Names : Reused(n)
    BY <2>a, <2>3, <2>4 DEF Reused
  <2> QED  BY <1>1, <1>2, <1>5, <2>5, RefuseInv DEF tables
<1> QED  BY <1>1, <1>3, <1>4, <1>5 DEF UpsertLink

LEMMA ReadBackInv == ASSUME NEW w \in Workers PROVE IInv /\ ReadBack(w) => IInv'
<1> SUFFICES ASSUME IInv, ReadBack(w) PROVE IInv'
  OBVIOUS
<1>1. ASSUME NEW r \in SameAccount(cc[w]),
             uid' = [uid EXCEPT ![w] = r.user],
             pc' = [pc EXCEPT ![w] = "mint"],
             UNCHANGED <<cc, refused>>
      PROVE  IInv'
  <2> USE <1>1 DEF IInv, ReadBack, outside, tables
  <2>1. r \in link /\ r \in Row /\ r.user \in Nat
    BY DEF SameAccount, TypeOK, Row
  <2>2. TypeOK'
    BY <2>1 DEF TypeOK
  <2>3. OneRowEach' /\ RowsExplained' /\ TokensKeepAccount' /\ RefusedOnlyForReuse'
    <3>1. OneRowEach' /\ RowsExplained'
      BY DEF OneRowEach, RowsExplained
    <3>2. TokensKeepAccount'
      BY DEF TokensKeepAccount
    <3>3. RefusedOnlyForReuse'
      BY ReusedStays DEF RefusedOnlyForReuse
    <3> QED  BY <3>1, <3>2, <3>3
  <2>4. NamesBorne' /\ SnapshotsBorne'
    BY DEF NamesBorne, SnapshotsBorne, TypeOK
  <2>5. UpsertedOrReused' /\ ReadBackOwn'
    BY UpsertedStays, ReadBackStays DEF SameAccount, TypeOK
  <2> QED  BY <2>2, <2>3, <2>4, <2>5
<1>2. CASE /\ SameAccount(cc[w]) = {}
           /\ Return(w)
           /\ refused' = refused \union {cc[w].account}
  <2>1. \E n \in Names : Reused(n)
    BY <1>2 DEF IInv, UpsertedOrReused, ReadBack
  <2> QED  BY <1>2, <2>1, RefuseInv DEF ReadBack
<1> QED  BY <1>1, <1>2 DEF ReadBack

LEMMA StepInv == IInv /\ [Next]_vars => IInv'
<1> SUFFICES ASSUME IInv, [Next]_vars PROVE IInv'
  OBVIOUS
<1>1. ASSUME NEW w \in Workers, Login(w) PROVE IInv'
  BY <1>1, LookUpInv, UpsertInv, ReadBackInv, MintInv, FailInv DEF Login
<1>2. CASE UNCHANGED vars
  <2> USE <1>2 DEF vars, outside, tables, handler, IInv
  <2>1. TypeOK'
    BY DEF TypeOK
  <2>2. OneRowEach' /\ RowsExplained' /\ TokensKeepAccount' /\ RefusedOnlyForReuse'
    <3>1. OneRowEach' /\ RowsExplained'
      BY DEF OneRowEach, RowsExplained
    <3>2. TokensKeepAccount'
      BY DEF TokensKeepAccount
    <3>3. RefusedOnlyForReuse'
      BY ReusedStays DEF RefusedOnlyForReuse
    <3> QED  BY <3>1, <3>2, <3>3
  <2>3. NamesBorne' /\ SnapshotsBorne'
    BY DEF NamesBorne, SnapshotsBorne
  <2>4. UpsertedOrReused' /\ ReadBackOwn'
    BY UpsertedStays, ReadBackStays
  <2> QED  BY <2>1, <2>2, <2>3, <2>4
<1> QED  BY <1>1, <1>2, RenameInv, CrashInv DEF Next, Quiescent

LEMMA Invariance == Spec => []IInv
  BY InitInv, StepInv, PTL DEF Spec

(* Rows, tokens and snapshots have the types of their columns in every       *)
(* reachable state (main.cpp:664-748).                                        *)
THEOREM IdentityTypes == Spec => []TypeOK
  BY Invariance, PTL DEF IInv

(* A token speaks for the account whose password was given                   *)
(* (auth.hpp:162-189, 203-208).                                               *)
THEOREM TokensKept == Spec => []TokensKeepAccount
  BY Invariance, PTL DEF IInv

(* An account has one row, a name is cached once (sql/016: the keys).        *)
THEOREM RowsDistinct == Spec => []OneRowEach
  BY Invariance, PTL DEF IInv

(* What a row caches is old at worst, or a namesake's (auth.hpp:151-161).     *)
THEOREM RowsAreExplained == Spec => []RowsExplained
  BY Invariance, PTL DEF IInv

(* A login fails for good only for a reused name (main.cpp:723).              *)
THEOREM RefusalsExplained == Spec => []RefusedOnlyForReuse
  BY Invariance, PTL DEF IInv

=============================================================================
