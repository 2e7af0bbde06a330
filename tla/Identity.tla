------------------------------ MODULE Identity ------------------------------
(***************************************************************************)
(* POST /api/v1/auth/login (daemon/src/main.cpp:664, include/auth.hpp):    *)
(* the forum's accounts, the daemon's cc_user_link rows that cache them,   *)
(* and the tokens minted for those rows.                                   *)
(*                                                                         *)
(* A login reads the account in the forum database, upserts its link row,  *)
(* reads the row's user_id back and mints a token: four statements on two  *)
(* databases, without a transaction. The link table has two unique keys,   *)
(* the forum id and the name, and the forum may rename accounts, so that a *)
(* cached name can be one that another account bears by now.               *)
(*                                                                         *)
(* The cached profile (account_type, email, avatar, ...) is represented by *)
(* the account it was copied from.                                         *)
(***************************************************************************)
EXTENDS Naturals

CONSTANTS
  Accounts,    \* users.userid of the forum
  Names,       \* users.username
  Workers,     \* the server's worker threads
  MaxRenames,  \* bound: renames in the forum
  MaxLogins,   \* bound: logins
  NoLogin      \* what an idle worker works on

(* What lookup_cc_user_by_username returned. *)
CcUser == [account : Accounts, name : Names]

ASSUME IdentityAssumption ==
  MaxRenames \in Nat /\ MaxLogins \in Nat /\ NoLogin \notin CcUser

VARIABLES
  forum,    \* the accounts' names in the forum
  link,     \* cc_user_link: a set of rows
  nextUser, \* its AUTO_INCREMENT
  tokens,   \* api_tokens: user_id, and (history) the account that logged in
  pc,       \* per worker: idle, upsert, select, mint
  cc,       \* per worker: its snapshot of the account
  uid,      \* per worker: the user_id it read back, or 0
  borne,    \* history: <<a, n>> where account a has had name n
  refused,  \* history: accounts refused although no statement failed by itself
  renames, logins

outside == <<forum, borne, renames>>
tables == <<link, nextUser, tokens>>
handler == <<pc, cc, uid>>
vars == <<outside, tables, handler, refused, logins>>

Row == [user : Nat \ {0}, account : Accounts, name : Names, profile : Accounts]
Token == [user : Nat \ {0}, account : Accounts]

Init ==
  /\ forum \in [Accounts -> Names]
  /\ \A a, b \in Accounts : forum[a] = forum[b] => a = b
  /\ link = {} /\ nextUser = 1 /\ tokens = {}
  /\ pc = [w \in Workers |-> "idle"]
  /\ cc = [w \in Workers |-> NoLogin]
  /\ uid = [w \in Workers |-> 0]
  /\ borne = {<<a, forum[a]>> : a \in Accounts}
  /\ refused = {} /\ renames = 0 /\ logins = 0

(* The forum gives an account a name that no account has at the moment. *)
Rename ==
  /\ renames < MaxRenames
  /\ \E a \in Accounts, n \in Names :
       /\ \A b \in Accounts : forum[b] # n
       /\ forum' = [forum EXCEPT ![a] = n]
       /\ borne' = borne \union {<<a, n>>}
  /\ renames' = renames + 1
  /\ UNCHANGED <<tables, handler, refused, logins>>

-----------------------------------------------------------------------------
(* The login handler *)

(* Mutant of Return: the worker keeps its snapshot. *)
ReturnKeepingUser(w) ==
  /\ pc' = [pc EXCEPT ![w] = "idle"]
  /\ UNCHANGED <<cc, uid>>

(* The handler returns, whatever the status. *)
Return(w) ==
  /\ pc' = [pc EXCEPT ![w] = "idle"]
  /\ cc' = [cc EXCEPT ![w] = NoLogin]
  /\ uid' = [uid EXCEPT ![w] = 0]

(* Mutant of Snapshot: the name is the one typed, which need not be the      *)
(* account's.                                                                *)
SnapshotAsTyped(u) == u.account \in Accounts

Snapshot(u) == u.name = forum[u.account]

(* The account of that name is found, not locked, and its password verified. *)
(* A login that is refused here (400, 401, 403) changes nothing.             *)
LookUp(w) ==
  /\ pc[w] = "idle"
  /\ logins < MaxLogins
  /\ logins' = logins + 1
  /\ \E u \in CcUser : Snapshot(u) /\ cc' = [cc EXCEPT ![w] = u]
  /\ pc' = [pc EXCEPT ![w] = "upsert"]
  /\ UNCHANGED <<outside, tables, uid, refused>>

(* uk_cc_userid *)
SameAccount(u) == {r \in link : r.account = u.account}

(* uk_username *)
SameName(u) == {r \in link : r.name = u.name}

(* The first key that is taken selects the row, and the keys are checked in  *)
(* the order of the table: the account's own row; without one, the row that  *)
(* has its name.                                                             *)
Duplicate(u) == IF SameAccount(u) # {} THEN SameAccount(u) ELSE SameName(u)

(* Mutant of Updated: the update binds the row to the account as well. *)
Rebound(r, u) ==
  [user |-> r.user, account |-> u.account, name |-> u.name, profile |-> u.account]

(* What ON DUPLICATE KEY UPDATE makes of row r: cc_userid is not among the   *)
(* columns it sets.                                                          *)
Updated(r, u) ==
  [user |-> r.user, account |-> r.account, name |-> u.name, profile |-> u.account]

(* Mutant of Updatable: an INSERT without ON DUPLICATE KEY UPDATE. *)
NeverUpdatable(r, u) == r \notin link

(* The name that the update sets may be on another row. *)
Updatable(r, u) == SameName(u) \subseteq {r}

(* INSERT INTO cc_user_link ... ON DUPLICATE KEY UPDATE: a new row, an       *)
(* updated one, or a duplicate name, which throws: 503.                      *)
UpsertLink(w) ==
  /\ pc[w] = "upsert"
  /\ LET u == cc[w] IN
     \/ /\ Duplicate(u) = {}
        /\ link' = link \union {[user |-> nextUser, account |-> u.account,
                                 name |-> u.name, profile |-> u.account]}
        /\ nextUser' = nextUser + 1
        /\ pc' = [pc EXCEPT ![w] = "select"]
        /\ UNCHANGED <<cc, uid, refused>>
     \/ \E r \in Duplicate(u) :
          /\ Updatable(r, u)
          /\ link' = (link \ {r}) \union {Updated(r, u)}
          /\ pc' = [pc EXCEPT ![w] = "select"]
          /\ UNCHANGED <<nextUser, cc, uid, refused>>
     \/ \E r \in Duplicate(u) :
          /\ ~ Updatable(r, u)
          /\ Return(w)
          /\ refused' = refused \union {u.account}
          /\ UNCHANGED <<link, nextUser>>
  /\ UNCHANGED <<outside, tokens, logins>>

(* SELECT user_id ... WHERE cc_userid: 500 if there is no such row, which is *)
(* so when the upsert went to the row of another account.                    *)
ReadBack(w) ==
  /\ pc[w] = "select"
  /\ \/ \E r \in SameAccount(cc[w]) :
          /\ uid' = [uid EXCEPT ![w] = r.user]
          /\ pc' = [pc EXCEPT ![w] = "mint"]
          /\ UNCHANGED <<cc, refused>>
     \/ /\ SameAccount(cc[w]) = {}
        /\ Return(w)
        /\ refused' = refused \union {cc[w].account}
  /\ UNCHANGED <<outside, tables, logins>>

(* mint_api_token, and the answer. *)
Mint(w) ==
  /\ pc[w] = "mint"
  /\ tokens' = tokens \union {[user |-> uid[w], account |-> cc[w].account]}
  /\ Return(w)
  /\ UNCHANGED <<outside, link, nextUser, refused, logins>>

(* A statement throws for another reason: 503, what was done stays. *)
StatementFails(w) ==
  /\ pc[w] # "idle"
  /\ Return(w)
  /\ UNCHANGED <<outside, tables, refused, logins>>

(* The daemon dies and is started again. *)
Crash ==
  /\ \E w \in Workers : pc[w] # "idle"
  /\ pc' = [w \in Workers |-> "idle"]
  /\ cc' = [w \in Workers |-> NoLogin]
  /\ uid' = [w \in Workers |-> 0]
  /\ UNCHANGED <<outside, tables, refused, logins>>

(* All logins of the bound are answered. *)
Quiescent ==
  /\ logins = MaxLogins /\ \A w \in Workers : pc[w] = "idle"
  /\ UNCHANGED vars

Login(w) ==
  LookUp(w) \/ UpsertLink(w) \/ ReadBack(w) \/ Mint(w) \/ StatementFails(w)

Next == Rename \/ (\E w \in Workers : Login(w)) \/ Crash \/ Quiescent

Spec == Init /\ [][Next]_vars

-----------------------------------------------------------------------------
(* Rows, tokens and snapshots have the types of their columns, and a worker  *)
(* has a snapshot exactly while it logs someone in (main.cpp:664-748).        *)
TypeOK ==
  /\ forum \in [Accounts -> Names]
  /\ link \subseteq Row /\ nextUser \in Nat \ {0}
  /\ tokens \subseteq Token
  /\ pc \in [Workers -> {"idle", "upsert", "select", "mint"}]
  /\ cc \in [Workers -> CcUser \union {NoLogin}]
  /\ uid \in [Workers -> Nat]
  /\ borne \subseteq Accounts \X Names
  /\ refused \subseteq Accounts
  /\ renames \in 0..MaxRenames /\ logins \in 0..MaxLogins
  /\ \A w \in Workers : pc[w] = "idle" <=> cc[w] = NoLogin

(* Whatever names accounts and rows have swapped between the statements of   *)
(* a login, a token speaks for the account whose password was given, and     *)
(* goes on doing so: its user's row is and stays that account's              *)
(* (auth.hpp:162-189, 203-208).                                               *)
TokensKeepAccount ==
  \A t \in tokens : \E r \in link : r.user = t.user /\ r.account = t.account

(* An account has one row, a name is cached once, and a user_id never comes  *)
(* back, in every order of concurrent first logins (sql/016: the keys).      *)
OneRowEach ==
  /\ \A r, s \in link :
       r.account = s.account \/ r.name = s.name \/ r.user = s.user => r = s
  /\ \A r \in link : r.user < nextUser

(* What a row caches is old at worst, or a namesake's: its name is one that  *)
(* its account has had, its profile is its account's or that of an account   *)
(* that has had the row's name (auth.hpp:151-161).                            *)
RowsExplained ==
  \A r \in link :
    /\ <<r.account, r.name>> \in borne
    /\ <<r.profile, r.name>> \in borne

Reused(n) == \E a, b \in Accounts : a # b /\ {<<a, n>>, <<b, n>>} \subseteq borne

(* A login with the right password fails for good only where two accounts    *)
(* have had one name, however often accounts were renamed and whoever else   *)
(* was logging in (auth.hpp:162-171, main.cpp:723).                           *)
RefusedOnlyForReuse ==
  refused # {} => \E n \in Names : Reused(n)

-----------------------------------------------------------------------------
(* sql/016:2: a row "binds a tagstackd user identity to" a forum account and, *)
(* line 12, its account_type "mirrors users.account_type": the profile a row *)
(* caches is its account's. An account that takes the name another one has   *)
(* cached writes its profile into that row.                                  *)
ProfileIsOwn == \A r \in link : r.profile = r.account

-----------------------------------------------------------------------------
(* What holds between the statements of a login.                             *)

(* The names of the forum and of the snapshots are on record. *)
NamesBorne == \A a \in Accounts : <<a, forum[a]>> \in borne

SnapshotsBorne ==
  \A w \in Workers : pc[w] # "idle" => <<cc[w].account, cc[w].name>> \in borne

(* After the upsert the account has a row, unless the name was reused. *)
UpsertedOrReused ==
  \A w \in Workers : pc[w] = "select" =>
    SameAccount(cc[w]) # {} \/ \E n \in Names : Reused(n)

(* The user_id read back is that of the account's row. *)
ReadBackOwn ==
  \A w \in Workers : pc[w] = "mint" =>
    \E r \in SameAccount(cc[w]) : r.user = uid[w]

=============================================================================
