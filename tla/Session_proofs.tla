--------------------------- MODULE Session_proofs ---------------------------
(***************************************************************************)
(* Proofs about Session: HeldIsValid and TokensAccountedFor, for any number *)
(* of requests and of ends of the client. Neither is inductive alone: a     *)
(* sign-out revokes only what TokensApart says nobody else has, and the     *)
(* client may only be replaced by what is in QSettings, which               *)
(* SavedFollowsHeld ties to m_token.                                        *)
(***************************************************************************)
EXTENDS Session, TLAPS

IInv ==
  /\ TypeOK
  /\ SavedFollowsHeld
  /\ OffHasOrphans
  /\ TokensApart
  /\ HeldIsValid
  /\ TokensAccountedFor

LEMMA InitInv == Init => IInv
  BY SessionAssumption DEF Init, IInv, TypeOK, SavedFollowsHeld, OffHasOrphans,
     TokensApart, HeldIsValid, TokensAccountedFor, Running, Tokens, Call, Places

(* Between requests: the client starts. *)
LEMMA StartInv == IInv /\ Start => IInv'
<1> SUFFICES ASSUME IInv, Start PROVE IInv'
  OBVIOUS
<1> USE SessionAssumption DEF IInv, Start, Loop, DialogBuilt, Running, daemon, Tokens
<1>1. TypeOK'
  BY DEF TypeOK
<1>2. SavedFollowsHeld' /\ OffHasOrphans'
  BY DEF SavedFollowsHeld, OffHasOrphans
<1>3. TokensApart'
  BY DEF TokensApart, SavedFollowsHeld
<1>4. HeldIsValid'
  BY DEF HeldIsValid, Valid
<1>5. TokensAccountedFor'
  BY DEF TokensAccountedFor, SavedFollowsHeld, TypeOK, Waiting
<1> QED  BY <1>1, <1>2, <1>3, <1>4, <1>5

LEMMA CloseInv == IInv /\ CloseSignedOut => IInv'
<1> SUFFICES ASSUME IInv, CloseSignedOut PROVE IInv'
  OBVIOUS
<1> USE SessionAssumption DEF IInv, CloseSignedOut, Loop, DialogBuilt, Running, daemon, Tokens
<1>0. held = NoToken /\ saved = NoToken /\ held' = NoToken /\ screen' = "login"
  BY DEF SavedFollowsHeld
<1>1. TypeOK'
  BY <1>0 DEF TypeOK
<1>2. SavedFollowsHeld' /\ OffHasOrphans'
  BY <1>0 DEF SavedFollowsHeld, OffHasOrphans
<1>3. TokensApart'
  BY <1>0 DEF TokensApart
<1>4. HeldIsValid'
  BY <1>0 DEF HeldIsValid, Valid
<1>5. TokensAccountedFor'
  BY <1>0 DEF TokensAccountedFor, TypeOK, Waiting
<1> QED  BY <1>1, <1>2, <1>3, <1>4, <1>5

LEMMA SignInInv == IInv /\ SignIn => IInv'
<1> SUFFICES ASSUME IInv, SignIn PROVE IInv'
  OBVIOUS
<1> DEFINE new == [id |-> nextCall, op |-> "login", token |-> NoToken, at |-> "sent"]
<1> USE SessionAssumption DEF IInv, SignIn, Send, Running, daemon, Tokens
<1>1. TypeOK'
  BY DEF TypeOK, Call, Places
<1>2. SavedFollowsHeld' /\ OffHasOrphans'
  BY DEF SavedFollowsHeld, OffHasOrphans
<1>3. TokensApart'
  BY DEF TokensApart
<1>4. HeldIsValid'
  BY DEF HeldIsValid, Valid
<1>5. TokensAccountedFor'
  BY DEF TokensAccountedFor, Waiting
<1> QED  BY <1>1, <1>2, <1>3, <1>4, <1>5

(* The token moves from the client to the request that revokes it. *)
LEMMA SignOutInv == IInv /\ SignOut => IInv'
<1> SUFFICES ASSUME IInv, SignOut PROVE IInv'
  OBVIOUS
<1> USE SessionAssumption DEF IInv, SignOut, Send, ClearedSaved, Loop, DialogBuilt, Running,
        daemon, Tokens
<1>0. /\ saved = held
      /\ held' = NoToken /\ saved' = NoToken /\ screen' = "login"
  BY DEF SavedFollowsHeld
<1>1. TypeOK'
  BY <1>0 DEF TypeOK, Call, Places
<1>2. SavedFollowsHeld' /\ OffHasOrphans'
  BY <1>0 DEF SavedFollowsHeld, OffHasOrphans
<1>3. TokensApart'
  <2>1. held # NoToken => held \in 1..minted /\ held \notin revoked
    BY DEF HeldIsValid, Valid
  <2> QED  BY <1>0, <2>1 DEF TokensApart
<1>4. HeldIsValid'
  BY <1>0 DEF HeldIsValid
<1>5. TokensAccountedFor'
  <2> DEFINE new == [id |-> nextCall, op |-> "logout", token |-> held, at |-> "sent"]
  <2>1. /\ calls \subseteq calls' /\ new \in calls'
        /\ new.token = held /\ new.at = "sent"
    OBVIOUS
  <2> QED  BY <1>0, <2>1 DEF TokensAccountedFor, Waiting
<1> QED  BY <1>1, <1>2, <1>3, <1>4, <1>5

(* QSettings keeps the token; what an answer under way brought is lost. *)
LEMMA QuitInv == IInv /\ Quit => IInv'
<1> SUFFICES ASSUME IInv, Quit PROVE IInv'
  OBVIOUS
<1> USE SessionAssumption DEF IInv, Quit, End, Running, daemon, Tokens
<1>0. /\ saved = held /\ saved' = saved
      /\ held' = NoToken /\ screen' = "off"
  BY DEF SavedFollowsHeld
<1>a. ASSUME NEW c \in calls'
      PROVE  \E d \in calls : Waiting(d) /\ c = [d EXCEPT !.at = "orphan"]
  OBVIOUS
<1>1. TypeOK'
  <2>1. calls' \subseteq Call
    BY <1>a DEF TypeOK, Call, Places
  <2>2. strays' \subseteq 1..minted
    BY DEF TypeOK, TokensApart, Token
  <2>3. \A c, d \in calls' : c.id = d.id => c = d
    BY <1>a DEF TypeOK, Call
  <2>4. \A c \in calls' : c.id < nextCall'
    BY <1>a DEF TypeOK, Call
  <2> QED  BY <1>0, <2>1, <2>2, <2>3, <2>4 DEF TypeOK
<1>2. SavedFollowsHeld' /\ OffHasOrphans'
  <2>1. \A c \in calls' : c.at = "orphan"
    BY <1>a DEF TypeOK, Call
  <2> QED  BY <1>0, <2>1 DEF SavedFollowsHeld, OffHasOrphans
<1>3. TokensApart'
  BY <1>0, <1>a DEF TokensApart, TypeOK, Call, Waiting
<1>4. HeldIsValid'
  BY <1>0 DEF HeldIsValid, Valid
<1>5. TokensAccountedFor'
  <2> SUFFICES ASSUME NEW t \in 1..minted,
                      t \notin revoked, t \notin strays, t # held
               PROVE  \/ t \in strays'
                      \/ \E c \in calls' : c.token = t /\ Waiting(c)
    BY <1>0 DEF TokensAccountedFor, Waiting
  <2>1. PICK c \in calls : c.token = t /\ (c.op = "login" \/ Waiting(c))
    BY <1>0 DEF TokensAccountedFor
  <2>2. CASE Waiting(c)
    <3>1. [c EXCEPT !.at = "orphan"] \in calls'
      BY <2>2
    <3> QED  BY <2>1, <3>1 DEF Waiting, TypeOK, Call
  <2>3. CASE ~ Waiting(c)
    <3>1. c.op = "login" /\ Back(c) /\ c.token # NoToken
      BY <2>1, <2>3 DEF Waiting, Back, TypeOK, Call, Places
    <3> QED  BY <2>1, <3>1 DEF Token
  <2> QED  BY <2>2, <2>3
<1> QED  BY <1>1, <1>2, <1>3, <1>4, <1>5

(* The server and the network *)

LEMMA MintInv == ASSUME NEW c \in calls PROVE IInv /\ Mint(c) => IInv'
<1> SUFFICES ASSUME IInv, Mint(c) PROVE IInv'
  OBVIOUS
<1> USE SessionAssumption DEF IInv, Mint, client, Running, Tokens, Waiting
<1>a. c \in Call /\ c.token = NoToken /\ c.op = "login"
  BY DEF TypeOK, TokensApart
<1>b. PICK t \in {minted + 1, NoToken}, at \in {"ok", "apiError"} :
        /\ Answered(c, t, at)
        /\ t # NoToken => at = "ok"
        /\ strays' = IF t # NoToken /\ c.at # "orphan" THEN strays
                     ELSE strays \union {minted + 1}
  BY DEF TypeOK
<1> DEFINE ans == With(c, t, at)
<1>c. /\ calls' \subseteq (calls \ {c}) \union {ans}
      /\ calls \ {c} \subseteq calls'
      /\ c.at # "orphan" => ans \in calls'
  BY <1>b DEF Answered
<1>d. ans = [id |-> c.id, op |-> "login", token |-> t, at |-> at]
  BY <1>a DEF With
<1>1. TypeOK'
  BY <1>a, <1>b, <1>c, <1>d DEF TypeOK, Call, Places
<1>2. SavedFollowsHeld' /\ OffHasOrphans'
  BY <1>b DEF SavedFollowsHeld, OffHasOrphans, Answered
<1>3. TokensApart'
  <2>1. /\ minted + 1 \notin 1..minted /\ minted + 1 \notin revoked
        /\ minted + 1 # held /\ minted + 1 # saved
    BY DEF TypeOK, HeldIsValid, Valid
  <2>2. \A d \in calls : d.token # minted + 1
    BY DEF TypeOK, TokensApart
  <2> QED  BY <1>a, <1>b, <1>c, <1>d, <2>1, <2>2 DEF TypeOK, TokensApart
<1>4. HeldIsValid'
  BY DEF TypeOK, HeldIsValid, Valid
<1>5. TokensAccountedFor'
  BY <1>a, <1>b, <1>c, <1>d DEF TypeOK, TokensAccountedFor
<1> QED  BY <1>1, <1>2, <1>3, <1>4, <1>5

LEMMA RevokeInv == ASSUME NEW c \in calls PROVE IInv /\ Revoke(c) => IInv'
<1> SUFFICES ASSUME IInv, Revoke(c) PROVE IInv'
  OBVIOUS
<1> USE SessionAssumption DEF IInv, Revoke, client, Running, Tokens, Waiting
<1>b. PICK at \in {"ok", "apiError"} : Answered(c, c.token, at)
  OBVIOUS
<1> DEFINE ans == With(c, c.token, at)
<1>c. /\ calls' \subseteq (calls \ {c}) \union {ans}
      /\ calls \ {c} \subseteq calls'
  BY <1>b DEF Answered
<1>d. ans = [id |-> c.id, op |-> "logout", token |-> c.token, at |-> at]
  BY DEF With
<1>e. c.token \in 1..minted /\ c.token # held /\ c.token # saved
  BY DEF Valid, TokensApart, TypeOK
<1>1. TypeOK'
  <2>1. ans \in Call /\ ans.id = c.id
    BY <1>d DEF TypeOK, Call, Places
  <2>2. calls' \subseteq Call
    BY <1>c, <2>1 DEF TypeOK
  <2>3. revoked' \subseteq 1..minted'
    BY <1>e DEF TypeOK
  <2> HIDE DEF ans
  <2> QED  BY <1>c, <2>1, <2>2, <2>3 DEF TypeOK
<1>2. SavedFollowsHeld' /\ OffHasOrphans'
  BY <1>b DEF SavedFollowsHeld, OffHasOrphans, Answered
<1>3. TokensApart'
  <2>1. \A d \in calls : d.token = c.token => d = c
    BY <1>e DEF TokensApart
  <2> QED  BY <1>c, <1>d, <2>1 DEF TypeOK, TokensApart
<1>4. HeldIsValid'
  BY <1>e DEF HeldIsValid, Valid
<1>5. TokensAccountedFor'
  BY <1>c DEF TokensAccountedFor
<1> QED  BY <1>1, <1>2, <1>3, <1>4, <1>5

LEMMA RefuseInv == ASSUME NEW c \in calls PROVE IInv /\ Refuse(c) => IInv'
<1> SUFFICES ASSUME IInv, Refuse(c) PROVE IInv'
  OBVIOUS
<1> USE SessionAssumption DEF IInv, Refuse, client, daemon, Running, Tokens, Waiting
<1>b. PICK at \in {"apiError", "networkError"} : Answered(c, c.token, at)
  OBVIOUS
<1> DEFINE ans == With(c, c.token, at)
<1>c. /\ calls' \subseteq (calls \ {c}) \union {ans}
      /\ calls \ {c} \subseteq calls'
  BY <1>b DEF Answered
<1>d. /\ c \in Call
      /\ ans = [id |-> c.id, op |-> c.op, token |-> c.token, at |-> at]
  BY DEF TypeOK, With
<1>e. c.op = "login" => c.token = NoToken
  BY DEF TokensApart
<1>1. TypeOK'
  <2>1. ans \in Call /\ ans.id = c.id
    BY <1>d DEF TypeOK, Call, Places
  <2>2. calls' \subseteq Call
    BY <1>c, <2>1 DEF TypeOK
  <2>3. strays' \subseteq 1..minted'
    BY DEF TypeOK, Valid
  <2> HIDE DEF ans
  <2> QED  BY <1>c, <2>1, <2>2, <2>3 DEF TypeOK
<1>2. SavedFollowsHeld' /\ OffHasOrphans'
  BY <1>b DEF SavedFollowsHeld, OffHasOrphans, Answered
<1>3. TokensApart'
  BY <1>c, <1>d, <1>e DEF TypeOK, TokensApart
<1>4. HeldIsValid'
  BY DEF HeldIsValid, Valid
<1>5. TokensAccountedFor'
  BY <1>c, <1>d, <1>e DEF TokensAccountedFor, Valid, TypeOK, Call
<1> QED  BY <1>1, <1>2, <1>3, <1>4, <1>5

LEMMA LoseReplyInv == ASSUME NEW c \in calls PROVE IInv /\ LoseReply(c) => IInv'
<1> SUFFICES ASSUME IInv, LoseReply(c) PROVE IInv'
  OBVIOUS
<1> USE SessionAssumption DEF IInv, LoseReply, client, daemon, Running, Tokens, Waiting
<1>b. PICK t \in {NoToken, c.token} : t = IF c.op = "login" THEN NoToken ELSE c.token
  OBVIOUS
<1> DEFINE lost == [id |-> c.id, op |-> c.op, token |-> t, at |-> "networkError"]
<1>c. /\ c \in Call
      /\ calls' = (calls \ {c}) \union {lost}
  BY <1>b DEF TypeOK, With
<1>1. TypeOK'
  <2>1. strays' \subseteq 1..minted
    BY DEF TypeOK, TokensApart, Token
  <2> QED  BY <1>b, <1>c, <2>1 DEF TypeOK, Call, Places
<1>2. SavedFollowsHeld' /\ OffHasOrphans'
  BY DEF SavedFollowsHeld, OffHasOrphans
<1>3. TokensApart'
  BY <1>b, <1>c DEF TypeOK, TokensApart
<1>4. HeldIsValid'
  BY DEF HeldIsValid, Valid
<1>5. TokensAccountedFor'
  BY <1>b, <1>c DEF TokensAccountedFor, TypeOK, Call, Token
<1> QED  BY <1>1, <1>2, <1>3, <1>4, <1>5

(* The client *)

LEMMA LoggedInInv == ASSUME NEW c \in calls PROVE IInv /\ LoggedIn(c) => IInv'
<1> SUFFICES ASSUME IInv, LoggedIn(c) PROVE IInv'
  OBVIOUS
<1> USE SessionAssumption DEF IInv, LoggedIn, Settled, daemon, Running, Tokens, Waiting
<1>a. c \in Call /\ saved = held
  BY DEF TypeOK, OffHasOrphans, SavedFollowsHeld
<1>b. c.token # NoToken =>
        /\ c.token \in 1..minted /\ c.token \notin revoked
        /\ \A d \in calls' : d.token # c.token
  BY DEF TokensApart
<1>1. TypeOK'
  <2>1. strays' \subseteq 1..minted
    BY DEF TypeOK, HeldIsValid, Valid, Token
  <2> QED  BY <1>a, <2>1 DEF TypeOK, Call
<1>2. SavedFollowsHeld' /\ OffHasOrphans'
  BY DEF SavedFollowsHeld, OffHasOrphans
<1>3. TokensApart'
  BY <1>b DEF TokensApart
<1>4. HeldIsValid'
  BY <1>b DEF HeldIsValid, Valid
<1>5. TokensAccountedFor'
  BY <1>a DEF TokensAccountedFor, Token
<1> QED  BY <1>1, <1>2, <1>3, <1>4, <1>5

LEMMA LoggedOutInv == ASSUME NEW c \in calls PROVE IInv /\ LoggedOut(c) => IInv'
<1> SUFFICES ASSUME IInv, LoggedOut(c) PROVE IInv'
  OBVIOUS
<1> USE SessionAssumption DEF IInv, LoggedOut, Settled, ClearedSaved, daemon, Running,
        Tokens, Waiting
<1>a. saved = held
  BY DEF OffHasOrphans, SavedFollowsHeld
<1>1. TypeOK'
  <2>1. strays' \subseteq 1..minted
    BY DEF TypeOK, HeldIsValid, Valid, Token
  <2> QED  BY <2>1 DEF TypeOK
<1>2. SavedFollowsHeld' /\ OffHasOrphans'
  BY DEF SavedFollowsHeld, OffHasOrphans
<1>3. TokensApart'
  BY DEF TokensApart
<1>4. HeldIsValid'
  BY DEF HeldIsValid
<1>5. TokensAccountedFor'
  BY <1>a DEF TokensAccountedFor, Token
<1> QED  BY <1>1, <1>2, <1>3, <1>4, <1>5

LEMMA FailedInv == ASSUME NEW c \in calls PROVE IInv /\ Failed(c) => IInv'
<1> SUFFICES ASSUME IInv, Failed(c) PROVE IInv'
  OBVIOUS
<1> USE SessionAssumption DEF IInv, Failed, Settled, daemon, Running, Tokens, Waiting
<1>1. TypeOK'
  BY DEF TypeOK
<1>2. SavedFollowsHeld' /\ OffHasOrphans'
  BY DEF SavedFollowsHeld, OffHasOrphans
<1>3. TokensApart'
  BY DEF TokensApart
<1>4. HeldIsValid'
  BY DEF HeldIsValid, Valid
<1>5. TokensAccountedFor'
  BY DEF TokensAccountedFor, TokensApart
<1> QED  BY <1>1, <1>2, <1>3, <1>4, <1>5

LEMMA StepInv == IInv /\ [Next]_vars => IInv'
<1> SUFFICES ASSUME IInv, [Next]_vars PROVE IInv'
  OBVIOUS
<1>1. CASE User
  BY <1>1, StartInv, SignInInv, SignOutInv, QuitInv, CloseInv DEF User
<1>2. ASSUME NEW c \in calls,
             Mint(c) \/ Revoke(c) \/ Refuse(c) \/ LoseReply(c) \/ Reply(c)
      PROVE  IInv'
  BY <1>2, MintInv, RevokeInv, RefuseInv, LoseReplyInv, LoggedInInv, LoggedOutInv,
     FailedInv DEF Reply
<1>3. CASE UNCHANGED vars
  BY <1>3 DEF vars, client, daemon, IInv, TypeOK, SavedFollowsHeld, OffHasOrphans,
     TokensApart, HeldIsValid, TokensAccountedFor, Running, Valid, Waiting
<1> QED  BY <1>1, <1>2, <1>3 DEF Next

LEMMA Invariance == Spec => []IInv
  BY InitInv, StepInv, PTL DEF Spec

(* The fields of the client, the requests under way and the token table have *)
(* their types in every reachable state (ApiClient.cpp:29-137).              *)
THEOREM SessionTypes == Spec => []TypeOK
  BY Invariance, PTL DEF IInv

(* The client never works with a token that its own sign-out revokes         *)
(* (MainWindow.cpp:200-205, main.cpp:33).                                     *)
THEOREM HeldValid == Spec => []HeldIsValid
  BY Invariance, PTL DEF IInv

(* No token stays valid on the server unnoticed (auth.hpp:176-190,            *)
(* ApiClient.cpp:115-137).                                                    *)
THEOREM TokensAccounted == Spec => []TokensAccountedFor
  BY Invariance, PTL DEF IInv

=============================================================================
