------------------------------ MODULE Session ------------------------------
(***************************************************************************)
(* Signing in and out of the desktop client (desktop/src/main.cpp,         *)
(* ApiClient, LoginDialog, MainWindow) against the daemon's tokens         *)
(* (daemon/include/auth.hpp, POST /auth/login and /auth/logout).           *)
(*                                                                         *)
(* main() loops: with a token in memory or in QSettings it shows the main  *)
(* window, without one the login dialog. Every request is asynchronous:    *)
(* the reply is handled by the event loop whenever it comes, whichever     *)
(* window is open by then. A request or its reply may be lost, statements  *)
(* of the daemon may fail, and the client may quit or die with requests    *)
(* under way. Requests that change no session state are left out.          *)
(***************************************************************************)
EXTENDS Naturals

CONSTANTS
  MaxCalls,   \* bound: logins and logouts sent
  MaxQuits,   \* bound: ends of the client process
  NoToken     \* an empty m_token, nothing in QSettings

ASSUME SessionAssumption ==
  MaxCalls \in Nat /\ MaxQuits \in Nat /\ NoToken \notin Nat

VARIABLES
  screen,   \* off (no process), login (the dialog), main (the window)
  held,     \* ApiClient::m_token
  saved,    \* QSettings auth/token
  button,   \* the dialog's "Sign in": enabled or disabled
  calls,    \* requests sent and not yet settled
  nextCall, \* numbers the requests
  minted,   \* api_tokens: the number of rows; tokens are 1..minted
  revoked,  \* api_tokens: rows with revoked_at set
  strays,   \* history: tokens that a lost reply, a failed logout or a
            \*   replaced or cleared m_token left behind
  quits

client == <<screen, held, saved, button>>
daemon == <<minted, revoked>>
vars == <<client, calls, nextCall, daemon, strays, quits>>

Tokens == Nat \ {0}

(* A request is at the server, or came back; once the client that sent it is *)
(* gone it is an orphan, which the server still serves.                      *)
Places == {"sent", "orphan", "ok", "apiError", "networkError"}

Call == [id : 1..MaxCalls, op : {"login", "logout"},
         token : Tokens \union {NoToken}, at : Places]

Running == screen # "off"
Waiting(c) == c.at \in {"sent", "orphan"}
Back(c) == c.at \in {"ok", "apiError", "networkError"}

(* What m_token or a reply that is dropped leaves behind. *)
Token(t) == {t} \ {NoToken}

Init ==
  /\ screen = "off"
  /\ held = NoToken /\ saved = NoToken
  /\ button = "enabled"
  /\ calls = {} /\ nextCall = 1
  /\ minted = 0 /\ revoked = {}
  /\ strays = {} /\ quits = 0

-----------------------------------------------------------------------------
(* main() and the two windows *)

(* The constructor of LoginDialog. *)
DialogBuilt == button' = "enabled"

(* Top of the loop: restoreToken unless there is a token, then the dialog    *)
(* unless there is one now. t is m_token when the loop comes round.          *)
Loop(t) ==
  LET found == IF t # NoToken THEN t ELSE saved' IN
  /\ held' = found
  /\ screen' = IF found # NoToken THEN "main" ELSE "login"
  /\ DialogBuilt

Start ==
  /\ ~ Running
  /\ saved' = saved
  /\ Loop(NoToken)
  /\ UNCHANGED <<calls, nextCall, daemon, strays, quits>>

Send(op, t) ==
  /\ nextCall <= MaxCalls
  /\ calls' = calls \union {[id |-> nextCall, op |-> op, token |-> t, at |-> "sent"]}
  /\ nextCall' = nextCall + 1

(* onLoginClicked. Return in the password field comes here too, also while   *)
(* the button is disabled.                                                   *)
SignIn ==
  /\ screen = "login"
  /\ Send("login", NoToken)
  /\ button' = "disabled"
  /\ UNCHANGED <<screen, held, saved, daemon, strays, quits>>

(* Mutant of ClearedSaved: m_token is cleared, QSettings keeps it. *)
KeptSaved == saved

(* clearToken removes auth/token from QSettings with m_token. *)
ClearedSaved == NoToken

(* Mutant of SignOut: the token is cleared first, the request carries none. *)
SignOutForgetting ==
  /\ screen = "main"
  /\ Send("logout", NoToken)
  /\ saved' = ClearedSaved
  /\ Loop(NoToken)
  /\ UNCHANGED <<daemon, strays, quits>>

(* onLogoutClicked: logout() sends the token, clearToken, close(); main()     *)
(* comes round to the dialog.                                                *)
SignOut ==
  /\ screen = "main"
  /\ Send("logout", held)
  /\ saved' = ClearedSaved
  /\ Loop(NoToken)
  /\ UNCHANGED <<daemon, strays, quits>>

(* The process ends: its requests are orphans, answers are dropped. *)
End ==
  /\ quits < MaxQuits
  /\ quits' = quits + 1
  /\ screen' = "off" /\ held' = NoToken /\ button' = "enabled"
  /\ calls' = {[c EXCEPT !.at = "orphan"] : c \in {d \in calls : Waiting(d)}}
  /\ strays' = strays \union
       UNION {Token(c.token) : c \in {d \in calls : d.op = "login" /\ Back(d)}}
  /\ UNCHANGED <<saved, nextCall, daemon>>

(* "Quit" in the dialog, closing the window with a token, or a crash. *)
Quit == Running /\ End

(* Closing a window whose token is gone: main() takes it for a sign-out. *)
CloseSignedOut ==
  /\ screen = "main" /\ held = NoToken
  /\ saved' = saved
  /\ Loop(held)
  /\ UNCHANGED <<calls, nextCall, daemon, strays, quits>>

-----------------------------------------------------------------------------
(* The daemon and the network *)

With(c, t, at) == [id |-> c.id, op |-> c.op, token |-> t, at |-> at]

(* c is settled with an answer, which nobody waits for if c is an orphan. *)
Answered(c, t, at) ==
  calls' = (calls \ {c}) \union IF c.at = "orphan" THEN {} ELSE {With(c, t, at)}

(* login: the credentials are good, and a token is minted. A result that is  *)
(* lost after the INSERT answers 503 with the row in place.                  *)
Mint(c) ==
  /\ c.op = "login" /\ Waiting(c)
  /\ minted' = minted + 1
  /\ \/ /\ Answered(c, minted + 1, "ok")
        /\ strays' = IF c.at = "orphan" THEN strays \union {minted + 1} ELSE strays
     \/ /\ Answered(c, NoToken, "apiError")
        /\ strays' = strays \union {minted + 1}
  /\ UNCHANGED <<client, nextCall, revoked, quits>>

(* Mutant of Valid: a token that has no row passes. *)
ValidUnlessRevoked(t) == t \notin revoked

(* require_auth: a token of api_tokens that is not revoked. *)
Valid(t) == t \in 1..minted /\ t \notin revoked

(* logout: UPDATE api_tokens SET revoked_at WHERE token_hash is the caller's. *)
Revoke(c) ==
  /\ c.op = "logout" /\ Waiting(c)
  /\ Valid(c.token)
  /\ revoked' = revoked \union {c.token}
  /\ \E at \in {"ok", "apiError"} : Answered(c, c.token, at)
  /\ UNCHANGED <<client, nextCall, minted, strays, quits>>

(* Refused (400, 401, 403), failed (500, 503) or never arrived: no effect. *)
Refuse(c) ==
  /\ Waiting(c)
  /\ \E at \in {"apiError", "networkError"} : Answered(c, c.token, at)
  /\ strays' = IF c.op = "logout" /\ Valid(c.token)
               THEN strays \union {c.token} ELSE strays
  /\ UNCHANGED <<client, nextCall, daemon, quits>>

(* The answer is lost on its way back: a network error for the client. *)
LoseReply(c) ==
  /\ c.at \in {"ok", "apiError"}
  /\ calls' = (calls \ {c}) \union
       {With(c, IF c.op = "login" THEN NoToken ELSE c.token, "networkError")}
  /\ strays' = IF c.op = "login" THEN strays \union Token(c.token) ELSE strays
  /\ UNCHANGED <<client, nextCall, daemon, quits>>

-----------------------------------------------------------------------------
(* handleReply in the client *)

Settled(c) == calls' = calls \ {c}

(* setToken, and accept() of the dialog if it is open. *)
LoggedIn(c) ==
  /\ c.op = "login" /\ c.at = "ok"
  /\ Settled(c)
  /\ held' = c.token /\ saved' = c.token
  /\ screen' = "main"
  /\ strays' = strays \union Token(held)
  /\ UNCHANGED <<button, nextCall, daemon, quits>>

(* clearToken, whatever token is held by now. *)
LoggedOut(c) ==
  /\ c.op = "logout" /\ c.at = "ok"
  /\ Settled(c)
  /\ held' = NoToken /\ saved' = ClearedSaved
  /\ strays' = strays \union Token(held)
  /\ UNCHANGED <<screen, button, nextCall, daemon, quits>>

(* Mutant of Reenabled: only onApiError enables the button again. *)
ReenabledOnApiError(c) == c.op = "login" /\ c.at = "apiError"

(* onApiError and onNetworkError of the dialog look for opName "login". *)
Reenabled(c) == c.op = "login"

(* apiError or networkError. *)
Failed(c) ==
  /\ c.at \in {"apiError", "networkError"}
  /\ Settled(c)
  /\ button' = IF screen = "login" /\ Reenabled(c) THEN "enabled" ELSE button
  /\ UNCHANGED <<screen, held, saved, nextCall, daemon, strays, quits>>

Reply(c) == LoggedIn(c) \/ LoggedOut(c) \/ Failed(c)

User == Start \/ SignIn \/ SignOut \/ Quit \/ CloseSignedOut

Next ==
  \/ User
  \/ \E c \in calls :
       Mint(c) \/ Revoke(c) \/ Refuse(c) \/ LoseReply(c) \/ Reply(c)

Spec == Init /\ [][Next]_vars

(* Every request is settled in the end, with an answer or an error, and its  *)
(* reply is handled. The user has to do nothing.                             *)
Serve(n) == \E c \in calls : c.id = n /\ (Mint(c) \/ Revoke(c) \/ Refuse(c))
Handle(n) == \E c \in calls : c.id = n /\ Reply(c)

Fairness ==
  \A n \in 1..MaxCalls : WF_vars(Serve(n)) /\ WF_vars(Handle(n))

FairSpec == Spec /\ Fairness

-----------------------------------------------------------------------------
(* The client's fields, the requests under way and the token table have     *)
(* their types, and each request is numbered once (ApiClient.cpp:29-137).    *)
TypeOK ==
  /\ screen \in {"off", "login", "main"}
  /\ held \in Tokens \union {NoToken} /\ saved \in Tokens \union {NoToken}
  /\ button \in {"enabled", "disabled"}
  /\ calls \subseteq Call
  /\ nextCall \in 1..MaxCalls + 1
  /\ minted \in Nat
  /\ revoked \subseteq 1..minted
  /\ strays \subseteq 1..minted
  /\ quits \in 0..MaxQuits
  /\ \A c, d \in calls : c.id = d.id => c = d
  /\ \A c \in calls : c.id < nextCall

(* The client never works with a token that its own sign-out revokes: not    *)
(* after a restart, and not when the revocation is slow and other sign-ins   *)
(* and sign-outs overtake it (MainWindow.cpp:200-205, main.cpp:33).           *)
HeldIsValid ==
  /\ held # NoToken => Valid(held)
  /\ saved # NoToken => Valid(saved)

(* No token stays valid on the server unnoticed: the client has it, a        *)
(* request under way brings or revokes it, or a reply, a failed logout or a  *)
(* change of m_token that forgot it is on record (auth.hpp:176-190,           *)
(* ApiClient.cpp:115-137).                                                    *)
TokensAccountedFor ==
  \A t \in 1..minted :
    \/ t \in revoked \/ t \in strays
    \/ t \in {held, saved}
    \/ \E c \in calls : c.token = t /\ (c.op = "login" \/ Waiting(c))

(* The login dialog always answers: a disabled "Sign in" is enabled again or *)
(* the dialog is left, whatever becomes of the requests                      *)
(* (LoginDialog.cpp:60-88).                                                   *)
DialogResponds ==
  (screen = "login" /\ button = "disabled") ~>
    (screen # "login" \/ button = "enabled")

-----------------------------------------------------------------------------
(* desktop/src/main.cpp:7: signing out goes back to the dialog "so the next  *)
(* session starts cleanly": a signed-in window keeps its token until it is   *)
(* left. The reply to the previous session's logout clears it.               *)
WindowKeepsToken ==
  [][screen = "main" /\ screen' = "main" /\ held # NoToken =>
       held' # NoToken]_vars

-----------------------------------------------------------------------------
(* The inductive invariant behind HeldIsValid and TokensAccountedFor.        *)

(* QSettings follows m_token while the process runs. *)
SavedFollowsHeld ==
  /\ Running => saved = held
  /\ ~ Running => held = NoToken

(* Without a process nothing waits for an answer. *)
OffHasOrphans == ~ Running => \A c \in calls : c.at = "orphan"

(* A token is held, or brought by one reply, or carried by one logout. *)
TokensApart ==
  \A c \in calls : c.token # NoToken =>
    /\ c.token \in 1..minted
    /\ c.token # held /\ c.token # saved
    /\ c.op = "login" => c.at = "ok" /\ c.token \notin revoked
    /\ \A d \in calls : d.token = c.token => d = c

=============================================================================
