------------------------------- MODULE Windows -------------------------------
(***************************************************************************)
(* The desktop's main windows, one after the other (desktop/src/main.cpp,  *)
(* MainWindow.cpp), and what crosses from one to the next: the ApiClient   *)
(* with the replies still under way, and Qt's message handler, which the   *)
(* logging page installs (LoggingPage.cpp). With them two of the pages     *)
(* that work on their own: the connection test of the settings             *)
(* (SettingsPage.cpp) and the capture process of the live page             *)
(* (LiveStreamPage.cpp).                                                   *)
(*                                                                         *)
(* One list stands for the lists of all pages: asked for when the window   *)
(* is built, shown when the reply comes. Tokens are modelled in Session.   *)
(***************************************************************************)
EXTENDS ApiClient

CONSTANTS
  Users,      \* who signs in
  NoUser,     \* an empty list
  MaxWindows  \* bound: windows built

VARIABLES
  window,    \* the windows built so far; the last one is the number of its own
  open,      \* it exists
  user,      \* whose token the ApiClient holds
  listed,    \* whose data the list shows
  ping,      \* m_pingStatus
  handler,   \* the message handler of Qt
  chained,   \* g_prevHandler
  capture,   \* m_tagcapProc
  lastClick  \* history: the last of Start and Stop Capture

mainWindow == <<window, open>>
settings == <<ping>>
logging == <<handler, chained>>
live == <<capture, lastClick>>
vars == <<calls, clicks, mainWindow, user, listed, settings, logging, live>>

Arg(u, w) == [user |-> u, window |-> w]
List(u, w) == Request("list", Arg(u, w))
Health == Request("health", Arg(user, window))

Init ==
  /\ calls = {} /\ clicks = 0
  /\ window = 0 /\ open = FALSE
  /\ user = NoUser /\ listed = NoUser
  /\ ping = "empty"
  /\ handler = "default" /\ chained = "none"
  /\ capture = "none" /\ lastClick = "none"

-----------------------------------------------------------------------------
(* main(): sign in, build the window, run it until it closes.                *)

(* The constructors of the pages. The LoggingPage keeps the handler there is *)
(* and installs its own.                                                     *)
SettingsBuilt == ping' = "empty"
LoggingBuilt == handler' = "page" /\ chained' = handler
LiveBuilt == capture' = "none" /\ lastClick' = "none"

OpenWindow(u) ==
  /\ ~ open /\ window < MaxWindows
  /\ window' = window + 1 /\ open' = TRUE /\ user' = u
  /\ listed' = NoUser
  /\ SettingsBuilt /\ LoggingBuilt /\ LiveBuilt
  /\ Send({List(u, window + 1)})
  /\ UNCHANGED clicks

(* ~LoggingPage puts the former handler back; a mutant that leaves its own.  *)
LeftInPlace == handler
PutBack == chained

(* onLogoutClicked, and nothing else, leads to another window; closing it    *)
(* while signed in ends the program. The window, its pages and the capture   *)
(* process are destroyed; requests under way stay with the ApiClient.        *)
SignOut ==
  /\ open
  /\ open' = FALSE
  /\ handler' = PutBack
  /\ capture' = "none" /\ lastClick' = "none"
  /\ UNCHANGED <<calls, window, user, listed, ping, chained>>

-----------------------------------------------------------------------------
(* The pages.                                                                *)

(* The refresh of a page. *)
Refresh ==
  /\ open
  /\ Send({List(user, window)})
  /\ UNCHANGED <<window, open, user, listed, ping, logging, live>>

(* SettingsPage::onPingDaemon *)
Ping ==
  /\ open
  /\ ping' = "pinging"
  /\ Send({Health})
  /\ UNCHANGED <<window, open, user, listed, logging, live>>

(* SettingsPage::onSaveDaemonUrl: "Saved. Click 'Test connection' to verify." *)
SaveUrl ==
  /\ open
  /\ ping' = "saved"
  /\ UNCHANGED <<calls, window, open, user, listed, logging, live>>

(* onStartCapture: QProcess::start does nothing while a process runs.        *)
StartCapture ==
  /\ open
  /\ capture' = IF capture = "none" THEN "starting" ELSE capture
  /\ lastClick' = "start"
  /\ UNCHANGED <<calls, window, open, user, listed, ping, logging>>

(* onStopCapture: state() != NotRunning, and a mutant that asks for Running. *)
IsRunning == capture = "running"
IsNotStopped == capture # "none"

StopCapture ==
  /\ open
  /\ capture' = IF IsNotStopped THEN "ending" ELSE capture
  /\ lastClick' = "stop"
  /\ UNCHANGED <<calls, window, open, user, listed, ping, logging>>

User ==
  /\ SignOut \/ Refresh \/ Ping \/ SaveUrl \/ StartCapture \/ StopCapture
  /\ Click

(* Mcaster1TagCap starts, or ends: by itself, terminated, or never started.  *)
CaptureStarts ==
  /\ capture = "starting"
  /\ capture' = "running"
  /\ UNCHANGED <<calls, clicks, window, open, user, listed, ping, logging, lastClick>>

CaptureEnds ==
  /\ capture # "none"
  /\ capture' = "none"
  /\ UNCHANGED <<calls, clicks, window, open, user, listed, ping, logging, lastClick>>

-----------------------------------------------------------------------------
(* The replies. Each goes to the pages there are now.                        *)

(* The token of the request says whose list it is; health needs none.        *)
ReadList(c) == c.op = "list" /\ Answer(c, c.arg.user)
ReadHealth(c) == c.op = "health" /\ Answer(c, NoUser)

Serve(c) ==
  /\ ReadList(c) \/ ReadHealth(c)
  /\ UNCHANGED <<clicks, window, open, user, listed, ping, logging, live>>

ListReceived(c) ==
  /\ c.op = "list"
  /\ Settle(c, {})
  /\ listed' = IF open THEN c.data ELSE listed
  /\ UNCHANGED ping

(* healthReceived *)
HealthReceived(c) ==
  /\ c.op = "health"
  /\ Settle(c, {})
  /\ ping' = IF open THEN "told" ELSE ping
  /\ UNCHANGED listed

(* networkError and apiError of the health request, and a mutant that        *)
(* connects neither.                                                         *)
Unheard(c) == ping
Heard(c) == IF c.op = "health" /\ open THEN "told" ELSE ping

RequestFails(c) ==
  /\ Fail(c)
  /\ ping' = Heard(c)
  /\ UNCHANGED listed

Reply(c) ==
  /\ ListReceived(c) \/ HealthReceived(c) \/ RequestFails(c)
  /\ UNCHANGED <<clicks, window, open, user, logging, live>>

Next ==
  \/ \E u \in Users : OpenWindow(u)
  \/ User \/ CaptureStarts \/ CaptureEnds
  \/ \E c \in calls : Serve(c) \/ Reply(c)

Spec == Init /\ [][Next]_vars

-----------------------------------------------------------------------------
(* Properties.                                                               *)

(* Types of the window and its pages.                                        *)
TypeOK ==
  /\ window \in 0..MaxWindows /\ open \in BOOLEAN
  /\ user \in Users \union {NoUser} /\ listed \in Users \union {NoUser}
  /\ ping \in {"empty", "pinging", "told", "saved"}
  /\ handler \in {"default", "page"} /\ chained \in {"none", "default", "page"}
  /\ capture \in {"none", "starting", "running", "ending"}
  /\ lastClick \in {"none", "start", "stop"}

(* However often the user signs out and in, the page's handler never chains  *)
(* to itself, which would recurse with the first line that is logged         *)
(* (LoggingPage.cpp:57, 74-89).                                              *)
HandlerNotChainedToItself == handler = "page" => chained # "page"

(* What two labels promise. "Pinging..." always has a request of this window *)
(* behind it: whichever way a request ends, whatever former window asked,    *)
(* the label says so (SettingsPage.cpp:92-108, 151-155). After "TagCap       *)
(* terminate sent." no capture is starting or running, even one that was     *)
(* still starting when Stop came (LiveStreamPage.cpp:122-134).               *)
LabelsHold ==
  open =>
    /\ ping = "pinging" => \E c \in calls : c.op = "health" /\ c.arg = Arg(user, window)
    /\ lastClick = "stop" => capture \notin {"starting", "running"}

(* desktop/src/main.cpp:7-8: "Sign out" closes the window "so the next       *)
(* session starts cleanly". A reply that the former window was waiting for   *)
(* is shown by the next one, whoever has signed in.                          *)
ShowsOwnData == open => listed \in {user, NoUser}

=============================================================================
