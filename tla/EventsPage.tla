----------------------------- MODULE EventsPage -----------------------------
(***************************************************************************)
(* The desktop's events page (desktop/src/EventsPage.cpp) over the         *)
(* broadcast events of its user (daemon/src/main.cpp, sql/020).            *)
(*                                                                         *)
(* "Toggle Enabled" sends the negation of what the table shows, not a      *)
(* toggle; the daemon answers an update that changes nothing with 404.     *)
(* Every list refills the table and so drops the selection; the run log    *)
(* takes the runs of whatever event a reply is for, and nothing clears it. *)
(* Nothing in this code base runs an event or writes event_run_log: the    *)
(* log is modelled by the event whose runs it shows.                       *)
(***************************************************************************)
EXTENDS ApiClient

CONSTANTS
  Events,  \* the ids that may be given
  NoEvent  \* no selection, an empty run log

VARIABLES
  enabled,  \* broadcast_events of the user: id -> enabled
  used,     \* the ids ever given
  table,    \* m_eventsRaw, the rows of m_events: id -> enabled
  selected, \* selectedEventId()
  log,      \* the event whose runs m_runLog shows
  behind    \* history: "table" after a failed request or an overtaken reply
            \*   left the table behind, "log" after a reply for another event

database == <<enabled, used>>
page == <<table, selected, log>>
vars == <<calls, clicks, database, page, behind>>

Arg(e, on) == [event |-> e, on |-> on]
List == Request("events", Arg(NoEvent, FALSE))

NoRows == [e \in {} |-> TRUE]

Init ==
  /\ used \in SUBSET Events
  /\ enabled \in [used -> BOOLEAN]
  /\ table = NoRows /\ selected = NoEvent /\ log = NoEvent
  /\ behind = {}
  /\ calls = {[op |-> "events", arg |-> List.arg, n |-> 1, at |-> "sent", data |-> Unanswered]}
  /\ clicks = 0

-----------------------------------------------------------------------------
(* The user.                                                                 *)

(* refresh *)
Refresh == Send({List}) /\ UNCHANGED <<page, behind>>

(* onRowSelectionChanged *)
Select(e) ==
  /\ e \in DOMAIN table \ {selected}
  /\ selected' = e
  /\ Send({Request("runs", Arg(e, FALSE))})
  /\ behind' = behind \ {"log"}
  /\ UNCHANGED <<table, log>>

(* onAdd *)
Add ==
  /\ Send({Request("create", Arg(NoEvent, TRUE))})
  /\ UNCHANGED <<page, behind>>

(* onToggleEnabled *)
ToggleEnabled ==
  /\ selected # NoEvent
  /\ Send({Request("update", Arg(selected, ~ table[selected]))})
  /\ UNCHANGED <<page, behind>>

(* onDelete: the row is read before the question; the answer deletes it,     *)
(* whatever the table shows by then.                                         *)
Delete ==
  /\ selected # NoEvent
  /\ Send({Request("delete", Arg(selected, FALSE))})
  /\ UNCHANGED <<page, behind>>

User ==
  /\ Refresh \/ Add \/ ToggleEnabled \/ Delete \/ \E e \in Events : Select(e)
  /\ Click
  /\ UNCHANGED database

-----------------------------------------------------------------------------
(* The daemon: one statement each, and one more before the runs are read. A  *)
(* refusal is RequestFails.                                                  *)

ReadEvents(c) == c.op = "events" /\ Answer(c, enabled) /\ UNCHANGED database

ReadRuns(c) ==
  /\ c.op = "runs" /\ c.arg.event \in DOMAIN enabled
  /\ Answer(c, NoRows)
  /\ UNCHANGED database

CreateEvent(c) ==
  /\ c.op = "create"
  /\ Answer(c, NoRows)
  /\ \E e \in Events \ used :
       /\ used' = used \union {e}
       /\ enabled' = [x \in DOMAIN enabled \union {e} |-> IF x = e THEN c.arg.on ELSE enabled[x]]

(* exec() counts the rows that changed: of two clicks on one stale row the   *)
(* second is answered 404.                                                   *)
Affected(e, on) == e \in DOMAIN enabled /\ enabled[e] # on

UpdateEvent(c) ==
  LET e == c.arg.event IN
  /\ c.op = "update" /\ Affected(e, c.arg.on)
  /\ Answer(c, NoRows)
  /\ enabled' = [enabled EXCEPT ![e] = c.arg.on]
  /\ UNCHANGED used

DeleteEvent(c) ==
  /\ c.op = "delete" /\ c.arg.event \in DOMAIN enabled
  /\ Answer(c, NoRows)
  /\ enabled' = [x \in DOMAIN enabled \ {c.arg.event} |-> enabled[x]]
  /\ UNCHANGED used

Serve(c) ==
  /\ \/ ReadEvents(c) \/ ReadRuns(c) \/ CreateEvent(c) \/ UpdateEvent(c)
     \/ DeleteEvent(c)
  /\ UNCHANGED <<clicks, page, behind>>

-----------------------------------------------------------------------------
(* The replies.                                                              *)

(* onMyEventsReceived: setRowCount(0) drops the selection.                   *)
EventsReceived(c) ==
  /\ c.op = "events"
  /\ Settle(c, {})
  /\ table' = c.data /\ selected' = NoEvent
  /\ behind' = IF c.data = enabled THEN behind \ {"table"}
               ELSE IF table = enabled THEN behind \union {"table"}
               ELSE behind
  /\ UNCHANGED log

(* onMyEventCreated, onMyEventUpdated, onMyEventDeleted: refresh, and a      *)
(* mutant that only reports.                                                 *)
ReportOnly == {}
RefreshEvents == {List}

EventChanged(c) ==
  /\ c.op \in {"create", "update", "delete"}
  /\ Settle(c, RefreshEvents)
  /\ UNCHANGED <<page, behind>>

(* onMyEventRunsReceived: for whatever event. *)
RunsReceived(c) ==
  /\ c.op = "runs"
  /\ Settle(c, {})
  /\ log' = c.arg.event
  /\ behind' = IF c.arg.event = selected THEN behind \ {"log"} ELSE behind \union {"log"}
  /\ UNCHANGED <<table, selected>>

Handle(c) ==
  /\ EventsReceived(c) \/ EventChanged(c) \/ RunsReceived(c)
  /\ UNCHANGED <<clicks, database>>

(* Refused, or lost with the connection: nothing on the page reacts.         *)
RequestFails(c) ==
  /\ Fail(c)
  /\ behind' = behind \union (IF c.op = "runs" THEN {"log"} ELSE {"table"})
  /\ UNCHANGED <<clicks, database, page>>

Next ==
  \/ User
  \/ \E c \in calls : Serve(c) \/ Handle(c) \/ RequestFails(c)

Spec == Init /\ [][Next]_vars

-----------------------------------------------------------------------------
(* Properties.                                                               *)

(* Types of the table in the database and of the page.                       *)
TypeOK ==
  /\ used \subseteq Events
  /\ DOMAIN enabled \subseteq used /\ \A e \in DOMAIN enabled : enabled[e] \in BOOLEAN
  /\ DOMAIN table \subseteq used /\ \A e \in DOMAIN table : table[e] \in BOOLEAN
  /\ selected \in DOMAIN table \union {NoEvent}
  /\ log \in used \union {NoEvent} /\ behind \subseteq {"table", "log"}

(* A table or run log that is not up to date is about to be, unless a        *)
(* request failed or a reply was overtaken: a list drops the selection under *)
(* the user, but never the requests it caused (EventsPage.cpp:152-207).      *)
EventsExplained ==
  /\ table # enabled /\ "table" \notin behind =>
       \E c \in calls : c.op \in {"create", "update", "delete"}
                        \/ (c.op = "events" /\ (c.at = "sent" \/ c.data = enabled))
  /\ selected # NoEvent /\ log # selected /\ "log" \notin behind =>
       \E c \in calls : c.op = "runs" /\ c.arg.event = selected

=============================================================================
