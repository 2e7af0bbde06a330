-------------------------------- MODULE Media --------------------------------
(***************************************************************************)
(* The media library: the desktop's page, its scan and its metadata editor *)
(* (desktop/src/MediaLibraryPage.cpp, ScanProgressDlg.cpp,                 *)
(* MetadataEditorDlg.cpp) over the daemon's media endpoints and the table  *)
(* media_items (daemon/src/main.cpp, sql/001, sql/021).                    *)
(*                                                                         *)
(* A scan sends one upsert per file and counts it as imported at once; the *)
(* page refreshes when the dialog closes, and 200 ms after an edit, without *)
(* waiting for the upserts. The upsert is keyed by the path alone and      *)
(* takes the row over for its caller, whoever held it. A list holds the    *)
(* newest rows up to a limit, and is shown whatever the search field says  *)
(* when it comes.                                                          *)
(***************************************************************************)
EXTENDS ApiClient, Newest

CONSTANTS
  Paths,     \* file_path
  Queries,   \* texts of the search field
  Matches,   \* the paths each of them finds
  Seconds,   \* the values of added_at
  ListLimit, \* the page's limit on a list: 200
  MaxIds     \* bound: ids given by AUTO_INCREMENT

VARIABLES
  items,     \* rows of media_items: [id, path, owner, second], the owner being
             \*   this desktop's user, "me", or another one, and second added_at
  nextId,    \* its AUTO_INCREMENT
  search,    \* m_libSearch
  table,     \* m_libraryRaw: [id, path]
  scan,      \* the open scan: the files it has left; none when it is closed
  dialog,    \* ScanProgressDlg is open
  timer,     \* a refresh is due, 200 ms after an edit
  imported,  \* history: the paths the last scan counted as imported
  lost,      \* history: of those, whose request failed, or that were removed
             \*   or taken over since
  behind     \* history: a failed request, an overtaken reply or an upsert
             \*   left the table behind

database == <<items, nextId>>
scanDialog == <<dialog, scan, imported>>
page == <<search, table, timer, scanDialog>>
vars == <<calls, clicks, database, page, lost, behind>>

Row(id, path, owner, t) == [id |-> id, path |-> path, owner |-> owner, second |-> t]
Mine(rows) == {r \in rows : r.owner = "me"}
Shown(rows) == {[id |-> r.id, path |-> r.path] : r \in rows}

(* WHERE user_id AND the search ORDER BY added_at DESC LIMIT: the lists it    *)
(* may return.                                                               *)
Found(rows, q) ==
  {Shown(some) : some \in Newest({r \in Mine(rows) : r.path \in Matches[q]}, ListLimit)}

Arg(q, p, id) == [text |-> q, path |-> p, id |-> id]
NoText == "none"
List(q) == Request("list", Arg(q, NoText, 0))

Init ==
  /\ \E scanned \in SUBSET Paths :
       \E id \in {f \in [scanned -> 1..Cardinality(scanned)] :
                    \A p, q \in scanned : f[p] = f[q] => p = q},
          second \in [scanned -> Seconds] :
         items = {Row(id[p], p, "me", second[p]) : p \in scanned}
  /\ nextId = Cardinality(items) + 1
  /\ search \in Queries /\ table = {}
  /\ scan = {} /\ dialog = FALSE /\ timer = FALSE /\ imported = {}
  /\ lost = {} /\ behind = FALSE
  /\ calls = {[op |-> "list", arg |-> List(search).arg, n |-> 1, at |-> "sent",
               data |-> Unanswered]}
  /\ clicks = 0

-----------------------------------------------------------------------------
(* The user; the scan is modal.                                              *)

(* onSearchChanged, refresh *)
Search(q) ==
  /\ ~ dialog
  /\ search' = q
  /\ Send({List(q)})
  /\ UNCHANGED <<table, scan, dialog, timer, imported, lost, behind>>

(* The constructor of ScanProgressDlg expands the files.                     *)
OpenScan(files) == dialog' = TRUE /\ scan' = files /\ imported' = {} /\ lost' = {}

(* onAddFiles, onAddFolder *)
AddFiles(files) ==
  /\ ~ dialog
  /\ OpenScan(files)
  /\ UNCHANGED <<calls, search, table, timer, behind>>

(* onCancel, or Close when it is done; then the page refreshes.              *)
CloseScan ==
  /\ dialog
  /\ dialog' = FALSE /\ scan' = {}
  /\ Send({List(search)})
  /\ UNCHANGED <<search, table, timer, imported, lost, behind>>

(* onRemoveSelected: the id is read before the question.                     *)
Remove(r) ==
  /\ ~ dialog /\ r \in table
  /\ Send({Request("delete", Arg(NoText, r.path, r.id))})
  /\ UNCHANGED <<page, lost, behind>>

(* MetadataEditorDlg::onSave: the same upsert, by the path of the row that   *)
(* was loaded.                                                               *)
Metadata(r) == Request("edit", Arg(NoText, r.path, 0))

(* onEditMetadata *)
Edit(r) ==
  /\ ~ dialog /\ r \in table
  /\ Send({Metadata(r)})
  /\ timer' = TRUE
  /\ UNCHANGED <<search, table, scan, dialog, imported, lost, behind>>

User ==
  /\ \/ \E q \in Queries : Search(q)
     \/ \E files \in SUBSET Paths \ {{}} : AddFiles(files)
     \/ CloseScan
     \/ \E r \in table : Remove(r) \/ Edit(r)
  /\ Click
  /\ UNCHANGED database

(* onTick, processOne: counted when it is sent.                              *)
Tick(p) ==
  /\ p \in scan
  /\ scan' = scan \ {p}
  /\ Send({Request("scan", Arg(NoText, p, 0))})
  /\ imported' = imported \union {p}
  /\ UNCHANGED <<clicks, database, search, table, dialog, timer, lost, behind>>

(* The timer of onEditMetadata. *)
TimeOut ==
  /\ timer
  /\ timer' = FALSE
  /\ Send({List(search)})
  /\ UNCHANGED <<clicks, database, search, table, scan, dialog, imported, lost, behind>>

-----------------------------------------------------------------------------
(* The daemon.                                                               *)

ReadMedia(c) ==
  /\ c.op = "list"
  /\ \E some \in Found(items, c.arg.text) : Answer(c, some)
  /\ UNCHANGED <<database, lost, behind>>

(* ON DUPLICATE KEY UPDATE: the row keeps its id and added_at and changes    *)
(* hands. A mutant that keeps the row there is.                              *)
InsertIgnored(p, owner, t) ==
  IF \E r \in items : r.path = p THEN items
  ELSE items \union {Row(nextId, p, owner, t)}
Upserted(p, owner, t) ==
  IF \E r \in items : r.path = p
  THEN {IF r.path = p THEN Row(r.id, p, owner, r.second) ELSE r : r \in items}
  ELSE items \union {Row(nextId, p, owner, t)}

Upsert(p, owner) ==
  /\ nextId <= MaxIds
  /\ \E t \in Seconds : items' = Upserted(p, owner, t)
  /\ nextId' = nextId + 1

(* Nothing on the page reacts to myMediaUpserted.                            *)
SaveMedia(c) ==
  /\ c.op \in {"scan", "edit"}
  /\ Answer(c, {})
  /\ Upsert(c.arg.path, "me")
  /\ behind' = TRUE
  /\ UNCHANGED lost

(* WHERE id AND user_id: a row that changed hands stays, 404. *)
Deleted(c) == {r \in items : r.id = c.arg.id /\ r.owner = "me"}

DeleteMedia(c) ==
  /\ c.op = "delete" /\ Deleted(c) # {}
  /\ Answer(c, {})
  /\ items' = items \ Deleted(c)
  /\ lost' = lost \union {r.path : r \in Deleted(c)}
  /\ UNCHANGED <<nextId, behind>>

Serve(c) ==
  /\ ReadMedia(c) \/ SaveMedia(c) \/ DeleteMedia(c)
  /\ UNCHANGED <<clicks, page>>

(* Another user's desktop scans a file of the same path.                     *)
OtherScans(p) ==
  /\ Upsert(p, "other")
  /\ lost' = lost \union {p}
  /\ behind' = TRUE
  /\ UNCHANGED <<calls, clicks, page>>

-----------------------------------------------------------------------------
(* The replies.                                                              *)

(* onMyMediaReceived: for whatever search. *)
MediaReceived(c) ==
  /\ c.op = "list"
  /\ Settle(c, {})
  /\ table' = c.data
  /\ behind' = IF c.data \in Found(items, search) THEN FALSE
               ELSE table \in Found(items, search) \/ c.arg.text # search \/ behind
  /\ UNCHANGED <<search, scan, dialog, timer, imported, lost>>

(* onMyMediaDeleted, and a mutant that leaves it to the next search.         *)
KeepTable == {}
RefreshTable == {List(search)}

MediaDeleted(c) ==
  /\ c.op = "delete"
  /\ Settle(c, RefreshTable)
  /\ UNCHANGED <<page, lost, behind>>

MediaUpserted(c) ==
  /\ c.op \in {"scan", "edit"}
  /\ Settle(c, {})
  /\ UNCHANGED <<page, lost, behind>>

Handle(c) ==
  /\ MediaReceived(c) \/ MediaDeleted(c) \/ MediaUpserted(c)
  /\ UNCHANGED <<clicks, database>>

RequestFails(c) ==
  /\ Fail(c)
  /\ lost' = IF c.op = "scan" THEN lost \union {c.arg.path} ELSE lost
  /\ behind' = TRUE
  /\ UNCHANGED <<clicks, database, page>>

Next ==
  \/ User \/ TimeOut
  \/ \E p \in Paths : Tick(p) \/ OtherScans(p)
  \/ \E c \in calls : Serve(c) \/ Handle(c) \/ RequestFails(c)

Spec == Init /\ [][Next]_vars

-----------------------------------------------------------------------------
(* Properties.                                                               *)

(* Types of the table, the page and the histories.                           *)
TypeOK ==
  /\ items \subseteq [id : 1..MaxIds, path : Paths, owner : {"me", "other"},
                     second : Seconds]
  /\ nextId \in Nat
  /\ search \in Queries /\ table \subseteq [id : 1..MaxIds, path : Paths]
  /\ scan \subseteq Paths /\ imported \subseteq Paths /\ lost \subseteq Paths
  /\ dialog \in BOOLEAN /\ timer \in BOOLEAN /\ behind \in BOOLEAN

(* "n imported": a file the scan counted, which it does when it sends it, is *)
(* in the user's library, on its way there, or its request failed, or it was *)
(* removed or taken over since (ScanProgressDlg.cpp:85-141,                  *)
(* main.cpp:1716-1737).                                                      *)
ScanAccounted ==
  \A p \in imported \ lost :
    \/ \E r \in items : r.path = p /\ r.owner = "me"
    \/ \E c \in calls : c.op = "scan" /\ c.arg.path = p /\ c.at = "sent"

(* A table that the search cannot find is about to be refreshed, or an       *)
(* upsert, a failed request or a crossed reply left it behind: a removed row *)
(* goes from it without a further click (MediaLibraryPage.cpp:178-221).      *)
MediaExplained ==
  table \notin Found(items, search) /\ ~ behind =>
    \E c \in calls :
      \/ c.op = "delete"
      \/ /\ c.op = "list"
         /\ \/ c.at = "sent" /\ c.arg.text = search
            \/ c.at = "answered" /\ c.data \in Found(items, search)

=============================================================================
