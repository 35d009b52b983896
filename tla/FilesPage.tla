------------------------------ MODULE FilesPage ------------------------------
(***************************************************************************)
(* The file explorer of the web panel (web/server/src/pages/FilesPage.tsx) *)
(* with the dialogs it awaits (store/dialogStore.ts).  A change of         *)
(* currentPath makes an effect list the directory; an answer sets the      *)
(* files and currentPath together, in the order the answers arrive.  Every *)
(* operation is a closure over the path and the names it was started with, *)
(* and lists its own directory again at its end.  There is one dialog: an  *)
(* alert replaces the question that is open, which nobody then answers.    *)
(***************************************************************************)
EXTENDS PanelPage, Integers, FiniteSets

CONSTANTS
  Dirs,      \* directories of the server
  Names,     \* names of files, the same in every directory
  Root,      \* where the page begins
  Alert,     \* the dialog is an alert
  MaxFetch,  \* listings of one directory in flight at a time (bound)
  MaxOps     \* operations under way at a time (bound)

ASSUME FilesAssumption ==
  /\ Root \in Dirs
  /\ MaxFetch \in Nat \ {0} /\ MaxOps \in Nat

VARIABLES
  currentPath,
  listed,    \* the directory whose files are in the list
  loading,   \* the list is hidden behind a spinner
  listing,   \* directory -> requests for its list in flight
  failed,    \* the last listing of currentPath failed
  selected,  \* selectedItems
  clipboard, \* None or [action, items]; the directory they are from is only data
  ops,       \* operations under way: [kind, dir, items, cut, at]
  dialog     \* None, Alert, or the operation that awaits its answer

listVars == <<currentPath, listed, loading, listing, failed, selected>>
filesVars == <<listVars, clipboard, ops, dialog>>

FilesInit ==
  /\ currentPath = Root /\ listed = None
  /\ loading = TRUE
  /\ listing = [d \in Dirs |-> IF d = Root THEN 1 ELSE 0]
  /\ failed = FALSE
  /\ selected = {}
  /\ clipboard = None
  /\ ops = {} /\ dialog = None

\* fetchFiles up to its await: another request for the list of d.
Listing(d) == listing[d] < MaxFetch /\ listing' = [listing EXCEPT ![d] = @ + 1]
Fetch(d) == Listing(d) /\ loading' = TRUE /\ selected' = {}

\* navigateTo, navigateUp and the breadcrumbs, and the effect they cause.
Navigate(d) ==
  /\ dialog = None
  /\ d # currentPath
  /\ currentPath' = d /\ failed' = FALSE
  /\ Fetch(d)
  /\ UNCHANGED <<listed, clipboard, ops, dialog>>

Refresh ==
  /\ dialog = None
  /\ Fetch(currentPath)
  /\ UNCHANGED <<currentPath, listed, failed, clipboard, ops, dialog>>

\* Mutant of ListingArrives: the path is left as the user has set it.
ListingArrivesBeside(d) ==
  /\ listing[d] > 0
  /\ listing' = [listing EXCEPT ![d] = @ - 1]
  /\ listed' = d /\ loading' = FALSE
  /\ failed' = (failed /\ d # currentPath)
  /\ UNCHANGED <<currentPath, selected, clipboard, ops, dialog>>

\* A listing arrives: its directory becomes the current one, whichever is the
\* current one by now, and if that is a change the effect lists it again.
ListingArrives(d) ==
  /\ listing[d] > 0
  /\ listed' = d /\ currentPath' = d /\ failed' = FALSE
  /\ IF d = currentPath
       THEN /\ listing' = [listing EXCEPT ![d] = @ - 1]
            /\ loading' = FALSE
            /\ UNCHANGED selected
       ELSE /\ loading' = TRUE /\ selected' = {}
            /\ UNCHANGED listing
  /\ UNCHANGED <<clipboard, ops, dialog>>

ListingFails(d) ==
  /\ listing[d] > 0
  /\ listing' = [listing EXCEPT ![d] = @ - 1]
  /\ loading' = FALSE
  /\ failed' = (failed \/ d = currentPath)
  /\ UNCHANGED <<currentPath, listed, selected, clipboard, ops, dialog>>

\* toggleSelectItem, toggleSelectAll and Ctrl+A.
Select(s) ==
  /\ dialog = None /\ ~loading /\ listed # None
  /\ selected' = s
  /\ UNCHANGED <<currentPath, listed, loading, listing, failed, clipboard, ops, dialog>>

\* handleCopy and handleCut; the ones for a single item show no alert.
Take(action, s) ==
  /\ dialog = None
  /\ \/ s = selected /\ s # {} /\ dialog' = Alert
     \/ Cardinality(s) = 1 /\ listed # None /\ ~loading /\ dialog' = None
  /\ clipboard' = [action |-> action, items |-> s]
  /\ UNCHANGED <<listVars, ops>>
-----------------------------------------------------------------------------
\* The operations: for several items, with a request for each; with a single
\* request (a deletion goes like a rename, an upload like a creation); those
\* that ask first, of which renameBulk asks for every item; those that hide the
\* list behind the spinner.
Bulk == {"paste", "deleteSelected", "renameBulk", "extractBulk", "telegramBulk"}
Single == {"rename", "extract", "compress", "toS3", "create"}
Asking == {"rename", "deleteSelected", "extract", "renameBulk"}
Hiding == Bulk \cup {"rename", "extract"}

\* What an operation may be started for: the clipboard, what is selected, or a
\* file of the list or the preview.
Allowed(kind, s) ==
  CASE kind = "paste" -> clipboard # None /\ s = clipboard.items
    [] kind \in {"extractBulk", "telegramBulk"} -> s \subseteq selected
    [] kind \in {"deleteSelected", "renameBulk", "compress"} -> s = selected
    [] kind = "toS3" -> s = selected \/ Cardinality(s) = 1
    [] OTHER -> Cardinality(s) = 1 /\ listed # None

\* After which of its ends an operation shows an alert.
Alerts(kind, result) ==
  \/ kind \in {"telegramBulk", "toS3"}
  \/ kind \in {"extract", "extractBulk", "compress"} /\ result # "error"

\* Whether it lists its directory again.
Refetches(kind, result) ==
  \/ kind \in Bulk \ {"telegramBulk"} /\ result # "error"
  \/ kind \in Single /\ result = "ok"

\* A question takes the dialog; an operation that asks nothing sends its first
\* request at once.
Start(kind, s) ==
  /\ dialog = None
  /\ Cardinality(ops) < MaxOps
  /\ s # {} /\ Allowed(kind, s)
  /\ LET o == [kind |-> kind, dir |-> currentPath, items |-> s,
               cut |-> kind = "paste" /\ clipboard.action = "cut",
               at |-> IF kind \in Asking THEN "ask" ELSE "send"]
     IN /\ o \notin ops
        /\ ops' = ops \cup {o}
        /\ dialog' = IF kind \in Asking THEN o ELSE None
  /\ loading' = (loading \/ kind \in Bulk \ {"deleteSelected"})
  /\ UNCHANGED <<currentPath, listed, listing, failed, selected, clipboard>>

CloseAlert ==
  /\ dialog = Alert
  /\ dialog' = None
  /\ UNCHANGED <<listVars, clipboard, ops>>

\* The user confirms, or enters a name: the request is sent.
Confirm(o) ==
  /\ dialog = o
  /\ dialog' = None
  /\ ops' = (ops \ {o}) \cup {[o EXCEPT !.at = "send"]}
  /\ loading' = TRUE
  /\ UNCHANGED <<currentPath, listed, listing, failed, selected, clipboard>>

\* The end of an operation: the directory it was started in is listed again,
\* and the spinner goes out although that listing has only begun.
Finish(o, refetch) ==
  /\ IF refetch THEN Listing(o.dir) ELSE UNCHANGED listing
  /\ loading' = IF o.kind \in Hiding THEN FALSE ELSE loading \/ refetch
  /\ selected' = IF refetch THEN {} ELSE selected
  /\ ops' = ops \ {o}
  /\ UNCHANGED <<currentPath, listed, failed>>

\* The user cancels: nothing is done, ...
Cancel(o) ==
  /\ dialog = o /\ o.kind # "renameBulk"
  /\ ops' = ops \ {o} /\ dialog' = None
  /\ UNCHANGED <<listVars, clipboard>>

\* ... but for a bulk rename, which goes on behind the item.
Skip(o) ==
  /\ dialog = o /\ o.kind = "renameBulk"
  /\ \E n \in o.items :
       LET p == [o EXCEPT !.items = @ \ {n}] IN
         IF p.items = {} THEN Finish(o, TRUE) /\ dialog' = None
         ELSE /\ ops' = (ops \ {o}) \cup {p} /\ dialog' = p
              /\ UNCHANGED listVars
  /\ UNCHANGED clipboard

\* A request is answered and items are left: the next request or, in a bulk
\* rename, the next question, which replaces any dialog.
NextItem(o) ==
  /\ o.at = "send" /\ o.kind \in Bulk
  /\ \E n \in o.items :
       LET asks == o.kind = "renameBulk"
           p == [o EXCEPT !.items = @ \ {n}, !.at = IF asks THEN "ask" ELSE "send"]
       IN /\ p.items # {}
          /\ ops' = (ops \ {o}) \cup {p}
          /\ dialog' = IF asks THEN p ELSE dialog
  /\ UNCHANGED <<listVars, clipboard>>

\* The last request is answered or refused, or a request fails altogether.
LastItem(o, result) ==
  /\ o.at = "send"
  /\ result = "error" \/ o.kind \in Single \/ Cardinality(o.items) = 1
  /\ Finish(o, Refetches(o.kind, result))
  /\ clipboard' = IF o.cut /\ result # "error" THEN None ELSE clipboard
  /\ dialog' = IF Alerts(o.kind, result) THEN Alert ELSE dialog

FilesNext ==
  \/ \E d \in Dirs : Navigate(d) \/ ListingArrives(d) \/ ListingFails(d)
  \/ Refresh \/ CloseAlert
  \/ \E s \in SUBSET Names :
       \/ Select(s) \/ Take("copy", s) \/ Take("cut", s)
       \/ \E k \in Bulk \cup Single : Start(k, s)
  \/ \E o \in ops :
       \/ Confirm(o) \/ Cancel(o) \/ Skip(o) \/ NextItem(o)
       \/ \E r \in {"ok", "refused", "error"} : LastItem(o, r)

FilesSpec == FilesInit /\ [][FilesNext]_filesVars
-----------------------------------------------------------------------------
\* The list belongs to the path above it, unless that directory is being
\* listed or could not be: however many listings are under way and in whatever
\* order they are answered, and whichever directory an operation lists again
\* at its end, an answer that is not the last one is not left standing beside
\* another path.
ListBelongsToPath ==
  listed = currentPath \/ listing[currentPath] > 0 \/ failed
=============================================================================
