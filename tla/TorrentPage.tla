----------------------------- MODULE TorrentPage -----------------------------
(***************************************************************************)
(* The list of torrents (web/client/src/pages/TorrentPage.tsx): the list   *)
(* is what the server last pushed, the selection is the page's own, and    *)
(* some time after a new list is shown an effect takes from the selection  *)
(* what is no longer listed.  A bulk deletion names the selection, or says *)
(* delete_all when it is as long as the list.                              *)
(***************************************************************************)
EXTENDS JobsStore

VARIABLES
  selection,  \* selectedTorrentHashes
  stale,     \* the list has changed and the effect on it has yet to run
  asked,     \* showBulkDeleteModal
  bulk,      \* None or the request under way, [all, hashes, listed, settled]
  doubtful   \* torrentToDelete

pageVars == <<selection, stale, asked, bulk, doubtful>>
torrentVars == <<storeVars, pageVars>>

PageInit == selection = {} /\ stale = FALSE /\ asked = FALSE /\ bulk = None /\ doubtful = None
TorrentInit == StoreInit /\ PageInit

Mount == MountStore /\ UNCHANGED pageVars

\* The page's state goes with it; answers that come later change nothing.
Unmount ==
  /\ CleanUp
  /\ selection' = {} /\ stale' = FALSE /\ asked' = FALSE
  /\ bulk' = None /\ doubtful' = None

\* What the effect leaves of the selection.
Listed == selection \cap torrents

\* onmessage, and the render that shows the list.  An effect that is still
\* pending from the list before runs first.
Push ==
  /\ Open
  /\ torrents' = rows
  /\ selection' = IF stale THEN Listed ELSE selection
  /\ stale' = TRUE
  /\ UNCHANGED <<mounted, ws, timer, socket, rows, asked, bulk, doubtful>>

\* Mutant of Prune: the effect spares itself a selection as long as the list.
PruneByLength ==
  /\ stale
  /\ stale' = FALSE
  /\ selection' = IF Cardinality(selection) = Cardinality(torrents) THEN selection ELSE Listed
  /\ UNCHANGED <<storeVars, asked, bulk, doubtful>>

\* The effect on [torrents].
Prune ==
  /\ stale
  /\ stale' = FALSE
  /\ selection' = Listed
  /\ UNCHANGED <<storeVars, asked, bulk, doubtful>>

Toggle(t) ==
  /\ mounted /\ ~asked /\ t \in torrents
  /\ selection' = (selection \ {t}) \cup ({t} \ selection)
  /\ UNCHANGED <<storeVars, stale, asked, bulk, doubtful>>

ToggleAll ==
  /\ mounted /\ ~asked
  /\ selection' = IF Cardinality(selection) = Cardinality(torrents) THEN {} ELSE torrents
  /\ UNCHANGED <<storeVars, stale, asked, bulk, doubtful>>

AskBulk ==
  /\ mounted /\ bulk = None /\ selection # {}
  /\ asked' = TRUE
  /\ UNCHANGED <<storeVars, selection, stale, bulk, doubtful>>

CancelBulk ==
  /\ asked
  /\ asked' = FALSE
  /\ UNCHANGED <<storeVars, selection, stale, bulk, doubtful>>

\* handleBulkDeleteConfirm up to its await, with the selection and the list of the
\* last render: the effect may not have run on them.
ConfirmBulk ==
  /\ asked /\ bulk = None /\ selection # {}
  /\ bulk' = [all |-> Cardinality(selection) = Cardinality(torrents),
              hashes |-> selection, listed |-> torrents, settled |-> ~stale]
  /\ UNCHANGED <<storeVars, selection, stale, asked, doubtful>>

\* The server has accepted: with delete_all it takes what it has by now.
BulkAccepted ==
  /\ bulk # None
  /\ rows' = IF bulk.all THEN {} ELSE rows \ bulk.hashes
  /\ bulk' = None /\ asked' = FALSE /\ selection' = {}
  /\ UNCHANGED <<mounted, ws, timer, socket, torrents, stale, doubtful>>

BulkRefused ==
  /\ bulk # None
  /\ bulk' = None
  /\ UNCHANGED <<storeVars, selection, stale, asked, doubtful>>

AskDelete(t) ==
  /\ mounted /\ t \in torrents
  /\ doubtful' = t
  /\ UNCHANGED <<storeVars, selection, stale, asked, bulk>>

\* handleDeleteConfirm: an action the store ignores while it is not connected.
ConfirmDelete ==
  /\ doubtful # None
  /\ doubtful' = None
  /\ rows' = IF Open THEN rows \ {doubtful} ELSE rows
  /\ UNCHANGED <<mounted, ws, timer, socket, torrents, selection, stale, asked, bulk>>

CancelDelete ==
  /\ doubtful # None
  /\ doubtful' = None
  /\ UNCHANGED <<storeVars, selection, stale, asked, bulk>>

TorrentNext ==
  \/ Mount \/ Unmount \/ Push \/ Prune \/ ToggleAll
  \/ AskBulk \/ CancelBulk \/ ConfirmBulk \/ BulkAccepted \/ BulkRefused
  \/ ConfirmDelete \/ CancelDelete
  \/ \E t \in Jobs : Toggle(t) \/ AskDelete(t)
  \/ /\ UNCHANGED pageVars
     /\ \/ Renew \/ TimerFires
        \/ \E s \in Sockets : Opens(s) \/ Closes(s)
        \/ \E t \in Jobs : RowsChange(t)

TorrentSpec == TorrentInit /\ [][TorrentNext]_torrentVars /\ StoreFairness
-----------------------------------------------------------------------------
\* When the selection has settled on the list that is shown, "delete all" is
\* said exactly by a user who has selected everything he sees: the page compares
\* two lengths, and they mean the same only if the selection keeps nothing that
\* has gone from the list, however often the list changed before, and the
\* request says what it said whatever is pushed meanwhile.  Before the effect
\* has run the two lengths may agree by accident.
DeleteAllMeansAll ==
  bulk # None /\ bulk.settled => (bulk.all <=> bulk.hashes = bulk.listed)
=============================================================================
