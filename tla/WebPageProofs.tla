---------------------------- MODULE WebPageProofs ----------------------------
(***************************************************************************)
(* The pages of the web panels: the list of the file explorer belongs to   *)
(* the path above it, the jobs store has one connection, the bulk deletion *)
(* of torrents and the wizard that adds them delete what they should, and  *)
(* the cache of places asks for each address once at a time; for any       *)
(* directories, files, sockets, torrents and addresses and any number of   *)
(* requests under way.                                                     *)
(***************************************************************************)
EXTENDS FilesPage, TorrentPage, AddTorrent, GeoStore, FiniteSetTheorems, TLAPS

-----------------------------------------------------------------------------
(* The file explorer. *)

\* The part of the type invariant that the argument needs: the current path is a
\* directory, and the listings in flight are counted for each directory.
Paths == currentPath \in Dirs /\ listing \in [Dirs -> Nat]

FilesInv == Paths /\ ListBelongsToPath

\* A request for a list only adds to what is in flight.
LEMMA ListingAdds ==
  ASSUME Paths, NEW d \in Dirs, Listing(d)
  PROVE  /\ listing' \in [Dirs -> Nat]
         /\ listing'[d] > 0
         /\ \A e \in Dirs : listing[e] > 0 => listing'[e] > 0
BY DEF Paths, Listing

\* Operations are records, and list the directory they were started in.
Ops == [kind : Bulk \cup Single, dir : Dirs, items : SUBSET Names, cut : BOOLEAN,
        at : {"ask", "send"}]
OpsInDirs == ops \subseteq Ops

LEMMA FinishKeeps ==
  ASSUME FilesInv, OpsInDirs, NEW o \in ops, NEW b \in BOOLEAN, Finish(o, b)
  PROVE  FilesInv' /\ OpsInDirs'
<1>1. Paths' /\ \A e \in Dirs : listing[e] > 0 => listing'[e] > 0
  <2>1. CASE b
    <3>1. o.dir \in Dirs /\ Listing(o.dir)
      BY <2>1 DEF OpsInDirs, Ops, Finish
    <3> QED BY <3>1, ListingAdds DEF FilesInv, Paths, Finish
  <2>2. CASE ~b
    BY <2>2 DEF FilesInv, Paths, Finish
  <2> QED BY <2>1, <2>2
<1>2. ListBelongsToPath'
  BY <1>1 DEF FilesInv, Paths, ListBelongsToPath, Finish
<1>3. OpsInDirs'
  BY DEF OpsInDirs, Finish
<1> QED BY <1>1, <1>2, <1>3 DEF FilesInv

\* Every action of the page keeps the invariant.
LEMMA FilesStep ==
  ASSUME FilesInv, OpsInDirs, [FilesNext]_filesVars
  PROVE  FilesInv' /\ OpsInDirs'
<1>1. CASE \E d \in Dirs : Navigate(d)
  <2>1. PICK d \in Dirs : Navigate(d)
    BY <1>1
  <2>2. Listing(d)
    BY <2>1 DEF Navigate, Fetch
  <2>3. FilesInv'
    BY <2>1, <2>2, ListingAdds DEF FilesInv, Paths, ListBelongsToPath, Navigate
  <2> QED BY <2>1, <2>3 DEF OpsInDirs, Navigate
<1>2. CASE \E d \in Dirs : ListingArrives(d)
  <2>1. PICK d \in Dirs : ListingArrives(d)
    BY <1>2
  <2>2. Paths'
    BY <2>1 DEF FilesInv, Paths, ListingArrives
  <2>3. ListBelongsToPath'
    BY <2>1 DEF ListBelongsToPath, ListingArrives
  <2> QED BY <2>1, <2>2, <2>3 DEF FilesInv, OpsInDirs, ListingArrives
<1>3. CASE \E d \in Dirs : ListingFails(d)
  <2>1. PICK d \in Dirs : ListingFails(d)
    BY <1>3
  <2>2. Paths'
    BY <2>1 DEF FilesInv, Paths, ListingFails
  <2>3. ListBelongsToPath'
    BY <2>1 DEF FilesInv, Paths, ListBelongsToPath, ListingFails
  <2> QED BY <2>1, <2>2, <2>3 DEF FilesInv, OpsInDirs, ListingFails
<1>4. CASE Refresh
  <2>1. Listing(currentPath) /\ currentPath \in Dirs
    BY <1>4 DEF Refresh, Fetch, FilesInv, Paths
  <2>2. FilesInv'
    BY <1>4, <2>1, ListingAdds DEF FilesInv, Paths, ListBelongsToPath, Refresh
  <2> QED BY <1>4, <2>2 DEF OpsInDirs, Refresh
<1>5. CASE \E s \in SUBSET Names, k \in Bulk \cup Single : Start(k, s)
  <2>1. PICK s \in SUBSET Names, k \in Bulk \cup Single : Start(k, s)
    BY <1>5
  <2>2. FilesInv'
    BY <2>1 DEF FilesInv, Paths, ListBelongsToPath, Start
  <2>3. currentPath \in Dirs
    BY DEF FilesInv, Paths
  <2>4. OpsInDirs'
    <3> DEFINE cut == k = "paste" /\ clipboard.action = "cut"
               at == IF k \in Asking THEN "ask" ELSE "send"
               o == [kind |-> k, dir |-> currentPath, items |-> s, cut |-> cut, at |-> at]
    <3>1. ops' = ops \cup {o}
      BY <2>1 DEF Start
    <3>2. cut \in BOOLEAN /\ at \in {"ask", "send"}
      OBVIOUS
    <3> HIDE DEF cut, at
    <3>3. o \in Ops
      BY <2>3, <3>2 DEF Ops
    <3> HIDE DEF o
    <3> QED BY <3>1, <3>3 DEF OpsInDirs
  <2> QED BY <2>2, <2>4
<1>6. CASE \E o \in ops : Skip(o)
  <2>1. PICK o \in ops : Skip(o)
    BY <1>6
  <2>2. PICK n \in o.items :
          LET p == [o EXCEPT !.items = @ \ {n}] IN
            IF p.items = {} THEN Finish(o, TRUE) /\ dialog' = None
            ELSE /\ ops' = (ops \ {o}) \cup {p} /\ dialog' = p
                 /\ UNCHANGED listVars
    BY <2>1 DEF Skip
  <2>3. CASE Finish(o, TRUE)
    BY <2>3, FinishKeeps
  <2>4. CASE ~Finish(o, TRUE)
    <3> DEFINE p == [o EXCEPT !.items = @ \ {n}]
    <3>1. ops' = (ops \ {o}) \cup {p} /\ UNCHANGED listVars
      BY <2>2, <2>4
    <3>2. p \in Ops
      BY DEF OpsInDirs, Ops
    <3> HIDE DEF p
    <3> QED BY <3>1, <3>2 DEF FilesInv, Paths, ListBelongsToPath, OpsInDirs, listVars
  <2> QED BY <2>3, <2>4
<1>7. CASE \E o \in ops : Confirm(o) \/ Cancel(o) \/ NextItem(o)
  <2>1. PICK o \in ops : Confirm(o) \/ Cancel(o) \/ NextItem(o)
    BY <1>7
  <2>2. currentPath' = currentPath /\ listed' = listed /\ listing' = listing /\ failed' = failed
    BY <2>1 DEF Confirm, Cancel, NextItem, listVars
  <2>3. CASE Confirm(o)
    <3>1. [o EXCEPT !.at = "send"] \in Ops
      BY DEF OpsInDirs, Ops
    <3>2. ops' = (ops \ {o}) \cup {[o EXCEPT !.at = "send"]}
      BY <2>3 DEF Confirm
    <3> QED BY <2>2, <3>1, <3>2 DEF FilesInv, Paths, ListBelongsToPath, OpsInDirs
  <2>4. CASE Cancel(o)
    BY <2>2, <2>4 DEF FilesInv, Paths, ListBelongsToPath, OpsInDirs, Cancel
  <2>5. CASE NextItem(o)
    <3> DEFINE p(n) == [o EXCEPT !.items = @ \ {n},
                         !.at = IF o.kind = "renameBulk" THEN "ask" ELSE "send"]
    <3>1. PICK n \in o.items : ops' = (ops \ {o}) \cup {p(n)}
      BY <2>5 DEF NextItem
    <3>2. p(n) \in Ops
      BY DEF OpsInDirs, Ops
    <3> HIDE DEF p
    <3>3. OpsInDirs'
      BY <3>1, <3>2 DEF OpsInDirs
    <3> QED BY <2>2, <3>3 DEF FilesInv, Paths, ListBelongsToPath
  <2> QED BY <2>1, <2>3, <2>4, <2>5
<1>8. CASE \E o \in ops, r \in {"ok", "refused", "error"} : LastItem(o, r)
  <2>1. PICK o \in ops, r \in {"ok", "refused", "error"} : LastItem(o, r)
    BY <1>8
  <2>2. Finish(o, Refetches(o.kind, r)) /\ Refetches(o.kind, r) \in BOOLEAN
    BY <2>1 DEF LastItem, Refetches
  <2> QED BY <2>2, FinishKeeps
<1>9. CASE UNCHANGED <<currentPath, listed, listing, failed, ops>>
  BY <1>9 DEF FilesInv, Paths, ListBelongsToPath, OpsInDirs
<1>10. CASE CloseAlert \/ \E s \in SUBSET Names : Select(s) \/ Take("copy", s) \/ Take("cut", s)
  <2>1. UNCHANGED <<currentPath, listed, listing, failed, ops>>
    BY <1>10 DEF CloseAlert, Select, Take, listVars
  <2> QED BY <2>1, <1>9
<1>11. CASE UNCHANGED filesVars
  BY <1>11, <1>9 DEF filesVars, listVars
<1> QED
  BY <1>1, <1>2, <1>3, <1>4, <1>5, <1>6, <1>7, <1>8, <1>10, <1>11 DEF FilesNext

\* However many listings and operations are under way, and whatever order they
\* are answered in: the files shown are those of the path shown, or that path is
\* being listed, or could not be.
THEOREM ListFollowsPath == FilesSpec => []ListBelongsToPath
<1>1. FilesInit => FilesInv /\ OpsInDirs
  BY FilesAssumption DEF FilesInit, FilesInv, Paths, ListBelongsToPath, OpsInDirs
<1>2. FilesInv /\ OpsInDirs /\ [FilesNext]_filesVars => FilesInv' /\ OpsInDirs'
  BY FilesStep
<1>3. FilesInv => ListBelongsToPath
  BY DEF FilesInv
<1> QED BY <1>1, <1>2, <1>3, PTL DEF FilesSpec

-----------------------------------------------------------------------------
(* The jobs store. *)

StoreType ==
  /\ socket \in [Sockets -> {"closed", "connecting", "open"}]
  /\ mounted \in BOOLEAN /\ timer \in BOOLEAN

StoreInv == StoreType /\ OneSocket

\* A connection that is made while all sockets are closed is the only one.
LEMMA ConnectsOne ==
  ASSUME NEW f \in [Sockets -> {"closed", "connecting", "open"}],
         \A s \in Sockets : f[s] = "closed",
         Connect(f), mounted', ~timer', timer' \in BOOLEAN, mounted' \in BOOLEAN
  PROVE  StoreInv'
<1>1. PICK s \in Sockets : ws' = s /\ socket' = [f EXCEPT ![s] = "connecting"]
  BY DEF Connect
<1>2. StoreType'
  BY <1>1 DEF StoreType
<1>3. {t \in Sockets : socket'[t] # "closed"} = {ws'}
  BY <1>1
<1> QED BY <1>2, <1>3 DEF StoreInv, OneSocket

\* What the cleanup leaves: no connection.
LEMMA ReleasedIsClosed ==
  ASSUME None \notin Sockets, StoreInv, mounted
  PROVE  /\ Released \in [Sockets -> {"closed", "connecting", "open"}]
         /\ \A s \in Sockets : Released[s] = "closed"
<1>1. Released \in [Sockets -> {"closed", "connecting", "open"}]
  BY DEF StoreInv, StoreType, Released
<1>2. ASSUME NEW s \in Sockets PROVE Released[s] = "closed"
  <2>1. CASE socket[s] = "closed"
    BY <2>1 DEF StoreInv, StoreType, Released
  <2>2. CASE socket[s] # "closed"
    <3>1. s \in {t \in Sockets : socket[t] # "closed"}
      BY <2>2
    <3>2. s = ws
      BY <3>1 DEF StoreInv, OneSocket
    <3> QED BY <3>2 DEF StoreInv, StoreType, Released
  <2> QED BY <2>1, <2>2
<1> QED BY <1>1, <1>2

\* With a timer pending, or no page shown, every socket is closed.
LEMMA NoneIsOpen ==
  ASSUME StoreInv, ~mounted \/ timer, NEW s \in Sockets
  PROVE  socket[s] = "closed"
<1>1. s \notin {t \in Sockets : socket[t] # "closed"}
  BY DEF StoreInv, OneSocket
<1> QED BY <1>1

LEMMA StoreStep ==
  ASSUME None \notin Sockets, StoreInv, [TorrentNext]_torrentVars
  PROVE  StoreInv'
<1>1. CASE MountStore
  BY <1>1, NoneIsOpen, ConnectsOne DEF MountStore, StoreInv, StoreType, OneSocket
<1>2. CASE CleanUp
  <2>1. socket' = Released /\ ~mounted' /\ ~timer' /\ mounted' \in BOOLEAN /\ timer' \in BOOLEAN
    BY <1>2 DEF CleanUp
  <2>2. \A s \in Sockets : socket'[s] = "closed"
    BY <1>2, <2>1, ReleasedIsClosed DEF CleanUp
  <2>3. StoreType'
    BY <1>2, <2>1, ReleasedIsClosed DEF CleanUp, StoreType
  <2>4. {s \in Sockets : socket'[s] # "closed"} = {}
    BY <2>2
  <2> QED BY <2>1, <2>3, <2>4 DEF StoreInv, OneSocket
<1>3. CASE Renew
  BY <1>3, ReleasedIsClosed, ConnectsOne DEF Renew
<1>4. CASE TimerFires
  BY <1>4, NoneIsOpen, ConnectsOne DEF TimerFires, StoreInv, StoreType, OneSocket
<1>5. CASE \E s \in Sockets : Opens(s)
  <2>1. PICK s \in Sockets : Opens(s)
    BY <1>5
  <2>2. StoreType'
    BY <2>1 DEF Opens, StoreInv, StoreType
  <2>3. \A t \in Sockets : socket'[t] # "closed" <=> socket[t] # "closed"
    BY <2>1 DEF Opens, StoreInv, StoreType
  <2>4. {t \in Sockets : socket'[t] # "closed"} = {t \in Sockets : socket[t] # "closed"}
    BY <2>3
  <2> QED BY <2>1, <2>2, <2>4 DEF Opens, StoreInv, OneSocket
<1>6. CASE \E s \in Sockets : Closes(s)
  <2>1. PICK s \in Sockets : Closes(s)
    BY <1>6
  <2>2. StoreType'
    BY <2>1 DEF Closes, StoreInv, StoreType
  <2>3. s \in {t \in Sockets : socket[t] # "closed"}
    BY <2>1 DEF Closes
  <2>4. mounted /\ {t \in Sockets : socket[t] # "closed"} = {s}
    BY <2>3 DEF StoreInv, OneSocket
  <2>5. \A t \in Sockets : socket'[t] = "closed"
    BY <2>1, <2>4 DEF Closes, StoreInv, StoreType
  <2>6. {t \in Sockets : socket'[t] # "closed"} = {}
    BY <2>5
  <2> QED BY <2>1, <2>2, <2>4, <2>6 DEF Closes, StoreInv, OneSocket
<1>7. CASE UNCHANGED <<mounted, ws, timer, socket>>
  BY <1>7 DEF StoreInv, StoreType, OneSocket
<1>8. CASE \/ Push \/ Prune \/ ToggleAll \/ AskBulk \/ CancelBulk \/ ConfirmBulk \/ BulkAccepted
           \/ BulkRefused \/ ConfirmDelete \/ CancelDelete \/ UNCHANGED torrentVars
           \/ \E t \in Jobs : Toggle(t) \/ AskDelete(t) \/ RowsChange(t)
  <2>1. UNCHANGED <<mounted, ws, timer, socket>>
    BY <1>8 DEF Push, Prune, ToggleAll, AskBulk, CancelBulk, ConfirmBulk, BulkAccepted,
                BulkRefused, ConfirmDelete, CancelDelete, Toggle, AskDelete, RowsChange,
                torrentVars, storeVars
  <2> QED BY <2>1, <1>7
<1> QED
  BY <1>1, <1>2, <1>3, <1>4, <1>5, <1>6, <1>8 DEF TorrentNext, Mount, Unmount

\* However often the effects of pages are cleaned up and run again, and however
\* connections fail: a page has one connection or one timer, and no page, none.
THEOREM OneConnection ==
  ASSUME None \notin Sockets
  PROVE  TorrentSpec => []OneSocket
<1>1. TorrentInit => StoreInv
  <2>1. SUFFICES ASSUME TorrentInit PROVE StoreInv
    OBVIOUS
  <2>2. {s \in Sockets : socket[s] # "closed"} = {}
    BY <2>1 DEF TorrentInit, StoreInit
  <2> QED BY <2>1, <2>2 DEF TorrentInit, StoreInit, StoreInv, StoreType, OneSocket
<1>2. StoreInv /\ [TorrentNext]_torrentVars => StoreInv'
  BY StoreStep
<1>3. StoreInv => OneSocket
  BY DEF StoreInv
<1> QED BY <1>1, <1>2, <1>3, PTL DEF TorrentSpec
-----------------------------------------------------------------------------
(* The list of torrents. *)

\* The selection keeps what has gone from the list only as long as the effect on
\* the list is pending.
Selected ==
  /\ ~stale => selection \subseteq torrents
  /\ torrents \subseteq Jobs /\ rows \subseteq Jobs /\ selection \subseteq Jobs

PageInv == Selected /\ DeleteAllMeansAll

LEMMA PageStep ==
  ASSUME IsFiniteSet(Jobs), PageInv, [TorrentNext]_torrentVars
  PROVE  PageInv'
<1>1. Selected'
  BY DEF PageInv, Selected, TorrentNext, Mount, MountStore, Unmount, CleanUp, Push, Prune, Listed,
         Toggle, ToggleAll, AskBulk, CancelBulk, ConfirmBulk, BulkAccepted, BulkRefused, AskDelete,
         ConfirmDelete, CancelDelete, Renew, TimerFires, Opens, Closes, RowsChange,
         torrentVars, storeVars, pageVars
<1>2. DeleteAllMeansAll'
  <2>1. CASE ConfirmBulk
    <3>1. IsFiniteSet(torrents) /\ (~stale => selection \subseteq torrents)
      BY FS_Subset DEF PageInv, Selected
    <3>2. ~stale => (Cardinality(selection) = Cardinality(torrents) <=> selection = torrents)
      BY <3>1, FS_Subset
    <3>3. bulk' = [all |-> Cardinality(selection) = Cardinality(torrents),
                   hashes |-> selection, listed |-> torrents, settled |-> ~stale]
      BY <2>1 DEF ConfirmBulk
    <3>4. /\ bulk'.all <=> Cardinality(selection) = Cardinality(torrents)
          /\ bulk'.hashes = selection /\ bulk'.listed = torrents
          /\ bulk'.settled <=> ~stale
      BY <3>3
    <3> QED BY <3>2, <3>4 DEF DeleteAllMeansAll
  <2>2. CASE UNCHANGED bulk \/ bulk' = None
    BY <2>2 DEF PageInv, DeleteAllMeansAll
  <2>3. CASE ~ConfirmBulk
    <3>1. UNCHANGED bulk \/ bulk' = None
      BY <2>3 DEF TorrentNext, Mount, Unmount, Push, Prune, Toggle, ToggleAll, AskBulk,
             CancelBulk, BulkAccepted, BulkRefused, AskDelete, ConfirmDelete, CancelDelete,
             torrentVars, storeVars, pageVars
    <3> QED BY <3>1, <2>2
  <2> QED BY <2>1, <2>3
<1> QED BY <1>1, <1>2 DEF PageInv

\* However the list changes under the selection, before, during and after the
\* question: once the effect has run on the list that is shown, "delete all" is
\* said exactly of a complete selection.
THEOREM DeletesWhatIsSelected ==
  ASSUME IsFiniteSet(Jobs)
  PROVE  TorrentSpec => []DeleteAllMeansAll
<1>1. TorrentInit => PageInv
  BY DEF TorrentInit, StoreInit, PageInit, PageInv, Selected, DeleteAllMeansAll
<1>2. PageInv /\ [TorrentNext]_torrentVars => PageInv'
  BY PageStep
<1>3. PageInv => DeleteAllMeansAll
  BY DEF PageInv
<1> QED BY <1>1, <1>2, <1>3, PTL DEF TorrentSpec

-----------------------------------------------------------------------------
(* The wizard that adds torrents. *)

\* The hash that Cancel would delete is that of a stored torrent which the user
\* has not let go, or which was the answer to a submission since: whatever adds
\* to kept clears it.
HashIsOurs == added # None => added \in stored /\ (added \notin kept \/ added \in again)

AddInv == stored \subseteq Hashes /\ KeptIsKept /\ HashIsOurs

LEMMA AddStep ==
  ASSUME None \notin Hashes, AddInv, [AddNext]_addVars
  PROVE  AddInv'
<1>1. CASE \E h \in Hashes : ToBeChosen(h)
  BY <1>1 DEF ToBeChosen, AddInv, KeptIsKept, HashIsOurs
<1>2. CASE \E h \in Hashes : AddedOneOf(h) \/ \E k \in Kinds : Added(k, h)
  BY <1>2 DEF AddedOneOf, Added, AddInv, KeptIsKept, HashIsOurs
<1>3. CASE \E b \in BOOLEAN : CancelAdd(b)
  <2>1. PICK b \in BOOLEAN : CancelAdd(b)
    BY <1>3
  <2>2. kept \subseteq stored' \cup again /\ stored' \subseteq Hashes
    BY <2>1 DEF CancelAdd, AddInv, KeptIsKept, HashIsOurs
  <2> QED BY <2>1, <2>2 DEF CancelAdd, Closed, AddInv, KeptIsKept, HashIsOurs
<1>4. CASE RunInBackground
  BY <1>4 DEF RunInBackground, Closed, AddInv, KeptIsKept, HashIsOurs
<1>5. CASE \E h \in Hashes, ok \in BOOLEAN : ConfirmEnds(h, ok)
  BY <1>5 DEF ConfirmEnds, Closed, AddInv, KeptIsKept, HashIsOurs
<1>6. CASE UNCHANGED <<added, stored, kept, again>>
  BY <1>6 DEF AddInv, KeptIsKept, HashIsOurs
<1>7. CASE \/ OpenForm \/ PollAnswered \/ ConfirmDownload \/ UNCHANGED addVars
           \/ \E k \in Kinds : Submit(k) \/ AddFails(k)
           \/ \E h \in Hashes : FilesArrive(h) \/ NotYet(h)
  BY <1>6, <1>7 DEF OpenForm, PollAnswered, ConfirmDownload, Submit, AddFails, FilesArrive,
                    NotYet, addVars
<1> QED
  BY <1>1, <1>2, <1>3, <1>4, <1>5, <1>7 DEF AddNext

\* However forms overlap and however late submissions, polls and confirmations are
\* answered: a torrent that was confirmed, or sent to the background, stays unless
\* the server has answered a further submission with it.
THEOREM KeptUnlessAnsweredAgain ==
  ASSUME None \notin Hashes
  PROVE  AddSpec => []KeptIsKept
<1>1. AddInit => AddInv
  BY DEF AddInit, AddInv, KeptIsKept, HashIsOurs
<1>2. AddInv /\ [AddNext]_addVars => AddInv'
  BY AddStep
<1>3. AddInv => KeptIsKept
  BY DEF AddInv
<1> QED BY <1>1, <1>2, <1>3, PTL DEF AddSpec

-----------------------------------------------------------------------------
(* The cache of places. *)

GeoInv == requests \in [Slots -> SUBSET Addresses] /\ PendingIsAsked

\* A request takes only addresses that no other asks for.
LEMMA ResolveKeeps ==
  ASSUME GeoInv, NEW ips \in SUBSET Addresses, NEW b \in BOOLEAN, Resolve(ips, b)
  PROVE  GeoInv'
<1> DEFINE W == Wanted(ips, b)
<1>1. PICK r \in Slots : requests[r] = {} /\ requests' = [requests EXCEPT ![r] = W]
  BY DEF Resolve
<1>2. W \subseteq Addresses /\ W \cap pendingResolutions = {}
  BY DEF Wanted
<1>3. pendingResolutions' = pendingResolutions \cup W
  BY DEF Resolve
<1> HIDE DEF W
<1>4. requests' \in [Slots -> SUBSET Addresses]
  BY <1>1, <1>2 DEF GeoInv
<1>5. \A q \in Slots : requests'[q] = IF q = r THEN W ELSE requests[q]
  BY <1>1 DEF GeoInv
<1>6. pendingResolutions' = UNION {requests'[q] : q \in Slots}
  BY <1>1, <1>3, <1>5 DEF GeoInv, PendingIsAsked
<1>7. \A q \in Slots : requests[q] \subseteq pendingResolutions
  BY DEF GeoInv, PendingIsAsked
<1>8. \A p, q \in Slots : p # q => requests'[p] \cap requests'[q] = {}
  BY <1>2, <1>5, <1>7 DEF GeoInv, PendingIsAsked
<1> QED BY <1>4, <1>6, <1>8 DEF GeoInv, PendingIsAsked

\* A request that ends, however it does, frees its own addresses.
LEMMA EndKeeps ==
  ASSUME GeoInv, NEW r \in Slots,
         pendingResolutions' = pendingResolutions \ requests[r],
         requests' = [requests EXCEPT ![r] = {}]
  PROVE  GeoInv'
<1>1. \A q \in Slots : requests'[q] = IF q = r THEN {} ELSE requests[q]
  BY DEF GeoInv
<1>2. \A q \in Slots : q # r => requests[q] \cap requests[r] = {}
  BY DEF GeoInv, PendingIsAsked
<1>3. pendingResolutions' = UNION {requests'[q] : q \in Slots}
  <2>1. ASSUME NEW a PROVE a \in pendingResolutions' <=> \E q \in Slots : a \in requests'[q]
    <3>1. a \in pendingResolutions <=> \E q \in Slots : a \in requests[q]
      BY DEF GeoInv, PendingIsAsked
    <3> QED BY <3>1, <1>1, <1>2
  <2> QED BY <2>1
<1>4. \A p, q \in Slots : p # q => requests'[p] \cap requests'[q] = {}
  BY <1>1 DEF GeoInv, PendingIsAsked
<1>5. requests' \in [Slots -> SUBSET Addresses]
  BY DEF GeoInv
<1> QED BY <1>3, <1>4, <1>5 DEF GeoInv, PendingIsAsked

\* However many pages ask for whatever addresses at once, forced or not, and
\* however the requests end: an address is pending exactly while one request,
\* and no second one, asks for it.
THEOREM AskedOnce == GeoSpec => []PendingIsAsked
<1>1. GeoInit => GeoInv
  BY DEF GeoInit, GeoInv, PendingIsAsked
<1>2. ASSUME GeoInv, [GeoNext]_geoVars PROVE GeoInv'
  <2>1. CASE \E ips \in SUBSET Addresses, b \in BOOLEAN : Resolve(ips, b)
    BY <1>2, <2>1, ResolveKeeps
  <2>2. CASE \E r \in Slots : ResolveFails(r) \/ \E known \in SUBSET Addresses : Resolved(r, known)
    BY <1>2, <2>2, EndKeeps DEF ResolveFails, Resolved
  <2>3. CASE UNCHANGED <<pendingResolutions, requests>>
    BY <1>2, <2>3 DEF GeoInv, PendingIsAsked
  <2>4. CASE UNCHANGED geoVars \/ \E ip \in Addresses : Update(ip)
    BY <2>3, <2>4 DEF geoVars, Update
  <2> QED BY <1>2, <2>1, <2>2, <2>4 DEF GeoNext
<1>3. GeoInv => PendingIsAsked
  BY DEF GeoInv
<1> QED BY <1>1, <1>2, <1>3, PTL DEF GeoSpec
=============================================================================
