----------------------------- MODULE MCWebPages -----------------------------
(***************************************************************************)
(* The pages of the web panels for TLC.  The router mounts one page at a   *)
(* time, so a behaviour chooses the part it is about at its start: the     *)
(* file explorer, the list of torrents with the store behind it, the       *)
(* wizard that adds them, the test of profiles, or the cache of places.    *)
(***************************************************************************)
EXTENDS FilesPage, TorrentPage, AddTorrent, V2RayTest, GeoStore

VARIABLE page    \* the part
webVars == <<page, filesVars, torrentVars, addVars, testVars, geoVars>>

WebInit ==
  /\ page \in {"files", "torrents", "add", "test", "geo"}
  /\ FilesInit /\ TorrentInit /\ AddInit /\ TestInit /\ GeoInit

Only(p) ==
  /\ page = p /\ UNCHANGED page
  /\ IF p = "files" THEN TRUE ELSE UNCHANGED filesVars
  /\ IF p = "torrents" THEN TRUE ELSE UNCHANGED torrentVars
  /\ IF p = "add" THEN TRUE ELSE UNCHANGED addVars
  /\ IF p = "test" THEN TRUE ELSE UNCHANGED testVars
  /\ IF p = "geo" THEN TRUE ELSE UNCHANGED geoVars

WebNext ==
  \/ Only("files") /\ FilesNext
  \/ Only("torrents") /\ TorrentNext
  \/ Only("add") /\ AddNext
  \/ Only("test") /\ TestNext
  \/ Only("geo") /\ GeoNext

\* The fairness of the modules, for the part that runs.
WebFairness ==
  /\ WF_webVars(Only("torrents") /\ TimerFires /\ UNCHANGED pageVars)
  /\ \A s \in Sockets : SF_webVars(Only("torrents") /\ Opens(s) /\ UNCHANGED pageVars)
  /\ \A s \in TestSockets :
       WF_webVars(Only("test") /\ (TestOpens(s) \/ TestFails(s) \/ TestCloses(s)))
  /\ \A k \in Kinds : WF_webVars(Only("add") /\ SubmissionEnds(k))

WebSpec == WebInit /\ [][WebNext]_webVars /\ WebFairness
-----------------------------------------------------------------------------
\* What a page waits for comes, whatever breaks on the way: the connection of a
\* page that stays comes back, a form leaves "submitting" whichever way its
\* submissions end, and no test stays "running" when its socket has gone,
\* however tests are started over one another.
Waiting == Disconnected \/ Submitting \/ Running
WaitingEnds == Waiting ~> ~Waiting
=============================================================================
