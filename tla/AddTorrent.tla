----------------------------- MODULE AddTorrent -----------------------------
(***************************************************************************)
(* The wizard that adds torrents (web/client/src/pages/TorrentPage.tsx):   *)
(* a form is submitted; a single torrent whose files the user wants to     *)
(* choose is polled for its metadata and waits for the choice.  The form   *)
(* may be closed and opened again at each step, so that several            *)
(* submissions, answers of polls and a confirmation may be under way over  *)
(* the one addStep and the one addedInfoHash.                              *)
(***************************************************************************)
EXTENDS PanelPage, Integers, FiniteSets

CONSTANTS
  Hashes,   \* info hashes
  MaxAdds   \* submissions under way at a time (bound)

Kinds == {"choose", "whole", "bulk"}
Steps == {"input", "submitting", "fetching_metadata", "select_files"}

VARIABLES
  shown,     \* showAddModal
  step,      \* addStep
  added,     \* addedInfoHash
  files,     \* None or the torrent whose files modalFiles holds
  adds,      \* kind -> submissions under way
  bodies,    \* polls whose answer has begun to arrive
  confirms,  \* confirmations under way
  stored,    \* torrents of the server
  kept,      \* those the user has confirmed or sent to the background
  again      \* those of them that were the answer to a submission once more

addVars == <<shown, step, added, files, adds, bodies, confirms, stored, kept, again>>

AddInit ==
  /\ shown = FALSE /\ step = "input" /\ added = None /\ files = None
  /\ adds = [k \in Kinds |-> 0]
  /\ bodies = {} /\ confirms = {}
  /\ stored = {} /\ kept = {} /\ again = {}

OpenForm ==
  /\ ~shown
  /\ shown' = TRUE
  /\ UNCHANGED <<step, added, files, adds, bodies, confirms, stored, kept, again>>

\* Mutant of Closed: the hash stays.
ClosedWithHash == shown' = FALSE /\ step' = "input" /\ added' = added /\ files' = None

\* What handleCloseKeepBackground, handleCancelAdd and the end of
\* handleConfirmDownload set.
Closed == shown' = FALSE /\ step' = "input" /\ added' = None /\ files' = None

\* handleAddTorrent up to its first await.
Submit(k) ==
  /\ shown /\ step = "input"
  /\ adds["choose"] + adds["whole"] + adds["bulk"] < MaxAdds
  /\ adds' = [adds EXCEPT ![k] = @ + 1]
  /\ step' = "submitting"
  /\ UNCHANGED <<shown, added, files, bodies, confirms, stored, kept, again>>

Answered(k) == adds[k] > 0 /\ adds' = [adds EXCEPT ![k] = @ - 1]

\* The torrent is on the server, and waits there for the choice of files; it may
\* have been there before.
ToBeChosen(h) ==
  /\ Answered("choose")
  /\ stored' = stored \cup {h}
  /\ again' = again \cup ({h} \cap kept)
  /\ added' = h /\ step' = "fetching_metadata"
  /\ UNCHANGED <<shown, files, bodies, confirms, kept>>

\* resetAddForm: it knows nothing of addedInfoHash.
Reset == shown' = FALSE /\ step' = "input"

\* A torrent that needs no choice, the last one of several, whichever failed.
Added(k, h) ==
  /\ k # "choose" /\ Answered(k)
  /\ stored' = stored \cup {h}
  /\ Reset
  /\ UNCHANGED <<added, files, bodies, confirms, kept, again>>

\* One of several, with more to come.
AddedOneOf(h) ==
  /\ adds["bulk"] > 0 /\ h \notin stored
  /\ stored' = stored \cup {h}
  /\ UNCHANGED <<shown, step, added, files, adds, bodies, confirms, kept, again>>

\* A refusal, an answer without a hash, or an exception.
AddFails(k) ==
  /\ Answered(k)
  /\ step' = "input"
  /\ UNCHANGED <<shown, added, files, bodies, confirms, stored, kept, again>>

\* An answer to the poll: the effect is still the one that asked, ...
PollAnswered ==
  /\ step = "fetching_metadata" /\ added # None
  /\ bodies' = bodies \cup {added}
  /\ UNCHANGED <<shown, step, added, files, adds, confirms, stored, kept, again>>

\* ... which nobody asks again when the rest of the answer has arrived.
FilesArrive(h) ==
  /\ h \in bodies
  /\ bodies' = bodies \ {h}
  /\ files' = h /\ step' = "select_files"
  /\ UNCHANGED <<shown, added, adds, confirms, stored, kept, again>>

NotYet(h) ==
  /\ h \in bodies
  /\ bodies' = bodies \ {h}
  /\ UNCHANGED <<shown, step, added, files, adds, confirms, stored, kept, again>>

\* handleCancelAdd, at every step; sendAction deletes the torrent with its
\* files if the store is connected.
CancelAdd(connected) ==
  /\ shown
  /\ stored' = IF connected THEN stored \ {added} ELSE stored
  /\ Closed
  /\ UNCHANGED <<adds, bodies, confirms, kept, again>>

RunInBackground ==
  /\ shown /\ step = "fetching_metadata"
  /\ kept' = kept \cup ({added} \ {None})
  /\ Closed
  /\ UNCHANGED <<adds, bodies, confirms, stored, again>>

\* handleConfirmDownload up to its await.
ConfirmDownload ==
  /\ shown /\ step = "select_files" /\ added # None
  /\ confirms' = confirms \cup {added}
  /\ UNCHANGED <<shown, step, added, files, adds, bodies, stored, kept, again>>

\* The end of it, accepted or not; the form of before may have been cancelled
\* and the torrent deleted meanwhile.
ConfirmEnds(h, ok) ==
  /\ h \in confirms
  /\ confirms' = confirms \ {h}
  /\ kept' = IF ok THEN kept \cup ({h} \cap stored) ELSE kept
  /\ Closed
  /\ UNCHANGED <<adds, bodies, stored, again>>

AddNext ==
  \/ OpenForm \/ PollAnswered \/ RunInBackground \/ ConfirmDownload
  \/ \E k \in Kinds : Submit(k) \/ AddFails(k)
  \/ \E h \in Hashes :
       \/ ToBeChosen(h) \/ AddedOneOf(h) \/ FilesArrive(h) \/ NotYet(h)
       \/ \E k \in Kinds : Added(k, h)
       \/ \E ok \in BOOLEAN : ConfirmEnds(h, ok)
  \/ \E b \in BOOLEAN : CancelAdd(b)

\* Every request is answered or fails.
SubmissionEnds(k) ==
  \/ AddFails(k)
  \/ \E h \in Hashes : Added(k, h) \/ (k = "choose" /\ ToBeChosen(h))

AddSpec == AddInit /\ [][AddNext]_addVars /\ \A k \in Kinds : WF_addVars(SubmissionEnds(k))
-----------------------------------------------------------------------------
\* The form is locked while it submits: this ends, whichever way a submission
\* ends and whatever else is under way.
Submitting == step = "submitting"

\* Cancel deletes the torrent of the form with its files.  One that was confirmed,
\* or sent to the background, in a form before is deleted only when the server
\* has answered another submission with it since: a late answer for another
\* torrent, a poll or a confirmation that ends late never lead Cancel to it.
KeptIsKept == kept \subseteq stored \cup again
=============================================================================
