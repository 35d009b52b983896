----------------------------- MODULE FilePreview -----------------------------
(***************************************************************************)
(* The preview pane of the file explorer                                   *)
(* (web/server/src/pages/FilesPage.tsx).  It stays open while the user     *)
(* goes on to other directories, keeps the name of its file but not its    *)
(* directory, and loads the text of one file after the other into the same *)
(* editor.                                                                 *)
(***************************************************************************)
EXTENDS PanelPage

CONSTANTS
  Dirs, Root,
  Texts,     \* names of files for the editor
  Others     \* names of images, videos and other files

VARIABLES
  currentPath,
  preview,   \* None or the file the pane was opened for, [dir, name]
  editor,    \* None or the file whose text, edited or not, is in the editor
  loads,     \* files whose text has been requested
  loading,   \* editorLoading: a spinner instead of the editor
  saving,    \* None or the save under way, [of, to, text]
  asked      \* None or the deletion under way, [of, target, sent]

vars == <<currentPath, preview, editor, loads, loading, saving, asked>>

\* A question covers the page.
Asking == asked # None /\ ~asked.sent

File(d, n) == [dir |-> d, name |-> n]

Init ==
  /\ currentPath = Root
  /\ preview = None /\ editor = None
  /\ loads = {} /\ loading = FALSE
  /\ saving = None /\ asked = None

\* The user navigates, or the answer of an older listing arrives.
Move(d) ==
  /\ ~Asking
  /\ currentPath' = d
  /\ UNCHANGED <<preview, editor, loads, loading, saving, asked>>

\* openPreview of a file of the list.
OpenText(n) ==
  /\ ~Asking
  /\ preview' = File(currentPath, n)
  /\ loads' = loads \cup {File(currentPath, n)}
  /\ loading' = TRUE
  /\ UNCHANGED <<currentPath, editor, saving, asked>>

OpenOther(n) ==
  /\ ~Asking
  /\ preview' = File(currentPath, n)
  /\ UNCHANGED <<currentPath, editor, loads, loading, saving, asked>>

\* A text arrives, or its request fails, whatever is open by now.
TextArrives(f) ==
  /\ f \in loads
  /\ editor' = f \/ UNCHANGED editor
  /\ loads' = loads \ {f} /\ loading' = FALSE
  /\ UNCHANGED <<currentPath, preview, saving, asked>>

ClosePreview ==
  /\ ~Asking
  /\ preview' = None /\ editor' = None
  /\ UNCHANGED <<currentPath, loads, loading, saving, asked>>

\* handleSaveContent: the path is the one of now.
Save ==
  /\ ~Asking /\ saving = None
  /\ preview # None /\ preview.name \in Texts /\ ~loading
  /\ saving' = [of |-> preview, to |-> File(currentPath, preview.name), text |-> editor]
  /\ UNCHANGED <<currentPath, preview, editor, loads, loading, asked>>

SaveEnds ==
  /\ saving # None
  /\ saving' = None
  /\ UNCHANGED <<currentPath, preview, editor, loads, loading, asked>>

\* handleDelete of the open file: the question, ...
Delete ==
  /\ asked = None /\ preview # None
  /\ asked' = [of |-> preview, target |-> File(currentPath, preview.name), sent |-> FALSE]
  /\ UNCHANGED <<currentPath, preview, editor, loads, loading, saving>>

\* ... its answer, and the end of the request, which closes the pane, whatever
\* is open by then.
AnswerDelete(yes) ==
  /\ Asking
  /\ asked' = IF yes THEN [asked EXCEPT !.sent = TRUE] ELSE None
  /\ UNCHANGED <<currentPath, preview, editor, loads, loading, saving>>

DeleteEnds(ok) ==
  /\ asked # None /\ asked.sent
  /\ asked' = None
  /\ IF ok THEN preview' = None /\ editor' = None ELSE UNCHANGED <<preview, editor>>
  /\ UNCHANGED <<currentPath, loads, loading, saving>>

Next ==
  \/ \E d \in Dirs : Move(d)
  \/ \E n \in Texts : OpenText(n)
  \/ \E n \in Others : OpenOther(n)
  \/ \E f \in loads : TextArrives(f)
  \/ ClosePreview \/ Save \/ SaveEnds \/ Delete
  \/ \E b \in BOOLEAN : AnswerDelete(b) \/ DeleteEnds(b)

Spec == Init /\ [][Next]_vars
-----------------------------------------------------------------------------
\* "Save Changes" writes the text of the file the pane was opened for to that
\* file, wherever the user has gone meanwhile.
SavesTheOpenFile ==
  saving # None /\ saving.text = saving.of => saving.to = saving.of
=============================================================================
