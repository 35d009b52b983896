------------------------------ MODULE PanelPage ------------------------------
(***************************************************************************)
(* What the models of the pages of the web panels share.                   *)
(***************************************************************************)
CONSTANT None   \* null, undefined and "": no dialog, file, socket, torrent, list
=============================================================================
