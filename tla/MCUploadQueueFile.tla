------------------------- MODULE MCUploadQueueFile -------------------------
(***************************************************************************)
(* A finite instance of UploadQueueFile that starts with no texts.         *)
(***************************************************************************)
EXTENDS UploadQueueFile

NoLists == {<<>>}
=============================================================================
