--------------------------- MODULE MCDataQueueMgr ---------------------------
(* DataQueueMgr with two lines, three queues and commands of two lines.     *)
EXTENDS DataQueueMgr

MCDropArgs == {-2, 0, 1}
=============================================================================
