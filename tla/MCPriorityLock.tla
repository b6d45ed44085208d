--------------------------- MODULE MCPriorityLock ---------------------------
(***************************************************************************)
(* Two threads of each priority, so that each kind waits for its like.     *)
(***************************************************************************)
EXTENDS PriorityLock

CONSTANTS l1, l2, h1, h2

LowThreads  == {l1, l2}
HighThreads == {h1, h2}
=============================================================================
