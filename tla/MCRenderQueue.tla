--------------------------- MODULE MCRenderQueue ---------------------------
(* Small instances of RenderQueue: the event loop and one other thread.   *)
EXTENDS RenderQueue, TLC
=============================================================================
