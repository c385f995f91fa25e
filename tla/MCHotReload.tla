----------------------------- MODULE MCHotReload -----------------------------
(* HotReload with one frame and a module of two functions.                  *)
EXTENDS HotReload

CONSTANT liveFrame
=============================================================================
