--------------------------- MODULE MCRuntimeHost ---------------------------
(* The load and two requests that overlap, each with up to two events.     *)
EXTENDS RuntimeHost
=============================================================================
