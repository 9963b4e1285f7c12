--------------------------- MODULE MCHostedModel ---------------------------
(* Two callers and the code's own limit of three failures in a row, with   *)
(* enough faults to spend it and still have a superseded host left over.   *)
(* With a limit of two a failed restart is never tried again.              *)
EXTENDS HostedModel

CONSTANTS c1, c2
MCCallers == {c1, c2}
=============================================================================
