--------------------------- MODULE MCStatusPolling ---------------------------
(* The specification TLC runs: the model as it is.                         *)
EXTENDS StatusPolling
=============================================================================
