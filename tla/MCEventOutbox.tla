--------------------------- MODULE MCEventOutbox ----------------------------
(* Values of the constants of EventOutbox for TLC. *)
EXTENDS EventOutbox

CONSTANTS p1, p2, audit, metrics

=============================================================================
