------------------------------ MODULE MCSeatMap ------------------------------
(***************************************************************************)
(* One browser, two refreshes at a time, two tickets.                      *)
(***************************************************************************)
EXTENDS SeatMap

CONSTANTS f1, f2, v1
=============================================================================
