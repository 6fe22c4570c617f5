--------------------------- MODULE MCStationOutbox ---------------------------
(* TLC instances of StationOutbox. *)
EXTENDS StationOutbox

CONSTANTS t1, t2, kiosk

\* Right, and ahead of the server by more than a touch.
ClocksOff == {-1, 3}
ClockRight == {-1}
=============================================================================
