--------------------------- MODULE MCFlightRecorder ---------------------------
(* FlightRecorder with small windows for TLC.                              *)
EXTENDS FlightRecorder

MCWindows == {[from |-> 2, to |-> 3], [from |-> 3, to |-> 3], [from |-> 2, to |-> 1]}

=============================================================================
