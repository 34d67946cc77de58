--------------------------- MODULE MCInFlightTable ---------------------------
(* InFlightTable with two colliding keys.                                  *)
EXTENDS InFlightTable

CONSTANTS a, b, t1, t2, t3

MCKeys == {a, b}
MCHome == [k \in MCKeys |-> 0]

Call(t, o, k) == [by |-> t, op |-> o, key |-> k]

(* Each key has one thread that stores it, as each table's events come     *)
(* from one consumer thread; another erases and looks up.                  *)
MCOwned == {Call(t1, "insert", a), Call(t1, "update", a), Call(t1, "erase", a),
            Call(t2, "upsert", b), Call(t2, "erase", a), Call(t2, "lookup", a)}

=============================================================================
