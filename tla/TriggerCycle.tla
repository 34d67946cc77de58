---------------------------- MODULE TriggerCycle ----------------------------
(***************************************************************************)
(* What the trigger engine promises, without threads, locks or deadlines:  *)
(* it holds one accepted trigger at a time, hands that trigger out at most *)
(* once, and accepts the next one only after a cooldown.                   *)
(***************************************************************************)
EXTENDS Naturals, Sequences

CONSTANT Ids   \* the triggers that may be accepted, positive numbers

NoId == 0

VARIABLES
    phase,     \* "ready", "held", "reported" or "cooldown"
    held,      \* the trigger the engine holds, or NoId
    reported   \* the triggers handed out, in order

vars == <<phase, held, reported>>

Init == phase = "ready" /\ held = NoId /\ reported = <<>>

(* A producer's entry point returns true.                                  *)
Accept(id) ==
    /\ phase = "ready"
    /\ phase' = "held" /\ held' = id
    /\ UNCHANGED reported

(* poll_state returns true, with the trigger that was accepted.            *)
Report ==
    /\ phase = "held"
    /\ phase' = "reported"
    /\ reported' = Append(reported, held)
    /\ UNCHANGED held

(* The report is closed, by the monitoring loop or by the watchdog.        *)
Close ==
    /\ phase \in {"held", "reported"}
    /\ phase' = "cooldown" /\ held' = NoId
    /\ UNCHANGED reported

Rearm ==
    /\ phase = "cooldown"
    /\ phase' = "ready"
    /\ UNCHANGED <<held, reported>>

Next == (\E id \in Ids : Accept(id)) \/ Report \/ Close \/ Rearm

Spec == Init /\ [][Next]_vars

=============================================================================
