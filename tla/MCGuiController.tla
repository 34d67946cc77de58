--------------------------- MODULE MCGuiController ---------------------------
(* Scenarios for TLC: what the user and the world may do. *)
EXTENDS GuiController

Quiet == [starts |-> 1, stops |-> 1, updates |-> 0, processes |-> 0, failures |-> 0, throws |-> 0,
          scans |-> 0, blind |-> 0, asked |-> {Sessions}, names |-> {TRUE}, picks |-> {},
          live |-> {{}}, sessions |-> {{USER}}, traffic |-> FALSE, shutdown |-> "offered"]

Lasting == [Quiet EXCEPT !.shutdown = "never"]

(* Sessions one after the other; a retarget or a new list of processes     *)
(* during a session; a session that throws, fails to start or loses its    *)
(* consumers or asks for one only; processes that come and go while a      *)
(* session waits for them; a snapshot of them that fails.                  *)
MCScenarios == {
    [Lasting EXCEPT !.starts = 2, !.stops = 2],
    [Lasting EXCEPT !.stops = 0, !.live = {{1}}, !.picks = {1}, !.updates = 1],
    [Lasting EXCEPT !.stops = 0, !.live = {{1}}, !.names = {FALSE}, !.updates = 1,
                    !.processes = 1, !.throws = 1, !.sessions = {{KERNEL}}],
    [Lasting EXCEPT !.live = {{1}}, !.names = {FALSE}, !.processes = 1],
    [Lasting EXCEPT !.stops = 0, !.live = {{1}}, !.names = BOOLEAN, !.updates = 1, !.scans = 1],
    [Lasting EXCEPT !.sessions = SUBSET Sessions, !.throws = 1],
    [Lasting EXCEPT !.sessions = SUBSET Sessions, !.failures = 2],
    [Lasting EXCEPT !.sessions = {Sessions}, !.asked = {{USER}}, !.failures = 1],
    [Lasting EXCEPT !.stops = 0, !.live = {{1}}, !.blind = 1, !.processes = 1],
    [Quiet EXCEPT !.traffic = TRUE, !.throws = 1],
    [Quiet EXCEPT !.scans = 1],
    [Lasting EXCEPT !.stops = 0, !.live = {{2}}, !.processes = 2],
    [Lasting EXCEPT !.stops = 0, !.processes = 2, !.sessions = {{KERNEL}}] }

(* A session that is stopped once, or whose process may end.               *)
MCEnding == { Lasting, [Lasting EXCEPT !.stops = 0, !.live = {{1}}, !.processes = 1] }
=============================================================================
