------------------------------ MODULE MCCliLoop ------------------------------
(* Scenarios for TLC: what the world may do in a run of CliLoop. *)
EXTENDS CliLoop

Files(lines, n, failures) == [bytes |-> lines, files |-> n, mishaps |-> failures]

Quiet == [ticks |-> 3, sessions |-> Consumers, kinds |-> {"PLAIN"}, stream |-> TRUE,
          maxReports |-> 1, limits |-> Files(1, 2, 0)]

(* Reports, with no event stream. *)
Reports ==
  LET Stutters == [Quiet EXCEPT !.stream = FALSE, !.kinds = {"PLAIN", "STUTTER"}]
  IN  { Stutters, [Stutters EXCEPT !.ticks = 4, !.sessions = {USER}, !.maxReports = 2] }

(* The event stream: three threads push into two cells. *)
Streams ==
  { Quiet, [Quiet EXCEPT !.ticks = 2, !.kinds = {"MILD"}],
    [Quiet EXCEPT !.sessions = {USER}, !.kinds = {"MILD"}] }

(* Rotations, some of whose file operations fail. *)
Rotations ==
  { [Quiet EXCEPT !.ticks = 4, !.sessions = {USER}, !.limits = Files(1, 3, 2)],
    [Quiet EXCEPT !.ticks = 4, !.sessions = {USER}, !.limits = Files(2, 1, 1)] }

MCScenarios == Reports \cup Streams \cup Rotations
=============================================================================
