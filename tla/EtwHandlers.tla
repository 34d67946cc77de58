---------------------------- MODULE EtwHandlers ----------------------------
(***************************************************************************)
(* The ETW event handlers (src/etw_handlers_*.cpp and the helpers of       *)
(* include/stuttometer/etw_session.hpp) as operators.  A handler takes the *)
(* correlation tables and a raw event to the tables it leaves behind, the  *)
(* records it emits into the flight recorder and its call to the trigger   *)
(* engine.                                                                 *)
(*                                                                         *)
(* A raw event has the header fields pid, tid, core and ts, and what its   *)
(* payload holds: key (swap chain, IRP, activity, output or process),      *)
(* start (an initial time), size (megabytes, a count or seconds), old (the *)
(* thread switched out) and waiting (whether that thread waits).  Times    *)
(* are ticks of 0.1 ms.  Payloads are complete; the in-flight tables are   *)
(* maps, as InFlightTable shows; the NDJSON stream is left out.            *)
(***************************************************************************)
EXTENDS Integers, Sequences, FiniteSets, Functions, TLC

CONSTANTS
  DWM_PID,           \* cached_dwm_pid_
  DWM_DEDUP_SLOTS,   \* compositor glitches remembered (16 in the code)
  VBLANK             \* vblank_interval_ms, in ticks

ASSUME HandlersAssumption == DWM_DEDUP_SLOTS \in Nat \ {0} /\ VBLANK \in Nat \ {0}

PAUSE == 20000               \* ticks: PAUSE_CEILING_US
KERNEL_CAP == 100000         \* ticks: KERNEL_SINGLE_EVENT_CAP_US
DISK_CAP == 30000            \* ticks: DISK_SINGLE_EVENT_CAP_US
DWM_DEDUP_WINDOW == 500      \* ticks

(* The tables of the session manager, all empty. *)
EmptyTables ==
  [present |-> <<>>,      \* in_flight_present_: thread -> start and swap chain
   last |-> <<>>,         \* last_present_table_: swap chain -> time of its last frame
   flip |-> <<>>,         \* last_flip_table_: output and process -> time of the last flip
   pso |-> <<>>,          \* in_flight_pso_table_: activity -> start
   scan |-> <<>>,         \* in_flight_scans_: activity -> start
   disk |-> <<>>,         \* in_flight_disk_: IRP -> start and issuer
   trim |-> <<>>,         \* in_flight_ws_trims_: process -> start
   thread |-> <<>>,       \* in_flight_threads_: thread -> when and how it was switched out
   owner |-> <<>>,        \* tid_to_pid_: thread -> process
   glitch |-> <<>>]       \* recent_dwm_glitches_qpc_: the last times, newest first

Has(f, k) == k \in DOMAIN f
Put(f, k, v) == [x \in DOMAIN f \cup {k} |-> IF x = k THEN v ELSE f[x]]
Drop(f, k) == Restrict(f, DOMAIN f \ {k})

(* clamped_qpc_delta_us: a duration out of range is no duration. *)
Elapsed(end, start, cap) == IF end < start \/ end - start > cap THEN 0 ELSE end - start

(* The record of a raw event before its handler fills it in. *)
Record(e, cat, dur) ==
  [cat |-> cat, pid |-> e.pid, tid |-> e.tid, core |-> e.core, ts |-> e.ts,
   dur |-> dur, size |-> e.size, flags |-> {}, prevTid |-> 0, prevPid |-> 0]

NoCall == [fn |-> "NONE"]
Handled(tables, emit, call) == [tables |-> tables, emit |-> emit, call |-> call]
Emit(tables, rec) == Handled(tables, <<rec>>, NoCall)
Silent(tables) == Handled(tables, <<>>, NoCall)
EmitIf(ok, tables, rec) == IF ok THEN Emit(tables, rec) ELSE Silent(tables)

-----------------------------------------------------------------------------
(* handle_dxgi_event: a frame lasts from the end of the last Present of its  *)
(* swap chain to the end of this one, or as long as the call if longer.      *)

(* calculate_effective_present_duration; previous is 0 for the first frame.  *)
DuplicateBelow == LET half == VBLANK \div 2 IN
  IF half < 20 THEN 20 ELSE IF half > 30 THEN 30 ELSE half

PresentDelta(now, previous, start) ==
  LET api == IF now >= start THEN now - start ELSE 0
      frame == now - previous
      reset == api > PAUSE \/ previous = 0 \/ now <= previous \/ frame > PAUSE
  IN [dur |-> IF reset \/ api > frame THEN api ELSE frame,
      reset |-> reset,
      duplicate |-> ~reset /\ frame < DuplicateBelow]

PresentStart(t, e) ==
  Silent([t EXCEPT !.present = Put(@, <<e.pid, e.tid>>, [start |-> e.ts, chain |-> e.key])])

PresentStop(t, e) ==
  LET thread == <<e.pid, e.tid>>
      chain == <<e.pid, t.present[thread].chain>>
      previous == IF Has(t.last, chain) THEN t.last[chain] ELSE 0
      delta == PresentDelta(e.ts, previous, t.present[thread].start)
      shown == IF delta.dur > PAUSE THEN PAUSE ELSE delta.dur
  IN IF ~Has(t.present, thread) THEN Emit(t, Record(e, "DXGI", 0))
     ELSE Handled([t EXCEPT !.present = Drop(@, thread), !.last = Put(@, chain, e.ts)],
            << [Record(e, "DXGI", shown) EXCEPT
                  !.flags = IF delta.duplicate THEN {"DUPLICATE"} ELSE {}] >>,
            IF delta.reset \/ delta.dur = 0 \/ delta.duplicate THEN NoCall
            ELSE [fn |-> "PRESENT", pid |-> e.pid, tid |-> e.tid, dur |-> delta.dur,
                  ts |-> e.ts, key |-> chain, core |-> e.core])

-----------------------------------------------------------------------------
(* handle_dxgkrnl_*: flips, video memory. *)

FlipDelta(t, key, now) ==
  IF Has(t.flip, key) /\ now > t.flip[key] /\ now - t.flip[key] <= PAUSE
  THEN now - t.flip[key] ELSE 0

(* Flips of the compositor and of the system trigger nothing. *)
Flip(t, e) ==
  LET key == <<"FLIP", e.key, e.pid>>
      dur == FlipDelta(t, key, e.ts)
  IN Handled([t EXCEPT !.flip = Put(@, key, e.ts)], << Record(e, "MMIOFLIP", dur) >>,
       IF dur = 0 \/ e.pid = 4 \/ (DWM_PID # 0 /\ e.pid = DWM_PID) THEN NoCall
       ELSE [fn |-> "FLIP", pid |-> e.pid, tid |-> e.tid, dur |-> dur, ts |-> e.ts,
             key |-> key, core |-> e.core])

(* A kernel Present completion is only recorded. *)
KernelPresent(t, e) ==
  LET key == <<"THREAD", e.pid, e.tid>> IN
    Emit([t EXCEPT !.flip = Put(@, key, e.ts)],
         Record(e, "KERNEL_PRESENT", FlipDelta(t, key, e.ts)))

(* Demoted commitments; the process is in the payload (key), or the header's. *)
VramDemoted(t, e) ==
  EmitIf(e.size > 0, t,
    [Record(e, "VRAM_PAGING", 0) EXCEPT !.flags = {"DEMOTED"},
                                        !.pid = IF e.key # 0 THEN e.key ELSE e.pid])

-----------------------------------------------------------------------------
(* handle_nt_*: the kernel logger. *)

DpcIsr(t, e, cat) ==
  Emit(t, Record(e, cat, Elapsed(e.ts, e.start, KERNEL_CAP)))

(* handle_nt_cswitch_event: the new thread comes back, the old one leaves.   *)
(* A long absence saturates instead of being dropped.                        *)
CSwitch(t, e) ==
  LET owner == Put(t.owner, e.tid, e.pid)
      oldPid == IF Has(owner, e.old) THEN owner[e.old] ELSE 0
      left == IF e.old = 0 THEN t.thread
              ELSE Put(t.thread, e.old, [ts |-> e.ts, pid |-> oldPid, waiting |-> e.waiting])
      back == Has(left, e.tid)
      out == left[e.tid]
      known == back /\ out.pid \in {0, e.pid}
      away == e.ts - out.ts
  IN Emit([t EXCEPT !.owner = owner, !.thread = IF back THEN Drop(left, e.tid) ELSE left],
       [Record(e, "CSWITCH", IF ~known THEN 0
                             ELSE IF away <= KERNEL_CAP THEN away ELSE KERNEL_CAP) EXCEPT
          !.prevTid = e.old, !.prevPid = oldPid,
          !.flags = (IF known /\ out.waiting THEN {"VOLUNTARY"} ELSE {})
                    \cup (IF e.waiting THEN {"OUT_VOLUNTARY"} ELSE {})])

DiskInit(t, e) ==
  Silent([t EXCEPT !.disk = Put(@, e.key, [start |-> e.ts, pid |-> e.pid, tid |-> e.tid])])

(* Mutant: a completion is charged to the process it interrupts. *)
DiskDoneOfCompleter(t, e) ==
  LET dur == IF Has(t.disk, e.key) THEN Elapsed(e.ts, t.disk[e.key].start, DISK_CAP) ELSE 0 IN
    EmitIf(dur > 0 \/ e.pid # 0, [t EXCEPT !.disk = Drop(@, e.key)], Record(e, "DISK", dur))

(* A completion is charged to the process that issued the request. *)
DiskDone(t, e) ==
  IF ~Has(t.disk, e.key) THEN EmitIf(e.pid # 0, t, Record(e, "DISK", 0))
  ELSE LET io == t.disk[e.key]
           dur == IF io.pid = 0 THEN 0 ELSE Elapsed(e.ts, io.start, DISK_CAP)
           pid == IF io.pid = 0 THEN e.pid ELSE io.pid
           tid == IF io.pid = 0 THEN e.tid ELSE io.tid
       IN EmitIf(dur > 0 \/ pid # 0, [t EXCEPT !.disk = Drop(@, e.key)],
                 [Record(e, "DISK", dur) EXCEPT !.pid = pid, !.tid = tid])

(* handle_nt_fault_event: the initial time of a hard fault is in the payload. *)
HardFault(t, e) == Emit(t, Record(e, "PAGE_FAULT", Elapsed(e.ts, e.start, KERNEL_CAP)))
VirtualAlloc(t, e) ==
  EmitIf(e.size >= 4, t, [Record(e, "MEM_VIRTUAL_ALLOC", 0) EXCEPT !.pid = e.key])

-----------------------------------------------------------------------------
(* handle_kernel_memory_event: trims are paired by the process trimmed. *)

ValidTrimTarget(pid) == pid \notin {0, 4}

TrimStart(t, e) ==
  Silent(IF ValidTrimTarget(e.key) THEN [t EXCEPT !.trim = Put(@, e.key, e.ts)] ELSE t)

TrimStop(t, e) ==
  LET paired == ValidTrimTarget(e.key) /\ Has(t.trim, e.key) IN
    Emit(IF paired THEN [t EXCEPT !.trim = Drop(@, e.key)] ELSE t,
         [Record(e, "MEM_WORKING_SET_TRIM",
                 IF paired THEN Elapsed(e.ts, t.trim[e.key], KERNEL_CAP) ELSE 0)
            EXCEPT !.pid = e.key])

(* The duration of a contiguous allocation is in its payload. *)
PhysicalAlloc(t, e) ==
  Emit(t, Record(e, "MEM_PHYSICAL_ALLOC", IF e.start <= KERNEL_CAP THEN e.start ELSE 0))

-----------------------------------------------------------------------------
(* handle_d3d12_event and handle_antimalware_event: a pair of events with one *)
(* activity id; a Stop without its Start tells nothing.                       *)

PsoStart(t, e) == Silent([t EXCEPT !.pso = Put(@, e.key, e.ts)])

PsoStop(t, e) ==
  LET dur == IF Has(t.pso, e.key) THEN Elapsed(e.ts, t.pso[e.key], KERNEL_CAP) ELSE 0 IN
    EmitIf(dur > 0, [t EXCEPT !.pso = Drop(@, e.key)], Record(e, "D3D12_PSO_CREATE", dur))

ScanStart(t, e) == Silent([t EXCEPT !.scan = Put(@, e.key, e.ts)])

ScanStop(t, e) ==
  LET dur == IF Has(t.scan, e.key) THEN Elapsed(e.ts, t.scan[e.key], KERNEL_CAP) ELSE 0 IN
    EmitIf(dur > 0, [t EXCEPT !.scan = Drop(@, e.key)], Record(e, "ANTIMALWARE_SCAN", dur))

-----------------------------------------------------------------------------
(* The remaining providers. *)

AudioGlitch(t, e) ==
  Handled(t, << Record(e, "AUDIO", 0) >>,
          [fn |-> "AUDIO", ts |-> e.ts, core |-> e.core,
           count |-> IF e.size < 1 THEN 1 ELSE e.size])

(* handle_dwm_event: glitches within 50 ms of another are one glitch. *)
DwmGlitch(t, e) ==
  LET dur == VBLANK * (IF e.size >= 1 THEN e.size ELSE 1)
      again == \E i \in DOMAIN t.glitch :
                 LET d == e.ts - t.glitch[i] IN d < DWM_DEDUP_WINDOW /\ -d < DWM_DEDUP_WINDOW
      rec == Record(e, "DWM_GLITCH", IF dur < 10 THEN 10 ELSE dur)
      slots == IF Len(t.glitch) < DWM_DEDUP_SLOTS THEN Len(t.glitch) ELSE DWM_DEDUP_SLOTS - 1
  IN IF again THEN Emit(t, [rec EXCEPT !.flags = {"DEDUPLICATED"}])
     ELSE Handled([t EXCEPT !.glitch = <<e.ts>> \o SubSeq(@, 1, slots)], <<rec>>,
                  [fn |-> "DWM", pid |-> e.pid, ts |-> e.ts, core |-> e.core,
                   missed |-> e.size, dur |-> rec.dur])

(* A thermal event names the core that was capped and for how many seconds. *)
Thermal(t, e) ==
  EmitIf(e.key <= 1024 /\ e.size <= 86400, t,
         [Record(e, "THERMAL_THROTTLE", 0) EXCEPT !.core = IF e.key > 255 THEN 255 ELSE e.key])

-----------------------------------------------------------------------------
(* on_event_record: the provider and the event id choose the handler. *)

Handle(t, e) ==
  CASE e.kind = "PRESENT_START" -> PresentStart(t, e)
    [] e.kind = "PRESENT_STOP" -> PresentStop(t, e)
    [] e.kind = "FLIP" -> Flip(t, e)
    [] e.kind = "KERNEL_PRESENT" -> KernelPresent(t, e)
    [] e.kind = "VRAM" -> VramDemoted(t, e)
    [] e.kind \in {"DPC", "ISR"} -> DpcIsr(t, e, e.kind)
    [] e.kind = "CSWITCH" -> CSwitch(t, e)
    [] e.kind = "DISK_INIT" -> DiskInit(t, e)
    [] e.kind = "DISK_DONE" -> DiskDone(t, e)
    [] e.kind = "FAULT" -> HardFault(t, e)
    [] e.kind = "ALLOC" -> VirtualAlloc(t, e)
    [] e.kind = "TRIM_START" -> TrimStart(t, e)
    [] e.kind = "TRIM_STOP" -> TrimStop(t, e)
    [] e.kind = "PHYS" -> PhysicalAlloc(t, e)
    [] e.kind = "PSO_START" -> PsoStart(t, e)
    [] e.kind = "PSO_STOP" -> PsoStop(t, e)
    [] e.kind = "SCAN_START" -> ScanStart(t, e)
    [] e.kind = "SCAN_STOP" -> ScanStop(t, e)
    [] e.kind = "AUDIO" -> AudioGlitch(t, e)
    [] e.kind = "DWM" -> DwmGlitch(t, e)
    [] e.kind = "THERMAL" -> Thermal(t, e)

=============================================================================
