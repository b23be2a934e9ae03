---------------------------- MODULE FrameSchedule ----------------------------
(***************************************************************************)
(* The frames NbCommandProcessor counts                                    *)
(* (src/src/gpu/nb_command_processor.cpp): draws and copies, and IssueSwap *)
(* with all it does between two frames.  It polls the debug keys, decides  *)
(* the next frame's asset mode and performance options by a benchmark's    *)
(* schedule, closes the interval its statistics are reported over, adds a  *)
(* row to the frame trace, ends or opens a RenderDoc capture and writes    *)
(* the frame's records.  Keys are pressed on the UI thread at any time;    *)
(* all else is the command processor's thread.                             *)
(***************************************************************************)
EXTENDS Integers, Sequences, FiniteSets

CONSTANTS
  Configurations,  (* the settings of the runs considered (Configuration)   *)
  Refusals,        (* kinds of GenericRefusal                               *)
  Switches,        (* the performance options that are plain switches       *)
  Length, Warmup,  (* nb_native_asset_benchmark_frames and _warmup          *)
  WarmFrom,        (* 3600, where the performance options are warmed up     *)
  Periodic,        (* the frames reported outside benchmarks: 1, 2, 60, ... *)
  TraceStart, TraceEnd, TraceRows,  (* the trace's interval and kMaxRows    *)
  RecordsMax,      (* kFrameBufferMax                                       *)
  MaxDraws, MaxCopies               (* bounds: draws and copies in a frame; *)
                                    (* config.last bounds the frames        *)

(* What an option of a benchmark's window may switch on. *)
Options == Switches \union {"spin", "chunk_1024", "chunk_2048"}

(* Frame 1 is reported wherever no window is open: until then the settings *)
(* are those of the start, from then on what is made of their options.     *)
ASSUME FrameScheduleAssumption ==
  /\ 1 \in Periodic
  /\ Length \in Nat \ {0} /\ Warmup \in Nat
  /\ TraceStart \in Nat /\ TraceEnd \in Nat /\ TraceRows \in Nat
  /\ RecordsMax \in Nat /\ MaxDraws \in Nat /\ MaxCopies \in Nat
  /\ "none" \notin Switches
  /\ \A c \in Configurations :
       /\ c.benchmark \in {"none", "perf", "asset"}
       /\ c.start \in Int /\ c.last \in Nat /\ c.asset \in 0 .. 2
       /\ {c.generic, c.trace, c.records} \subseteq BOOLEAN
       /\ c.options \in Seq(SUBSET Options)
       /\ c.tuning \in [switches : SUBSET Switches, spin : Int, chunk : Int]

VARIABLES
  config,    (* the settings, fixed at the start                            *)
  cvars,     (* nb_native_generic, nb_native_asset_cache_mode and tuning    *)
  pending,   (* pending_debug_keys_, and the parity of all presses          *)
  frames,    (* stats_.frames                                               *)
  this,      (* the counters of the frame in progress                       *)
  mode,      (* asset_cache_mode_                                           *)
  refusals,  (* generic_refusals_ and frame_trace_previous_refusals_        *)
  ran,       (* the conditions the interval's draws ran under               *)
  trace,     (* frame_trace_                                                *)
  capture,   (* rdc_capturing_, and what the captures hold                  *)
  records    (* NbCpRecorder's buffer and counters, and the frame written   *)

vars == <<config, cvars, pending, frames, this, mode, refusals, ran, trace,
          capture, records>>

NoRefusals == [kind \in Refusals |-> 0]
NewFrame == [draws |-> 0, native |-> 0, copies |-> 0, refused |-> NoRefusals]
NoRecords == [buffer |-> <<>>, sequence |-> 0, copies |-> 0]

-----------------------------------------------------------------------------
(* Performance options and the benchmarks' schedule. *)

(* Options are sets of bits, NoOptions the -1 of AssetBenchmarkPhase.       *)
NoOptions == {"none"}

(* Two numbers keep less than their value: a spin time its being there, a  *)
(* chunk size one of two classes.                                          *)
CurrentPerfOptions(tuning) ==
  tuning.switches
  \union (IF tuning.spin > 0 THEN {"spin"} ELSE {})
  \union (IF tuning.chunk >= 2048 THEN {"chunk_2048"}
          ELSE IF tuning.chunk > 0 THEN {"chunk_1024"} ELSE {})

ApplyPerfOptions(options) ==
  [switches |-> options \intersect Switches,
   spin |-> IF "spin" \in options THEN 5000 ELSE 0,
   chunk |-> IF "chunk_2048" \in options THEN 2048
             ELSE IF "chunk_1024" \in options THEN 1024 ELSE 0]

AssetModes == <<1, 2, 0, 0, 2, 1>>

(* AssetPhaseForFrame, with the cached mode asked for in settings c.        *)
Phase(c, frame) ==
  LET perf == config.benchmark = "perf"
      windows == CASE config.benchmark = "perf" -> Len(config.options)
                   [] config.benchmark = "asset" -> Len(AssetModes)
                   [] OTHER -> 0
      window == (frame - config.start) \div Length
      normal == [window |-> -1, warmup |-> FALSE, options |-> NoOptions,
                 mode |-> IF perf THEN 0 ELSE c.asset]
  IN IF windows > 0 /\ frame >= config.start /\ window < windows
     THEN [window |-> window,
           warmup |-> (frame - config.start) % Length < Warmup,
           options |-> IF perf THEN config.options[window + 1] ELSE NoOptions,
           mode |-> IF perf THEN 0 ELSE AssetModes[window + 1]]
     ELSE IF perf /\ windows > 0 /\ frame \in WarmFrom .. config.start - 1
     THEN [normal EXCEPT !.options =
             IF (frame \div Length) % 2 = 1
             THEN UNION {config.options[i] : i \in 1 .. windows}
             ELSE config.options[1]]
     ELSE normal

(* The constructor's settings for frame 1. *)
InitialTuning ==
  LET phase == Phase([asset |-> config.asset], 1)
  IN IF phase.options # NoOptions THEN ApplyPerfOptions(phase.options)
     ELSE config.tuning

Init ==
  /\ config \in Configurations
  /\ cvars = [generic |-> config.generic, asset |-> config.asset,
              tuning |-> InitialTuning]
  /\ pending = [native |-> FALSE, asset |-> FALSE,
                native_presses |-> FALSE, asset_presses |-> FALSE]
  /\ frames = 0
  /\ this = NewFrame
  /\ mode = Phase([asset |-> config.asset], 1).mode
  /\ refusals = [interval |-> NoRefusals, previous |-> NoRefusals]
  /\ ran = {}
  /\ trace = [enabled |-> config.trace, elapsed |-> -1, rows |-> <<>>,
              dropped |-> 0, status |-> "pending"]
  /\ capture = [on |-> FALSE, held |-> {}, count |-> 0, finished |-> {}]
  /\ records = [next |-> NoRecords, written |-> <<>>]

-----------------------------------------------------------------------------
(* The frame in progress. *)

(* What a draw of this frame is measured under.  A replay chunk size that   *)
(* has windows of its own (nb_replay_chunk_frames) is not part of it.       *)
Condition ==
  LET phase == Phase(cvars, frames + 1)
  IN [generic |-> cvars.generic, mode |-> mode, window |-> phase.window,
      warmup |-> phase.warmup,
      tuning |-> IF config.chunks = {} THEN cvars.tuning
                 ELSE [cvars.tuning EXCEPT !.chunk = 0]]

(* NextSlot drops what the buffer has no room for: a draw is not counted    *)
(* then, a copy is.                                                         *)
Recorded(r, kind) ==
  LET entry == [kind |-> kind, frame |-> frames + 1, sequence |-> r.sequence,
                copies |-> r.copies]
      room == Len(r.buffer) < RecordsMax
  IN [buffer |-> IF room THEN Append(r.buffer, entry) ELSE r.buffer,
      sequence |-> IF room /\ kind = "draw" THEN r.sequence + 1 ELSE r.sequence,
      copies |-> IF kind = "copy" THEN r.copies + 1 ELSE r.copies]

WantsFrame(frame) == config.records /\ frame % 2 < 1

(* TryNativeDraw: the generic pass draws it, or counts the reason it does   *)
(* not, and the demo pass may still draw a refused one.                     *)
Outcomes ==
  {[native |-> FALSE, refused |-> {}], [native |-> TRUE, refused |-> {}]}
  \union [native : BOOLEAN, refused : {{kind} : kind \in Refusals}]

PossibleOutcomes ==
  {o \in Outcomes : ~cvars.generic => o.refused = {}}

Refused(counts, kinds) ==
  [kind \in Refusals |-> IF kind \in kinds THEN counts[kind] + 1 ELSE counts[kind]]

IssueDraw ==
  /\ this.draws < MaxDraws
  /\ records' = IF WantsFrame(frames + 1)
                THEN [records EXCEPT !.next = Recorded(@, "draw")] ELSE records
  /\ \E o \in PossibleOutcomes :
       /\ this' = [this EXCEPT !.draws = @ + 1,
                               !.native = IF o.native THEN @ + 1 ELSE @,
                               !.refused = Refused(@, o.refused)]
       /\ refusals' = [refusals EXCEPT !.interval = Refused(@, o.refused)]
  /\ ran' = ran \union {Condition}
  /\ capture' = IF capture.on
                THEN [capture EXCEPT !.held = @ \union {frames + 1},
                                     !.count = @ + 1]
                ELSE capture
  /\ UNCHANGED <<config, cvars, pending, frames, mode, trace>>

IssueCopy ==
  /\ this.copies < MaxCopies
  /\ this' = [this EXCEPT !.copies = @ + 1]
  /\ records' = IF WantsFrame(frames + 1)
                THEN [records EXCEPT !.next = Recorded(@, "copy")] ELSE records
  /\ UNCHANGED <<config, cvars, pending, frames, mode, refusals, ran, trace,
                 capture>>

(* Mutant of Pressed: a second press before the poll is lost. *)
PressedAtLeastOnce(bit) == TRUE

(* A key's callback on the UI thread flips its bit (fetch_xor). *)
Pressed(bit) == ~bit

Press ==
  \/ /\ pending' = [pending EXCEPT !.native = Pressed(@), !.native_presses = ~@]
     /\ UNCHANGED <<config, cvars, frames, this, mode, refusals, ran, trace,
                    capture, records>>
  \/ /\ pending' = [pending EXCEPT !.asset = Pressed(@), !.asset_presses = ~@]
     /\ UNCHANGED <<config, cvars, frames, this, mode, refusals, ran, trace,
                    capture, records>>

-----------------------------------------------------------------------------
(* IssueSwap, in the order of its parts. *)

(* nb_replay_chunk_frames decides the next frame's chunk size. *)
WithChunkWindow(c, frame) ==
  IF config.chunks = {} THEN c
  ELSE [c EXCEPT !.tuning.chunk = IF frame \in config.chunks THEN 512 ELSE 0]

(* The finished frame's row.  Its refusals are told by the difference of    *)
(* interval counters to their values when the frame began.                  *)
Row(frame) ==
  [frame |-> frame, draws |-> this.draws, native |-> this.native,
   refusal |-> [kind \in Refusals |->
                  refusals.interval[kind] - refusals.previous[kind]],
   refused |-> this.refused]

(* NativeFrameTrace::Record, ticks after the last call: the first sets time *)
(* zero, rows are kept from the start of the interval while there is room,  *)
(* and the first call at its end writes the file.                           *)
TraceRecorded(row, ticks) ==
  LET elapsed == IF trace.elapsed < 0 THEN 0 ELSE trace.elapsed + ticks
  IN IF ~trace.enabled THEN trace
     ELSE IF elapsed >= TraceEnd
     THEN [trace EXCEPT !.enabled = FALSE, !.elapsed = elapsed,
                        !.status = IF trace.dropped > 0
                                   THEN "capacity_overflow" ELSE "complete"]
     ELSE IF elapsed < TraceStart THEN [trace EXCEPT !.elapsed = elapsed]
     ELSE IF Len(trace.rows) < TraceRows
     THEN [trace EXCEPT !.elapsed = elapsed, !.rows = Append(@, row)]
     ELSE [trace EXCEPT !.elapsed = elapsed, !.dropped = @ + 1]

(* PollDebugKeys: the pending bits, exchanged for none. *)
PollDebugKeys(c) ==
  [c EXCEPT !.generic = IF pending.native THEN ~@ ELSE @,
            !.asset = IF pending.asset THEN (IF @ = 0 THEN 2 ELSE 0) ELSE @]

(* UpdateRenderDocCapture at the end of frame: the capture open is this     *)
(* frame's; the next one's is opened before any of its work is submitted.   *)
CaptureUpdated(frame) ==
  LET ended == IF capture.on
               THEN [capture EXCEPT !.on = FALSE, !.held = {}, !.count = 0,
                       !.finished = @ \union {[frame |-> frame,
                                               held |-> capture.held,
                                               count |-> capture.count,
                                               draws |-> this.draws]}]
               ELSE capture
  IN IF frame + 1 \in config.captures THEN [ended EXCEPT !.on = TRUE] ELSE ended

(* Mutant of Reports: the schedule and the asset mode alone close one. *)
ReportsUnlessToggled(frame, phase, next, toggled) ==
  \/ phase.window # next.window \/ phase.warmup # next.warmup
  \/ phase.options # next.options \/ next.mode # mode
  \/ phase.window < 0 /\ frame \in Periodic

(* Whether the statistics are reported and begun anew after frame: what the *)
(* next frame runs under is not what this one did, or it is time to.        *)
Reports(frame, phase, next, toggled) ==
  \/ \/ phase.window # next.window
     \/ phase.warmup # next.warmup
     \/ phase.options # next.options
  \/ next.mode # mode
  \/ toggled
  \/ phase.window < 0 /\ frame \in Periodic

(* The next frame's options: the schedule's, or those of the start. *)
NextTuning(c, next) ==
  IF config.benchmark # "perf" THEN c.tuning
  ELSE ApplyPerfOptions(IF next.options # NoOptions THEN next.options
                        ELSE CurrentPerfOptions(config.tuning))

(* EndFrameAndFlush appends the frame's summary, if there is room, and      *)
(* writes the buffer.                                                       *)
Flushed(r, frame) ==
  LET summary == [kind |-> "stats", frame |-> frame, sequence |-> r.sequence,
                  copies |-> r.copies]
  IN IF r.buffer # <<>> /\ Len(r.buffer) < RecordsMax
     THEN Append(r.buffer, summary) ELSE r.buffer

IssueSwap ==
  /\ frames < config.last
  /\ LET f == frames + 1
         c == PollDebugKeys(WithChunkWindow(cvars, f + 1))
         phase == Phase(c, f)
         next == Phase(c, f + 1)
         reports == Reports(f, phase, next, c.generic # cvars.generic)
         interval == IF reports THEN NoRefusals ELSE refusals.interval
     IN /\ \E ticks \in {1, 2} : trace' = TraceRecorded(Row(f), ticks)
        /\ capture' = CaptureUpdated(f)
        /\ ran' = IF reports THEN {} ELSE ran
        /\ refusals' = [interval |-> interval,
                        previous |-> IF trace'.enabled THEN interval ELSE refusals.previous]
        /\ mode' = next.mode
        /\ cvars' = [c EXCEPT !.tuning = NextTuning(c, next)]
        /\ records' = [next |-> NoRecords, written |-> Flushed(records.next, f)]
        /\ frames' = f
  /\ pending' = [pending EXCEPT !.native = FALSE, !.asset = FALSE]
  /\ this' = NewFrame
  /\ UNCHANGED config

Next == IssueDraw \/ IssueCopy \/ Press \/ IssueSwap

Spec == Init /\ [][Next]_vars

-----------------------------------------------------------------------------
(* Properties. *)

TypeOK ==
  /\ config \in Configurations
  /\ frames \in 0 .. config.last
  /\ mode \in 0 .. 2 /\ cvars.asset \in 0 .. 2 /\ cvars.generic \in BOOLEAN
  /\ this.draws \in 0 .. MaxDraws /\ this.native \in 0 .. this.draws
  /\ refusals \in [interval : [Refusals -> Nat], previous : [Refusals -> Nat]]
  /\ trace.dropped \in Nat /\ Len(trace.rows) <= TraceRows
  /\ Len(records.next.buffer) <= RecordsMax

(* However the presses fall between swaps, each counts: the switches tell   *)
(* the parity of all presses, but for those still pending.                  *)
KeysAreCounted ==
  /\ (cvars.generic # config.generic) = (pending.native_presses # pending.native)
  /\ ((cvars.asset # 0) # (config.asset # 0))
       = (pending.asset_presses # pending.asset)

(* What is reported as one interval was drawn under one set of conditions:  *)
(* the native pass on or off, the asset mode, the performance options and   *)
(* the benchmark's window and phase.                                        *)
IntervalIsPure == \A a, b \in ran : a = b

(* A trace row has the refusals of its own frame, wherever intervals ended, *)
(* rows follow each other frame by frame, and a file that lost rows says so.*)
RowsAreOfTheirFrames ==
  /\ \A i \in 1 .. Len(trace.rows) :
       /\ trace.rows[i].refusal = trace.rows[i].refused
       /\ trace.rows[i].frame = trace.rows[1].frame + i - 1
  /\ trace.status = "complete" => trace.dropped = 0

(* Every frame asked for, but the first, is captured, alone and whole.      *)
CapturesAreWhole ==
  /\ {c.frame : c \in capture.finished}
       = config.captures \intersect (2 .. frames)
  /\ \A c \in capture.finished :
       c.held \subseteq {c.frame} /\ c.count = c.draws

(* The records written together are one frame's, numbered without gaps, and *)
(* their summary counts the draws among them.                               *)
RecordsAreOfOneFrame ==
  LET rows == records.written
      draws == {i \in 1 .. Len(rows) : rows[i].kind = "draw"}
  IN /\ \A i \in 1 .. Len(rows) : rows[i].frame = frames
     /\ \A i \in draws :
          rows[i].sequence = Cardinality({j \in draws : j < i})
     /\ \A i \in 1 .. Len(rows) :
          rows[i].kind = "stats" => i = Len(rows) /\ rows[i].sequence = Cardinality(draws)

DiagnosticsAreOfTheirFrames ==
  RowsAreOfTheirFrames /\ CapturesAreWhole /\ RecordsAreOfOneFrame

=============================================================================
