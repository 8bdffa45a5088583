---------------------------- MODULE RenderGraph -----------------------------
(***************************************************************************)
(* process_render_graph and run_audio_graph (core/render_graph), with the  *)
(* validation of the plan (core/timeline.rs) and of the audio graph        *)
(* (core/audio_graph.rs).  The stages run in turn, each on the same        *)
(* graph, while other programs create and remove the files it names.       *)
(* Frames per second, opacity and drift are in tenths.                     *)
(***************************************************************************)
EXTENDS Integers, Sequences, SequencesExt

CONSTANTS
  Graphs,      \* the graphs a caller may bring
  Files,       \* the paths they name, besides the empty one
  NoAudio,     \* a graph without an audio graph
  Unset,       \* a time that is not given
  TicksPerMs,  \* of the clock: as_millis rounds down
  MaxClock     \* bound: the clock

(* A path may be empty and a time absent; sizes and rates are unsigned.     *)
PathSet == Files \cup {""}
Time == Int \cup {Unset}

RenderAssumption ==
  /\ TicksPerMs \in Nat \ {0} /\ MaxClock \in Nat
  /\ \A g \in Graphs :
       /\ g.tracks \in Seq(Seq([path : PathSet, duration : Int]))
       /\ g.effects \in Seq([type : STRING, start : Time, end : Time])
       /\ g.overlays \in Seq([path : PathSet, start : Int, duration : Int,
                              opacity : Int])
       /\ g.audio # NoAudio =>
            /\ g.audio.inputs \in Seq(PathSet)
            /\ g.audio.rate \in Nat /\ g.audio.channels \in Nat
            /\ g.audio.drift \in Int
       /\ g.output.width \in Nat /\ g.output.height \in Nat
       /\ g.output.fps \in Int /\ g.output.crf \in Int

Stages == <<"probe", "decode", "effects", "overlay", "audio", "encode">>
Components == ToSet(Stages)

VARIABLES
  pc,        \* the stage that runs, or "idle" or "returned"
  graph,
  entry,     \* the function that was called
  todo,      \* the paths probe_sources has still to look at
  present,   \* the files that exist
  clock,
  began,     \* total_start and the start of the stage
  metrics,   \* RenderMetrics.components
  stageMs,   \* RenderMetrics.<stage>_ms
  result,
  sightings, \* history: the paths that were there, and that were not, so far
  absences

renderVars == <<pc, graph, entry, todo, present, clock, began, metrics,
                stageMs, result, sightings, absences>>

-----------------------------------------------------------------------------
(* A function checks its conditions in order and returns the code of the   *)
(* first that holds.                                                       *)
Check(bad, code) == [bad |-> bad, code |-> code]
FirstError(checks) ==
  LET bad == {k \in DOMAIN checks : checks[k].bad}
  IN IF bad = {} THEN "ok" ELSE checks[Min(bad)].code

TimelineChecks(g) ==
  << Check(g.tracks = << >>, "TIMELINE_EMPTY_TRACKS"),
     Check(g.timebase.den = 0, "TIMELINE_INVALID_TIMEBASE"),
     Check(g.timebase.num = 0, "TIMELINE_INVALID_TIMEBASE"),
     Check(g.output.path = "", "TIMELINE_INVALID_PLAN") >>
  \o [k \in DOMAIN g.tracks |->
        Check(g.tracks[k] = << >>, "TIMELINE_EMPTY_TRACKS")]
  \o [k \in DOMAIN g.overlays |->
        Check(g.overlays[k].duration <= 0 \/ g.overlays[k].start < 0,
              "OVERLAY_INVALID_BOUNDS")]

AudioChecks(a) ==
  << Check(a.id = "", "AUDIO_GRAPH_INVALID_CONFIG"),
     Check(a.inputs = << >>, "AUDIO_GRAPH_INVALID_CONFIG"),
     Check(a.rate = 0, "AUDIO_GRAPH_INVALID_CONFIG"),
     Check(a.channels = 0 \/ a.channels > 2, "AUDIO_GRAPH_INVALID_CONFIG"),
     Check("" \in ToSet(a.inputs), "AUDIO_GRAPH_INVALID_CONFIG") >>

(* RenderGraph::validate *)
ValidateError(g) ==
  FirstError(<<Check(g.id = "", "TIMELINE_INVALID_PLAN")>>
             \o TimelineChecks(g)
             \o IF g.audio = NoAudio THEN << >> ELSE AudioChecks(g.audio))

(* process_audio and run_audio_graph do the same checks. *)
AudioError(a) ==
  FirstError(Append(AudioChecks(a), Check(a.drift > 10, "AUDIO_DRIFT_EXCEEDED")))

(* The paths in the order probe_sources asks for them, with the code of    *)
(* the error when one does not exist.                                      *)
Segments(g) == FlattenSeq(g.tracks)
Sources(g) ==
  [k \in DOMAIN Segments(g) |-> <<Segments(g)[k].path, "IO_FILE_NOT_FOUND">>]
  \o [k \in DOMAIN g.overlays |->
        <<g.overlays[k].path, "OVERLAY_MISSING_ASSET">>]
  \o IF g.audio = NoAudio THEN << >>
     ELSE [k \in DOMAIN g.audio.inputs |->
             <<g.audio.inputs[k], "IO_FILE_NOT_FOUND">>]

DecodeError(g) ==
  FirstError([k \in DOMAIN Segments(g) |->
                Check(Segments(g)[k].duration < 0, "DECODE_FAILED")])

EffectsError(g) ==
  FirstError([k \in DOMAIN g.effects |->
    LET e == g.effects[k]
    IN Check(\/ e.type = ""
             \/ Unset \notin {e.start, e.end} /\ e.end <= e.start,
             "EFFECTS_FAILED")])

OverlayError(g) ==
  FirstError([k \in DOMAIN g.overlays |->
                Check(g.overlays[k].opacity \notin 0..10,
                      "OVERLAY_INVALID_BOUNDS")])

EncodeError(g) ==
  FirstError(<< Check(g.output.width = 0 \/ g.output.height = 0, "ENCODE_FAILED"),
                Check(g.output.fps <= 0, "ENCODE_FAILED"),
                Check(g.output.crf > 51, "ENCODE_FAILED") >>)

(* Variant: the audio stage trusts the validation. *)
StageErrorWithoutDrift(s, g) ==
  CASE s = "decode" -> DecodeError(g)
    [] s = "effects" -> EffectsError(g)
    [] s = "overlay" -> OverlayError(g)
    [] s = "audio" -> "ok"
    [] s = "encode" -> EncodeError(g)

StageError(s, g) ==
  CASE s = "decode" -> DecodeError(g)
    [] s = "effects" -> EffectsError(g)
    [] s = "overlay" -> OverlayError(g)
    [] s = "audio" -> IF g.audio = NoAudio THEN "ok" ELSE AudioError(g.audio)
    [] s = "encode" -> EncodeError(g)

-----------------------------------------------------------------------------
NewMetrics ==
  [c \in Components |->
     [attempts |-> 0, successes |-> 0, fallbacks |-> 0, last_error |-> "none"]]
RecordAttempt(m, c) == [m EXCEPT ![c].attempts = @ + 1]
RecordSuccess(m, c) == [m EXCEPT ![c].successes = @ + 1]
RecordFallback(m, c, code) ==
  [m EXCEPT ![c].fallbacks = @ + 1, ![c].last_error = code]
FallbackComponents(m) == {c \in Components : m[c].fallbacks > 0}

NoResult ==
  [success |-> FALSE, artifact |-> "none", stage |-> "none", code |-> "none",
   reasons |-> << >>, fallback_used |-> FALSE, total_ms |-> 0]

(* RenderResult::failure of an error; only the two first stages add a      *)
(* reason code of their own, and none of the failures sets total_ms.       *)
Failure(code, stage, reasons) ==
  [NoResult EXCEPT !.stage = stage, !.code = code, !.reasons = <<code>> \o reasons]

Elapsed(since) == (clock - since) \div TicksPerMs

(* RenderResult::success, and with_fallback if any component has one. *)
Success(g, m) ==
  LET used == FallbackComponents(m) # {}
  IN [NoResult EXCEPT
        !.success = TRUE, !.artifact = g.output.path,
        !.reasons = <<"SUCCESS">> \o
           (IF used THEN <<"EMERGENCY_FALLBACK", "SUCCESS_WITH_FALLBACK">>
            ELSE << >>),
        !.fallback_used = used,
        !.total_ms = Elapsed(began.total)]

Return(r) == pc' = "returned" /\ result' = r

(* The next stage; the audio stage is left out without an audio graph. *)
After(s, g) ==
  LET k == CHOOSE k \in DOMAIN Stages : Stages[k] = s
  IN IF Stages[k + 1] = "audio" /\ g.audio = NoAudio THEN "encode"
     ELSE Stages[k + 1]

Enter(s, m) ==
  /\ pc' = s
  /\ metrics' = RecordAttempt(m, s)
  /\ began' = [began EXCEPT !.stage = clock]

(* A stage that ends well counts a success and hands over to the next. *)
Advance(s) ==
  LET done == RecordSuccess(metrics, s)
  IN /\ stageMs' = [stageMs EXCEPT ![s] = Elapsed(began.stage)]
     /\ IF s = "encode"
        THEN /\ metrics' = done
             /\ Return(Success(graph, done))
             /\ UNCHANGED began
        ELSE Enter(After(s, graph), done) /\ UNCHANGED result

(* Variant: a stage that fails looks like one that did not run. *)
FailUncounted(s, code, reasons) ==
  /\ stageMs' = [stageMs EXCEPT ![s] = Elapsed(began.stage)]
  /\ Return(Failure(code, s, reasons))
  /\ UNCHANGED <<metrics, began>>

(* One that fails counts a fallback and ends the call. *)
Fail(s, code, reasons) ==
  /\ metrics' = RecordFallback(metrics, s, code)
  /\ stageMs' = [stageMs EXCEPT ![s] = Elapsed(began.stage)]
  /\ Return(Failure(code, s, reasons))
  /\ UNCHANGED began

-----------------------------------------------------------------------------
(* Validation counts as an attempt of the decoder and is not timed. *)
ProcessRenderGraph ==
  /\ pc = "idle"
  /\ LET validating == RecordAttempt(NewMetrics, "decode")
         code == ValidateError(graph)
     IN IF code = "ok"
        THEN /\ metrics' = RecordAttempt(validating, "probe")
             /\ pc' = "probe"
             /\ UNCHANGED result
        ELSE /\ metrics' = RecordFallback(validating, "decode", code)
             /\ Return(Failure(code, "none", <<"VALIDATION_FAILED">>))
  /\ entry' = "render" /\ todo' = Sources(graph)
  /\ began' = [total |-> clock, stage |-> clock]
  /\ sightings' = present /\ absences' = (Files \cup {""}) \ present
  /\ UNCHANGED <<graph, present, clock, stageMs>>

RunAudioGraph ==
  /\ pc = "idle" /\ graph.audio # NoAudio
  /\ LET code == AudioError(graph.audio)
     IN Return(IF code = "ok" THEN [NoResult EXCEPT !.success = TRUE]
               ELSE [NoResult EXCEPT !.code = code])
  /\ entry' = "audio"
  /\ UNCHANGED <<graph, todo, present, clock, began, metrics, stageMs,
                 sightings, absences>>

ProbeOne ==
  /\ pc = "probe" /\ todo # << >>
  /\ IF todo[1][1] \in present
     THEN todo' = Tail(todo) /\ UNCHANGED <<pc, result, metrics, stageMs, began>>
     ELSE Fail("probe", todo[1][2], <<"PROBE_FAILED">>) /\ UNCHANGED todo
  /\ UNCHANGED <<graph, entry, present, clock, sightings, absences>>

ProbeDone ==
  /\ pc = "probe" /\ todo = << >>
  /\ Advance("probe")
  /\ UNCHANGED <<graph, entry, todo, present, clock, sightings, absences>>

RunStage(s) ==
  /\ pc = s
  /\ LET code == StageError(s, graph)
     IN IF code = "ok" THEN Advance(s) ELSE Fail(s, code, << >>)
  /\ UNCHANGED <<graph, entry, todo, present, clock, sightings, absences>>

(* Other programs create and remove files; time passes. *)
FileChanges ==
  /\ pc = "probe"
  /\ \E f \in Files :
       present' = IF f \in present THEN present \ {f} ELSE present \cup {f}
  /\ sightings' = sightings \cup present'
  /\ absences' = absences \cup (Files \ present')
  /\ UNCHANGED <<pc, graph, entry, todo, clock, began, metrics, stageMs, result>>

Tick ==
  /\ pc \in Components /\ clock < MaxClock
  /\ clock' = clock + 1
  /\ UNCHANGED <<pc, graph, entry, todo, present, began, metrics, stageMs,
                 result, sightings, absences>>

Returned == pc = "returned" /\ UNCHANGED renderVars

-----------------------------------------------------------------------------
Init ==
  /\ pc = "idle" /\ graph \in Graphs /\ entry = "none"
  /\ todo = << >> /\ present \in SUBSET Files
  /\ clock = 0 /\ began = [total |-> 0, stage |-> 0]
  /\ metrics = NewMetrics /\ stageMs = [c \in Components |-> 0]
  /\ result = NoResult
  /\ sightings = {} /\ absences = {}

Next ==
  \/ ProcessRenderGraph \/ RunAudioGraph
  \/ ProbeOne \/ ProbeDone
  \/ \E s \in Components \ {"probe"} : RunStage(s)
  \/ FileChanges \/ Tick \/ Returned

Spec == Init /\ [][Next]_renderVars

-----------------------------------------------------------------------------
TypeOK ==
  /\ pc \in Components \cup {"idle", "returned"}
  /\ graph \in Graphs /\ entry \in {"none", "render", "audio"}
  /\ todo \in Seq((Files \cup {""}) \X {"IO_FILE_NOT_FOUND", "OVERLAY_MISSING_ASSET"})
  /\ present \subseteq Files /\ sightings \subseteq Files
  /\ absences \subseteq Files \cup {""}
  /\ clock \in 0..MaxClock
  /\ began.stage \in 0..clock /\ began.total \in 0..clock
  /\ DOMAIN metrics = Components /\ DOMAIN result = DOMAIN NoResult
  /\ stageMs \in [Components -> 0..MaxClock]

Segment(g) == UNION {ToSet(g.tracks[k]) : k \in DOMAIN g.tracks}
Inputs(a) == IF a = NoAudio THEN {} ELSE ToSet(a.inputs)
Paths(g) == {s.path : s \in Segment(g)} \cup {o.path : o \in ToSet(g.overlays)}
            \cup Inputs(g.audio)

(* What is wrong with a graph, stage by stage, as a caller would say it.   *)
Flawed(s, g) ==
  CASE s = "none" ->
         \/ "" \in {g.id, g.output.path} \/ 0 \in {g.timebase.num, g.timebase.den}
         \/ g.tracks = << >> \/ << >> \in ToSet(g.tracks)
         \/ \E o \in ToSet(g.overlays) : o.start < 0 \/ o.duration <= 0
         \/ /\ g.audio # NoAudio
            /\ \/ g.audio.id = "" \/ g.audio.rate = 0
               \/ g.audio.channels \notin 1..2
               \/ Inputs(g.audio) = {} \/ "" \in Inputs(g.audio)
    [] s = "probe" -> ~ (Paths(g) \subseteq sightings)
    [] s = "decode" -> \E x \in Segment(g) : x.duration < 0
    [] s = "effects" ->
         \E e \in ToSet(g.effects) :
           e.type = "" \/ (Unset \notin {e.start, e.end} /\ ~ (e.start < e.end))
    [] s = "overlay" ->
         \E o \in ToSet(g.overlays) : o.opacity < 0 \/ o.opacity > 10
    [] s = "audio" -> g.audio # NoAudio /\ g.audio.drift > 10
    [] s = "encode" ->
         \/ g.output.width * g.output.height = 0
         \/ g.output.fps <= 0 \/ g.output.crf > 51

(* A render succeeds only for a graph without a flaw whose files were all  *)
(* seen during the call, and a failure names the first stage with a flaw,  *)
(* or the probe and a file that was absent at some moment of the call.     *)
OutcomeIsFirstFlaw ==
  pc = "returned" /\ entry = "render" =>
    LET order == <<"none">> \o Stages
        at == CHOOSE k \in DOMAIN order : order[k] = result.stage
    IN IF result.success
       THEN /\ \A k \in DOMAIN order : ~ Flawed(order[k], graph)
            /\ result.artifact = graph.output.path
       ELSE /\ IF result.stage = "probe" THEN Paths(graph) \cap absences # {}
               ELSE Flawed(result.stage, graph)
            /\ \A k \in 1..(at - 1) : ~ Flawed(order[k], graph)

TotalStageMs == stageMs.probe + stageMs.decode + stageMs.effects
                + stageMs.overlay + stageMs.audio + stageMs.encode

(* The metrics of a finished render add up: every attempt ended well or as *)
(* the one failure of the call, except the attempt that validation counts  *)
(* for the decoder and nobody closes; no success is called a fallback; and *)
(* the stages' milliseconds, each rounded down, never exceed the total.    *)
MetricsAddUp ==
  pc = "returned" /\ entry = "render" =>
    /\ \A c \in Components :
         metrics[c].attempts = metrics[c].successes + metrics[c].fallbacks
           + IF c = "decode" /\ (result.stage # "none" \/ result.success)
             THEN 1 ELSE 0
    /\ \A c \in Components :
         metrics[c].fallbacks =
           IF ~ result.success /\ c = (IF result.stage = "none" THEN "decode"
                                      ELSE result.stage)
           THEN 1 ELSE 0
    /\ result.success =>
         ~ result.fallback_used /\ TotalStageMs <= result.total_ms
=============================================================================
