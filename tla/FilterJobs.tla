----------------------------- MODULE FilterJobs -----------------------------
(***************************************************************************)
(* Jobs that run ffmpeg with a filter graph: bake_master_audio             *)
(* (audio/audio_bake.rs), bake_assembly_audio, process_clip and            *)
(* merge_overlays (video/), and the graphs of audio/audio_mix.rs.          *)
(*                                                                         *)
(* A job has a base file and extra files.  It checks that files exist,     *)
(* builds a graph whose chains name the inputs by number, builds the list  *)
(* of inputs, and runs ffmpeg.  The graph and the list are built apart,    *)
(* each with checks of its own, and the numbers must agree in the end.     *)
(***************************************************************************)
EXTENDS Integers, SequencesExt

CONSTANTS
  Jobs,        \* the jobs of an instance: [kind, base, extras, subs, ranges]
  Paths,       \* names of files
  Empty,       \* the empty path
  Absent,      \* None
  MaxOffset,   \* the longest delay of a voice-over
  MaxChanges,  \* how often files appear or vanish
  Times        \* moments at which the expressions of a graph are looked at

(* start is the time of an overlay, the delay of a voice-over, and the     *)
(* offset of an input of amix; length is for overlays.                     *)
ExtraOf == [path : Paths \cup {Empty, Absent}, start : Int, length : Int]
Builders == {"amix", "concat", "music", "acrossfade"}
Kinds == {"bake", "assembly", "clip", "overlay"} \cup Builders

JobsAssumption ==
  /\ MaxChanges \in Nat /\ MaxOffset \in Nat
  /\ Empty \notin Paths /\ Absent \notin Paths
  /\ \A j \in Jobs :
       /\ j.kind \in Kinds /\ j.base \in Paths \cup {Empty}
       /\ j.extras \in Seq(ExtraOf)
       /\ j.subs \in Paths \cup {Absent}
       /\ j.ranges \in Seq(Times \X Times)
       /\ j.kind \in {"bake", "assembly"} => Len(j.extras) = 2
       /\ j.kind \in {"music", "acrossfade"} => Len(j.extras) > 0
  /\ Times \subseteq Int

VARIABLES
  job,
  files,     \* the files that exist
  phase,
  at,        \* the extra the next step looks at
  pads,      \* the file each input number of the graph was meant for
  inputs,    \* the files of the command line; 0 is the base, i an extra
  graph,     \* the chains
  output,    \* what is at the output path
  result,
  changes,
  changed    \* history: files appeared or vanished while the job ran

build == <<pads, inputs, graph>>
vars == <<job, files, phase, at, build, output, result, changes, changed>>

kind == job.kind
Extra == job.extras[at]
LastExtra == at >= Len(job.extras)
Exists(p) == p \in files
PathOf(i) == IF i = 0 THEN job.base ELSE job.extras[i].path

-----------------------------------------------------------------------------
(* The graphs.  [0:a] is InA(0); takes is the number of inputs a filter    *)
(* has by its definition or by its inputs= option.                         *)

InA(i) == <<"in:a", i>>
InV(i) == <<"in:v", i>>
Label(name) == <<name, 0>>
Numbered(name, i) == <<name, i>>
Chain(ins, out) == [ins |-> ins, outs |-> <<out>>, takes |-> Len(ins)]

(* build_audio_bake_filter and build_assembly_audio_filter: a chain for    *)
(* each input, and a mix of them.                                          *)
NameOf(i) == CASE i = 0 -> "base" [] i = 1 -> "vo" [] i = 2 -> "bg"
build_bake_filter(items) ==
  [k \in 1..Len(items) |-> Chain(<<InA(k - 1)>>, Label(NameOf(items[k])))]
  \o <<Chain([k \in 1..Len(items) |-> Label(NameOf(items[k]))], Label("aout"))>>

(* Variant: the mix counts the sounds from one. *)
build_clip_filter_shifted(n) ==
  <<Chain(<<InV(0)>>, Label("vout"))>>
  \o [i \in 1..n |-> Chain(<<InA(i)>>, Numbered("sfx", i - 1))]
  \o <<Chain(<<InA(0)>> \o [i \in 1..n |-> Numbered("sfx", i)],
             Label("aout"))>>

build_clip_filter(n) ==
  <<Chain(<<InV(0)>>, Label("vout"))>>
  \o [i \in 1..n |-> Chain(<<InA(i)>>, Numbered("sfx", i - 1))]
  \o <<Chain(<<InA(0)>> \o [i \in 1..n |-> Numbered("sfx", i - 1)],
             Label("aout"))>>

TmpOf(i) == IF i = 0 THEN InV(0) ELSE Numbered("tmp", i)
build_overlay_filter(n) ==
  [i \in 1..n |-> Chain(<<InV(i)>>, Numbered("ovr", i))]
  \o [i \in 1..n |-> Chain(<<TmpOf(i - 1), Numbered("ovr", i)>>, TmpOf(i))]
  \o (IF Exists(job.subs) THEN <<Chain(<<TmpOf(n)>>, Label("vsub"))>> ELSE << >>)
  \o <<Chain(<<InA(0)>>, Label("aout"))>>

(* build_amix_filter: an input without a filter leaves its pad in front of *)
(* whatever text comes next.                                               *)
build_amix_filter(extras) ==
  LET Add(acc, i) ==
        IF extras[i].start > 0
        THEN [pending |-> << >>,
              chains |-> Append(acc.chains,
                [ins |-> Append(acc.pending, InA(i - 1)),
                 outs |-> <<Numbered("a", i - 1)>>, takes |-> 1])]
        ELSE [acc EXCEPT !.pending = Append(@, InA(i - 1))]
      all == FoldLeft(Add, [pending |-> << >>, chains |-> << >>],
                      [i \in DOMAIN extras |-> i])
  IN Append(all.chains,
       [ins |-> all.pending
                \o [i \in DOMAIN extras |-> Numbered("a", i - 1)],
        outs |-> <<Label("a"), Label("a")>>, takes |-> Len(extras)])

build_concat_audio_filter(n) ==
  <<Chain([i \in 1..n |-> IF i > 1 THEN Numbered("a", i - 1) ELSE InA(0)],
          Label("aout"))>>

build_background_music_filter ==
  <<Chain(<<InA(0)>>, Numbered("main", 0)), Chain(<<InA(1)>>, Numbered("bgm", 1)),
    Chain(<<Numbered("main", 0), Numbered("bgm", 1)>>, Label("aout"))>>

build_acrossfade_filter == <<Chain(<<InA(0), InA(1)>>, Label("aout"))>>

Graph(items) ==
  CASE kind \in {"bake", "assembly"} -> build_bake_filter(items)
    [] kind = "clip" -> build_clip_filter(Len(items) - 1)
    [] kind = "overlay" -> build_overlay_filter(Len(items) - 1)
    [] kind = "amix" -> build_amix_filter(job.extras)
    [] kind = "concat" -> build_concat_audio_filter(Len(job.extras))
    [] kind = "music" -> build_background_music_filter
    [] kind = "acrossfade" -> build_acrossfade_filter

(* The labels the command maps to the output. *)
Mapped(n) ==
  CASE kind \in {"bake", "assembly"} -> {Label("aout")}
    [] kind = "clip" -> {Label("vout"), Label("aout")}
    [] kind = "overlay" ->
         {IF \E c \in ToSet(graph) : Label("vsub") \in ToSet(c.outs)
          THEN Label("vsub") ELSE TmpOf(n - 1), Label("aout")}
    [] kind = "amix" -> {Label("a")}
    [] OTHER -> {Label("aout")}

-----------------------------------------------------------------------------
(* The expressions: what they are at time t. *)

between(t, r) == IF r[1] <= t /\ t <= r[2] THEN 1 ELSE 0

(* The terms of the ranges that are not empty, added up. *)
Proper(r) == r[2] > r[1]
SumAt(t, ranges) ==
  LET sum[n \in 0..Len(ranges)] ==
        IF n = 0 THEN 0
        ELSE sum[n - 1] + (IF Proper(ranges[n]) THEN between(t, ranges[n]) ELSE 0)
  IN  sum[Len(ranges)]

(* build_gate_expr_from_ranges: the gate of the base (invert) or of the    *)
(* voice-over and the music.                                               *)
Gate(t, invert) ==
  IF (SumAt(t, job.ranges) # 0) = invert THEN 1 ELSE 0

(* build_enable_condition: a filter is enabled where this is not 0. *)
Enable(t, e) ==
  between(t, <<e.start, e.start + e.length>>)
  * (1 - SumAt(t, job.ranges))

-----------------------------------------------------------------------------
Fail ==
  /\ result' = "error" /\ phase' = "done"
  /\ UNCHANGED <<job, files, at, build, changes, changed>>

Goto(p, i) == phase' = p /\ at' = i
NextExtra(p, i) == IF LastExtra THEN Goto(p, i) ELSE Goto(phase, at + 1)
Keep == UNCHANGED <<job, files, output, result, changes, changed>>

(* base_video_path and input_path: empty, missing, or not to be probed. *)
NoBase ==
  /\ phase \in {"base", "base again"}
  /\ kind = "clip" \/ ~Exists(job.base)
  /\ Fail /\ UNCHANGED output

HasBase ==
  /\ phase \in {"base", "base again"}
  /\ Exists(job.base)
  /\ CASE kind = "bake" -> Goto("extras", 1)
       [] kind = "assembly" /\ phase = "base" -> Goto("extras", 1)
       [] kind = "overlay" -> Goto("inputs", 1)
       [] OTHER -> Goto("filter", 1)
  /\ Keep /\ UNCHANGED build

(* bake_master_audio and bake_assembly_audio: voice-over and music. *)
MissingExtra == Extra.path \notin {Absent, Empty} /\ ~Exists(Extra.path)

RejectExtra ==
  /\ phase = "extras"
  /\ MissingExtra
  /\ Fail /\ UNCHANGED output

AcceptExtra ==
  /\ phase = "extras"
  /\ ~MissingExtra
  /\ NextExtra(IF kind = "bake" THEN "filter" ELSE "base again", 1)
  /\ Keep /\ UNCHANGED build

(* The graph: which extras get a chain, and so a number. *)
HasChain ==
  CASE kind = "bake" -> Exists(Extra.path)
    [] kind = "assembly" -> Extra.path # Absent
    [] OTHER -> TRUE

DelayTooLong ==
  kind = "bake" /\ at = 1 /\ HasChain /\ Extra.start > MaxOffset

OffsetTooLong ==
  /\ phase = "filter"
  /\ DelayTooLong
  /\ Fail /\ UNCHANGED output

Filter ==
  /\ phase = "filter"
  /\ ~DelayTooLong
  /\ LET items == IF at \in DOMAIN job.extras /\ HasChain
                  THEN Append(pads, at) ELSE pads
     IN /\ pads' = items
        /\ graph' = IF LastExtra THEN Graph(items) ELSE graph
  /\ CASE kind = "overlay" -> NextExtra("run", 1)
       [] kind \in Builders -> NextExtra("done", 1)
       [] OTHER -> NextExtra("inputs", 1)
  /\ result' = IF kind \in Builders /\ LastExtra THEN "text" ELSE result
  /\ UNCHANGED <<job, files, inputs, output, changes, changed>>

(* The command: which extras become inputs. *)
IsInput ==
  /\ Exists(Extra.path)
  /\ kind = "overlay" => Extra.length > 0 /\ Extra.start >= 0

Input ==
  /\ phase = "inputs"
  /\ inputs' = IF at \in DOMAIN job.extras /\ IsInput
               THEN Append(inputs, at) ELSE inputs
  /\ NextExtra(IF kind # "overlay" THEN "run"
               ELSE IF inputs' = <<0>> THEN "none" ELSE "filter", 1)
  /\ Keep /\ UNCHANGED <<pads, graph>>

NoOverlays == phase = "none" /\ Fail /\ UNCHANGED output

(* ffmpeg reads files that exist, and a graph whose numbers are all on the *)
(* command line.                                                           *)
Runnable ==
  /\ \A i \in DOMAIN inputs : Exists(PathOf(inputs[i]))
  /\ Label("vsub") \in Mapped(Len(pads)) => Exists(job.subs)
  /\ Len(pads) <= Len(inputs)

Ffmpeg ==
  /\ phase = "run"
  /\ Runnable
  /\ output' \in {"made", "too small"}
  /\ Goto("verify", 1)
  /\ UNCHANGED <<job, files, build, result, changes, changed>>

(* Variant: nobody looks at the exit status. *)
FfmpegFailsUnseen ==
  /\ phase = "run"
  /\ output' \in {output, "partial"}
  /\ Goto("verify", 1)
  /\ UNCHANGED <<job, files, build, result, changes, changed>>

FfmpegFails ==
  /\ phase = "run"
  /\ output' \in {output, "partial"}
  /\ Fail

Verify ==
  /\ phase = "verify"
  /\ result' = IF output \in {"none", "too small"} THEN "error" ELSE "ok"
  /\ Goto("done", 1)
  /\ UNCHANGED <<job, files, build, output, changes, changed>>

(* Other programs. *)
ChangeFile(p) ==
  /\ changes < MaxChanges
  /\ phase # "done"
  /\ files' = IF Exists(p) THEN files \ {p} ELSE files \cup {p}
  /\ changes' = changes + 1
  /\ changed' = (phase # "base")
  /\ UNCHANGED <<job, phase, at, build, output, result>>

-----------------------------------------------------------------------------
Init ==
  /\ job \in Jobs
  /\ files \in SUBSET Paths
  /\ phase = IF kind \in Builders THEN "filter" ELSE "base"
  /\ at = 1
  /\ pads = <<0>> /\ inputs = <<0>> /\ graph = << >>
  /\ output \in {"none", "old"}
  /\ result = "none"
  /\ changes = 0 /\ changed = FALSE

Job ==
  \/ NoBase \/ HasBase \/ RejectExtra \/ AcceptExtra
  \/ OffsetTooLong \/ Filter \/ Input \/ NoOverlays
  \/ Ffmpeg \/ FfmpegFails \/ Verify

Done == phase = "done" /\ UNCHANGED vars

Next == Job \/ Done \/ \E p \in Paths : ChangeFile(p)

Spec == Init /\ [][Next]_vars

-----------------------------------------------------------------------------
TypeOK ==
  /\ job \in Jobs /\ files \subseteq Paths
  /\ phase \in {"base", "extras", "base again", "filter", "inputs", "none",
                "run", "verify", "done"}
  /\ at \in 1..Len(job.extras) + 1
  /\ pads \in Seq(0..Len(job.extras)) /\ inputs \in Seq(0..Len(job.extras))
  /\ output \in {"none", "old", "partial", "too small", "made"}
  /\ result \in {"none", "error", "ok", "text"}
  /\ changes \in 0..MaxChanges /\ changed \in BOOLEAN

(* A job that reports success made its output itself, not an earlier one,  *)
(* and, if no file appeared or vanished while it ran, every chain of its   *)
(* graph worked on the file it was written for, and no input was left out. *)
OutputAsMeant ==
  result = "ok" => /\ output = "made"
                   /\ ~changed => inputs = pads

(* The graph holds together: a label is defined once, before it is used    *)
(* once; every filter gets as many inputs as it takes; what is mapped to   *)
(* the output is there, and nothing else is left over.                     *)
Outs(c) == ToSet(c.outs)
GraphIsWired ==
  LET Defined(n) == UNION {Outs(graph[k]) : k \in 1..n}
      Used == UNION {ToSet(graph[k].ins) : k \in DOMAIN graph}
      InPads == {InA(i) : i \in 0..(Len(pads) - 1)}
                \cup {InV(i) : i \in 0..(Len(pads) - 1)}
  IN graph # << >> /\ kind \notin {"amix", "concat"} =>
       /\ \A k \in DOMAIN graph :
            /\ Len(graph[k].ins) = graph[k].takes /\ Len(graph[k].outs) = 1
            /\ ToSet(graph[k].ins) \subseteq InPads \cup Defined(k - 1)
            /\ Outs(graph[k]) \cap Defined(k - 1) = {}
       /\ \A k, l \in DOMAIN graph :
            \A i \in DOMAIN graph[k].ins, j \in DOMAIN graph[l].ins :
              graph[k].ins[i] = graph[l].ins[j] => k = l /\ i = j
       /\ Defined(Len(graph)) \ Used = Mapped(Len(pads))

(* The gates split the time: the base is heard in the given ranges and     *)
(* there only, the voice-over and the music in the rest; an overlay is     *)
(* enabled in its time outside the middle clips if these do not overlap.   *)
InRange(t) ==
  \E r \in ToSet(job.ranges) : r[1] < r[2] /\ r[1] <= t /\ t <= r[2]
GatesSplitTime ==
  \A t \in Times :
    /\ Gate(t, TRUE) = 1 <=> InRange(t)
    /\ Gate(t, FALSE) = 1 - Gate(t, TRUE)
    /\ \A e \in ToSet(job.extras) :
         SumAt(t, job.ranges) <= 1 =>
           (Enable(t, e) # 0 <=> /\ e.start <= t /\ t <= e.start + e.length
                                 /\ ~InRange(t))

(* "overlays disabled during these ranges" (overlay_merge.rs:44): what a   *)
(* merge that succeeds has drawn is not to be seen in a middle clip.       *)
OverlaysDisabled ==
  kind = "overlay" /\ result = "ok" =>
    \A t \in Times, k \in 2..Len(pads) :
      InRange(t) => Enable(t, job.extras[pads[k]]) = 0
=============================================================================
