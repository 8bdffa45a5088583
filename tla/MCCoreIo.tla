------------------------------ MODULE MCCoreIo ------------------------------
(***************************************************************************)
(* CoreParts for TLC: two workers, three cores, two callers, two threads   *)
(* (see the configuration), a copy of three files and a batch of stats,    *)
(* and the graphs to render.                                               *)
(***************************************************************************)
EXTENDS CoreParts

(* Three files, one of them empty, longer than a round and than the pipe. *)
CopySources == << <<1, 2, 3>>, << >>, <<4, 5, 6, 7>> >>

(* Three chunks, the last of them a short one. *)
StatAnswers == <<"a", "b", "enoent", "d", "e">>

(* A graph whose every limit is reached, and graphs that differ from it in *)
(* one or two places.                                                      *)
Good ==
  [id |-> "g", timebase |-> [num |-> 1, den |-> 1000],
   tracks |-> << <<[path |-> "v1", duration |-> 0],
                   [path |-> "v2", duration |-> 1]>> >>,
   effects |-> <<[type |-> "blur", start |-> 1, end |-> 2]>>,
   overlays |-> <<[path |-> "v2", start |-> 0, duration |-> 1, opacity |-> 10]>>,
   audio |-> [id |-> "a", inputs |-> <<"v1">>, rate |-> 48000, channels |-> 2,
              drift |-> 10],
   output |-> [path |-> "out", width |-> 2, height |-> 2, fps |-> 300, crf |-> 51]]

RenderGraphs ==
  { Good, [Good EXCEPT !.id = ""],
    [Good EXCEPT !.tracks = << >>],
    [Good EXCEPT !.tracks = Append(@, << >>)],
    [Good EXCEPT !.timebase.den = 0],
    [Good EXCEPT !.overlays[1].duration = 0],
    [Good EXCEPT !.tracks[1][2].duration = -1, !.effects[1].end = 1],
    [Good EXCEPT !.effects[1].end = 1, !.overlays[1].opacity = 11],
    [Good EXCEPT !.effects[1].end = Unset, !.overlays[1].opacity = 11],
    [Good EXCEPT !.overlays = << >>, !.audio.drift = 11],
    [Good EXCEPT !.audio.inputs = <<"v1", "">>],
    [Good EXCEPT !.output.crf = 52],
    [Good EXCEPT !.audio = NoAudio, !.output.fps = 0],
    [Good EXCEPT !.audio = NoAudio, !.overlays = << >>, !.effects = << >>] }

ASSUME CoreAssumption
=============================================================================
