--------------------------- MODULE FilterJobSets ----------------------------
(* Jobs of FilterJobs for TLC: constants only, so any MC module takes them. *)
EXTENDS Integers

OfPath(p, start, length) == [path |-> p, start |-> start, length |-> length]
OfKind(kind, base, extras, subs, ranges) ==
  [kind |-> kind, base |-> base, extras |-> extras, subs |-> subs,
   ranges |-> ranges]

(* Voice-over and music present, empty or not given; a delay over the      *)
(* limit; gate ranges that touch, and one that is empty.                   *)
BakeJobs ==
  {OfKind(k, "b", <<OfPath(v, s, 0), OfPath(m, 0, 0)>>, "none",
          << <<0, 1>>, <<3, 3>> >>) :
     k \in {"bake", "assembly"}, v \in {"p", "", "none"}, m \in {"q", "none"},
     s \in {0, 3}}
  \cup {OfKind("bake", "", <<OfPath("none", 0, 0), OfPath("none", 0, 0)>>,
               "none", << >>)}

ClipJobs ==
  {OfKind("clip", "b", [i \in 1..n |-> OfPath(f[i], 0, 0)], "none", << >>) :
     n \in 0..2, f \in {<<"p", "q">>, <<"q", "p">>, <<"p", "p">>}}

(* Overlays that are in order, too short, or start too early, with and     *)
(* without subtitles and middle clips.                                     *)
OverlayJobs ==
  {OfKind("overlay", "b", [i \in 1..n |-> f[i]], subs, ranges) :
     n \in 0..2, subs \in {"none", "q"},
     f \in {<<OfPath("p", 0, 2), OfPath("q", 1, 3)>>,
            <<OfPath("q", 1, 0), OfPath("p", 0, 4)>>,
            <<OfPath("p", -1, 3), OfPath("q", 1, 2)>>},
     ranges \in {<< >>, << <<1, 2>>, <<3, 1>>, <<3, 4>> >>}}

(* Middle clips that share an end, and ones that overlap. *)
CloseRanges ==
  {OfKind("overlay", "b", <<OfPath("p", 0, 4)>>, "none", r) :
     r \in {<< <<0, 1>>, <<1, 2>> >>, << <<0, 3>>, <<2, 4>> >>}}

TextJobs ==
  {OfKind(k, "b", [i \in 1..n |-> OfPath("p", i - 1, 0)], "none", << >>) :
     k \in {"amix", "concat", "music"}, n \in {2, 3}}
  \cup {OfKind("acrossfade", "b", <<OfPath("p", 0, 0)>>, "none", << >>)}

AllJobs == BakeJobs \cup ClipJobs \cup OverlayJobs \cup CloseRanges \cup TextJobs
Moments == -1..4
=============================================================================
