---------------------------- MODULE MCConcatJobs ----------------------------
(* Instances of ConcatJobs for TLC. *)
EXTENDS ConcatJobs

CONSTANTS c1, c2, c3

(* c1 and c2 have the same codec, c3 has another one. *)
CodecOf == [c \in Clips |-> IF c = c3 THEN "hevc" ELSE "h264"]

OfJob(inputs, fused, transcode) ==
  [inputs |-> inputs, fused |-> fused, transcode |-> transcode]

(* Jobs with lists of different lengths and one name. *)
SameName == <<OfJob(<<c1, c2, c3>>, FALSE, TRUE), OfJob(<<c2, c3>>, FALSE, TRUE),
              OfJob(<<c3, c1>>, FALSE, TRUE)>>

(* Jobs that are probed, with compatible clips at first. *)
Probed == <<OfJob(<<c1, c2>>, TRUE, FALSE), OfJob(<<c2, c1>>, FALSE, FALSE)>>

(* No input, a single one, incompatible ones. *)
Odd == <<OfJob(<< >>, TRUE, FALSE), OfJob(<<c1>>, TRUE, TRUE),
         OfJob(<<c1, c3>>, TRUE, FALSE)>>

AllKinds == {SameName, Probed, Odd}
TwoCopies == {<<OfJob(<<c1, c2>>, FALSE, FALSE), OfJob(<<c2, c1>>, FALSE, FALSE)>>}

(* Clips change where they are probed. *)
ChangesIn == [batch \in AllKinds |-> IF batch = SameName THEN 0 ELSE 1]
NoChanges == [batch \in TwoCopies |-> 0]
=============================================================================
