-------------------------- MODULE ConcatJobsProofs --------------------------
(***************************************************************************)
(* Theorems about ConcatJobs for any clips, any batches of jobs and any    *)
(* number of workers and of changes to the clips.                          *)
(***************************************************************************)
EXTENDS ConcatJobs, FiniteSetTheorems, SequenceTheorems, TLAPS

-----------------------------------------------------------------------------
(* Type correctness, by groups of variables.                               *)

Places == {"waiting", "fuse", "concat", "check", "create", "write", "read",
           "ffmpeg", "remove first", "remove", "done"}

(* Where a job has chosen its mode and is not done. *)
Listing == {"create", "write", "read", "ffmpeg", "remove first", "remove"}

GivenTyped ==
  /\ Job \in Batches
  /\ codec \in [Clips -> Codecs \cup {NoCodec}] /\ changes \in 0..MaxChanges[Job]

ControlTyped ==
  /\ pc \in [Jobs -> Places]
  /\ allow \in [Jobs -> BOOLEAN]
  /\ ref \in [Jobs -> Codecs \cup {NoCodec}]
  /\ n \in [Jobs -> Nat \ {0}]
  /\ mode \in [Jobs -> ListModes \cup {"file", "none"}]
  /\ result \in [Jobs -> {"none", "ok", "error"}]
  /\ \A j \in Jobs : pc[j] \in Listing => mode[j] \in ListModes

DataTyped ==
  /\ feed \in [Jobs -> Seq(Clips \cup {Hole})]
  /\ out \in [Jobs -> Seq(Clips \cup {Hole})]

ListsTyped ==
  /\ dir \in [ListModes -> Jobs \cup {NoInode}]
  /\ lines \in [Jobs -> Seq(Clips \cup {Hole})]
  /\ fd \in [Jobs -> Jobs \cup {NoInode}]
  /\ \A j \in Jobs : pc[j] = "write" <=> fd[j] # NoInode

GhostsTyped == shared \subseteq Jobs /\ leaked \subseteq ListModes

Typed == GivenTyped /\ ControlTyped /\ DataTyped /\ ListsTyped /\ GhostsTyped

LEMMA TypedIsTypeOK == Typed => TypeOK
<1> SUFFICES ASSUME Typed PROVE TypeOK
  OBVIOUS
<1>1. n \in [Jobs -> Nat] /\ \A j \in Jobs : n[j] > 0
  BY DEF Typed, ControlTyped
<1> QED BY <1>1 DEF Typed, GivenTyped, ControlTyped, DataTyped, ListsTyped,
                    GhostsTyped, TypeOK, Listing, Places

LEMMA JobTyped ==
  ASSUME JobsAssumption, Job \in Batches
  PROVE  /\ Jobs = 1..Len(Job) /\ Len(Job) \in Nat
         /\ Jobs \subseteq Nat \ {0} /\ NoInode \notin Jobs
         /\ \A j \in Jobs :
              /\ Inputs(j) \in Seq(Clips) /\ Job[j].transcode \in BOOLEAN
              /\ Inputs(j) \in Seq(Clips \cup {Hole})
              /\ Len(Inputs(j)) \in Nat
              /\ \A i \in 1..Len(Inputs(j)) : Inputs(j)[i] \in Clips
<1> DEFINE R == [inputs : Seq(Clips), fused : BOOLEAN, transcode : BOOLEAN]
<1>1. Job \in Seq(R)
  BY DEF JobsAssumption
<1>2. Jobs = 1..Len(Job) /\ Len(Job) \in Nat /\ \A j \in 1..Len(Job) : Job[j] \in R
  BY <1>1, LenProperties, ElementOfSeq DEF Jobs
<1>3. Jobs \subseteq Nat \ {0} /\ NoInode \notin Jobs
  BY <1>2 DEF NoInode
<1>4. ASSUME NEW j \in Jobs
      PROVE  /\ Inputs(j) \in Seq(Clips) /\ Job[j].transcode \in BOOLEAN
             /\ Inputs(j) \in Seq(Clips \cup {Hole})
             /\ Len(Inputs(j)) \in Nat
             /\ \A i \in 1..Len(Inputs(j)) : Inputs(j)[i] \in Clips
  <2>1. Inputs(j) \in Seq(Clips) /\ Job[j].transcode \in BOOLEAN
    BY <1>2 DEF Inputs
  <2>2. Len(Inputs(j)) \in Nat /\ \A i \in 1..Len(Inputs(j)) : Inputs(j)[i] \in Clips
    BY <2>1, LenProperties, ElementOfSeq
  <2> QED BY <2>1, <2>2
<1> QED BY <1>2, <1>3, <1>4

(* Groups of variables that a step leaves alone. *)
LEMMA GivenKept == GivenTyped /\ UNCHANGED given => GivenTyped' /\ Jobs' = Jobs
BY DEF GivenTyped, given, Jobs

LEMMA TypedInit == JobsAssumption /\ Init => Typed
<1> SUFFICES ASSUME JobsAssumption, Init PROVE Typed
  OBVIOUS
<1>1. GivenTyped
  <2>1. MaxChanges[Job] \in Nat
    BY DEF Init, JobsAssumption
  <2> QED BY <2>1 DEF GivenTyped, Init, JobsAssumption
<1>2. NoInode \notin Jobs /\ << >> \in Seq(Clips \cup {Hole})
  <2>1. NoInode \notin Jobs
    BY <1>1, JobTyped DEF GivenTyped
  <2>2. << >> \in Seq(Clips \cup {Hole})
    OBVIOUS
  <2> QED BY <2>1, <2>2
<1>3. ControlTyped
  BY DEF ControlTyped, Init, Places, Listing
<1>4. DataTyped /\ ListsTyped /\ GhostsTyped
  BY <1>2 DEF DataTyped, ListsTyped, GhostsTyped, Init
<1> QED BY <1>1, <1>3, <1>4 DEF Typed

LEMMA DataKept ==
  ASSUME DataTyped, Jobs' = Jobs, UNCHANGED <<feed, out>>
  PROVE  DataTyped'
BY DEF DataTyped

LEMMA ListsKept ==
  ASSUME ListsTyped, Jobs' = Jobs, UNCHANGED lists,
         \A k \in Jobs : pc'[k] = "write" <=> pc[k] = "write"
  PROVE  ListsTyped'
BY DEF ListsTyped, lists

LEMMA GhostsKept ==
  ASSUME GhostsTyped, Jobs' = Jobs, UNCHANGED ghosts
  PROVE  GhostsTyped'
BY DEF GhostsTyped, ghosts

(* Steps that only move a job on. *)
LEMMA ControlStep ==
  ASSUME JobsAssumption, Typed, NEW j \in Jobs,
         \/ Start(j)
         \/ NoInputs(j) \/ FuseMissing(j) \/ FuseProbe(j) \/ FuseDone(j)
         \/ Reject(j) \/ CopyFails(j) \/ CheckClip(j) \/ CheckFails(j)
         \/ CheckDone(j) \/ CreateFails(j) \/ SpawnFails(j)
  PROVE  Typed'
<1>1. /\ GivenTyped /\ ControlTyped /\ DataTyped /\ ListsTyped /\ GhostsTyped
      /\ \A i \in 1..Len(Inputs(j)) : Inputs(j)[i] \in Clips
      /\ codec \in [Clips -> Codecs \cup {NoCodec}]
  BY JobTyped DEF Typed, GivenTyped
<1> DEFINE Moved == /\ UNCHANGED <<Job, codec, changes>> /\ UNCHANGED <<feed, out>>
                    /\ UNCHANGED lists /\ UNCHANGED ghosts
                    /\ pc[j] # "write" /\ pc' \in [Jobs -> Places]
                    /\ \A k \in Jobs : k # j => pc'[k] = pc[k]
                    /\ pc'[j] # "write"
           Rest == /\ allow' \in [Jobs -> BOOLEAN]
                   /\ ref' \in [Jobs -> Codecs \cup {NoCodec}]
                   /\ n' \in [Jobs -> Nat \ {0}]
                   /\ mode' \in [Jobs -> ListModes \cup {"file", "none"}]
                   /\ result' \in [Jobs -> {"none", "ok", "error"}]
                   /\ \A k \in Jobs : pc'[k] \in Listing => mode'[k] \in ListModes
<1>2. ASSUME Start(j) PROVE Moved /\ Rest
  <2>1. Moved
    BY <1>1, <1>2 DEF Start, Goto, ControlTyped, Places, given, job, lists, ghosts
  <2>2. Rest
    BY <1>1, <1>2 DEF Start, Goto, ControlTyped, Places, Listing, ListModes, job
  <2> QED BY <2>1, <2>2
<1>3. ASSUME NoInputs(j) PROVE Moved /\ Rest
  <2>1. Moved
    BY <1>1, <1>3 DEF NoInputs, Return, Goto, ControlTyped, Places, given, job, lists, ghosts
  <2>2. Rest
    BY <1>1, <1>3 DEF NoInputs, Return, Goto, ControlTyped, Places, Listing, ListModes, job
  <2> QED BY <2>1, <2>2
<1>4. ASSUME FuseMissing(j) PROVE Moved /\ Rest
  <2>1. Moved
    BY <1>1, <1>4 DEF FuseMissing, Return, Goto, ControlTyped, Places, given, job, lists, ghosts
  <2>2. Rest
    BY <1>1, <1>4 DEF FuseMissing, Return, Goto, ControlTyped, Places, Listing, ListModes, job
  <2> QED BY <2>1, <2>2
<1>5. ASSUME FuseProbe(j) PROVE Moved /\ Rest
  <2>1. Moved
    BY <1>1, <1>5 DEF FuseProbe, ProbeFast, Present, ControlTyped, Places, given, job, lists, ghosts
  <2>2. Rest
    <3>1. n[j] \in 1..Len(Inputs(j)) /\ n' = [n EXCEPT ![j] = n[j] + 1]
      BY <1>1, <1>5 DEF FuseProbe, ProbeFast, ControlTyped
    <3>2. n' \in [Jobs -> Nat \ {0}]
      BY <1>1, <3>1 DEF ControlTyped
    <3>3. ref' \in [Jobs -> Codecs \cup {NoCodec}]
      <4>1. n[j] = 1 => Inputs(j)[1] \in Clips
        BY <1>1, <3>1
      <4>2. ref' = ref \/ (n[j] = 1 /\ ref' = [ref EXCEPT ![j] = codec[Inputs(j)[1]]])
        BY <1>5 DEF FuseProbe, ProbeFast
      <4> QED BY <1>1, <4>1, <4>2 DEF ControlTyped
    <3>4. allow' \in [Jobs -> BOOLEAN]
      BY <1>1, <1>5 DEF FuseProbe, ControlTyped
    <3>5. UNCHANGED <<mode, result>>
      BY <1>5 DEF FuseProbe
    <3>6. \A k \in Jobs : pc'[k] \in Listing => pc[k] \in Listing
      BY <1>1, <1>5 DEF FuseProbe, Goto, Listing, ControlTyped
    <3> QED BY <1>1, <3>2, <3>3, <3>4, <3>5, <3>6 DEF ControlTyped
  <2> QED BY <2>1, <2>2
<1>6. ASSUME FuseDone(j) PROVE Moved /\ Rest
  <2>1. Moved
    BY <1>1, <1>6 DEF FuseDone, Goto, ControlTyped, Places, given, job, lists, ghosts
  <2>2. Rest
    <3>2. n' \in [Jobs -> Nat \ {0}]
      BY <1>1, <1>6 DEF FuseDone, Goto, ControlTyped
    <3>3. ref' \in [Jobs -> Codecs \cup {NoCodec}]
      BY <1>1, <1>6 DEF FuseDone, Goto, ControlTyped
    <3>4. allow' \in [Jobs -> BOOLEAN]
      BY <1>1, <1>6 DEF FuseDone, ControlTyped
    <3>5. UNCHANGED <<mode, result>>
      BY <1>6 DEF FuseDone
    <3>6. \A k \in Jobs : pc'[k] \in Listing => pc[k] \in Listing
      BY <1>1, <1>6 DEF FuseDone, Goto, Listing, ControlTyped
    <3> QED BY <1>1, <3>2, <3>3, <3>4, <3>5, <3>6 DEF ControlTyped
  <2> QED BY <2>1, <2>2
<1>7. ASSUME Reject(j) PROVE Moved /\ Rest
  <2>1. Moved
    BY <1>1, <1>7 DEF Reject, Return, Goto, ControlTyped, Places, given, job, lists, ghosts
  <2>2. Rest
    BY <1>1, <1>7 DEF Reject, Return, Goto, ControlTyped, Places, Listing, ListModes, job
  <2> QED BY <2>1, <2>2
<1>8. ASSUME CopyFails(j) PROVE Moved /\ Rest
  <2>1. Moved
    BY <1>1, <1>8 DEF CopyFails, Return, Goto, ControlTyped, Places, given, job, lists, ghosts
  <2>2. Rest
    BY <1>1, <1>8 DEF CopyFails, Return, Goto, ControlTyped, Places, Listing, ListModes, job
  <2> QED BY <2>1, <2>2
<1>9. ASSUME CheckClip(j) PROVE Moved /\ Rest
  <2>1. Moved
    BY <1>1, <1>9 DEF CheckClip, ProbeFast, Present, ControlTyped, Places, given, job, lists, ghosts
  <2>2. Rest
    <3>1. n[j] \in 1..Len(Inputs(j)) /\ n' = [n EXCEPT ![j] = n[j] + 1]
      BY <1>1, <1>9 DEF CheckClip, ProbeFast, ControlTyped
    <3>2. n' \in [Jobs -> Nat \ {0}]
      BY <1>1, <3>1 DEF ControlTyped
    <3>3. ref' \in [Jobs -> Codecs \cup {NoCodec}]
      <4>1. n[j] = 1 => Inputs(j)[1] \in Clips
        BY <1>1, <3>1
      <4>2. ref' = ref \/ (n[j] = 1 /\ ref' = [ref EXCEPT ![j] = codec[Inputs(j)[1]]])
        BY <1>9 DEF CheckClip, ProbeFast
      <4> QED BY <1>1, <4>1, <4>2 DEF ControlTyped
    <3>4. allow' \in [Jobs -> BOOLEAN]
      BY <1>1, <1>9 DEF CheckClip, ControlTyped
    <3>5. UNCHANGED <<mode, result>>
      BY <1>9 DEF CheckClip
    <3>6. \A k \in Jobs : pc'[k] \in Listing => pc[k] \in Listing
      BY <1>1, <1>9 DEF CheckClip, Goto, Listing, ControlTyped
    <3> QED BY <1>1, <3>2, <3>3, <3>4, <3>5, <3>6 DEF ControlTyped
  <2> QED BY <2>1, <2>2
<1>10. ASSUME CheckFails(j) PROVE Moved /\ Rest
  <2>1. Moved
    BY <1>1, <1>10 DEF CheckFails, Choose, Goto, ControlTyped, Places, given, job, lists, ghosts
  <2>2. Rest
    <3>2. n' \in [Jobs -> Nat \ {0}]
      BY <1>1, <1>10 DEF CheckFails, Choose, Goto, ControlTyped
    <3>3. ref' \in [Jobs -> Codecs \cup {NoCodec}]
      BY <1>1, <1>10 DEF CheckFails, Choose, Goto, ControlTyped
    <3>4. UNCHANGED <<allow, result>>
      BY <1>10 DEF CheckFails
    <3>5. /\ mode' \in [Jobs -> ListModes \cup {"file", "none"}]
          /\ mode'[j] \in ListModes /\ \A k \in Jobs : k # j => mode'[k] = mode[k]
      BY <1>1, <1>10 DEF CheckFails, Choose, Goto, ControlTyped, ListModes
    <3> QED BY <1>1, <2>1, <3>2, <3>3, <3>4, <3>5 DEF ControlTyped
  <2> QED BY <2>1, <2>2
<1>11. ASSUME CheckDone(j) PROVE Moved /\ Rest
  <2>1. Moved
    BY <1>1, <1>11 DEF CheckDone, Choose, Goto, ControlTyped, Places, given, job, lists, ghosts
  <2>2. Rest
    <3>2. n' \in [Jobs -> Nat \ {0}]
      BY <1>1, <1>11 DEF CheckDone, Choose, Goto, ControlTyped
    <3>3. ref' \in [Jobs -> Codecs \cup {NoCodec}]
      BY <1>1, <1>11 DEF CheckDone, Choose, Goto, ControlTyped
    <3>4. UNCHANGED <<allow, result>>
      BY <1>11 DEF CheckDone
    <3>5. /\ mode' \in [Jobs -> ListModes \cup {"file", "none"}]
          /\ mode'[j] \in ListModes /\ \A k \in Jobs : k # j => mode'[k] = mode[k]
      BY <1>1, <1>11 DEF CheckDone, Choose, Goto, ControlTyped, ListModes
    <3> QED BY <1>1, <2>1, <3>2, <3>3, <3>4, <3>5 DEF ControlTyped
  <2> QED BY <2>1, <2>2
<1>12. ASSUME CreateFails(j) PROVE Moved /\ Rest
  <2>1. Moved
    BY <1>1, <1>12 DEF CreateFails, Return, Goto, ControlTyped, Places, given, job, lists, ghosts
  <2>2. Rest
    BY <1>1, <1>12 DEF CreateFails, Return, Goto, ControlTyped, Places, Listing, ListModes, job
  <2> QED BY <2>1, <2>2
<1>13. ASSUME SpawnFails(j) PROVE Moved /\ Rest
  <2>1. Moved
    BY <1>1, <1>13 DEF SpawnFails, Goto, ControlTyped, Places, given, job, lists, ghosts
  <2>2. Rest
    BY <1>1, <1>13 DEF SpawnFails, Goto, ControlTyped, Places, Listing, ListModes, job
  <2> QED BY <2>1, <2>2
<1>14. Moved /\ Rest
  <2> HIDE DEF Moved, Rest
  <2> QED BY <1>2, <1>3, <1>4, <1>5, <1>6, <1>7, <1>8, <1>9, <1>10, <1>11, <1>12, <1>13
<1>15. GivenTyped' /\ Jobs' = Jobs
  BY <1>1, <1>14, GivenKept DEF given
<1>16. DataTyped' /\ ListsTyped' /\ GhostsTyped'
  BY <1>1, <1>14, <1>15, DataKept, ListsKept, GhostsKept
<1>17. ControlTyped'
  BY <1>14, <1>15 DEF ControlTyped
<1> QED BY <1>15, <1>16, <1>17 DEF Typed

(* Steps that write the output, or that read the list. *)
LEMMA DataStep ==
  ASSUME JobsAssumption, Typed, NEW j \in Jobs,
         CopySingle(j) \/ Preallocate(j) \/ ReadList(j) \/ Ffmpeg(j) \/ FfmpegFails(j)
  PROVE  Typed'
<1>1. /\ GivenTyped /\ ControlTyped /\ DataTyped /\ ListsTyped /\ GhostsTyped
      /\ Inputs(j) \in Seq(Clips \cup {Hole}) /\ << >> \in Seq(Clips \cup {Hole})
      /\ Allocated \in Seq(Clips \cup {Hole})
  <2>1. << >> \in Seq(Clips \cup {Hole}) /\ Allocated \in Seq(Clips \cup {Hole})
    BY DEF Allocated
  <2> QED BY <2>1, JobTyped DEF Typed, GivenTyped
<1> DEFINE Moved == /\ UNCHANGED <<Job, codec, changes>>
                    /\ UNCHANGED lists /\ UNCHANGED ghosts
                    /\ pc[j] # "write" /\ pc' \in [Jobs -> Places]
                    /\ \A k \in Jobs : k # j => pc'[k] = pc[k]
                    /\ pc'[j] # "write"
           Rest == /\ allow' = allow /\ ref' = ref /\ n' = n
                   /\ mode' \in [Jobs -> ListModes \cup {"file", "none"}]
                   /\ result' \in [Jobs -> {"none", "ok", "error"}]
                   /\ \A k \in Jobs : pc'[k] \in Listing => mode'[k] \in ListModes
           Data == /\ feed' \in [Jobs -> Seq(Clips \cup {Hole})]
                   /\ out' \in [Jobs -> Seq(Clips \cup {Hole})]
<1>2. ASSUME CopySingle(j) PROVE Moved /\ Rest /\ Data
  <2>1. Moved
    BY <1>1, <1>2 DEF CopySingle, Return, Goto, ControlTyped, Places, given, lists, ghosts
  <2>2. Rest
    BY <1>1, <1>2 DEF CopySingle, Return, Goto, ControlTyped, Listing, Places
  <2>3. Data
    BY <1>1, <1>2 DEF CopySingle, DataTyped
  <2> QED BY <2>1, <2>2, <2>3
<1>3. ASSUME Preallocate(j) PROVE Moved /\ Rest /\ Data
  <2>1. Moved
    BY <1>1, <1>3 DEF Preallocate, Goto, ControlTyped, Places, given, lists, ghosts
  <2>2. Rest
    BY <1>1, <1>3 DEF Preallocate, Goto, ControlTyped, Listing, ListModes, Places
  <2>3. Data
    BY <1>1, <1>3 DEF Preallocate, DataTyped
  <2> QED BY <2>1, <2>2, <2>3
<1>4. ASSUME ReadList(j) PROVE Moved /\ Rest /\ Data
  <2>1. Moved
    BY <1>1, <1>4 DEF ReadList, Goto, ControlTyped, Places, given, lists, ghosts
  <2>2. Rest
    BY <1>1, <1>4 DEF ReadList, Goto, ControlTyped, Listing, Places
  <2>3. mode[j] \in ListModes
    BY <1>1, <1>4 DEF ReadList, ControlTyped, Listing
  <2>4. dir[mode[j]] # NoInode => lines[dir[mode[j]]] \in Seq(Clips \cup {Hole})
    BY <1>1, <2>3 DEF ListsTyped
  <2>5. Data
    BY <1>1, <1>4, <2>4 DEF ReadList, DataTyped
  <2> QED BY <2>1, <2>2, <2>5
<1>5. ASSUME Ffmpeg(j) \/ FfmpegFails(j) PROVE Moved /\ Rest /\ Data
  <2>1. Moved
    BY <1>1, <1>5 DEF Ffmpeg, FfmpegFails, Exit, Goto, ControlTyped, Places, given,
                      lists, ghosts
  <2>2. Rest
    BY <1>1, <1>5 DEF Ffmpeg, FfmpegFails, Exit, Goto, ControlTyped, Listing, Places
  <2>3. Data
    BY <1>1, <1>5 DEF Ffmpeg, FfmpegFails, Exit, DataTyped
  <2> QED BY <2>1, <2>2, <2>3
<1>6. Moved /\ Rest /\ Data
  <2> HIDE DEF Moved, Rest, Data
  <2> QED BY <1>2, <1>3, <1>4, <1>5
<1>7. GivenTyped' /\ Jobs' = Jobs
  BY <1>1, <1>6, GivenKept DEF given
<1>8. ListsTyped' /\ GhostsTyped'
  BY <1>1, <1>6, <1>7, ListsKept, GhostsKept
<1>9. ControlTyped' /\ DataTyped'
  BY <1>1, <1>6, <1>7 DEF ControlTyped, DataTyped
<1> QED BY <1>7, <1>8, <1>9 DEF Typed

(* A line written to a list makes a list. *)
LEMMA WriteAtTyped ==
  ASSUME NEW S, NEW s \in Seq(S \cup {Hole}), NEW i \in Nat \ {0}, NEW c \in S
  PROVE  WriteAt(s, i, c) \in Seq(S \cup {Hole})
<1> DEFINE l == IF i > Len(s) THEN i ELSE Len(s)
<1>1. Len(s) \in Nat /\ \A m \in 1..Len(s) : s[m] \in S \cup {Hole}
  BY LenProperties, ElementOfSeq
<1>2. l \in Nat
  BY <1>1
<1> HIDE DEF l
<1>3. [m \in 1..l |-> IF m = i THEN c ELSE IF m <= Len(s) THEN s[m] ELSE Hole]
        \in [1..l -> S \cup {Hole}]
  BY <1>1, <1>2
<1>4. [1..l -> S \cup {Hole}] \subseteq Seq(S \cup {Hole})
  BY <1>2, SeqDef
<1> QED BY <1>3, <1>4 DEF WriteAt, l

(* Steps that change the list. *)
LEMMA ListStep ==
  ASSUME JobsAssumption, Typed, NEW j \in Jobs,
         Create(j) \/ WriteLine(j) \/ WriteFails(j) \/ Written(j) \/ RemoveList(j)
  PROVE  Typed'
<1>1. /\ GivenTyped /\ ControlTyped /\ DataTyped /\ ListsTyped /\ GhostsTyped
      /\ NoInode \notin Jobs /\ << >> \in Seq(Clips \cup {Hole})
      /\ \A i \in 1..Len(Inputs(j)) : Inputs(j)[i] \in Clips
  <2>1. << >> \in Seq(Clips \cup {Hole})
    OBVIOUS
  <2> QED BY <2>1, JobTyped DEF Typed, GivenTyped
<1>2. Exposed(j) \subseteq Jobs
  BY DEF Exposed
<1> DEFINE Moved == /\ UNCHANGED <<Job, codec, changes>> /\ UNCHANGED <<feed, out>>
                    /\ pc' \in [Jobs -> Places]
                    /\ allow' = allow /\ ref' = ref /\ mode' = mode
                    /\ n' \in [Jobs -> Nat \ {0}]
                    /\ result' \in [Jobs -> {"none", "ok", "error"}]
                    /\ mode[j] \in ListModes
                    /\ \A k \in Jobs : k # j => pc'[k] = pc[k]
           Lists == /\ dir' \in [ListModes -> Jobs \cup {NoInode}]
                    /\ lines' \in [Jobs -> Seq(Clips \cup {Hole})]
                    /\ fd' \in [Jobs -> Jobs \cup {NoInode}]
                    /\ \A k \in Jobs : pc'[k] = "write" <=> fd'[k] # NoInode
           Ghosts == shared' \subseteq Jobs /\ leaked' \subseteq ListModes
<1>3. ASSUME Create(j) PROVE Moved /\ Lists /\ Ghosts
  <2>1. Moved
    BY <1>1, <1>3 DEF Create, Goto, ControlTyped, Places, Listing, given, job
  <2> DEFINE inode == IF dir[mode[j]] = NoInode THEN j ELSE dir[mode[j]]
  <2>2. /\ dir' = [dir EXCEPT ![mode[j]] = inode]
        /\ fd' = [fd EXCEPT ![j] = inode]
        /\ lines' = [lines EXCEPT ![inode] = << >>]
        /\ pc' = [pc EXCEPT ![j] = "write"]
    BY <1>3 DEF Create, Goto
  <2>3. inode \in Jobs
    BY <1>1, <2>1 DEF ListsTyped
  <2> HIDE DEF inode
  <2>4. Lists
    <3>1. \A k \in Jobs : pc'[k] = "write" <=> fd'[k] # NoInode
      BY <1>1, <2>2, <2>3 DEF ListsTyped, ControlTyped
    <3> QED BY <1>1, <2>2, <2>3, <3>1 DEF ListsTyped
  <2>5. Ghosts
    BY <1>1, <1>2, <1>3 DEF Create, GhostsTyped
  <2> QED BY <2>1, <2>4, <2>5
<1>4. ASSUME WriteLine(j) PROVE Moved /\ Lists /\ Ghosts
  <2>1. /\ pc[j] = "write" /\ pc' = pc /\ dir' = dir /\ fd' = fd /\ leaked' = leaked
        /\ n[j] \in 1..Len(Inputs(j)) /\ n' = [n EXCEPT ![j] = n[j] + 1]
        /\ lines' = [lines EXCEPT ![fd[j]] =
                       WriteAt(lines[fd[j]], n[j], Inputs(j)[n[j]])]
    BY <1>1, <1>4 DEF WriteLine, ControlTyped
  <2>2. Moved
    <3>1. n' \in [Jobs -> Nat \ {0}]
      BY <1>1, <2>1 DEF ControlTyped
    <3>2. /\ UNCHANGED <<Job, codec, changes>> /\ UNCHANGED <<feed, out>>
          /\ allow' = allow /\ ref' = ref /\ mode' = mode /\ result' = result
      BY <1>4 DEF WriteLine, given
    <3>3. mode[j] \in ListModes
      BY <1>1, <2>1 DEF ControlTyped, Listing
    <3> QED BY <1>1, <2>1, <3>1, <3>2, <3>3 DEF ControlTyped
  <2>3. fd[j] \in Jobs
    BY <1>1, <2>1 DEF ListsTyped
  <2>4. WriteAt(lines[fd[j]], n[j], Inputs(j)[n[j]]) \in Seq(Clips \cup {Hole})
    <3>1. lines[fd[j]] \in Seq(Clips \cup {Hole})
      BY <1>1, <2>3 DEF ListsTyped
    <3>2. n[j] \in Nat \ {0} /\ Inputs(j)[n[j]] \in Clips
      BY <1>1, <2>1 DEF ControlTyped
    <3> QED BY <3>1, <3>2, WriteAtTyped
  <2>5. Lists
    BY <1>1, <2>1, <2>3, <2>4 DEF ListsTyped
  <2>6. Ghosts
    BY <1>1, <1>2, <1>4 DEF WriteLine, GhostsTyped
  <2> QED BY <2>2, <2>5, <2>6
<1>5. ASSUME WriteFails(j) \/ Written(j) PROVE Moved /\ Lists /\ Ghosts
  <2>1. /\ pc[j] = "write"
        /\ fd' = [fd EXCEPT ![j] = NoInode] /\ n' = [n EXCEPT ![j] = 1]
        /\ dir' = dir /\ lines' = lines /\ mode' = mode
        /\ UNCHANGED <<Job, codec, changes>> /\ UNCHANGED <<feed, out>>
        /\ allow' = allow /\ ref' = ref
    BY <1>5 DEF WriteFails, Written, Close, given
  <2>2. /\ pc' \in [Jobs -> Places] /\ pc'[j] # "write"
        /\ \A k \in Jobs : k # j => pc'[k] = pc[k]
    BY <1>1, <1>5 DEF WriteFails, Written, Return, Goto, ControlTyped, Places
  <2>3. result' \in [Jobs -> {"none", "ok", "error"}]
    BY <1>1, <1>5 DEF WriteFails, Written, Return, ControlTyped
  <2>4. mode[j] \in ListModes
    BY <1>1, <2>1 DEF ControlTyped, Listing
  <2>5. Moved
    <3>1. n' \in [Jobs -> Nat \ {0}]
      BY <1>1, <2>1 DEF ControlTyped
    <3> QED BY <1>1, <2>1, <2>2, <2>3, <2>4, <3>1 DEF ControlTyped
  <2>6. Lists
    BY <1>1, <2>1, <2>2 DEF ListsTyped
  <2>7. Ghosts
    BY <1>1, <1>5, <2>4 DEF WriteFails, Written, GhostsTyped, ghosts
  <2> QED BY <2>5, <2>6, <2>7
<1>6. ASSUME RemoveList(j) PROVE Moved /\ Lists /\ Ghosts
  <2>1. Moved
    BY <1>1, <1>6 DEF RemoveList, AfterRemove, Goto, ControlTyped, Listing, Places,
                      given, job
  <2>2. Lists
    <3>1. pc[j] # "write" /\ pc'[j] # "write"
      BY <1>1, <1>6 DEF RemoveList, AfterRemove, Goto, ControlTyped
    <3>2. dir' \in [ListModes -> Jobs \cup {NoInode}]
      BY <1>1, <1>6 DEF RemoveList, ListsTyped
    <3> QED BY <1>1, <1>6, <2>1, <3>1, <3>2 DEF RemoveList, ListsTyped
  <2>3. Ghosts
    BY <1>1, <1>2, <1>6 DEF RemoveList, GhostsTyped
  <2> QED BY <2>1, <2>2, <2>3
<1>7. Moved /\ Lists /\ Ghosts
  <2> HIDE DEF Moved, Lists, Ghosts
  <2> QED BY <1>3, <1>4, <1>5, <1>6
<1>8. GivenTyped' /\ Jobs' = Jobs
  BY <1>1, <1>7, GivenKept DEF given
<1>9. \A k \in Jobs : pc'[k] \in Listing => k = j \/ pc[k] \in Listing
  BY <1>7
<1>10. ControlTyped'
  BY <1>1, <1>7, <1>8, <1>9 DEF ControlTyped
<1>11. DataTyped'
  BY <1>1, <1>7, <1>8, DataKept
<1>12. ListsTyped' /\ GhostsTyped'
  BY <1>7, <1>8 DEF ListsTyped, GhostsTyped
<1> QED BY <1>8, <1>10, <1>11, <1>12 DEF Typed

LEMMA ChangeStep ==
  ASSUME JobsAssumption, Typed, NEW c \in Clips, NEW new \in Codecs \cup {NoCodec},
         ChangeClip(c, new)
  PROVE  Typed'
<1>1. /\ Job' = Job /\ codec' = [codec EXCEPT ![c] = new]
      /\ changes < MaxChanges[Job] /\ changes' = changes + 1
      /\ pc' = pc /\ UNCHANGED job /\ UNCHANGED lists /\ UNCHANGED ghosts
  BY DEF ChangeClip
<1>2. GivenTyped /\ MaxChanges[Job] \in Nat
  BY DEF Typed, GivenTyped, JobsAssumption
<1>3. GivenTyped' /\ Jobs' = Jobs
  <2>1. codec' \in [Clips -> Codecs \cup {NoCodec}]
    BY <1>1, <1>2 DEF GivenTyped
  <2>2. changes' \in 0..MaxChanges[Job]
    BY <1>1, <1>2 DEF GivenTyped
  <2> QED BY <1>1, <1>2, <2>1, <2>2 DEF GivenTyped, Jobs
<1>4. ControlTyped' /\ DataTyped' /\ ListsTyped' /\ GhostsTyped'
  BY <1>1, <1>3 DEF Typed, ControlTyped, DataTyped, ListsTyped, GhostsTyped,
                    job, lists, ghosts
<1> QED BY <1>3, <1>4 DEF Typed

LEMMA TypedKept == Typed /\ UNCHANGED vars => Typed'
<1> SUFFICES ASSUME Typed, UNCHANGED vars PROVE Typed'
  OBVIOUS
<1>1. GivenTyped' /\ Jobs' = Jobs
  BY GivenKept DEF Typed, vars
<1>2. ControlTyped' /\ DataTyped' /\ ListsTyped' /\ GhostsTyped'
  BY <1>1 DEF Typed, ControlTyped, DataTyped, ListsTyped, GhostsTyped,
              vars, given, job, lists, ghosts
<1> QED BY <1>1, <1>2 DEF Typed

LEMMA TypedNext == JobsAssumption /\ Typed /\ [Next]_vars => Typed'
<1> SUFFICES ASSUME JobsAssumption, Typed, [Next]_vars PROVE Typed'
  OBVIOUS
<1>1. ASSUME NEW j \in Jobs, Step(j) PROVE Typed'
  BY <1>1, ControlStep, DataStep, ListStep DEF Step
<1>2. ASSUME NEW c \in Clips, NEW new \in Codecs \cup {NoCodec}, ChangeClip(c, new)
      PROVE  Typed'
  BY <1>2, ChangeStep
<1> QED BY <1>1, <1>2, TypedKept DEF Next

LEMMA TypedHolds == Spec => []Typed
<1>1. Init => Typed
  BY TypedInit, JobsAssumption
<1>2. Typed /\ [Next]_vars => Typed'
  BY TypedNext, JobsAssumption
<1> QED BY <1>1, <1>2, PTL DEF Spec

(* Every variable has its type, and a job that handles a list has a mode    *)
(* that names one, which it has open exactly while it writes.              *)
THEOREM TypeCorrect == Spec => []TypeOK
BY TypedHolds, TypedIsTypeOK, PTL

-----------------------------------------------------------------------------
(* Whose inputs a list and an output hold.                                 *)

(* Where a job has not created its list. *)
Fresh == {"waiting", "fuse", "concat", "check", "create"}

(* An inode, named by the job that created it, stays in its mode. *)
Names ==
  /\ \A m \in ListModes : dir[m] # NoInode =>
       mode[dir[m]] = m /\ pc[dir[m]] \notin Fresh
  /\ \A j \in Jobs : fd[j] # NoInode =>
       mode[fd[j]] = mode[j] /\ pc[fd[j]] \notin Fresh

(* The list of the job that nobody else has touched. *)
OwnList(j) ==
  /\ pc[j] = "write" =>
       /\ dir[mode[j]] = fd[j]
       /\ lines[fd[j]] = [i \in 1..(n[j] - 1) |-> Inputs(j)[i]]
  /\ pc[j] = "read" =>
       dir[mode[j]] # NoInode /\ lines[dir[mode[j]]] = Inputs(j)
  /\ pc[j] = "ffmpeg" => feed[j] = Inputs(j)
  /\ result[j] = "ok" => out[j] = Inputs(j)

JobOK(j) ==
  /\ pc[j] \in {"waiting", "concat", "create"} => n[j] = 1
  /\ pc[j] = "write" => n[j] <= Len(Inputs(j)) + 1
  /\ pc[j] \notin {"remove first", "remove", "done"} => result[j] = "none"
  /\ j \notin shared => OwnList(j)

Own == Names /\ \A j \in Jobs : JobOK(j)

LEMMA OwnInit == JobsAssumption /\ Init => Own
<1> SUFFICES ASSUME JobsAssumption, Init PROVE Own
  OBVIOUS
<1>1. Names
  BY DEF Names, Init
<1>2. \A j \in Jobs : JobOK(j)
  BY DEF JobOK, OwnList, Init
<1> QED BY <1>1, <1>2 DEF Own

(* A step of one job that leaves the lists, but may close its own, is of   *)
(* no concern to the others.                                               *)
LEMMA OwnFrame ==
  ASSUME Typed, Typed', Own, NEW j \in Jobs, Jobs' = Jobs,
         UNCHANGED <<Job, dir, lines, shared>>,
         fd' = fd \/ fd' = [fd EXCEPT ![j] = NoInode],
         \A k \in Jobs \ {j} :
           /\ pc'[k] = pc[k] /\ n'[k] = n[k] /\ mode'[k] = mode[k]
           /\ feed'[k] = feed[k] /\ out'[k] = out[k] /\ result'[k] = result[k],
         pc[j] \notin Fresh => pc'[j] \notin Fresh /\ mode'[j] = mode[j],
         JobOK(j)'
  PROVE  Own'
<1>1. /\ dir \in [ListModes -> Jobs \cup {NoInode}]
      /\ fd \in [Jobs -> Jobs \cup {NoInode}]
      /\ \A k \in Jobs : pc[k] = "write" <=> fd[k] # NoInode
  BY DEF Typed, ListsTyped
<1>2. \A k \in Jobs : pc[k] \notin Fresh => pc'[k] \notin Fresh /\ mode'[k] = mode[k]
  OBVIOUS
<1>3. ASSUME NEW m \in ListModes, dir[m] # NoInode
      PROVE  mode'[dir[m]] = m /\ pc'[dir[m]] \notin Fresh
  BY <1>1, <1>2, <1>3 DEF Own, Names
<1>4. ASSUME NEW k \in Jobs, fd'[k] # NoInode
      PROVE  mode'[fd'[k]] = mode'[k] /\ pc'[fd'[k]] \notin Fresh
  <2>1. fd'[k] = fd[k] /\ pc[k] \notin Fresh
    BY <1>1, <1>4 DEF Fresh
  <2> QED BY <1>1, <1>2, <1>4, <2>1 DEF Own, Names
<1>5. Names'
  BY <1>3, <1>4 DEF Names
<1>6. ASSUME NEW k \in Jobs \ {j} PROVE JobOK(k)'
  <2>1. fd'[k] = fd[k] /\ Inputs(k)' = Inputs(k) /\ JobOK(k)
    BY <1>1 DEF Inputs, Own
  <2> QED BY <2>1 DEF JobOK, OwnList
<1> QED BY <1>5, <1>6 DEF Own

LEMMA OwnPrivate ==
  ASSUME JobsAssumption, Typed, Typed', Own, NEW j \in Jobs,
         \/ Start(j)
         \/ NoInputs(j) \/ FuseMissing(j) \/ FuseProbe(j) \/ FuseDone(j)
         \/ Reject(j) \/ CopySingle(j) \/ CopyFails(j) \/ Preallocate(j)
         \/ CheckClip(j) \/ CheckFails(j) \/ CheckDone(j)
         \/ CreateFails(j) \/ WriteFails(j) \/ Written(j)
         \/ ReadList(j) \/ SpawnFails(j) \/ Ffmpeg(j) \/ FfmpegFails(j)
  PROVE  Own'
<1>1. /\ ControlTyped /\ ListsTyped /\ DataTyped /\ JobOK(j)
      /\ Inputs(j) \in Seq(Clips) /\ Len(Inputs(j)) \in Nat
  BY JobTyped DEF Typed, Own, GivenTyped
<1> DEFINE Private ==
             /\ Jobs' = Jobs /\ UNCHANGED <<Job, dir, lines, shared>>
             /\ fd' = fd \/ fd' = [fd EXCEPT ![j] = NoInode]
             /\ \A k \in Jobs \ {j} :
                  /\ pc'[k] = pc[k] /\ n'[k] = n[k] /\ mode'[k] = mode[k]
                  /\ feed'[k] = feed[k] /\ out'[k] = out[k] /\ result'[k] = result[k]
             /\ pc[j] \notin Fresh => pc'[j] \notin Fresh /\ mode'[j] = mode[j]
<1>2. ASSUME Start(j) PROVE Private /\ JobOK(j)'
  <2>1. Private
    BY <1>1, <1>2 DEF Start, Goto, ControlTyped, DataTyped, Fresh, Jobs,
                        given, job, lists, ghosts
  <2>2. JobOK(j)'
    BY <1>1, <1>2, <2>1 DEF Start, Goto, ControlTyped, DataTyped, ListsTyped,
                        JobOK, OwnList, Inputs, given, job, lists, ghosts
  <2> QED BY <2>1, <2>2
<1>3. ASSUME NoInputs(j) PROVE Private /\ JobOK(j)'
  <2>1. Private
    BY <1>1, <1>3 DEF NoInputs, Return, Goto, ControlTyped, DataTyped, Fresh, Jobs,
                        given, job, lists, ghosts
  <2>2. JobOK(j)'
    BY <1>1, <1>3, <2>1 DEF NoInputs, Return, Goto, ControlTyped, DataTyped, ListsTyped,
                        JobOK, OwnList, Inputs, given, job, lists, ghosts
  <2> QED BY <2>1, <2>2
<1>4. ASSUME FuseMissing(j) PROVE Private /\ JobOK(j)'
  <2>1. Private
    BY <1>1, <1>4 DEF FuseMissing, Return, Goto, ControlTyped, DataTyped, Fresh, Jobs,
                        given, job, lists, ghosts
  <2>2. JobOK(j)'
    BY <1>1, <1>4, <2>1 DEF FuseMissing, Return, Goto, ControlTyped, DataTyped, ListsTyped,
                        JobOK, OwnList, Inputs, given, job, lists, ghosts
  <2> QED BY <2>1, <2>2
<1>5. ASSUME FuseProbe(j) PROVE Private /\ JobOK(j)'
  <2>1. Private
    BY <1>1, <1>5 DEF FuseProbe, ProbeFast, ControlTyped, DataTyped, Fresh, Jobs,
                        given, job, lists, ghosts
  <2>2. JobOK(j)'
    BY <1>1, <1>5, <2>1 DEF FuseProbe, ProbeFast, ControlTyped, DataTyped, ListsTyped,
                        JobOK, OwnList, Inputs, given, job, lists, ghosts
  <2> QED BY <2>1, <2>2
<1>6. ASSUME FuseDone(j) PROVE Private /\ JobOK(j)'
  <2>1. Private
    BY <1>1, <1>6 DEF FuseDone, Goto, ControlTyped, DataTyped, Fresh, Jobs,
                        given, job, lists, ghosts
  <2>2. JobOK(j)'
    BY <1>1, <1>6, <2>1 DEF FuseDone, Goto, ControlTyped, DataTyped, ListsTyped,
                        JobOK, OwnList, Inputs, given, job, lists, ghosts
  <2> QED BY <2>1, <2>2
<1>7. ASSUME Reject(j) PROVE Private /\ JobOK(j)'
  <2>1. Private
    BY <1>1, <1>7 DEF Reject, Return, Goto, ControlTyped, DataTyped, Fresh, Jobs,
                        given, job, lists, ghosts
  <2>2. JobOK(j)'
    BY <1>1, <1>7, <2>1 DEF Reject, Return, Goto, ControlTyped, DataTyped, ListsTyped,
                        JobOK, OwnList, Inputs, given, job, lists, ghosts
  <2> QED BY <2>1, <2>2
<1>8. ASSUME CopySingle(j) PROVE Private /\ JobOK(j)'
  <2>1. Private
    BY <1>1, <1>8 DEF CopySingle, Return, Goto, ControlTyped, DataTyped, Fresh, Jobs,
                        given, job, lists, ghosts
  <2>2. JobOK(j)'
    BY <1>1, <1>8, <2>1 DEF CopySingle, Return, Goto, ControlTyped, DataTyped, ListsTyped,
                        JobOK, OwnList, Inputs, given, job, lists, ghosts
  <2> QED BY <2>1, <2>2
<1>9. ASSUME CopyFails(j) PROVE Private /\ JobOK(j)'
  <2>1. Private
    BY <1>1, <1>9 DEF CopyFails, Return, Goto, ControlTyped, DataTyped, Fresh, Jobs,
                        given, job, lists, ghosts
  <2>2. JobOK(j)'
    BY <1>1, <1>9, <2>1 DEF CopyFails, Return, Goto, ControlTyped, DataTyped, ListsTyped,
                        JobOK, OwnList, Inputs, given, job, lists, ghosts
  <2> QED BY <2>1, <2>2
<1>10. ASSUME Preallocate(j) PROVE Private /\ JobOK(j)'
  <2>1. Private
    BY <1>1, <1>10 DEF Preallocate, Goto, ControlTyped, DataTyped, Fresh, Jobs,
                        given, job, lists, ghosts
  <2>2. JobOK(j)'
    BY <1>1, <1>10, <2>1 DEF Preallocate, Goto, ControlTyped, DataTyped, ListsTyped,
                        JobOK, OwnList, Inputs, given, job, lists, ghosts
  <2> QED BY <2>1, <2>2
<1>11. ASSUME CheckClip(j) PROVE Private /\ JobOK(j)'
  <2>1. Private
    BY <1>1, <1>11 DEF CheckClip, ProbeFast, ControlTyped, DataTyped, Fresh, Jobs,
                        given, job, lists, ghosts
  <2>2. JobOK(j)'
    BY <1>1, <1>11, <2>1 DEF CheckClip, ProbeFast, ControlTyped, DataTyped, ListsTyped,
                        JobOK, OwnList, Inputs, given, job, lists, ghosts
  <2> QED BY <2>1, <2>2
<1>12. ASSUME CheckFails(j) PROVE Private /\ JobOK(j)'
  <2>1. Private
    BY <1>1, <1>12 DEF CheckFails, Choose, Goto, ControlTyped, DataTyped, Fresh, Jobs,
                        given, job, lists, ghosts
  <2>2. JobOK(j)'
    BY <1>1, <1>12, <2>1 DEF CheckFails, Choose, Goto, ControlTyped, DataTyped, ListsTyped,
                        JobOK, OwnList, Inputs, given, job, lists, ghosts
  <2> QED BY <2>1, <2>2
<1>13. ASSUME CheckDone(j) PROVE Private /\ JobOK(j)'
  <2>1. Private
    BY <1>1, <1>13 DEF CheckDone, Choose, Goto, ControlTyped, DataTyped, Fresh, Jobs,
                        given, job, lists, ghosts
  <2>2. JobOK(j)'
    BY <1>1, <1>13, <2>1 DEF CheckDone, Choose, Goto, ControlTyped, DataTyped, ListsTyped,
                        JobOK, OwnList, Inputs, given, job, lists, ghosts
  <2> QED BY <2>1, <2>2
<1>14. ASSUME CreateFails(j) PROVE Private /\ JobOK(j)'
  <2>1. Private
    BY <1>1, <1>14 DEF CreateFails, Return, Goto, ControlTyped, DataTyped, Fresh, Jobs,
                        given, job, lists, ghosts
  <2>2. JobOK(j)'
    BY <1>1, <1>14, <2>1 DEF CreateFails, Return, Goto, ControlTyped, DataTyped, ListsTyped,
                        JobOK, OwnList, Inputs, given, job, lists, ghosts
  <2> QED BY <2>1, <2>2
<1>15. ASSUME WriteFails(j) PROVE Private /\ JobOK(j)'
  <2>1. Private
    BY <1>1, <1>15 DEF WriteFails, Close, Return, Goto, ControlTyped, DataTyped, Fresh, Jobs,
                        given, job, lists, ghosts
  <2>2. JobOK(j)'
    BY <1>1, <1>15, <2>1 DEF WriteFails, Close, Return, Goto, ControlTyped, DataTyped, ListsTyped,
                        JobOK, OwnList, Inputs, given, job, lists, ghosts
  <2> QED BY <2>1, <2>2
<1>16. ASSUME Written(j) PROVE Private /\ JobOK(j)'
  <2>1. Private
    BY <1>1, <1>16 DEF Written, Close, Goto, ControlTyped, DataTyped, Fresh, Jobs,
                        given, job, lists, ghosts
  <2>2. /\ pc[j] = "write" /\ pc'[j] = "read" /\ n[j] > Len(Inputs(j))
        /\ dir' = dir /\ lines' = lines /\ mode' = mode /\ shared' = shared
        /\ result' = result /\ out' = out /\ Inputs(j)' = Inputs(j)
    BY <1>1, <1>16, <2>1 DEF Written, Close, Goto, ControlTyped, Inputs, ghosts
  <2>3. fd[j] # NoInode /\ n[j] - 1 = Len(Inputs(j))
    BY <1>1, <2>2 DEF JobOK, ListsTyped, ControlTyped
  <2>4. Inputs(j) = [i \in 1..Len(Inputs(j)) |-> Inputs(j)[i]]
    BY <1>1
  <2> QED BY <1>1, <2>1, <2>2, <2>3, <2>4 DEF JobOK, OwnList
<1>17. ASSUME ReadList(j) PROVE Private /\ JobOK(j)'
  <2>1. Private
    BY <1>1, <1>17 DEF ReadList, Goto, ControlTyped, DataTyped, Fresh, Jobs,
                        given, job, lists, ghosts
  <2>2. JobOK(j)'
    BY <1>1, <1>17, <2>1 DEF ReadList, Goto, ControlTyped, DataTyped, ListsTyped,
                        JobOK, OwnList, Inputs, given, job, lists, ghosts
  <2> QED BY <2>1, <2>2
<1>18. ASSUME SpawnFails(j) PROVE Private /\ JobOK(j)'
  <2>1. Private
    BY <1>1, <1>18 DEF SpawnFails, Goto, ControlTyped, DataTyped, Fresh, Jobs,
                        given, job, lists, ghosts
  <2>2. JobOK(j)'
    BY <1>1, <1>18, <2>1 DEF SpawnFails, Goto, ControlTyped, DataTyped, ListsTyped,
                        JobOK, OwnList, Inputs, given, job, lists, ghosts
  <2> QED BY <2>1, <2>2
<1>19. ASSUME Ffmpeg(j) PROVE Private /\ JobOK(j)'
  <2>1. Private
    BY <1>1, <1>19 DEF Ffmpeg, Exit, Goto, ControlTyped, DataTyped, Fresh, Jobs,
                        given, job, lists, ghosts
  <2>2. JobOK(j)'
    BY <1>1, <1>19, <2>1 DEF Ffmpeg, Exit, Goto, ControlTyped, DataTyped, ListsTyped,
                        JobOK, OwnList, Inputs, given, job, lists, ghosts
  <2> QED BY <2>1, <2>2
<1>20. ASSUME FfmpegFails(j) PROVE Private /\ JobOK(j)'
  <2>1. Private
    BY <1>1, <1>20 DEF FfmpegFails, Exit, Goto, ControlTyped, DataTyped, Fresh, Jobs,
                        given, job, lists, ghosts
  <2>2. JobOK(j)'
    BY <1>1, <1>20, <2>1 DEF FfmpegFails, Exit, Goto, ControlTyped, DataTyped, ListsTyped,
                        JobOK, OwnList, Inputs, given, job, lists, ghosts
  <2> QED BY <2>1, <2>2
<1>21. Private /\ JobOK(j)'
  <2> HIDE DEF Private
  <2> QED BY <1>2, <1>3, <1>4, <1>5, <1>6, <1>7, <1>8, <1>9, <1>10, <1>11, <1>12, <1>13, <1>14, <1>15, <1>16, <1>17, <1>18, <1>19, <1>20
<1> QED BY <1>21, OwnFrame

(* The other jobs whose list a step of j may change are shared after it. *)
LEMMA OwnCreate ==
  ASSUME JobsAssumption, Typed, Typed', Own, NEW j \in Jobs, Create(j)
  PROVE  Own'
<1> DEFINE inode == IF dir[mode[j]] = NoInode THEN j ELSE dir[mode[j]]
<1>1. /\ ControlTyped /\ ListsTyped /\ Names /\ NoInode \notin Jobs
      /\ \A k \in Jobs : JobOK(k)
  BY JobTyped DEF Typed, Own, GivenTyped
<1>2. /\ pc[j] = "create" /\ pc' = [pc EXCEPT ![j] = "write"]
      /\ dir' = [dir EXCEPT ![mode[j]] = inode]
      /\ fd' = [fd EXCEPT ![j] = inode]
      /\ lines' = [lines EXCEPT ![inode] = << >>]
      /\ shared' = shared \cup Exposed(j)
      /\ Job' = Job /\ UNCHANGED job
  BY DEF Create, Goto, given
<1>3. mode[j] \in ListModes /\ inode \in Jobs /\ inode # NoInode
  BY <1>1, <1>2 DEF ControlTyped, ListsTyped, Listing
<1>4. pc'[inode] \notin Fresh /\ mode[inode] = mode[j]
  BY <1>1, <1>2, <1>3 DEF Names, Fresh, ControlTyped
<1> HIDE DEF inode
<1>5. Jobs' = Jobs /\ mode' = mode /\ \A k \in Jobs : Inputs(k)' = Inputs(k)
  BY <1>2 DEF Jobs, Inputs, job
<1>6. \A k \in Jobs : pc[k] \notin Fresh => pc'[k] \notin Fresh
  BY <1>1, <1>2 DEF Fresh, ControlTyped
<1>7. Names'
  <2>1. ASSUME NEW m \in ListModes, dir'[m] # NoInode
        PROVE  mode'[dir'[m]] = m /\ pc'[dir'[m]] \notin Fresh
    <3>1. CASE m = mode[j]
      BY <1>1, <1>2, <1>3, <1>4, <1>5, <3>1 DEF ListsTyped
    <3>2. CASE m # mode[j]
      <4>1. dir'[m] = dir[m] /\ dir[m] \in Jobs
        BY <1>1, <1>2, <2>1, <3>2 DEF ListsTyped
      <4> QED BY <1>1, <1>5, <1>6, <2>1, <4>1 DEF Names
    <3> QED BY <3>1, <3>2
  <2>2. ASSUME NEW k \in Jobs, fd'[k] # NoInode
        PROVE  mode'[fd'[k]] = mode'[k] /\ pc'[fd'[k]] \notin Fresh
    <3>1. CASE k = j
      BY <1>1, <1>2, <1>3, <1>4, <1>5, <3>1 DEF ListsTyped
    <3>2. CASE k # j
      <4>1. fd'[k] = fd[k] /\ fd[k] \in Jobs
        BY <1>1, <1>2, <2>2, <3>2 DEF ListsTyped
      <4> QED BY <1>1, <1>5, <1>6, <2>2, <4>1 DEF Names
    <3> QED BY <3>1, <3>2
  <2> QED BY <1>5, <2>1, <2>2 DEF Names
<1>8. JobOK(j)'
  <2>1. /\ pc'[j] = "write" /\ n'[j] = 1 /\ result'[j] = "none"
        /\ Len(Inputs(j)) \in Nat
    <3>1. n[j] = 1 /\ result[j] = "none"
      BY <1>1, <1>2 DEF JobOK
    <3> QED BY <1>1, <1>2, <3>1, JobTyped DEF job, ControlTyped, Typed, GivenTyped
  <2>2. dir'[mode[j]] = inode /\ fd'[j] = inode /\ lines'[inode] = << >>
    BY <1>1, <1>2, <1>3 DEF ListsTyped
  <2>3. [i \in 1..(1 - 1) |-> Inputs(j)[i]] = << >>
    OBVIOUS
  <2> QED BY <1>5, <2>1, <2>2, <2>3 DEF JobOK, OwnList
<1>9. ASSUME NEW k \in Jobs \ {j} PROVE JobOK(k)'
  <2>1. /\ pc'[k] = pc[k] /\ fd'[k] = fd[k] /\ n' = n /\ feed' = feed /\ out' = out
        /\ result' = result /\ JobOK(k)
    BY <1>1, <1>2 DEF ControlTyped, ListsTyped, job
  <2>2. ASSUME k \notin shared', pc[k] \in {"write", "read"}
        PROVE  /\ dir'[mode[k]] = dir[mode[k]]
               /\ lines'[dir[mode[k]]] = lines[dir[mode[k]]]
    <3>1. mode[k] # mode[j] /\ mode[k] \in ListModes /\ OwnList(k)
      BY <1>1, <1>2, <2>2 DEF Exposed, JobOK, ControlTyped, Listing
    <3>2. dir[mode[k]] # NoInode /\ dir[mode[k]] \in Jobs
      BY <1>1, <2>2, <3>1 DEF OwnList, ListsTyped
    <3>3. mode[dir[mode[k]]] = mode[k]
      BY <1>1, <3>1, <3>2 DEF Names
    <3>4. dir[mode[k]] # inode
      BY <1>4, <3>1, <3>3
    <3> QED BY <1>1, <1>2, <3>1, <3>2, <3>4 DEF ListsTyped
  <2> QED BY <1>2, <1>5, <2>1, <2>2 DEF JobOK, OwnList
<1> QED BY <1>5, <1>7, <1>8, <1>9 DEF Own

LEMMA WriteAtNext ==
  ASSUME NEW s, NEW i \in Nat \ {0}
  PROVE  WriteAt([m \in 1..(i - 1) |-> s[m]], i, s[i]) = [m \in 1..i |-> s[m]]
<1> DEFINE p == [m \in 1..(i - 1) |-> s[m]]
<1>1. Len(p) = i - 1
  <2>1. i - 1 \in Nat
    OBVIOUS
  <2> QED BY <2>1
<1>2. (IF i > Len(p) THEN i ELSE Len(p)) = i
  BY <1>1
<1>3. \A m \in 1..i : m = i \/ (m <= i - 1 /\ m \in 1..(i - 1))
  OBVIOUS
<1> QED BY <1>1, <1>2, <1>3 DEF WriteAt

LEMMA OwnWrite ==
  ASSUME JobsAssumption, Typed, Typed', Own, NEW j \in Jobs, WriteLine(j)
  PROVE  Own'
<1>1. /\ ControlTyped /\ ListsTyped /\ Names /\ NoInode \notin Jobs
      /\ \A k \in Jobs : JobOK(k)
  BY JobTyped DEF Typed, Own, GivenTyped
<1>2. /\ pc[j] = "write" /\ n[j] <= Len(Inputs(j)) /\ Len(Inputs(j)) \in Nat
      /\ n' = [n EXCEPT ![j] = n[j] + 1]
      /\ lines' = [lines EXCEPT ![fd[j]] =
                     WriteAt(lines[fd[j]], n[j], Inputs(j)[n[j]])]
      /\ shared' = shared \cup
           {k \in Exposed(j) : fd[j] = IF pc[k] = "write" THEN fd[k] ELSE dir[mode[k]]}
      /\ Job' = Job /\ pc' = pc /\ mode' = mode /\ feed' = feed /\ out' = out
      /\ result' = result /\ dir' = dir /\ fd' = fd
  BY JobTyped DEF WriteLine, given, Typed, GivenTyped
<1>3. Jobs' = Jobs /\ \A k \in Jobs : Inputs(k)' = Inputs(k)
  BY <1>2 DEF Jobs, Inputs
<1>4. Names'
  BY <1>1, <1>2, <1>3 DEF Names
<1>5. JobOK(j)'
  <2>1. n'[j] = n[j] + 1 /\ n[j] \in Nat \ {0} /\ n'[j] - 1 = n[j]
    BY <1>1, <1>2 DEF ControlTyped
  <2>2. fd[j] \in Jobs
    BY <1>1, <1>2 DEF ListsTyped
  <2>3. ASSUME j \notin shared'
        PROVE  /\ dir'[mode[j]] = fd[j]
               /\ lines'[fd[j]] = [i \in 1..(n'[j] - 1) |-> Inputs(j)[i]]
    <3>1. OwnList(j)
      BY <1>1, <1>2, <2>3 DEF JobOK
    <3>2. lines[fd[j]] = [i \in 1..(n[j] - 1) |-> Inputs(j)[i]]
      BY <1>2, <3>1 DEF OwnList
    <3>3. lines'[fd[j]] = WriteAt(lines[fd[j]], n[j], Inputs(j)[n[j]])
      BY <1>1, <1>2, <2>2 DEF ListsTyped
    <3>4. lines'[fd[j]] = [i \in 1..n[j] |-> Inputs(j)[i]]
      <4>1. WriteAt([i \in 1..(n[j] - 1) |-> Inputs(j)[i]], n[j], Inputs(j)[n[j]])
              = [i \in 1..n[j] |-> Inputs(j)[i]]
        BY <2>1, WriteAtNext
      <4> QED BY <3>2, <3>3, <4>1
    <3> QED BY <1>2, <2>1, <3>1, <3>4 DEF OwnList
  <2>4. result[j] = "none" /\ n'[j] <= Len(Inputs(j)) + 1
    <3>1. result[j] = "none"
      BY <1>1, <1>2 DEF JobOK
    <3>2. n'[j] <= Len(Inputs(j)) + 1
      BY <1>2, <2>1
    <3> QED BY <3>1, <3>2
  <2> QED BY <1>2, <1>3, <2>3, <2>4 DEF JobOK, OwnList
<1>6. ASSUME NEW k \in Jobs \ {j} PROVE JobOK(k)'
  <2>1. n'[k] = n[k] /\ JobOK(k)
    BY <1>1, <1>2 DEF ControlTyped
  <2>2. ASSUME k \notin shared', pc[k] \in {"write", "read"}
        PROVE  lines'[dir[mode[k]]] = lines[dir[mode[k]]]
    <3>1. mode[k] \in ListModes /\ OwnList(k)
      BY <1>1, <1>2, <2>2 DEF JobOK, ControlTyped, Listing
    <3>2. dir[mode[k]] # NoInode /\ dir[mode[k]] \in Jobs
      BY <1>1, <2>2, <3>1 DEF OwnList, ListsTyped
    <3>3. fd[j] # dir[mode[k]]
      <4>1. CASE mode[k] = mode[j]
        <5>1. k \in Exposed(j)
          BY <2>2, <4>1 DEF Exposed
        <5> QED BY <1>2, <2>2, <3>1, <5>1 DEF OwnList
      <4>2. CASE mode[k] # mode[j]
        <5>1. mode[dir[mode[k]]] = mode[k]
          BY <1>1, <3>1, <3>2 DEF Names
        <5>2. mode[fd[j]] = mode[j]
          BY <1>1, <1>2 DEF Names, ListsTyped
        <5> QED BY <4>2, <5>1, <5>2
      <4> QED BY <4>1, <4>2
    <3> QED BY <1>1, <1>2, <3>2, <3>3 DEF ListsTyped
  <2> QED BY <1>2, <1>3, <2>1, <2>2 DEF JobOK, OwnList
<1> QED BY <1>3, <1>4, <1>5, <1>6 DEF Own

LEMMA OwnRemove ==
  ASSUME JobsAssumption, Typed, Typed', Own, NEW j \in Jobs, RemoveList(j)
  PROVE  Own'
<1>1. /\ ControlTyped /\ ListsTyped /\ Names /\ NoInode \notin Jobs
      /\ \A k \in Jobs : JobOK(k)
  BY JobTyped DEF Typed, Own, GivenTyped
<1>2. /\ pc[j] \in {"remove first", "remove"}
      /\ pc' = [pc EXCEPT ![j] = AfterRemove(j)] /\ AfterRemove(j) \in {"done", "remove"}
      /\ dir' = [dir EXCEPT ![mode[j]] = NoInode]
      /\ shared' = shared \cup Exposed(j)
      /\ Job' = Job /\ UNCHANGED job /\ lines' = lines /\ fd' = fd
  BY DEF RemoveList, Goto, AfterRemove, given
<1>3. Jobs' = Jobs /\ mode' = mode /\ \A k \in Jobs : Inputs(k)' = Inputs(k)
  BY <1>2 DEF Jobs, Inputs, job
<1>4. \A k \in Jobs : pc[k] \notin Fresh => pc'[k] \notin Fresh
  BY <1>1, <1>2 DEF Fresh, ControlTyped
<1>5. Names'
  <2>1. \A m \in ListModes : dir'[m] # NoInode => dir'[m] = dir[m] /\ dir[m] \in Jobs
    BY <1>1, <1>2 DEF ListsTyped
  <2>2. \A k \in Jobs : fd[k] # NoInode => fd[k] \in Jobs
    BY <1>1 DEF ListsTyped
  <2> QED BY <1>1, <1>2, <1>3, <1>4, <2>1, <2>2 DEF Names
<1>6. JobOK(j)'
  <2>1. pc'[j] \in {"done", "remove"}
    BY <1>1, <1>2 DEF ControlTyped
  <2> QED BY <1>1, <1>2, <1>3, <2>1 DEF JobOK, OwnList, job
<1>7. ASSUME NEW k \in Jobs \ {j} PROVE JobOK(k)'
  <2>1. /\ pc'[k] = pc[k] /\ n' = n /\ feed' = feed /\ out' = out
        /\ result' = result /\ JobOK(k)
    BY <1>1, <1>2 DEF ControlTyped, job
  <2>2. ASSUME k \notin shared', pc[k] \in {"write", "read"}
        PROVE  dir'[mode[k]] = dir[mode[k]]
    <3>1. mode[k] # mode[j] /\ mode[k] \in ListModes
      BY <1>1, <1>2, <2>2 DEF Exposed, ControlTyped, Listing
    <3> QED BY <1>1, <1>2, <3>1 DEF ListsTyped
  <2> QED BY <1>2, <1>3, <2>1, <2>2 DEF JobOK, OwnList
<1> QED BY <1>3, <1>5, <1>6, <1>7 DEF Own

LEMMA OwnNext == JobsAssumption /\ Typed /\ Typed' /\ Own /\ [Next]_vars => Own'
<1> SUFFICES ASSUME JobsAssumption, Typed, Typed', Own, [Next]_vars PROVE Own'
  OBVIOUS
<1>1. ASSUME NEW j \in Jobs, Step(j) PROVE Own'
  BY <1>1, OwnPrivate, OwnCreate, OwnWrite, OwnRemove DEF Step
<1>2. ASSUME Job' = Job, pc' = pc, UNCHANGED job, UNCHANGED lists, UNCHANGED ghosts
      PROVE  Own'
  <2>1. Jobs' = Jobs /\ \A j \in Jobs : Inputs(j)' = Inputs(j)
    BY <1>2 DEF Jobs, Inputs
  <2>2. /\ pc' = pc /\ n' = n /\ mode' = mode /\ feed' = feed /\ out' = out
        /\ result' = result /\ dir' = dir /\ lines' = lines /\ fd' = fd
        /\ shared' = shared
    BY <1>2 DEF job, lists, ghosts
  <2>3. Names'
    BY <2>1, <2>2 DEF Own, Names
  <2>4. ASSUME NEW j \in Jobs PROVE JobOK(j)'
    <3>1. JobOK(j) /\ Inputs(j)' = Inputs(j)
      BY <2>1 DEF Own
    <3> QED BY <2>2, <3>1 DEF JobOK, OwnList
  <2> QED BY <2>1, <2>3, <2>4 DEF Own
<1>3. ASSUME NEW c \in Clips, NEW new \in Codecs \cup {NoCodec}, ChangeClip(c, new)
      PROVE  Own'
  BY <1>2, <1>3 DEF ChangeClip
<1>4. CASE UNCHANGED vars
  BY <1>2, <1>4 DEF vars, given
<1> QED BY <1>1, <1>3, <1>4 DEF Next

LEMMA OwnHolds == Spec => [](Typed /\ Own)
<1>1. Init => Typed /\ Own
  BY TypedInit, OwnInit, JobsAssumption
<1>2. (Typed /\ Own) /\ [Next]_vars => (Typed /\ Own)'
  BY TypedNext, OwnNext, JobsAssumption
<1> QED BY <1>1, <1>2, PTL DEF Spec

(* A job that succeeds has put its own inputs, in their order, into its     *)
(* output, however many workers run, whatever fails and whatever lists     *)
(* failed jobs have left, unless another job used the list of its mode     *)
(* between its creation and ffmpeg's reading it.                           *)
THEOREM OwnUnlessSharedCorrect == Spec => []OwnInputsUnlessShared
<1>1. Typed /\ Own => OwnInputsUnlessShared
  BY DEF Own, JobOK, OwnList, OwnInputsUnlessShared, Succeeded
<1> QED BY <1>1, OwnHolds, PTL

-----------------------------------------------------------------------------
(* One worker.                                                             *)

OneRuns == (\A j, k \in Running : j = k) /\ shared = {}

LEMMA RunningFinite ==
  ASSUME JobsAssumption, Typed
  PROVE  IsFiniteSet(Running) /\ Cardinality(Running) \in Nat
<1>1. Jobs = 1..Len(Job) /\ Len(Job) \in Nat
  BY JobTyped DEF Typed, GivenTyped
<1>2. IsFiniteSet(1..Len(Job))
  <2>1. 1 \in Int /\ Len(Job) \in Int
    BY <1>1
  <2> QED BY <2>1, FS_Interval
<1>3. Running \subseteq Jobs
  BY DEF Running
<1> QED BY <1>1, <1>2, <1>3, FS_Subset, FS_CardinalityType

LEMMA OneRunsStep ==
  ASSUME JobsAssumption, Workers = 1, Typed, OneRuns, NEW j \in Jobs, Step(j)
  PROVE  OneRuns'
<1>1. /\ pc \in [Jobs -> Places] /\ \A j1, k \in Running : j1 = k
      /\ shared = {}
  BY DEF Typed, ControlTyped, OneRuns
<1>2. CASE Start(j)
  <2>1. Cardinality(Running) = 0
    <3>1. Cardinality(Running) < 1
      BY <1>2 DEF Start
    <3>2. Cardinality(Running) \in Nat
      BY RunningFinite
    <3> QED BY <3>1, <3>2
  <2>2. Running = {}
    BY <2>1, RunningFinite, FS_EmptySet
  <2>3. Running' \subseteq {j} /\ shared' = shared
    BY <1>1, <1>2, <2>2 DEF Start, Running, Goto, Jobs, given, ghosts
  <2> QED BY <1>1, <2>3 DEF OneRuns
<1>3. ASSUME pc[j] \notin {"waiting", "done"} PROVE Exposed(j) = {}
  <2>1. j \in Running
    BY <1>3 DEF Running
  <2>2. \A k \in Exposed(j) : k \in Running /\ k # j
    BY DEF Exposed, Running
  <2> QED BY <1>1, <2>1, <2>2
<1>4. CASE ~ Start(j)
  <2> DEFINE Later == /\ Job' = Job /\ pc[j] \notin {"waiting", "done"}
                      /\ \A k \in Jobs : k # j => pc'[k] = pc[k]
                      /\ shared' \subseteq shared \cup Exposed(j)
  <2>1. ASSUME NoInputs(j) \/ FuseMissing(j) \/ FuseProbe(j) \/ FuseDone(j) PROVE Later
    BY <1>1, <2>1 DEF NoInputs, FuseMissing, FuseProbe, FuseDone, Return, Goto,
                      given, ghosts
  <2>2. ASSUME Reject(j) \/ CopySingle(j) \/ CopyFails(j) \/ Preallocate(j) PROVE Later
    BY <1>1, <2>2 DEF Reject, CopySingle, CopyFails, Preallocate, Return, Goto,
                      given, ghosts
  <2>3. ASSUME CheckClip(j) \/ CheckFails(j) \/ CheckDone(j) \/ CreateFails(j) PROVE Later
    BY <1>1, <2>3 DEF CheckClip, CheckFails, CheckDone, CreateFails, Choose, Return,
                      Goto, given, ghosts
  <2>4. ASSUME Create(j) \/ RemoveList(j) PROVE Later
    BY <1>1, <2>4 DEF Create, RemoveList, Goto, given
  <2>5. ASSUME WriteLine(j) PROVE Later
    <3>1. shared' \subseteq shared \cup Exposed(j)
      BY <2>5 DEF WriteLine
    <3> QED BY <1>1, <2>5, <3>1 DEF WriteLine, given
  <2>6. ASSUME WriteFails(j) \/ Written(j) \/ ReadList(j) \/ SpawnFails(j) PROVE Later
    BY <1>1, <2>6 DEF WriteFails, Written, ReadList, SpawnFails, Return, Goto, given,
                      ghosts
  <2>7. ASSUME Ffmpeg(j) \/ FfmpegFails(j) PROVE Later
    BY <1>1, <2>7 DEF Ffmpeg, FfmpegFails, Exit, Goto, given, ghosts
  <2>8. Later
    <3> HIDE DEF Later
    <3> QED BY <1>4, <2>1, <2>2, <2>3, <2>4, <2>5, <2>6, <2>7 DEF Step
  <2>9. Running' \subseteq Running
    BY <2>8 DEF Running, Jobs
  <2>10. shared' = {}
    BY <1>1, <1>3, <2>8
  <2> QED BY <1>1, <2>9, <2>10 DEF OneRuns
<1> QED BY <1>2, <1>4

(* "Whatever the others do, the output of a job that succeeds is made of   *)
(* its own inputs" holds of a pool with one worker, where jobs run one     *)
(* after another: the name of the list is the only thing they share.       *)
THEOREM OneWorkerCorrect == Workers = 1 /\ Spec => []OwnInputs
<1> SUFFICES ASSUME Workers = 1 PROVE Spec => []OwnInputs
  OBVIOUS
<1>1. Init => OneRuns
  BY DEF Init, OneRuns, Running
<1>2. OneRuns /\ (Typed /\ Own) /\ [Next]_vars => OneRuns'
  <2> SUFFICES ASSUME OneRuns, Typed, [Next]_vars PROVE OneRuns'
    OBVIOUS
  <2>1. ASSUME NEW j \in Jobs, Step(j) PROVE OneRuns'
    BY <2>1, OneRunsStep, JobsAssumption
  <2>2. ASSUME NEW c \in Clips, NEW new \in Codecs \cup {NoCodec}, ChangeClip(c, new)
        PROVE  OneRuns'
    BY <2>2 DEF ChangeClip, OneRuns, Running, Jobs, ghosts
  <2>3. CASE UNCHANGED vars
    BY <2>3 DEF vars, given, ghosts, OneRuns, Running, Jobs
  <2> QED BY <2>1, <2>2, <2>3 DEF Next
<1>3. OneRuns /\ (Typed /\ Own) => OwnInputs
  BY DEF OneRuns, Own, JobOK, OwnList, OwnInputs, Succeeded
<1> QED BY <1>1, <1>2, <1>3, OwnHolds, PTL DEF Spec

-----------------------------------------------------------------------------
(* What is left behind.                                                    *)

(* Where a job has created its list and has yet to remove it. *)
Holding == {"write", "read", "ffmpeg", "remove first", "remove"}

WillBeRemoved ==
  \A m \in ListModes : dir[m] # NoInode =>
    m \in leaked \/ \E j \in Jobs : mode[j] = m /\ pc[j] \in Holding

LEMMA RemovedFrame ==
  ASSUME WillBeRemoved, NEW j \in Jobs, Jobs' = Jobs, dir' = dir,
         \A k \in Jobs \ {j} : pc'[k] = pc[k] /\ mode'[k] = mode[k],
         leaked \subseteq leaked',
         pc[j] \in Holding =>
           mode'[j] = mode[j] /\ (pc'[j] \in Holding \/ mode[j] \in leaked')
  PROVE  WillBeRemoved'
<1> SUFFICES ASSUME NEW m \in ListModes, dir[m] # NoInode, m \notin leaked'
             PROVE  \E k \in Jobs : mode'[k] = m /\ pc'[k] \in Holding
  BY DEF WillBeRemoved
<1>1. PICK k \in Jobs : mode[k] = m /\ pc[k] \in Holding
  BY DEF WillBeRemoved
<1>2. mode'[k] = m /\ pc'[k] \in Holding
  BY <1>1
<1> QED BY <1>2

LEMMA RemovedStep ==
  ASSUME Typed, WillBeRemoved, NEW j \in Jobs, Step(j)
  PROVE  WillBeRemoved'
<1>1. /\ ControlTyped /\ dir \in [ListModes -> Jobs \cup {NoInode}]
  BY DEF Typed, ListsTyped
<1> DEFINE Kept == /\ Jobs' = Jobs /\ dir' = dir /\ leaked \subseteq leaked'
                   /\ \A k \in Jobs \ {j} : pc'[k] = pc[k] /\ mode'[k] = mode[k]
                   /\ pc[j] \in Holding =>
                        /\ mode'[j] = mode[j]
                        /\ pc'[j] \in Holding \/ mode[j] \in leaked'
<1>2. ASSUME Start(j) \/ NoInputs(j) \/ FuseMissing(j) \/ FuseProbe(j) \/ FuseDone(j)
      PROVE  Kept
  BY <1>1, <1>2 DEF Start, NoInputs, FuseMissing, FuseProbe, FuseDone, Return, Goto,
       ControlTyped, Holding, Jobs, given, job, lists, ghosts
<1>3. ASSUME Reject(j) \/ CopySingle(j) \/ CopyFails(j) \/ Preallocate(j) PROVE Kept
  BY <1>1, <1>3 DEF Reject, CopySingle, CopyFails, Preallocate, Return, Goto,
       ControlTyped, Holding, Jobs, given, lists, ghosts
<1>4. ASSUME CheckClip(j) \/ CheckFails(j) \/ CheckDone(j) \/ CreateFails(j) PROVE Kept
  BY <1>1, <1>4 DEF CheckClip, CheckFails, CheckDone, CreateFails, Choose, Return,
       Goto, ControlTyped, Holding, Jobs, given, lists, ghosts
<1>5. ASSUME WriteLine(j) \/ WriteFails(j) \/ Written(j) PROVE Kept
  BY <1>1, <1>5 DEF WriteLine, WriteFails, Written, Return, Goto,
       ControlTyped, Holding, Jobs, given, ghosts
<1>6. ASSUME ReadList(j) \/ SpawnFails(j) \/ Ffmpeg(j) \/ FfmpegFails(j) PROVE Kept
  BY <1>1, <1>6 DEF ReadList, SpawnFails, Ffmpeg, FfmpegFails, Exit, Goto,
       ControlTyped, Holding, Jobs, given, lists, ghosts
<1>7. CASE Create(j)
  <2>1. /\ Jobs' = Jobs /\ mode' = mode /\ leaked' = leaked
        /\ pc'[j] = "write" /\ \A k \in Jobs : pc'[k] # pc[k] => k = j
        /\ \A m \in ListModes : m # mode[j] => dir'[m] = dir[m]
        /\ pc[j] \notin Holding
    BY <1>1, <1>7 DEF Create, Goto, ControlTyped, Holding, Jobs, given, job
  <2> SUFFICES ASSUME NEW m \in ListModes, dir'[m] # NoInode, m \notin leaked'
               PROVE  \E k \in Jobs : mode'[k] = m /\ pc'[k] \in Holding
    BY <2>1 DEF WillBeRemoved
  <2>2. CASE m = mode[j]
    BY <2>1, <2>2 DEF Holding
  <2>3. CASE m # mode[j]
    <3>1. PICK k \in Jobs : mode[k] = m /\ pc[k] \in Holding
      BY <2>1, <2>3 DEF WillBeRemoved
    <3> QED BY <2>1, <3>1
  <2> QED BY <2>2, <2>3
<1>8. CASE RemoveList(j)
  <2>1. /\ Jobs' = Jobs /\ mode' = mode /\ leaked' = leaked \ {mode[j]}
        /\ \A k \in Jobs : pc'[k] # pc[k] => k = j
        /\ dir'[mode[j]] = NoInode
        /\ \A m \in ListModes : m # mode[j] => dir'[m] = dir[m]
    BY <1>1, <1>8 DEF RemoveList, Goto, ControlTyped, Listing, Jobs, given, job
  <2> SUFFICES ASSUME NEW m \in ListModes, dir'[m] # NoInode, m \notin leaked'
               PROVE  \E k \in Jobs : mode'[k] = m /\ pc'[k] \in Holding
    BY <2>1 DEF WillBeRemoved
  <2>2. m # mode[j] /\ dir[m] # NoInode /\ m \notin leaked
    BY <2>1
  <2>3. PICK k \in Jobs : mode[k] = m /\ pc[k] \in Holding
    BY <2>2 DEF WillBeRemoved
  <2> QED BY <2>1, <2>2, <2>3
<1>9. ASSUME Kept PROVE WillBeRemoved'
  BY <1>9, RemovedFrame
<1> HIDE DEF Kept
<1> QED BY <1>2, <1>3, <1>4, <1>5, <1>6, <1>7, <1>8, <1>9 DEF Step

(* A list survives all the jobs only if a write to it failed: whoever has  *)
(* created one removes the name, also after a failure to start ffmpeg or   *)
(* of ffmpeg itself.                                                       *)
THEOREM NothingLeftCorrect == Spec => []NoListLeft
<1>1. Init => WillBeRemoved
  BY DEF Init, WillBeRemoved
<1>2. WillBeRemoved /\ (Typed /\ Own) /\ [Next]_vars => WillBeRemoved'
  <2> SUFFICES ASSUME WillBeRemoved, Typed, [Next]_vars PROVE WillBeRemoved'
    OBVIOUS
  <2>1. ASSUME NEW j \in Jobs, Step(j) PROVE WillBeRemoved'
    BY <2>1, RemovedStep
  <2>2. ASSUME NEW c \in Clips, NEW new \in Codecs \cup {NoCodec}, ChangeClip(c, new)
        PROVE  WillBeRemoved'
    BY <2>2 DEF ChangeClip, WillBeRemoved, Jobs, job, lists, ghosts
  <2>3. CASE UNCHANGED vars
    BY <2>3 DEF vars, given, job, lists, ghosts, WillBeRemoved, Jobs
  <2> QED BY <2>1, <2>2, <2>3 DEF Next
<1>3. WillBeRemoved => NoListLeft
  BY DEF WillBeRemoved, NoListLeft, AllDone, Holding
<1> QED BY <1>1, <1>2, <1>3, OwnHolds, PTL DEF Spec
=============================================================================
