----------------------------- MODULE ConcatJobs -----------------------------
(***************************************************************************)
(* video/mod.rs and video/pipeline_fusion.rs: jobs that concatenate given, *)
(* run by the workers of the rayon pool.  A job is a call of concat_videos *)
(* or of fused_concat, which probes the clips and then calls concat_videos.*)
(*                                                                         *)
(* concat_videos writes the names of its inputs to a list file and runs    *)
(* ffmpeg on it.  The name of the list depends on the process and on the   *)
(* mode only, so two jobs of one mode share it: the model keeps the        *)
(* directory entry, the inode a job has opened and what it has written, as *)
(* create truncates an inode others may have open and unlink takes away a  *)
(* name others are about to read.  A line of the list is one place in it.  *)
(*                                                                         *)
(* A clip is its codec: probe_fast leaves the resolution and the frame     *)
(* rate at 0, so they take no part in the checks.  An output is the        *)
(* sequence of the clips that ffmpeg put into it.                          *)
(***************************************************************************)
EXTENDS Naturals, Sequences, FiniteSets, SequencesExt

CONSTANTS
  Workers,      \* number of workers of the pool
  Clips,
  Codecs,
  Batches,      \* the batches of jobs; one of them is run
  FirstCodec,   \* FirstCodec[c]: codec of clip c at first, NoCodec if missing
  IoMayFail,    \* may file operations, and starting ffmpeg, fail?
  MaxChanges    \* MaxChanges[b]: bound on changes to the clips during b

NoCodec == "none"
Hole == "hole"

ASSUME JobsAssumption ==
  /\ Workers \in Nat \ {0} /\ MaxChanges \in [Batches -> Nat] /\ IoMayFail \in BOOLEAN
  /\ NoCodec \notin Codecs
  /\ FirstCodec \in [Clips -> Codecs \cup {NoCodec}]
  /\ Batches \subseteq
       Seq([inputs : Seq(Clips), fused : BOOLEAN, transcode : BOOLEAN])
  /\ Hole \notin Clips

VARIABLES
  Job,          \* Job[j]: inputs, fused (else concat_videos), transcode
  codec, changes,
  pc,
  allow,        \* all_compatible, then allow_stream_copy
  ref,          \* codec of the first input, as probed
  n,            \* next input to probe or to write
  mode,         \* "copy", "transcode" or "file" (fs::copy of a single input)
  dir,          \* dir[mode]: the inode under the list's name, or NoInode
  lines,        \* lines[i]: contents of inode i
  fd,           \* the inode a job has opened
  feed,         \* what ffmpeg read from the list
  out,          \* the output file of the job
  result,       \* what the job returns: "ok" or "error"
  shared,       \* history: jobs whose list another job used before it was read
  leaked        \* history: modes in which a failed write left the list behind

given == <<Job, codec, changes>>
lists == <<dir, lines, fd>>
job == <<allow, ref, n, mode, feed, out, result>>
ghosts == <<shared, leaked>>
vars == <<given, pc, job, lists, ghosts>>

Jobs == DOMAIN Job
NoInode == 0   \* an inode is named by the job that created it
Allocated == <<Hole>>
ListModes == {"copy", "transcode"}

Inputs(j) == Job[j].inputs
Present(c) == codec[c] # NoCodec

Goto(j, label) == pc' = [pc EXCEPT ![j] = label]

Return(j, r) ==
  /\ Goto(j, "done")
  /\ result' = [result EXCEPT ![j] = r]

(* Variant: a worker is not free again after its job. *)
RunningForEver == {j \in Jobs : pc[j] # "waiting"}

Running == {j \in Jobs : pc[j] \notin {"waiting", "done"}}

Start(j) ==
  /\ pc[j] = "waiting"
  /\ Cardinality(Running) < Workers
  /\ Goto(j, IF Job[j].fused THEN "fuse" ELSE "concat")
  /\ UNCHANGED <<given, job, lists, ghosts>>

-----------------------------------------------------------------------------
(* fused_concat: one pass over the inputs; a missing one is an error.      *)

NoInputs(j) ==
  /\ pc[j] = "fuse"
  /\ Inputs(j) = << >>
  /\ Return(j, "error")
  /\ UNCHANGED <<given, allow, ref, n, mode, feed, out, lists, ghosts>>

FuseMissing(j) ==
  /\ pc[j] = "fuse"
  /\ n[j] <= Len(Inputs(j))
  /\ ~Present(Inputs(j)[n[j]])
  /\ Return(j, "error")
  /\ UNCHANGED <<given, allow, ref, n, mode, feed, out, lists, ghosts>>

(* Opening a clip tells its codec; the first one is the reference. *)
ProbeFast(j) ==
  /\ ref' = IF n[j] = 1 THEN [ref EXCEPT ![j] = codec[Inputs(j)[1]]] ELSE ref
  /\ n' = [n EXCEPT ![j] = @ + 1]

Compatible(j) == n[j] = 1 \/ codec[Inputs(j)[n[j]]] = ref[j]

FuseProbe(j) ==
  /\ pc[j] = "fuse"
  /\ n[j] <= Len(Inputs(j))
  /\ Present(Inputs(j)[n[j]])
  /\ ProbeFast(j)
  /\ allow' = [allow EXCEPT ![j] = @ /\ Compatible(j)]
  /\ UNCHANGED <<given, pc, mode, feed, out, result, lists, ghosts>>

FuseDone(j) ==
  /\ pc[j] = "fuse"
  /\ Inputs(j) # << >> /\ n[j] > Len(Inputs(j))
  /\ Goto(j, "concat")
  /\ n' = [n EXCEPT ![j] = 1]
  /\ ref' = [ref EXCEPT ![j] = NoCodec]
  /\ UNCHANGED <<given, allow, mode, feed, out, result, lists, ghosts>>

-----------------------------------------------------------------------------
(* concat_videos, up to the choice of the mode                             *)

Reject(j) ==
  /\ pc[j] = "concat"
  /\ Inputs(j) = << >> \/ \E c \in ToSet(Inputs(j)) : ~Present(c)
  /\ Return(j, "error")
  /\ UNCHANGED <<given, allow, ref, n, mode, feed, out, lists, ghosts>>

CopySingle(j) ==
  /\ pc[j] = "concat"
  /\ Len(Inputs(j)) = 1 /\ Present(Inputs(j)[1])
  /\ mode' = [mode EXCEPT ![j] = "file"]
  /\ out' = [out EXCEPT ![j] = Inputs(j)]
  /\ Return(j, "ok")
  /\ UNCHANGED <<given, allow, ref, n, feed, lists, ghosts>>

(* fs::copy may fail. *)
CopyFails(j) ==
  /\ IoMayFail
  /\ pc[j] = "concat"
  /\ Len(Inputs(j)) = 1 /\ Present(Inputs(j)[1])
  /\ Return(j, "error")
  /\ UNCHANGED <<given, allow, ref, n, mode, feed, out, lists, ghosts>>

(* Variant: the mode is chosen by the check only. *)
PreallocateWithoutMode(j) ==
  /\ pc[j] = "concat"
  /\ Len(Inputs(j)) > 1 /\ \A c \in ToSet(Inputs(j)) : Present(c)
  /\ out' = [out EXCEPT ![j] = Allocated]
  /\ Goto(j, IF allow[j] THEN "check" ELSE "create")
  /\ UNCHANGED <<given, allow, ref, n, mode, feed, result, lists, ghosts>>

(* preallocate truncates the output and reserves its space; an error is    *)
(* only logged.                                                            *)
Preallocate(j) ==
  /\ pc[j] = "concat"
  /\ Len(Inputs(j)) > 1 /\ \A c \in ToSet(Inputs(j)) : Present(c)
  /\ \/ out' = [out EXCEPT ![j] = Allocated]
     \/ IoMayFail /\ UNCHANGED out
  /\ IF allow[j]
     THEN Goto(j, "check") /\ UNCHANGED mode
     ELSE Goto(j, "create") /\ mode' = [mode EXCEPT ![j] = "transcode"]
  /\ UNCHANGED <<given, allow, ref, n, feed, result, lists, ghosts>>

Choose(j, m) ==
  /\ mode' = [mode EXCEPT ![j] = m]
  /\ n' = [n EXCEPT ![j] = 1]
  /\ ref' = [ref EXCEPT ![j] = NoCodec]
  /\ Goto(j, "create")

(* check_stream_copy_compatible probes the inputs in turn. *)
CheckClip(j) ==
  /\ pc[j] = "check"
  /\ n[j] <= Len(Inputs(j))
  /\ Present(Inputs(j)[n[j]]) /\ Compatible(j)
  /\ ProbeFast(j)
  /\ UNCHANGED <<given, pc, allow, mode, feed, out, result, lists, ghosts>>

CheckFails(j) ==
  /\ pc[j] = "check"
  /\ n[j] <= Len(Inputs(j))
  /\ ~(Present(Inputs(j)[n[j]]) /\ Compatible(j))
  /\ Choose(j, "transcode")
  /\ UNCHANGED <<given, allow, feed, out, result, lists, ghosts>>

CheckDone(j) ==
  /\ pc[j] = "check"
  /\ n[j] > Len(Inputs(j))
  /\ Choose(j, "copy")
  /\ UNCHANGED <<given, allow, feed, out, result, lists, ghosts>>

-----------------------------------------------------------------------------
(* The list: concat_stream_copy and the transcoding half of concat_videos. *)

(* The other jobs of the mode that have a list which ffmpeg has not read.  *)
Exposed(j) ==
  {k \in Jobs \ {j} : mode[k] = mode[j] /\ pc[k] \in {"write", "read"}}

(* Variant: the list is opened as it is. *)
CreateWithoutTruncating(j) ==
  /\ pc[j] = "create"
  /\ LET inode == IF dir[mode[j]] = NoInode THEN j ELSE dir[mode[j]]
     IN  /\ dir' = [dir EXCEPT ![mode[j]] = inode]
         /\ fd' = [fd EXCEPT ![j] = inode]
  /\ shared' = shared \cup Exposed(j)
  /\ Goto(j, "write")
  /\ UNCHANGED <<given, job, lines, leaked>>

(* File::create: an existing file is truncated, else there is a new inode. *)
Create(j) ==
  /\ pc[j] = "create"
  /\ LET inode == IF dir[mode[j]] = NoInode THEN j ELSE dir[mode[j]]
     IN  /\ dir' = [dir EXCEPT ![mode[j]] = inode]
         /\ fd' = [fd EXCEPT ![j] = inode]
         /\ lines' = [lines EXCEPT ![inode] = << >>]
  /\ shared' = shared \cup Exposed(j)
  /\ Goto(j, "write")
  /\ UNCHANGED <<given, job, leaked>>

CreateFails(j) ==
  /\ IoMayFail
  /\ pc[j] = "create"
  /\ Return(j, "error")
  /\ UNCHANGED <<given, allow, ref, n, mode, feed, out, lists, ghosts>>

(* Line c at place i; what a truncation left out before it reads as zeros. *)
WriteAt(s, i, c) ==
  [m \in 1..(IF i > Len(s) THEN i ELSE Len(s)) |->
     IF m = i THEN c ELSE IF m <= Len(s) THEN s[m] ELSE Hole]

WriteLine(j) ==
  /\ pc[j] = "write"
  /\ n[j] <= Len(Inputs(j))
  /\ lines' = [lines EXCEPT ![fd[j]] = WriteAt(@, n[j], Inputs(j)[n[j]])]
  /\ n' = [n EXCEPT ![j] = @ + 1]
  /\ shared' = shared \cup
       {k \in Exposed(j) : fd[j] = IF pc[k] = "write" THEN fd[k] ELSE dir[mode[k]]}
  /\ UNCHANGED <<given, pc, allow, ref, mode, feed, out, result,
                 dir, fd, leaked>>

Close(j) ==
  /\ fd' = [fd EXCEPT ![j] = NoInode]
  /\ n' = [n EXCEPT ![j] = 1]

(* The error is returned at once: nobody removes the list. *)
WriteFails(j) ==
  /\ IoMayFail
  /\ pc[j] = "write"
  /\ n[j] <= Len(Inputs(j))
  /\ leaked' = leaked \cup {mode[j]}
  /\ Close(j)
  /\ Return(j, "error")
  /\ UNCHANGED <<given, allow, ref, mode, feed, out, dir, lines, shared>>

Written(j) ==
  /\ pc[j] = "write"
  /\ n[j] > Len(Inputs(j))
  /\ Close(j)
  /\ Goto(j, "read")
  /\ UNCHANGED <<given, allow, ref, mode, feed, out, result, dir, lines, ghosts>>

(* ffmpeg starts and reads the list that has the name now. *)
ReadList(j) ==
  /\ pc[j] = "read"
  /\ feed' = [feed EXCEPT ![j] = IF dir[mode[j]] = NoInode THEN << >>
                                 ELSE lines[dir[mode[j]]]]
  /\ Goto(j, "ffmpeg")
  /\ UNCHANGED <<given, allow, ref, n, mode, out, result, lists, ghosts>>

(* No ffmpeg: the transcoding half then removes the list twice. *)
SpawnFails(j) ==
  /\ IoMayFail
  /\ pc[j] = "read"
  /\ result' = [result EXCEPT ![j] = "error"]
  /\ Goto(j, IF mode[j] = "transcode" THEN "remove first" ELSE "remove")
  /\ UNCHANGED <<given, allow, ref, n, mode, feed, out, lists, ghosts>>

Exit(j, r) ==
  /\ result' = [result EXCEPT ![j] = r]
  /\ feed' = [feed EXCEPT ![j] = << >>]
  /\ Goto(j, "remove")

(* A list with a hole, an empty list or a missing clip is an error. *)
Ffmpeg(j) ==
  /\ pc[j] = "ffmpeg"
  /\ feed[j] # << >> /\ \A c \in ToSet(feed[j]) : c # Hole /\ Present(c)
  /\ out' = [out EXCEPT ![j] = feed[j]]
  /\ Exit(j, "ok")
  /\ UNCHANGED <<given, allow, ref, n, mode, lists, ghosts>>

FfmpegFails(j) ==
  /\ pc[j] = "ffmpeg"
  /\ Exit(j, "error")
  /\ UNCHANGED <<given, allow, ref, n, mode, out, lists, ghosts>>

AfterRemove(j) == IF pc[j] = "remove" THEN "done" ELSE "remove"

(* Variant: the list is removed after a success only. *)
RemoveAfterSuccess(j) ==
  /\ pc[j] \in {"remove first", "remove"}
  /\ IF result[j] = "ok"
     THEN /\ dir' = [dir EXCEPT ![mode[j]] = NoInode]
          /\ leaked' = leaked \ {mode[j]}
          /\ shared' = shared \cup Exposed(j)
     ELSE UNCHANGED <<dir, leaked, shared>>
  /\ Goto(j, AfterRemove(j))
  /\ UNCHANGED <<given, job, lines, fd>>

(* remove_file; an error, as when another job was faster, is ignored. *)
RemoveList(j) ==
  /\ pc[j] \in {"remove first", "remove"}
  /\ dir' = [dir EXCEPT ![mode[j]] = NoInode]
  /\ leaked' = leaked \ {mode[j]}
  /\ shared' = shared \cup Exposed(j)
  /\ Goto(j, AfterRemove(j))
  /\ UNCHANGED <<given, job, lines, fd>>

-----------------------------------------------------------------------------
(* Other programs replace and delete clips. *)
ChangeClip(c, new) ==
  /\ changes < MaxChanges[Job]
  /\ codec[c] # new
  /\ codec' = [codec EXCEPT ![c] = new]
  /\ changes' = changes + 1
  /\ UNCHANGED <<Job, pc, job, lists, ghosts>>

Init ==
  /\ Job \in Batches
  /\ codec = FirstCodec /\ changes = 0
  /\ pc = [j \in Jobs |-> "waiting"]
  /\ allow = [j \in Jobs |-> ~Job[j].transcode]
  /\ ref = [j \in Jobs |-> NoCodec]
  /\ n = [j \in Jobs |-> 1]
  /\ mode = [j \in Jobs |-> "none"]
  /\ dir = [m \in ListModes |-> NoInode]
  /\ lines = [j \in Jobs |-> << >>]
  /\ fd = [j \in Jobs |-> NoInode]
  /\ feed = [j \in Jobs |-> << >>]
  /\ out = [j \in Jobs |-> << >>]
  /\ result = [j \in Jobs |-> "none"]
  /\ shared = {} /\ leaked = {}

Step(j) ==
  \/ Start(j)
  \/ NoInputs(j) \/ FuseMissing(j) \/ FuseProbe(j) \/ FuseDone(j)
  \/ Reject(j) \/ CopySingle(j) \/ CopyFails(j) \/ Preallocate(j)
  \/ CheckClip(j) \/ CheckFails(j) \/ CheckDone(j)
  \/ Create(j) \/ CreateFails(j) \/ WriteLine(j) \/ WriteFails(j) \/ Written(j)
  \/ ReadList(j) \/ SpawnFails(j) \/ Ffmpeg(j) \/ FfmpegFails(j)
  \/ RemoveList(j)

AllDone == \A j \in Jobs : pc[j] = "done"

Next ==
  \/ \E j \in Jobs : Step(j)
  \/ \E c \in Clips, new \in Codecs \cup {NoCodec} : ChangeClip(c, new)
  \/ AllDone /\ UNCHANGED vars

Spec == Init /\ [][Next]_vars

(* While a job can go on, some worker goes on: no job has endless work, so *)
(* it need not be said of each.  ffmpeg ends sooner or later.              *)
Fairness == WF_vars(\E j \in Jobs : Step(j))
FairSpec == Spec /\ Fairness

-----------------------------------------------------------------------------
TypeOK ==
  /\ Job \in Batches
  /\ codec \in [Clips -> Codecs \cup {NoCodec}] /\ changes \in 0..MaxChanges[Job]
  /\ pc \in [Jobs -> {"waiting", "fuse", "concat", "check", "create", "write",
                      "read", "ffmpeg", "remove first", "remove", "done"}]
  /\ allow \in [Jobs -> BOOLEAN]
  /\ ref \in [Jobs -> Codecs \cup {NoCodec}]
  /\ n \in [Jobs -> Nat]
  /\ mode \in [Jobs -> ListModes \cup {"file", "none"}]
  /\ dir \in [ListModes -> Jobs \cup {NoInode}]
  /\ lines \in [Jobs -> Seq(Clips \cup {Hole})]
  /\ fd \in [Jobs -> Jobs \cup {NoInode}]
  /\ feed \in [Jobs -> Seq(Clips \cup {Hole})]
  /\ out \in [Jobs -> Seq(Clips \cup {Hole})]
  /\ result \in [Jobs -> {"none", "ok", "error"}]
  /\ shared \subseteq Jobs /\ leaked \subseteq ListModes
  /\ \A j \in Jobs :
       /\ pc[j] \in {"create", "write", "read", "ffmpeg", "remove first",
                     "remove"}
            => mode[j] \in ListModes
       /\ pc[j] = "write" <=> fd[j] # NoInode
       /\ n[j] > 0

Succeeded(j) == pc[j] = "done" /\ result[j] = "ok"

(* A job that succeeds has put its own inputs, in their order, into its    *)
(* output, whatever lists failed jobs left behind, unless another job used *)
(* the list of that name between its creation and ffmpeg's reading it.     *)
OwnInputsUnlessShared ==
  \A j \in Jobs : Succeeded(j) /\ j \notin shared => out[j] = Inputs(j)

(* A list survives all the jobs only if a write to it failed. *)
NoListLeft ==
  AllDone => \A m \in ListModes : dir[m] # NoInode => m \in leaked

(* Every job of a batch returns, and so the batch does. *)
EveryJobReturns == <>AllDone

(* "process multiple independent groups in parallel": whatever the others  *)
(* do, the output of a job that succeeds is made of its own inputs.        *)
OwnInputs == \A j \in Jobs : Succeeded(j) => out[j] = Inputs(j)

=============================================================================
