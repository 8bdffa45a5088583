---------------------------- MODULE FfmpegCalls -----------------------------
(***************************************************************************)
(* FfmpegCommand::run (io/subprocess.rs) with its two kinds of callers:    *)
(* decode_ffmpeg_fallback (audio/native_decode.rs), which lets ffmpeg      *)
(* write a temporary file whose name is the same for the whole process,    *)
(* and callers that pass a Profiler (core/instrumentation.rs), whose       *)
(* numbers go to counters that all profilers share.                        *)
(*                                                                         *)
(* A file is a directory entry and an inode.  Of an inode we keep whose    *)
(* samples it holds.                                                       *)
(***************************************************************************)
EXTENDS Naturals, FiniteSets

CONSTANTS Threads, MaxCalls, MaxReports

CallsAssumption ==
  IsFiniteSet(Threads) /\ MaxCalls \in Nat /\ MaxReports \in Nat

Counters == {"subprocess_count", "io_bytes_read", "io_bytes_written"}
Inodes == 1..Cardinality(Threads)
NoFile == 0

VARIABLES
  pc,        \* where a thread is in its call
  entry,     \* the inode of the temporary file, or NoFile
  holds,     \* of an inode: the threads whose ffmpeg wrote to it
  fd,        \* the inode an ffmpeg writes to
  got,       \* the samples a decode has read
  count,     \* FAST_COUNTERS
  bytes,     \* what a profiled run has to report: [Counters -> Nat]
  report,    \* the numbers the report under way has read so far
  unread,    \* the counters it has not read
  calls, reports,
  shared,    \* history: decodes that met another one at the temporary file
  reported,  \* history: the sum over the profiled runs that returned
  happened,  \* history: ... over those whose ffmpeg has ended
  floor      \* history: reported when the report began

fileVars == <<entry, holds, fd>>
reportVars == <<report, unread, reports, floor>>
vars == <<pc, fileVars, got, count, bytes, reportVars, calls, shared,
          reported, happened>>

Nothing == [c \in Counters |-> 0]
Plus(f, g) == [c \in Counters |-> f[c] + g[c]]
Goto(t, l) == pc' = [pc EXCEPT ![t] = l]
InFile == {"writing", "read", "remove"}

-----------------------------------------------------------------------------
(* decode_ffmpeg_fallback *)

Decode(t) ==
  /\ pc[t] = "idle" /\ calls < MaxCalls
  /\ calls' = calls + 1
  /\ Goto(t, "decode")
  /\ UNCHANGED <<fileVars, got, count, bytes, reportVars, shared, reported, happened>>

(* ffmpeg -y opens its output: the entry is created or the file truncated. *)
InUse == {fd[t] : t \in Threads}
temp_file == IF entry # NoFile THEN entry
             ELSE CHOOSE i \in Inodes : i \notin InUse
(* Variant: the output is opened without -y. *)
NotTruncated(i, t) == [holds EXCEPT ![i] = @ \cup {t}]

Truncated(i, t) == [holds EXCEPT ![i] = {t}]

Open(t) ==
  /\ pc[t] = "decode"
  /\ entry' = temp_file
  /\ fd' = [fd EXCEPT ![t] = temp_file]
  /\ holds' = Truncated(temp_file, t)
  /\ shared' = LET others == {u \in Threads \ {t} : pc[u] \in InFile}
               IN shared \cup others \cup IF others = {} THEN {} ELSE {t}
  /\ Goto(t, "writing")
  /\ UNCHANGED <<got, count, bytes, reportVars, calls, reported, happened>>

(* ... writes, and ends. *)
Finish(t) ==
  /\ pc[t] = "writing"
  /\ holds' = [holds EXCEPT ![fd[t]] = @ \cup {t}]
  /\ fd' = [fd EXCEPT ![t] = NoFile]
  /\ Goto(t, "read")
  /\ UNCHANGED <<entry, got, count, bytes, reportVars, calls, shared, reported, happened>>

(* It cannot be started, or fails, and run returns the error: what was     *)
(* written stays.                                                          *)
DecodeFails(t) ==
  /\ pc[t] \in {"decode", "writing"}
  /\ holds' = IF pc[t] = "decode" THEN holds
              ELSE [holds EXCEPT ![fd[t]] = @ \cup {t}]
  /\ fd' = [fd EXCEPT ![t] = NoFile]
  /\ shared' = shared \ {t}
  /\ Goto(t, "idle")
  /\ UNCHANGED <<entry, got, count, bytes, reportVars, calls, reported, happened>>

(* Variant: a file that is gone is waited for. *)
ReadOrWait(t) ==
  /\ pc[t] = "read" /\ entry # NoFile
  /\ got' = [got EXCEPT ![t] = holds[entry]]
  /\ Goto(t, "remove")
  /\ UNCHANGED <<fileVars, count, bytes, reportVars, calls, shared, reported, happened>>

(* fs::read finds a file that may be another call's, or none. *)
Read(t) ==
  /\ pc[t] = "read"
  /\ got' = [got EXCEPT ![t] = IF entry = NoFile THEN {} ELSE holds[entry]]
  /\ Goto(t, IF entry = NoFile THEN "answer" ELSE "remove")
  /\ UNCHANGED <<fileVars, count, bytes, reportVars, calls, shared, reported, happened>>

(* fs::remove_file, whose error is ignored. *)
Remove(t) ==
  /\ pc[t] = "remove"
  /\ entry' = NoFile
  /\ Goto(t, "answer")
  /\ UNCHANGED <<holds, fd, got, count, bytes, reportVars, calls, shared, reported, happened>>

Answer(t) ==
  /\ pc[t] = "answer"
  /\ got' = [got EXCEPT ![t] = {}]
  /\ shared' = shared \ {t}
  /\ Goto(t, "idle")
  /\ UNCHANGED <<fileVars, count, bytes, reportVars, calls, reported, happened>>

-----------------------------------------------------------------------------
(* run with a Profiler *)

Run(t) ==
  /\ pc[t] = "idle" /\ calls < MaxCalls
  /\ calls' = calls + 1
  /\ Goto(t, "run")
  /\ UNCHANGED <<fileVars, got, count, bytes, reportVars, shared, reported, happened>>

SpawnFails(t) ==
  /\ pc[t] = "run"
  /\ Goto(t, "idle")
  /\ UNCHANGED <<fileVars, got, count, bytes, reportVars, calls, shared, reported, happened>>

(* cmd.output(): ffmpeg ends, with whatever status. *)
Exit(t) ==
  /\ pc[t] = "run"
  /\ \E w \in 0..1 :
       bytes' = [bytes EXCEPT ![t] = [subprocess_count |-> 1,
                                      io_bytes_read |-> 1, io_bytes_written |-> w]]
  /\ happened' = Plus(happened, bytes'[t])
  /\ Goto(t, "subprocess_count")
  /\ UNCHANGED <<fileVars, got, count, reportVars, calls, shared, reported>>

(* record_subprocess, record_io_written, record_io_read: a fetch_add each. *)
fetch_add(t, c) == count' = [count EXCEPT ![c] = @ + bytes[t][c]]

(* Variant: the read bytes are left out. *)
AfterCounterShort == [subprocess_count |-> "io_bytes_written",
                      io_bytes_written |-> "status",
                      io_bytes_read |-> "status"]

AfterCounter == [subprocess_count |-> "io_bytes_written",
                 io_bytes_written |-> "io_bytes_read",
                 io_bytes_read |-> "status"]

Record(t) ==
  /\ pc[t] \in Counters
  /\ fetch_add(t, pc[t])
  /\ Goto(t, AfterCounter[pc[t]])
  /\ UNCHANGED <<fileVars, got, bytes, reportVars, calls, shared, reported, happened>>

(* The status is looked at last: Ok or Err. *)
Return(t) ==
  /\ pc[t] = "status"
  /\ reported' = Plus(reported, bytes[t])
  /\ bytes' = [bytes EXCEPT ![t] = Nothing]
  /\ Goto(t, "idle")
  /\ UNCHANGED <<fileVars, got, count, reportVars, calls, shared, happened>>

-----------------------------------------------------------------------------
(* generate_report: relaxed loads, which the memory model does not order. *)
BeginReport ==
  /\ unread = {} /\ reports < MaxReports
  /\ reports' = reports + 1
  /\ unread' = Counters /\ report' = Nothing
  /\ floor' = reported
  /\ UNCHANGED <<pc, fileVars, got, count, bytes, calls, shared, reported, happened>>

Load(c) ==
  /\ c \in unread
  /\ report' = [report EXCEPT ![c] = count[c]]
  /\ unread' = unread \ {c}
  /\ UNCHANGED <<pc, fileVars, got, count, bytes, calls, shared, reported, happened, reports, floor>>

-----------------------------------------------------------------------------
Init ==
  /\ pc = [t \in Threads |-> "idle"]
  /\ entry = NoFile
  /\ holds = [i \in Inodes |-> {}]
  /\ fd = [t \in Threads |-> NoFile]
  /\ got = [t \in Threads |-> {}]
  /\ count = Nothing
  /\ bytes = [t \in Threads |-> Nothing]
  /\ report = Nothing /\ unread = {} /\ floor = Nothing
  /\ calls = 0 /\ reports = 0
  /\ shared = {} /\ reported = Nothing /\ happened = Nothing

GoOn(t) ==
  \/ Open(t) \/ Finish(t) \/ DecodeFails(t)
  \/ Read(t) \/ Remove(t) \/ Answer(t)
  \/ SpawnFails(t) \/ Exit(t) \/ Record(t) \/ Return(t)

Quiet ==
  /\ calls = MaxCalls /\ reports = MaxReports /\ unread = {}
  /\ \A t \in Threads : pc[t] = "idle"
  /\ UNCHANGED vars

Next ==
  \/ \E t \in Threads : Decode(t) \/ Run(t) \/ GoOn(t)
  \/ BeginReport \/ \E c \in Counters : Load(c)
  \/ Quiet

Spec == Init /\ [][Next]_vars

(* A thread goes on with its call, and ffmpeg is assumed to end: run never *)
(* looks at the timeout it was given.                                      *)
Fairness == \A t \in Threads : WF_vars(GoOn(t))
FairSpec == Spec /\ Fairness

-----------------------------------------------------------------------------
TypeOK ==
  /\ pc \in [Threads -> Counters \cup
       {"idle", "decode", "writing", "read", "remove", "answer", "run", "status"}]
  /\ entry \in Inodes \cup {NoFile}
  /\ holds \in [Inodes -> SUBSET Threads]
  /\ fd \in [Threads -> Inodes \cup {NoFile}]
  /\ got \in [Threads -> SUBSET Threads]
  /\ bytes \in [Threads -> [Counters -> Nat]]
  /\ {count, report, floor, reported, happened} \subseteq [Counters -> Nat]
  /\ unread \subseteq Counters /\ shared \subseteq Threads
  /\ calls \in 0..MaxCalls /\ reports \in 0..MaxReports
  /\ \A t \in Threads : pc[t] = "writing" => fd[t] \in Inodes

(* A decode that met no other decode at the temporary file answers with    *)
(* the samples of its own source, all of them and no others, whatever      *)
(* earlier calls that failed left in the file.                             *)
OwnSamplesUnlessShared ==
  \A t \in Threads : pc[t] = "answer" /\ t \notin shared => got[t] = {t}

(* A finished report has in it every profiled run that had returned when   *)
(* it began, failed ones too, and nothing that has not happened, whatever  *)
(* the order in which the counters are written and read.                   *)
ReportInBounds ==
  unread = {} => \A c \in Counters :
    floor[c] <= report[c] /\ report[c] <= happened[c]

(* Every call returns. *)
CallsReturn == \A t \in Threads : pc[t] # "idle" ~> pc[t] = "idle"
=============================================================================
