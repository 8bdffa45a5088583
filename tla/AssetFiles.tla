----------------------------- MODULE AssetFiles -----------------------------
(***************************************************************************)
(* The media files the caches of this crate are keyed by, and the key      *)
(* itself (probe/mod.rs, cache_key).  Other programs create, replace and   *)
(* delete the files while the caches are in use: the two actions here are  *)
(* the environment of OverlayCache and of ProbeCache.                      *)
(*                                                                         *)
(* A file is its version, a number that grows with every replacement.      *)
(* What cache_key sees of a version is its stamp: the modification time in *)
(* whole seconds together with the size.  Two versions may share a stamp.  *)
(***************************************************************************)
EXTENDS Naturals

CONSTANTS
  Paths,        \* the paths that are asked for
  MaxVersion,   \* bound on the versions of one path
  Stamp         \* Stamp[v]: what stat() shows of version v

ASSUME FilesAssumption ==
  /\ MaxVersion \in Nat
  /\ Stamp \in [1..MaxVersion -> 1..MaxVersion]
  /\ \A v, w \in 1..MaxVersion : v <= w => Stamp[v] <= Stamp[w]

VARIABLE file   \* file[p]: the last version written to p and whether p exists

NoStamp == 0    \* the path-only key of a file that stat() cannot reach

Keys == Paths \X (0..MaxVersion)

File == [version : 0..MaxVersion, present : BOOLEAN]

PathOf(k) == k[1]
StampIn(k) == k[2]

(* A variant that stops at the path: see FreshAnswer in OverlayCache and   *)
(* StaleEntryOnlyIfRaced in ProbeCache for what it would break.            *)
cache_key_of_path_only(p) == << p, NoStamp >>

(* cache_key: path, mtime in seconds and size; only the path if stat fails. *)
cache_key(p) ==
  << p, IF file[p].present THEN Stamp[file[p].version] ELSE NoStamp >>

FilesTypeOK ==
  /\ file \in [Paths -> File]
  /\ \A p \in Paths : file[p].present => file[p].version > 0

FilesInit == file = [p \in Paths |-> [version |-> 0, present |-> FALSE]]

(* Another program writes a new version of p, or creates p. *)
ReplaceFile(p) ==
  /\ file[p].version < MaxVersion
  /\ file' = [file EXCEPT ![p] =
                [version |-> file[p].version + 1, present |-> TRUE]]

DeleteFile(p) ==
  /\ file[p].present
  /\ file' = [file EXCEPT ![p].present = FALSE]

=============================================================================
