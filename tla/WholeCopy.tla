----------------------------- MODULE WholeCopy ------------------------------
(***************************************************************************)
(* What io/splice.rs promises its callers: the output grows by the bytes   *)
(* of the sources in their order, and a call that reports success has      *)
(* copied all of them and says how many there are.                         *)
(***************************************************************************)
EXTENDS Naturals, SequencesExt

CONSTANT Source      \* the bytes of all sources, one after the other

VARIABLES copied, answer

CopyInit == copied = << >> /\ answer = [kind |-> "none", bytes |-> 0]

Extend ==
  /\ answer.kind = "none"
  /\ \E n \in (Len(copied) + 1)..Len(Source) : copied' = SubSeq(Source, 1, n)
  /\ UNCHANGED answer

Succeed == copied = Source /\ answer' = [kind |-> "ok", bytes |-> Len(Source)] /\ UNCHANGED copied
GiveUp == answer' = [kind |-> "error", bytes |-> 0] /\ UNCHANGED copied

CopyNext == Extend \/ (answer.kind = "none" /\ (Succeed \/ GiveUp))

CopySpec == CopyInit /\ [][CopyNext]_<<copied, answer>>
=============================================================================
