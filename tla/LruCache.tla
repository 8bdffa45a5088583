------------------------------ MODULE LruCache ------------------------------
(***************************************************************************)
(* What an LRU cache promises, with no mechanism: at most Capacity         *)
(* entries, in the order of their last use, and only a full cache that     *)
(* takes a new key gives one up, the least recently used.  A use of a held *)
(* key is two steps, the answer and its effect on the order.  OverlayCache *)
(* implements it for a single caller.                                      *)
(***************************************************************************)
EXTENDS Naturals, Sequences, SequencesExt

CONSTANTS Key, Value, Capacity, NoValue, NoKey

VARIABLES
  recency,   \* the keys held, least recently used first, each once
  held,      \* held[k]: the value of k, or NoValue
  using      \* the key that has been answered last and not moved, or NoKey

LruInit ==
  /\ recency = << >>
  /\ held = [k \in Key |-> NoValue]
  /\ using = NoKey

Answered(k) ==
  /\ using = NoKey
  /\ k \in ToSet(recency)
  /\ using' = k
  /\ UNCHANGED <<recency, held>>

Used ==
  /\ using # NoKey
  /\ \E i \in DOMAIN recency :
       /\ recency[i] = using
       /\ recency' = Append(RemoveAt(recency, i), using)
  /\ using' = NoKey
  /\ UNCHANGED held

Admit(k, v) ==
  /\ k \notin ToSet(recency)
  /\ Len(recency) < Capacity
  /\ recency' = Append(recency, k)
  /\ held' = [held EXCEPT ![k] = v]
  /\ UNCHANGED using

AdmitFull(k, v) ==
  /\ k \notin ToSet(recency)
  /\ Len(recency) = Capacity
  /\ recency' = Append(Tail(recency), k)
  /\ held' = [held EXCEPT ![Head(recency)] = NoValue, ![k] = v]
  /\ UNCHANGED using

Forget(k) ==
  /\ \E i \in DOMAIN recency :
       /\ recency[i] = k
       /\ recency' = RemoveAt(recency, i)
  /\ held' = [held EXCEPT ![k] = NoValue]
  /\ UNCHANGED using

ForgetAll ==
  /\ recency' = << >>
  /\ held' = [k \in Key |-> NoValue]
  /\ UNCHANGED using

LruNext ==
  \/ Used
  \/ \E k \in Key : Answered(k) \/ Forget(k)
  \/ \E k \in Key, v \in Value : Admit(k, v) \/ AdmitFull(k, v)
  \/ ForgetAll

LruSpec == LruInit /\ [][LruNext]_<<recency, held, using>>

=============================================================================
