----------------------------- MODULE BoundedFifo -----------------------------
(***************************************************************************)
(* What a ring of DPDK promises to cores that use it at the same time: a   *)
(* first-in first-out queue on which every operation takes effect at once, *)
(* somewhere between its call and its return, all of its objects together. *)
(***************************************************************************)
EXTENDS Integers, Sequences

CONSTANTS Lcore, Capacity

VARIABLES
  items,    \* the queue
  giving,   \* giving[l]: the objects core l is about to enqueue
  taken     \* taken[l]: the objects core l has dequeued and not yet been given

calls == <<items, giving, taken>>

Init ==
  /\ giving = [l \in Lcore |-> <<>>]
  /\ taken = [l \in Lcore |-> <<>>]

Call(l) ==
  /\ giving[l] = <<>> /\ taken[l] = <<>>
  /\ giving' = [giving EXCEPT ![l] = giving'[l]]
  /\ UNCHANGED <<items, taken>>

Put(l) ==
  /\ giving[l] # <<>> /\ Len(items) + Len(giving[l]) <= Capacity
  /\ items' = items \o giving[l]
  /\ giving' = [giving EXCEPT ![l] = <<>>]
  /\ UNCHANGED taken

Take(l) ==
  /\ giving[l] = <<>> /\ taken[l] = <<>>
  /\ \E n \in 1..Len(items) :
       /\ taken' = [taken EXCEPT ![l] = SubSeq(items, 1, n)]
       /\ items' = SubSeq(items, n + 1, Len(items))
  /\ UNCHANGED giving

Return(l) ==
  /\ taken' = [taken EXCEPT ![l] = <<>>]
  /\ UNCHANGED <<items, giving>>

Next == \E l \in Lcore : Call(l) \/ Put(l) \/ Take(l) \/ Return(l)

Spec == Init /\ [][Next]_calls
=============================================================================
