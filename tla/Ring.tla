--------------------------------- MODULE Ring ---------------------------------
(***************************************************************************)
(* The ring of dpdk/lib/librte_ring/rte_ring.h as the packet pools use it: *)
(* bulk enqueues and dequeues by several cores, without locks.  A core     *)
(* claims slots by moving a head index with a compare-and-set, copies its  *)
(* objects, and publishes them by moving the tail index when the cores     *)
(* that claimed before it have done so.  Indices wrap at their own width   *)
(* and are masked to find a slot.                                          *)
(***************************************************************************)
EXTENDS Integers, Sequences, FiniteSets, SequencesExt

CONSTANTS
  Lcore,
  Obj,
  NULL,       \* what an unused slot holds
  Size,       \* prod.size, a power of two
  IndexMod    \* indices count modulo this (uint32_t: 2^32)

ASSUME RingAssumption == Size \in Nat \ {0} /\ IndexMod \in Nat /\ IndexMod % Size = 0

VARIABLES
  ring,   \* the slots
  prod,   \* prod.head, prod.tail
  cons,   \* cons.head, cons.tail
  op      \* op[l]: the operation of core l: where it is, its obj_table, n and
          \* its copy of the head index

ringvars == <<ring, prod, cons, op>>

Slot == 0..Size-1
Index == 0..IndexMod-1
mask == Size - 1

EnqueueStep == {"enq_head", "enq_room", "enq_cas", "enq_copy", "enq_tail"}
DequeueStep == {"deq_head", "deq_room", "deq_cas", "deq_copy", "deq_tail"}
Step == EnqueueStep \cup DequeueStep \cup {"idle", "ok", "failed"}

Idle == [at |-> "idle", objs |-> <<>>, n |-> 0, head |-> 0]
Enqueue(s) == [at |-> IF s = <<>> THEN "ok" ELSE "enq_head", objs |-> s, n |-> Len(s), head |-> 0]
Dequeue(n) == [at |-> "deq_head", objs |-> <<>>, n |-> n, head |-> 0]

To(l, at) == op' = [op EXCEPT ![l].at = at]

(* The objects in the n slots from index h on. *)
Slots(h, n) == [i \in 1..n |-> ring[(h + i - 1) % Size]]

(***************************************************************************)
(* rte_ring_mp_enqueue_bulk: all objects or none.                          *)
(***************************************************************************)
ReadProdHead(l) ==
  /\ op[l].at = "enq_head"
  /\ op' = [op EXCEPT ![l].at = "enq_room", ![l].head = prod.head]
  /\ UNCHANGED <<ring, prod, cons>>

(* Mutant: the mask is forgotten, so that an empty ring looks full. *)
free_entriesMutantNoMask(h) == (cons.tail - h) % IndexMod

free_entries(h) == (mask + cons.tail - h) % IndexMod

CheckRoom(l) ==
  /\ op[l].at = "enq_room"
  /\ To(l, IF op[l].n > free_entries(op[l].head) THEN "failed" ELSE "enq_cas")
  /\ UNCHANGED <<ring, prod, cons>>

(* Mutant: as a single producer does, without the compare-and-set. *)
ClaimSlotsMutantNoCas(l) ==
  /\ op[l].at = "enq_cas"
  /\ prod' = [prod EXCEPT !.head = (op[l].head + op[l].n) % IndexMod]
  /\ To(l, "enq_copy")
  /\ UNCHANGED <<ring, cons>>

ClaimSlots(l) ==
  /\ op[l].at = "enq_cas"
  /\ \/ /\ prod.head = op[l].head
        /\ prod' = [prod EXCEPT !.head = (@ + op[l].n) % IndexMod]
        /\ To(l, "enq_copy")
     \/ /\ prod.head # op[l].head
        /\ To(l, "enq_head")
        /\ UNCHANGED prod
  /\ UNCHANGED <<ring, cons>>

ENQUEUE_PTRS(l) ==
  /\ op[l].at = "enq_copy"
  /\ ring' = [s \in Slot |->
                IF (s - op[l].head) % Size < op[l].n
                THEN op[l].objs[((s - op[l].head) % Size) + 1]
                ELSE ring[s]]
  /\ To(l, "enq_tail")
  /\ UNCHANGED <<prod, cons>>

(* Mutant: the tail does not wait for earlier enqueues. *)
PublishMutantOvertakes(l) ==
  /\ op[l].at = "enq_tail"
  /\ prod' = [prod EXCEPT !.tail = (op[l].head + op[l].n) % IndexMod]
  /\ To(l, "ok")
  /\ UNCHANGED <<ring, cons>>

(* Mutant: the index does not wrap. *)
PublishMutantWide(l) ==
  /\ op[l].at = "enq_tail" /\ prod.tail = op[l].head
  /\ prod' = [prod EXCEPT !.tail = @ + op[l].n]
  /\ To(l, "ok")
  /\ UNCHANGED <<ring, cons>>

Publish(l) ==
  /\ op[l].at = "enq_tail" /\ prod.tail = op[l].head
  /\ prod' = [prod EXCEPT !.tail = (@ + op[l].n) % IndexMod]
  /\ To(l, "ok")
  /\ UNCHANGED <<ring, cons>>

(***************************************************************************)
(* rte_ring_mc_dequeue_bulk: n objects or none.                            *)
(***************************************************************************)
ReadConsHead(l) ==
  /\ op[l].at = "deq_head"
  /\ op' = [op EXCEPT ![l].at = "deq_room", ![l].head = cons.head]
  /\ UNCHANGED <<ring, prod, cons>>

entries(h) == (prod.tail - h) % IndexMod

CheckEntries(l) ==
  /\ op[l].at = "deq_room"
  /\ To(l, IF op[l].n > entries(op[l].head) THEN "failed" ELSE "deq_cas")
  /\ UNCHANGED <<ring, prod, cons>>

(* Mutant: after a failed compare-and-set cons.head is not read again. *)
ClaimEntriesMutantSpins(l) ==
  /\ op[l].at = "deq_cas" /\ cons.head = op[l].head
  /\ cons' = [cons EXCEPT !.head = (@ + op[l].n) % IndexMod]
  /\ To(l, "deq_copy")
  /\ UNCHANGED <<ring, prod>>

ClaimEntries(l) ==
  /\ op[l].at = "deq_cas"
  /\ \/ /\ cons.head = op[l].head
        /\ cons' = [cons EXCEPT !.head = (@ + op[l].n) % IndexMod]
        /\ To(l, "deq_copy")
     \/ /\ cons.head # op[l].head
        /\ To(l, "deq_head")
        /\ UNCHANGED cons
  /\ UNCHANGED <<ring, prod>>

DEQUEUE_PTRS(l) ==
  /\ op[l].at = "deq_copy"
  /\ op' = [op EXCEPT ![l].at = "deq_tail", ![l].objs = Slots(op[l].head, op[l].n)]
  /\ UNCHANGED <<ring, prod, cons>>

Release(l) ==
  /\ op[l].at = "deq_tail" /\ cons.tail = op[l].head
  /\ cons' = [cons EXCEPT !.tail = (@ + op[l].n) % IndexMod]
  /\ To(l, "ok")
  /\ UNCHANGED <<ring, prod>>

RingStep(l) ==
  \/ ReadProdHead(l) \/ CheckRoom(l) \/ ClaimSlots(l) \/ ENQUEUE_PTRS(l) \/ Publish(l)
  \/ ReadConsHead(l) \/ CheckEntries(l) \/ ClaimEntries(l) \/ DEQUEUE_PTRS(l) \/ Release(l)

-----------------------------------------------------------------------------

RingTypeOK ==
  /\ ring \in [Slot -> Obj \cup {NULL}]
  /\ prod \in [head : Index, tail : Index]
  /\ cons \in [head : Index, tail : Index]
  /\ op \in [Lcore -> [at : Step, objs : Seq(Obj), n : 0..mask, head : Index]]

(***************************************************************************)
(* The refinement mapping to BoundedFifo.  An enqueue takes effect when it *)
(* moves prod.tail, a dequeue when it moves cons.head.                     *)
(***************************************************************************)
Items == Slots(cons.head, entries(cons.head))

Giving == [l \in Lcore |-> IF op[l].at \in EnqueueStep THEN op[l].objs ELSE <<>>]

Taken == [l \in Lcore |->
            CASE op[l].at = "deq_copy" -> Slots(op[l].head, op[l].n)
              [] op[l].at = "deq_tail" -> op[l].objs
              [] OTHER -> <<>>]

Fifo == INSTANCE BoundedFifo WITH Capacity <- mask, items <- Items, giving <- Giving,
                                  taken <- Taken

(* However the steps of the cores interleave, a bulk enqueue or dequeue    *)
(* takes effect at once, in first-in first-out order: no slot is reused    *)
(* before it is read or read before it is written.                         *)
RingIsFifo == Fifo!Spec
=============================================================================
