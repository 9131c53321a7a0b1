------------------------------- MODULE Mempool -------------------------------
(***************************************************************************)
(* The packet memory of memmgmt/mempoolconf.c: pools made by               *)
(* rte_mempool_create, used by several cores (librte_mempool).  Free       *)
(* objects are in the ring of the pool or in a small stack private to a    *)
(* core, which is refilled from the ring and flushed to it.                *)
(***************************************************************************)
EXTENDS Ring

CONSTANTS
  CacheSizes,   \* the cache sizes pools are created with (Twister: 32)
  CacheMax,     \* RTE_MEMPOOL_CACHE_MAX_SIZE
  MaxBulk,      \* a core gets or puts at most this many objects in a call
  MaxOps,       \* and makes at most this many calls
  Start         \* the ring indices at the beginning

(* One and a half times the cache size, as an integer. *)
CALC_CACHE_FLUSHTHRESH(c) == (3 * c) \div 2

ASSUME PoolAssumption ==
  /\ IsFiniteSet(Obj) /\ Cardinality(Obj) < Size /\ NULL \notin Obj
  /\ CacheMax \in Nat
  /\ \A c \in CacheSizes : c \in 1..CacheMax /\ CALC_CACHE_FLUSHTHRESH(c) <= Cardinality(Obj)
  /\ Start \subseteq Index

VARIABLES
  cache_size,
  cache,   \* cache[l]: local_cache[l].objs, as long as its len
  held,    \* held[l]: the objects the program on core l works on
  call,    \* call[l]: what the ring operation of core l is for
  ops      \* ops[l]: calls made

vars == <<ringvars, cache_size, cache, held, call, ops>>

cache_flushthresh == CALC_CACHE_FLUSHTHRESH(cache_size)

Run(l, c, o) ==
  /\ op' = [op EXCEPT ![l] = o]
  /\ call' = [call EXCEPT ![l] = c]

Count(l) ==
  /\ ops[l] < MaxOps
  /\ ops' = [ops EXCEPT ![l] = @ + 1]

Top(s, n) == SubSeq(s, Len(s) - n + 1, Len(s))

(***************************************************************************)
(* __mempool_put_bulk by several producers, of the objects s.              *)
(***************************************************************************)
PutBulk(l, s) ==
  LET stack == cache[l] \o s IN
  /\ call[l] = "none" /\ Count(l)
  /\ held' = [held EXCEPT ![l] = @ \ ToSet(s)]
  /\ \/ /\ Len(s) > CacheMax
        /\ Run(l, "put", Enqueue(s))
        /\ UNCHANGED cache
     \/ /\ Len(s) <= CacheMax
        /\ cache' = [cache EXCEPT ![l] = stack]
        /\ \/ /\ Len(stack) >= cache_flushthresh
              /\ Run(l, "flush", Enqueue(SubSeq(stack, cache_size + 1, Len(stack))))
           \/ /\ Len(stack) < cache_flushthresh
              /\ UNCHANGED <<op, call>>
  /\ UNCHANGED <<ring, prod, cons, cache_size>>

(* Mutant: len is not reset after a flush. *)
FlushedMutantKeepsLen(l) ==
  /\ call[l] \in {"put", "flush"} /\ op[l].at \in {"ok", "failed"}
  /\ Run(l, "none", Idle)
  /\ UNCHANGED <<ring, prod, cons, cache_size, cache, held, ops>>

(* What the enqueue returns is not looked at. *)
Flushed(l) ==
  /\ call[l] \in {"put", "flush"} /\ op[l].at \in {"ok", "failed"}
  /\ cache' = [cache EXCEPT ![l] = IF call[l] = "flush" THEN SubSeq(@, 1, cache_size) ELSE @]
  /\ Run(l, "none", Idle)
  /\ UNCHANGED <<ring, prod, cons, cache_size, held, ops>>

(***************************************************************************)
(* __mempool_get_bulk by several consumers, of n objects.                  *)
(***************************************************************************)
Give(l, stack, n) ==
  /\ held' = [held EXCEPT ![l] = @ \cup ToSet(Top(stack, n))]
  /\ cache' = [cache EXCEPT ![l] = SubSeq(stack, 1, Len(stack) - n)]

GetBulk(l, n) ==
  /\ call[l] = "none" /\ Count(l)
  /\ \/ /\ n < cache_size /\ Len(cache[l]) >= n
        /\ Give(l, cache[l], n)
        /\ UNCHANGED <<op, call>>
     \/ /\ n < cache_size /\ Len(cache[l]) < n
        /\ Run(l, "refill", Dequeue(n + cache_size - Len(cache[l])))
        /\ UNCHANGED <<held, cache>>
     \/ /\ n >= cache_size
        /\ Run(l, "get", Dequeue(n))
        /\ UNCHANGED <<held, cache>>
  /\ UNCHANGED <<ring, prod, cons, cache_size>>

(* If the ring cannot refill the cache, it is asked for the objects alone. *)
Refilled(l) ==
  LET n == op[l].n - cache_size + Len(cache[l]) IN
  /\ call[l] = "refill"
  /\ \/ /\ op[l].at = "ok"
        /\ Give(l, cache[l] \o op[l].objs, n)
        /\ Run(l, "none", Idle)
     \/ /\ op[l].at = "failed"
        /\ Run(l, "get", Dequeue(n))
        /\ UNCHANGED <<held, cache>>
  /\ UNCHANGED <<ring, prod, cons, cache_size, ops>>

Got(l) ==
  /\ call[l] = "get" /\ op[l].at \in {"ok", "failed"}
  /\ held' = [held EXCEPT ![l] = @ \cup ToSet(op[l].objs)]
  /\ Run(l, "none", Idle)
  /\ UNCHANGED <<ring, prod, cons, cache_size, cache, ops>>

-----------------------------------------------------------------------------

(* The pool after it was filled (and used until all objects are back in    *)
(* its ring, so that the indices are anywhere).                            *)
Init ==
  \E s \in {SetToSeq(Obj)}, i \in Start :
    /\ ring = [x \in Slot |-> LET k == ((x - i) % Size) + 1 IN IF k \in DOMAIN s THEN s[k] ELSE NULL]
    /\ cons = [head |-> i, tail |-> i]
    /\ prod = LET j == (i + Len(s)) % IndexMod IN [head |-> j, tail |-> j]
    /\ op = [l \in Lcore |-> Idle]
    /\ cache_size \in CacheSizes
    /\ cache = [l \in Lcore |-> <<>>]
    /\ held = [l \in Lcore |-> {}]
    /\ call = [l \in Lcore |-> "none"]
    /\ ops = [l \in Lcore |-> 0]

Call(l) ==
  \/ \E n \in 1..MaxBulk : GetBulk(l, n)
  \/ \E S \in SUBSET held[l] : Cardinality(S) \in 1..MaxBulk /\ PutBulk(l, SetToSeq(S))

Progress(l) ==
  \/ RingStep(l) /\ UNCHANGED <<cache_size, cache, held, call, ops>>
  \/ Flushed(l) \/ Refilled(l) \/ Got(l)

Next == \E l \in Lcore : Call(l) \/ Progress(l)

Spec == Init /\ [][Next]_vars

(* A core in the middle of a call is not stopped for ever. *)
FairSpec == Spec /\ \A l \in Lcore : WF_vars(Progress(l))

-----------------------------------------------------------------------------

PoolTypeOK ==
  /\ RingTypeOK
  /\ cache_size \in CacheSizes
  /\ cache \in [Lcore -> Seq(Obj)]
  /\ held \in [Lcore -> SUBSET Obj]
  /\ call \in [Lcore -> {"none", "put", "flush", "get", "refill"}]
  /\ ops \in [Lcore -> 0..MaxOps]

(* The cache of core l without what is being flushed. *)
Kept(l) == IF call[l] = "flush" THEN SubSeq(cache[l], 1, cache_size) ELSE cache[l]

(* What core l has dequeued and not yet used. *)
Fetched(l) == IF op[l].at = "ok" /\ call[l] \in {"get", "refill"} THEN op[l].objs ELSE <<>>

(* Every object that is not held, where it is: ring, cache or call.        *)
Free == FoldSet(LAMBDA l, s : s \o Kept(l) \o Giving[l] \o Taken[l] \o Fetched(l),
                Items, Lcore)

(* An object is held by one core or free in one place: two cores are never *)
(* given the same mbuf and none disappears, through every refill and flush *)
(* that runs while other cores use the ring.                               *)
Conserved ==
  \A m \in Obj :
    Cardinality({l \in Lcore : m \in held[l]})
      + Cardinality({i \in DOMAIN Free : Free[i] = m}) = 1

(* The result of the enqueues of __mempool_put_bulk is ignored: they must  *)
(* never find the ring too full, although dequeues in progress still       *)
(* occupy their slots.                                                     *)
PutFits == \A l \in Lcore : op[l].at = "failed" => call[l] \in {"get", "refill"}

(* Between calls a cache is below its flush threshold (mempool_audit_cache *)
(* panics above it).                                                       *)
CacheBounded == \A l \in Lcore : call[l] = "none" => Len(cache[l]) <= cache_flushthresh

(* A call returns, although it waits for the cores that claimed slots      *)
(* before it to publish them.                                              *)
CallsReturn == \A l \in Lcore : call[l] # "none" ~> call[l] = "none"
=============================================================================
