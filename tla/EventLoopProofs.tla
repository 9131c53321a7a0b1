--------------------------- MODULE EventLoopProofs ---------------------------
(***************************************************************************)
(* The queues of the event loop stay lists for every set of blocks, clock  *)
(* and timeout, as long as the callbacks of the application register       *)
(* handles and unregister only the youngest timer or the only tx handle.   *)
(***************************************************************************)
EXTENDS EventLoop, FiniteSetTheorems, TLAPS

(***************************************************************************)
(* Walking along pointers.                                                 *)
(***************************************************************************)

(* A walk can be resumed from any block it visits: the visited set is      *)
(* closed under `next'.                                                    *)
LEMMA ReachClosed ==
  ASSUME NEW nx \in [Block -> Pointer], NEW p \in Pointer
  PROVE  Closed(nx, p, Reach(nx, p)) /\ Reach(nx, p) \subseteq Block
BY BlockAssumption DEF Closed, Reach, Pointer

(* Nothing else is visited. *)
LEMMA ReachLeast ==
  ASSUME NEW nx \in [Block -> Pointer], NEW p \in Pointer,
         NEW S \in SUBSET Block, Closed(nx, p, S)
  PROVE  Reach(nx, p) \subseteq S
BY DEF Reach

(* A walk that starts at NULL visits nothing. *)
LEMMA ReachNull ==
  ASSUME NEW nx \in [Block -> Pointer]
  PROVE  Reach(nx, NULL) = {}
<1>1. Closed(nx, NULL, {}) /\ NULL \in Pointer /\ {} \in SUBSET Block
  BY DEF Closed, Pointer
<1> QED  BY <1>1, ReachLeast

(* A walk visits its first block and then what a walk from its successor   *)
(* visits.                                                                 *)
LEMMA ReachStep ==
  ASSUME NEW nx \in [Block -> Pointer], NEW p \in Block
  PROVE  Reach(nx, p) = {p} \cup Reach(nx, nx[p])
<1>1. nx[p] \in Pointer /\ p \in Pointer
  BY DEF Pointer
<1>2. Closed(nx, p, {p} \cup Reach(nx, nx[p]))
  BY <1>1, ReachClosed DEF Closed
<1>3. Reach(nx, p) \subseteq {p} \cup Reach(nx, nx[p])
  BY <1>1, <1>2, ReachLeast, ReachClosed
<1>4. Closed(nx, nx[p], Reach(nx, p)) /\ p \in Reach(nx, p)
  BY <1>1, ReachClosed, BlockAssumption DEF Closed
<1>5. Reach(nx, nx[p]) \subseteq Reach(nx, p)
  BY <1>1, <1>4, ReachLeast, ReachClosed
<1> QED  BY <1>3, <1>4, <1>5

(* A walk visits all that walks from the blocks it visits do. *)
LEMMA ReachMono ==
  ASSUME NEW nx \in [Block -> Pointer], NEW p \in Pointer, NEW q \in Reach(nx, p)
  PROVE  Reach(nx, q) \subseteq Reach(nx, p)
<1>1. q \in Block /\ q \in Pointer
  BY ReachClosed DEF Pointer
<1>2. Closed(nx, q, Reach(nx, p))
  BY ReachClosed DEF Closed
<1> QED  BY <1>1, <1>2, ReachLeast, ReachClosed

(* Linking a block b that ends in NULL behind the end t of a queue adds b  *)
(* to the walks that come to t and leaves the others alone.                *)
LEMMA ReachAppend ==
  ASSUME NEW nx \in [Block -> Pointer], NEW t \in Block, NEW b \in Block,
         nx[t] = NULL, nx[b] = NULL, b # t,
         NEW ny \in [Block -> Pointer], ny[t] = b,
         \A c \in Block : c # t => ny[c] = nx[c], NEW p \in Pointer
  PROVE  Reach(ny, p) =
           IF t \in Reach(nx, p) THEN Reach(nx, p) \cup {b} ELSE Reach(nx, p)
<1> DEFINE R == Reach(nx, p)
           Q == IF t \in R THEN R \cup {b} ELSE R
<1>1. ny \in [Block -> Pointer] /\ b # NULL
  BY BlockAssumption DEF Pointer
<1>2. R \subseteq Block /\ Closed(nx, p, R)
  BY ReachClosed
<1>3. Closed(ny, p, Q)
  BY <1>2 DEF Closed
<1>4. Reach(ny, p) \subseteq Q
  <2>1. Q \in SUBSET Block
    BY <1>2
  <2> HIDE DEF Q
  <2> QED  BY <1>1, <1>3, <2>1, ReachLeast
<1>5. Closed(ny, p, Reach(ny, p)) /\ Reach(ny, p) \subseteq Block
  BY <1>1, ReachClosed
<1>6. Closed(nx, p, Reach(ny, p))
  BY <1>5 DEF Closed
<1>7. R \subseteq Reach(ny, p)
  BY <1>5, <1>6, ReachLeast
<1>8. t \in R => b \in Reach(ny, p)
  BY <1>1, <1>5, <1>7 DEF Closed
<1> QED  BY <1>4, <1>7, <1>8

(* ny is nx with the last block h cut off its only predecessor r. *)
IsCut(nx, ny, h, r) ==
  /\ nx \in [Block -> Pointer] /\ ny \in [Block -> Pointer]
  /\ h \in Block /\ r \in Block
  /\ nx[h] = NULL /\ nx[r] = h /\ \A c \in Block : nx[c] = h => c = r
  /\ ny[r] = NULL /\ \A c \in Block : c # r => ny[c] = nx[c]

(* Cutting the last block off removes it from every walk that does not     *)
(* start at it.                                                            *)
LEMMA ReachCut ==
  ASSUME NEW nx, NEW ny, NEW h, NEW r, IsCut(nx, ny, h, r),
         NEW p \in Pointer, p # h
  PROVE  Reach(ny, p) = Reach(nx, p) \ {h}
<1> USE DEF IsCut
<1> DEFINE R == Reach(nx, p)
<1>1. ny \in [Block -> Pointer] /\ h # NULL
  BY BlockAssumption DEF Pointer
<1>2. R \subseteq Block /\ Closed(nx, p, R)
  BY ReachClosed
<1>3. Closed(ny, p, R \ {h})
  BY <1>2 DEF Closed
<1>4. Reach(ny, p) \subseteq R \ {h}
  <2>1. R \ {h} \in SUBSET Block
    BY <1>2
  <2> HIDE DEF R
  <2> QED  BY <1>1, <1>3, <2>1, ReachLeast
<1>5. Closed(ny, p, Reach(ny, p)) /\ Reach(ny, p) \subseteq Block
  BY <1>1, ReachClosed
<1>6. Closed(nx, p, Reach(ny, p) \cup {h})
  BY <1>5 DEF Closed
<1>7. R \subseteq Reach(ny, p) \cup {h}
  <2>1. Reach(ny, p) \cup {h} \in SUBSET Block
    BY <1>5
  <2> QED  BY <1>6, <2>1, ReachLeast
<1> QED  BY <1>4, <1>7

(***************************************************************************)
(* What the registration functions do to the queues.                       *)
(***************************************************************************)

(* The part of the invariant that is about memory and the queues only. *)
Shape ==
  /\ QueuesAreLists
  /\ live = UNION {Handles(k) : k \in Kind}
  /\ \A b \in Block \ live : next[b] = NULL
  /\ \A b, c \in Block : next[b] = next[c] /\ next[b] # NULL => b = c

MemoryType == next \in [Block -> Pointer] /\ head \in [Kind -> Pointer] /\ live \subseteq Block

(* Every queue lies inside the allocated memory. *)
LEMMA HandlesLive ==
  ASSUME MemoryType, Shape, NEW k \in Kind
  PROVE  /\ Handles(k) \subseteq live
         /\ head[k] \in Handles(k) \cup {NULL}
         /\ \A b \in Handles(k) : next[b] \in Handles(k) \cup {NULL}
<1>1. head[k] \in Pointer /\ next \in [Block -> Pointer]
  BY DEF MemoryType
<1>2. Closed(next, head[k], Handles(k))
  BY <1>1, ReachClosed DEF Handles
<1> QED  BY <1>2 DEF Shape, Closed

(* tw_tx_init, tw_timer_init and tw_rx_init add the new block at the end   *)
(* of their queue, touch no other queue and shorten no walk in progress.   *)
LEMMA EnqueueEffect ==
  ASSUME MemoryType, Shape, NEW k \in Kind, NEW b \in Block, Enqueue(k, b)
  PROVE  /\ MemoryType' /\ Shape'
         /\ b \notin live
         /\ Handles(k)' = Handles(k) \cup {b}
         /\ \A j \in Kind \ {k} : Handles(j)' = Handles(j)
         /\ \A p \in Pointer : Reach(next, p) \subseteq Reach(next', p)
         /\ \A c \in Block : next'[c] = next[c] \/ next[c] = NULL
<1>1. /\ next \in [Block -> Pointer] /\ head \in [Kind -> Pointer]
      /\ b \notin live /\ b # NULL /\ next[b] = NULL /\ live' = live \cup {b}
  BY BlockAssumption DEF MemoryType, Shape, Enqueue
<1>2. \A j \in Kind : /\ Handles(j) \subseteq live /\ head[j] \in Handles(j) \cup {NULL}
                      /\ \A c \in Handles(j) : next[c] \in Handles(j) \cup {NULL}
  BY HandlesLive
<1>3. \A c \in Block : next[c] # b
  BY <1>1, <1>2, BlockAssumption DEF Shape, MemoryType
<1>4. CASE head[k] = NULL
  <2>1. head' = [head EXCEPT ![k] = b] /\ next' = next
    BY <1>4, <1>1, ReachNull DEF Enqueue, Tails, Handles
  <2>2. Handles(k) = {} /\ Handles(k)' = {b}
    BY <1>4, <1>1, <2>1, ReachNull, ReachStep DEF Handles
  <2>3. \A j \in Kind \ {k} : Handles(j)' = Handles(j)
    BY <1>1, <2>1 DEF Handles
  <2>4. QueuesAreLists'
    BY <1>1, <1>2, <2>1, <2>2, <2>3 DEF QueuesAreLists, Tails, Shape
  <2>5. live' = UNION {Handles(j)' : j \in Kind}
    BY <1>1, <2>2, <2>3 DEF Shape
  <2> QED  BY <1>1, <2>1, <2>2, <2>3, <2>4, <2>5 DEF Shape, MemoryType, Pointer
<1>5. CASE head[k] # NULL
  <2>1. PICK t \in Tails(k) : next' = [next EXCEPT ![t] = b] /\ head' = head
    BY <1>5 DEF Enqueue
  <2>2. t \in Block /\ t \in Handles(k) /\ next[t] = NULL /\ t # b
    BY <1>1, <1>2, <2>1 DEF Tails, Handles, Reach
  <2>3. \A p \in Pointer : Reach(next', p) =
          IF t \in Reach(next, p) THEN Reach(next, p) \cup {b} ELSE Reach(next, p)
    <3>1. /\ next' \in [Block -> Pointer] /\ next'[t] = b
          /\ \A c \in Block : c # t => next'[c] = next[c]
      BY <1>1, <2>1, <2>2 DEF Pointer
    <3> QED  BY <1>1, <2>2, <3>1, ReachAppend
  <2>4. \A j \in Kind : head'[j] = head[j] /\ head[j] \in Pointer
    BY <1>1, <2>1
  <2>5. Handles(k)' = Handles(k) \cup {b}
    BY <2>2, <2>3, <2>4 DEF Handles
  <2>6. \A j \in Kind \ {k} : Handles(j)' = Handles(j)
    <3> TAKE j \in Kind \ {k}
    <3>1. t \notin Handles(j)
      BY <2>2 DEF Shape, QueuesAreLists
    <3> QED  BY <2>3, <2>4, <3>1 DEF Handles
  <2>7. b \in Tails(k)' /\ \A c \in Block : c # t => next'[c] = next[c]
    BY <1>1, <2>1, <2>2, <2>5 DEF Tails
  <2>8. QueuesAreLists'
    <3>1. ASSUME NEW i \in Kind, NEW j \in Kind \ {i}
          PROVE  Handles(j)' \cap Handles(i)' = {}
      BY <1>1, <1>2, <2>5, <2>6 DEF QueuesAreLists, Shape
    <3>2. ASSUME NEW i \in Kind \ {k}, head'[i] # NULL
          PROVE  Tails(i)' # {}
      <4>1. PICK c : c \in Tails(i)
        BY <2>4, <3>2 DEF QueuesAreLists, Shape
      <4>2. c # t /\ c \in Block
        BY <2>2, <4>1, <1>2 DEF QueuesAreLists, Shape, Tails, Handles, Reach
      <4> QED  BY <2>6, <2>7, <4>1, <4>2 DEF Tails
    <3> QED  BY <2>7, <3>1, <3>2 DEF QueuesAreLists
  <2>9. live' = UNION {Handles(j)' : j \in Kind}
    BY <1>1, <2>5, <2>6 DEF Shape
  <2>10. \A c, d \in Block : next'[c] = next'[d] /\ next'[c] # NULL => c = d
    BY <1>1, <1>3, <2>1, <2>2 DEF Shape
  <2>11. MemoryType' /\ \A c \in Block \ live' : next'[c] = NULL
    BY <1>1, <1>2, <2>1, <2>2 DEF Shape, MemoryType, Pointer
  <2> QED  BY <1>1, <2>1, <2>2, <2>3, <2>5, <2>6, <2>8, <2>9, <2>10, <2>11 DEF Shape
<1> QED  BY <1>4, <1>5

(* Unregistering the last handle of a queue takes it out of the queue,     *)
(* leaves the other queues alone and cuts nothing else off a walk.         *)
LEMMA DequeueEffect ==
  ASSUME MemoryType, Shape, NEW k \in Kind, NEW h \in Handles(k), next[h] = NULL,
         NEW r \in Pointer, Dequeue(k, h, r), live' = live \ {h}
  PROVE  /\ MemoryType' /\ Shape'
         /\ h \in live
         /\ Handles(k)' = Handles(k) \ {h}
         /\ \A j \in Kind \ {k} : Handles(j)' = Handles(j)
         /\ \A p \in Pointer : p # h => Reach(next, p) \ {h} \subseteq Reach(next', p)
         /\ \A c \in Block : next'[c] = next[c] \/ next[c] = h
<1>1. /\ next \in [Block -> Pointer] /\ head \in [Kind -> Pointer]
      /\ h \in Block /\ h # NULL /\ NULL \in Pointer
  BY BlockAssumption DEF MemoryType, Handles, Reach, Pointer
<1>2. \A j \in Kind : /\ Handles(j) \subseteq live /\ head[j] \in Handles(j) \cup {NULL}
                      /\ \A c \in Handles(j) : next[c] \in Handles(j) \cup {NULL}
  BY HandlesLive
<1>3. \A j \in Kind \ {k} : h \notin Handles(j) /\ head[j] # h
  BY <1>1, <1>2 DEF Shape, QueuesAreLists
<1>4. CASE head[k] = h
  <2>1. head' = [head EXCEPT ![k] = NULL] /\ next' = next
    BY <1>1, <1>4 DEF Dequeue
  <2>2. Handles(k) = {h} /\ Handles(k)' = {}
    BY <1>1, <1>4, <2>1, ReachNull, ReachStep DEF Handles
  <2>3. \A j \in Kind \ {k} : Handles(j)' = Handles(j) /\ head'[j] = head[j]
    BY <1>1, <2>1 DEF Handles
  <2>4. QueuesAreLists'
    BY <1>1, <2>1, <2>2, <2>3 DEF QueuesAreLists, Tails, Shape
  <2>5. live' = UNION {Handles(j)' : j \in Kind}
    BY <1>2, <1>3, <2>2, <2>3 DEF Shape
  <2>6. \A c \in Block \ live' : next'[c] = NULL
    BY <2>1 DEF Shape
  <2> QED  BY <1>1, <1>2, <2>1, <2>2, <2>3, <2>4, <2>5, <2>6 DEF Shape, MemoryType
<1>5. CASE head[k] # h
  <2>1. /\ r \in Handles(k) /\ r \in Block /\ next[r] = h /\ head' = head
        /\ next' = [next EXCEPT ![r] = NULL]
    BY <1>5 DEF Dequeue, Handles, Reach
  <2>2. /\ next' \in [Block -> Pointer] /\ next'[r] = NULL
        /\ \A c \in Block : c # r => next'[c] = next[c]
        /\ \A c \in Block : next[c] = h => c = r
    BY <1>1, <2>1 DEF Shape
  <2>3. \A p \in Pointer : p # h => Reach(next', p) = Reach(next, p) \ {h}
    <3>1. IsCut(next, next', h, r)
      BY <1>1, <2>1, <2>2 DEF IsCut
    <3> QED  BY <3>1, ReachCut
  <2>4. \A j \in Kind : head'[j] = head[j] /\ head[j] \in Pointer /\ head[j] # h
    BY <1>1, <1>3, <1>5, <2>1
  <2>5. \A j \in Kind : Handles(j)' = Handles(j) \ {h}
    BY <2>3, <2>4 DEF Handles
  <2>6. QueuesAreLists'
    <3>1. ASSUME NEW i \in Kind, NEW j \in Kind \ {i}
          PROVE  Handles(j)' \cap Handles(i)' = {}
      BY <2>5 DEF QueuesAreLists, Shape
    <3>2. r \in Tails(k)'
      BY <1>1, <2>1, <2>2, <2>5 DEF Tails
    <3>3. ASSUME NEW i \in Kind \ {k}, head'[i] # NULL
          PROVE  Tails(i)' # {}
      <4>1. PICK c : c \in Tails(i)
        BY <2>4, <3>3 DEF QueuesAreLists, Shape
      <4>2. c # r /\ c # h /\ c \in Block
        BY <1>3, <2>1, <4>1 DEF QueuesAreLists, Shape, Tails, Handles, Reach
      <4> QED  BY <2>5, <2>2, <4>1, <4>2 DEF Tails
    <3> QED  BY <3>1, <3>2, <3>3 DEF QueuesAreLists
  <2>7. live' = UNION {Handles(j)' : j \in Kind}
    BY <2>5 DEF Shape
  <2>8. \A c, d \in Block : next'[c] = next'[d] /\ next'[c] # NULL => c = d
    BY <2>1, <2>2 DEF Shape
  <2>9. MemoryType' /\ \A c \in Block \ live' : next'[c] = NULL
    BY <1>1, <2>1, <2>2 DEF Shape, MemoryType
  <2>10. Shape' /\ MemoryType'
    BY <2>6, <2>7, <2>8, <2>9 DEF Shape
  <2>11. h \in live /\ \A j \in Kind \ {k} : Handles(j)' = Handles(j)
    <3>1. \A j \in Kind \ {k} : Handles(j) \ {h} = Handles(j)
      BY <1>3
    <3> QED  BY <1>2, <2>5, <3>1
  <2>12. \A c \in Block : next'[c] = next[c] \/ next[c] = h
    BY <2>1, <2>2
  <2> QED  BY <2>3, <2>5, <2>10, <2>11, <2>12
<1> QED  BY <1>4, <1>5

(***************************************************************************)
(* The invariant of the loop.                                              *)
(***************************************************************************)

(* The applications the theorems are about. *)
Disciplined == App \subseteq {"late", "tail"}

IInv == TypeOK /\ QueuesAreLists /\ WalkStaysInQueue /\ LoopInv

(* The part of the invariant that is about the walks of tw_run. *)
Walk ==
  /\ WalkStaysInQueue
  /\ pc # "panic"
  /\ pc \in {"setup", "top", "rx", "rx_cb"} => temp = NULL
  /\ pc \in {"tx", "timer"} => due \subseteq Reach(next, temp)
  /\ pc \in {"tx_cb", "timer_cb"} => temp # NULL /\ due \subseteq Reach(next, next[temp])

LEMMA Split == IInv <=> TypeOK /\ Shape /\ Walk
BY DEF IInv, LoopInv, Shape, Walk

LEMMA ModRange ==
  ASSUME NEW a \in Int, NEW m \in Nat \ {0}
  PROVE  a % m \in 0..m-1
BY SMT

LEMMA InitIInv == Init => IInv
<1> SUFFICES ASSUME Init PROVE IInv
  OBVIOUS
<1>1. next \in [Block -> Pointer] /\ \A k \in Kind : Handles(k) = {}
  BY ReachNull DEF Init, Handles, Pointer
<1>2. TypeOK
  BY CountAssumption DEF Init, TypeOK, Pointer, Label, Kind
<1>3. Shape
  BY <1>1 DEF Init, Shape, QueuesAreLists, Kind
<1>4. Walk
  BY DEF Init, Walk, WalkStaysInQueue
<1> QED  BY <1>2, <1>3, <1>4, Split

(* Steps that leave memory and the queues alone keep the queues intact. *)
LEMMA ShapeStutter ==
  Shape /\ UNCHANGED <<next, live, head>> => Shape'
BY DEF Shape, QueuesAreLists, Tails, Handles

(* Registering a handle keeps every walk in its queue and in front of what *)
(* it has yet to serve.                                                    *)
LEMMA EnqueueWalk ==
  ASSUME TypeOK, Shape, Walk, NEW k \in Kind, NEW b \in Block, Enqueue(k, b),
         UNCHANGED <<pc, temp, due>>
  PROVE  Shape' /\ Walk'
<1>1. MemoryType
  BY DEF TypeOK, MemoryType
<1>2. /\ Shape'
      /\ \A j \in Kind : Handles(j) \subseteq Handles(j)'
      /\ \A p \in Pointer : Reach(next, p) \subseteq Reach(next', p)
      /\ \A c \in Block : next'[c] = next[c] \/ next[c] = NULL
  BY <1>1, EnqueueEffect
<1>3. WalkStaysInQueue'
  BY <1>2 DEF Walk, WalkStaysInQueue, Kind
<1>4. ASSUME pc \in {"tx", "timer"} PROVE due \subseteq Reach(next', temp)
  BY <1>2, <1>4 DEF Walk, TypeOK
<1>5. ASSUME pc \in {"tx_cb", "timer_cb"}
      PROVE  temp # NULL /\ due \subseteq Reach(next', next'[temp])
  <2>1. temp \in Block /\ next[temp] \in Pointer /\ due \subseteq Reach(next, next[temp])
    BY <1>5 DEF Walk, TypeOK, Pointer
  <2>2. next[temp] = NULL => due = {}
    BY <2>1, ReachNull DEF TypeOK
  <2> QED  BY <1>2, <2>1, <2>2, BlockAssumption
<1> QED  BY <1>2, <1>3, <1>4, <1>5 DEF Walk

(* So does unregistering the last handle of a queue, other than the one    *)
(* whose callback is running.                                              *)
LEMMA DequeueWalk ==
  ASSUME TypeOK, Shape, Walk, NEW k \in Kind, NEW h \in Handles(k), next[h] = NULL,
         NEW r \in Pointer, Dequeue(k, h, r), live' = live \ {h},
         pc \in Callback, h # temp, UNCHANGED <<pc, temp>>, due' = due \ {h}
  PROVE  Shape' /\ Walk'
<1>1. MemoryType
  BY DEF TypeOK, MemoryType
<1>2. /\ Shape'
      /\ \A j \in Kind : Handles(j) \ {h} \subseteq Handles(j)'
      /\ \A p \in Pointer : p # h => Reach(next, p) \ {h} \subseteq Reach(next', p)
      /\ \A c \in Block : next'[c] = next[c] \/ next[c] = h
  BY <1>1, DequeueEffect
<1>3. WalkStaysInQueue'
  BY <1>2 DEF Walk, WalkStaysInQueue, Kind
<1>4. ASSUME pc \in {"tx_cb", "timer_cb"}
      PROVE  temp # NULL /\ due' \subseteq Reach(next', next'[temp])
  <2>1. temp \in Block /\ next[temp] \in Pointer /\ due \subseteq Reach(next, next[temp])
    BY <1>4 DEF Walk, TypeOK, Pointer
  <2>2. CASE next[temp] = h
    <3>1. Reach(next, h) = {h} /\ h \in Block
      BY ReachStep, ReachNull DEF TypeOK, Handles, Reach
    <3> QED  BY <2>1, <2>2, <3>1, BlockAssumption
  <2>3. CASE next[temp] # h
    BY <1>2, <2>1, <2>3, BlockAssumption
  <2> QED  BY <2>2, <2>3
<1> QED  BY <1>2, <1>3, <1>4 DEF Walk, Callback
(* An application of the disciplined class that unregisters h removes the  *)
(* last handle of its queue and frees that block, once.                    *)
LEMMA UnregisterIsDequeue ==
  ASSUME Disciplined, TypeOK, Shape, NEW h \in Block
  PROVE  /\ UnregisterTimer(h) =>
              /\ h \in Handles("timer") /\ next[h] = NULL /\ h # temp /\ pc \in Callback
              /\ \E p \in Pointer : Dequeue("timer", h, p)
              /\ live' = live \ {h} /\ pc' = pc
         /\ UnregisterTx(h) =>
              /\ h \in Handles("tx") /\ next[h] = NULL /\ h # temp /\ pc \in Callback
              /\ \E p \in Pointer : Dequeue("tx", h, p)
              /\ live' = live \ {h} /\ pc' = pc
<1>1. MemoryType
  BY DEF TypeOK, MemoryType
<1>2. Handles("timer") \subseteq live /\ Handles("tx") \subseteq live
  BY <1>1, HandlesLive DEF Kind
<1>3. \A k \in {"tx", "timer"} :
        MayUnregister(k, h) => /\ pc \in Callback /\ h # temp /\ next[h] = NULL
                               /\ k = "tx" => head[k] = h
  BY DEF Disciplined, MayUnregister
<1>4. ASSUME UnregisterTimer(h)
      PROVE  /\ h \in Handles("timer") /\ next[h] = NULL /\ h # temp /\ pc \in Callback
             /\ \E p \in Pointer : Dequeue("timer", h, p)
             /\ live' = live \ {h} /\ pc' = pc
  BY <1>2, <1>3, <1>4 DEF UnregisterTimer, tw_timer_unregister, rte_free
<1>5. ASSUME UnregisterTx(h)
      PROVE  /\ h \in Handles("tx") /\ next[h] = NULL /\ h # temp /\ pc \in Callback
             /\ \E p \in Pointer : Dequeue("tx", h, p)
             /\ live' = live \ {h} /\ pc' = pc
  <2>1. h \in Handles("tx") /\ next[h] = NULL /\ h # temp /\ pc \in Callback /\ head["tx"] = h
    BY <1>3, <1>5 DEF UnregisterTx, tw_tx_unregister
  <2>2. PICK p \in Pointer : Dequeue("tx", h, p) /\ rte_free(IF p = NULL THEN h ELSE p)
    BY <1>5 DEF UnregisterTx, tw_tx_unregister
  <2>3. p = NULL
    BY <2>1, <2>2 DEF Dequeue
  <2> QED  BY <1>2, <2>1, <2>2, <2>3 DEF rte_free
<1> QED  BY <1>4, <1>5

(* The actions of the application.                                         *)
LEMMA ApplicationStep ==
  ASSUME Disciplined, TypeOK, Shape, Walk, Application
  PROVE  TypeOK' /\ Shape' /\ Walk'
<1>1. MemoryType
  BY DEF TypeOK, MemoryType
<1>2. /\ (active_handles + 1) % HandleMod \in 0..HandleMod-1
      /\ (active_handles - 1) % HandleMod \in 0..HandleMod-1
  BY ModRange, CountAssumption DEF TypeOK
<1>3. PICK b \in Block : \/ RegisterRx(b)
                         \/ RegisterTx(b)
                         \/ \E ms \in Timeouts : RegisterTimer(b, ms)
                         \/ UnregisterTimer(b)
                         \/ UnregisterTx(b)
  BY DEF Application
<1>4. CASE RegisterRx(b)
  <2>1. Enqueue("rx", b) /\ UNCHANGED <<pc, temp, due>>
    BY <1>4 DEF RegisterRx, tw_rx_init, history
  <2>2. Shape' /\ Walk'
    BY <2>1, EnqueueWalk DEF Kind
  <2>3. MemoryType'
    BY <1>1, <2>1, EnqueueEffect DEF Kind
  <2> QED  BY <1>4, <2>2, <2>3 DEF RegisterRx, tw_rx_init, history, TypeOK, MemoryType
<1>5. CASE RegisterTx(b)
  <2>1. Enqueue("tx", b) /\ UNCHANGED <<pc, temp, due>>
    BY <1>5 DEF RegisterTx, tw_tx_init, history
  <2>2. Shape' /\ Walk'
    BY <2>1, EnqueueWalk DEF Kind
  <2>3. MemoryType'
    BY <1>1, <2>1, EnqueueEffect DEF Kind
  <2> QED  BY <1>2, <1>5, <2>2, <2>3 DEF RegisterTx, tw_tx_init, history, TypeOK, MemoryType
<1>6. CASE \E ms \in Timeouts : RegisterTimer(b, ms)
  <2>1. PICK ms \in Timeouts : RegisterTimer(b, ms)
    BY <1>6
  <2>2. Enqueue("timer", b) /\ UNCHANGED <<pc, temp, due>>
    BY <2>1 DEF RegisterTimer, tw_timer_init
  <2>3. Shape' /\ Walk'
    BY <2>2, EnqueueWalk DEF Kind
  <2>4. MemoryType'
    BY <1>1, <2>2, EnqueueEffect DEF Kind
  <2>5. ms * CyclesPerMs \in Nat
    BY CountAssumption
  <2> QED  BY <1>2, <2>1, <2>3, <2>4, <2>5
           DEF RegisterTimer, tw_timer_init, tw_timer_start, TypeOK, MemoryType
<1>7. CASE UnregisterTimer(b)
  <2>1. /\ b \in Handles("timer") /\ next[b] = NULL /\ b # temp /\ pc \in Callback
        /\ live' = live \ {b} /\ pc' = pc
    BY <1>7, UnregisterIsDequeue
  <2>2. PICK p \in Pointer : Dequeue("timer", b, p)
    BY <1>7, UnregisterIsDequeue
  <2>3. temp' = temp /\ due' = due \ {b}
    BY <1>7 DEF UnregisterTimer
  <2>4. Shape' /\ Walk'
    BY <2>1, <2>2, <2>3, DequeueWalk DEF Kind
  <2>5. MemoryType'
    BY <1>1, <2>1, <2>2, DequeueEffect DEF Kind
  <2> QED  BY <1>2, <1>7, <2>1, <2>4, <2>5
           DEF UnregisterTimer, tw_timer_unregister, TypeOK, MemoryType
<1>8. CASE UnregisterTx(b)
  <2>1. /\ b \in Handles("tx") /\ next[b] = NULL /\ b # temp /\ pc \in Callback
        /\ live' = live \ {b} /\ pc' = pc
    BY <1>8, UnregisterIsDequeue
  <2>2. PICK p \in Pointer : Dequeue("tx", b, p)
    BY <1>8, UnregisterIsDequeue
  <2>3. temp' = temp /\ due' = due \ {b}
    BY <1>8 DEF UnregisterTx
  <2>4. Shape' /\ Walk'
    BY <2>1, <2>2, <2>3, DequeueWalk DEF Kind
  <2>5. MemoryType'
    BY <1>1, <2>1, <2>2, DequeueEffect DEF Kind
  <2> QED  BY <1>2, <1>8, <2>1, <2>4, <2>5
           DEF UnregisterTx, tw_tx_unregister, TypeOK, MemoryType
<1> QED  BY <1>3, <1>4, <1>5, <1>6, <1>7, <1>8
(* The steps of tw_run itself never touch a pointer.                       *)
LEMMA RunStep ==
  ASSUME TypeOK, Shape, Walk, tw_run
  PROVE  TypeOK' /\ Shape' /\ Walk'
<1>1. UNCHANGED <<next, timeout, live, head, active_handles>>
  BY DEF tw_run, Poll, CallRx, ReturnRx, BeginTx, CallTx, ReturnTx, BeginTimers,
         CallTimer, ReturnTimer, SkipTimer, Again, memory
<1>2. Shape' /\ \A k \in Kind : Handles(k)' = Handles(k)
  BY <1>1, ShapeStutter DEF Handles
<1>3. MemoryType
  BY DEF TypeOK, MemoryType
<1>4. \A k \in Kind : /\ head[k] \in Handles(k) \cup {NULL}
                      /\ Handles(k) \subseteq Block
                      /\ \A b \in Handles(k) : next[b] \in Handles(k) \cup {NULL}
  BY <1>3, HandlesLive DEF Shape, TypeOK, Handles, Reach
<1>5. next \in [Block -> Pointer] /\ head \in [Kind -> Pointer] /\ NULL \notin Block
  BY BlockAssumption DEF TypeOK
<1>6. CASE \E d \in 1..MaxStep, n \in 0..MaxRx : Poll(d, n)
  <2>1. PICK d \in 1..MaxStep, n \in 0..MaxRx : Poll(d, n)
    BY <1>6
  <2>2. (curr_time_cycle + d) % TimeMod \in 0..TimeMod-1
    BY ModRange, CountAssumption DEF TypeOK
  <2>3. idle' \in [Block -> Nat]
    BY <2>1, CountAssumption DEF Poll, TypeOK
  <2>4. num_rx_pkts' \in 0..MaxRx
    BY <2>1, CountAssumption DEF Poll
  <2>5. TypeOK'
    BY <1>1, <2>1, <2>2, <2>3, <2>4 DEF Poll, memory, TypeOK, Label
  <2> QED  BY <1>2, <2>1, <2>5 DEF Poll, Walk, WalkStaysInQueue
<1>7. CASE CallRx
  <2>1. TypeOK'
    BY <1>7, CountAssumption DEF CallRx, memory, history, TypeOK, Label, Callback
  <2> QED  BY <1>2, <1>7, <2>1 DEF CallRx, Walk, WalkStaysInQueue
<1>8. CASE ReturnRx
  <2>1. TypeOK'
    BY <1>8 DEF ReturnRx, memory, history, TypeOK, Label
  <2> QED  BY <1>2, <1>8, <2>1 DEF ReturnRx, Walk, WalkStaysInQueue
<1>9. CASE BeginTx
  <2>1. TypeOK'
    BY <1>4, <1>9 DEF BeginTx, memory, TypeOK, Label, Kind
  <2>2. Walk'
    BY <1>1, <1>2, <1>4, <1>9 DEF BeginTx, Walk, WalkStaysInQueue, Handles, Kind
  <2> QED  BY <1>2, <2>1, <2>2
<1>10. CASE CallTx
  <2>1. TypeOK'
    BY <1>10 DEF CallTx, memory, TypeOK, Label, Callback
  <2>2. Reach(next, temp) = {temp} \cup Reach(next, next[temp])
    BY <1>5, <1>10, ReachStep DEF CallTx, TypeOK, Pointer
  <2>3. Walk'
    BY <1>1, <1>2, <1>10, <2>2 DEF CallTx, Walk, WalkStaysInQueue, Kind
  <2> QED  BY <1>2, <2>1, <2>3
<1>11. CASE ReturnTx
  <2>1. temp \in Block /\ temp \in Handles("tx") /\ next[temp] \in Handles("tx") \cup {NULL}
    BY <1>4, <1>11 DEF ReturnTx, Walk, WalkStaysInQueue, Kind
  <2>2. TypeOK'
    BY <1>11, <1>1, <1>5, <2>1 DEF ReturnTx, history, TypeOK, Label
  <2>3. Walk'
    BY <1>1, <1>2, <1>11, <2>1 DEF ReturnTx, history, Walk, WalkStaysInQueue, Kind
  <2> QED  BY <1>2, <2>2, <2>3
<1>12. CASE BeginTimers
  <2>1. TypeOK'
    BY <1>4, <1>12 DEF BeginTimers, memory, TypeOK, Label, Kind
  <2>2. Walk'
    BY <1>1, <1>2, <1>4, <1>12 DEF BeginTimers, Walk, WalkStaysInQueue, Handles, Kind
  <2> QED  BY <1>2, <2>1, <2>2
<1>13. CASE CallTimer
  <2>1. TypeOK'
    BY <1>13 DEF CallTimer, memory, TypeOK, Label, Callback
  <2>2. Reach(next, temp) = {temp} \cup Reach(next, next[temp])
    BY <1>5, <1>13, ReachStep DEF CallTimer, TypeOK, Pointer
  <2>3. Walk'
    BY <1>1, <1>2, <1>13, <2>2 DEF CallTimer, Walk, WalkStaysInQueue, Kind
  <2> QED  BY <1>2, <2>1, <2>3
<1>14. CASE ReturnTimer
  <2>1. temp \in Block /\ temp \in Handles("timer") /\ next[temp] \in Handles("timer") \cup {NULL}
    BY <1>4, <1>14 DEF ReturnTimer, Walk, WalkStaysInQueue, Kind
  <2>2. TypeOK'
    BY <1>14, <1>1, <1>5, <2>1 DEF ReturnTimer, TypeOK, Label
  <2>3. Walk'
    BY <1>1, <1>2, <1>14, <2>1 DEF ReturnTimer, Walk, WalkStaysInQueue, Kind
  <2> QED  BY <1>2, <2>2, <2>3
<1>15. CASE SkipTimer
  <2>1. temp \in Block /\ temp \in Handles("timer") /\ next[temp] \in Handles("timer") \cup {NULL}
    BY <1>4, <1>15 DEF SkipTimer, Walk, WalkStaysInQueue, Kind
  <2>2. Reach(next, temp) = {temp} \cup Reach(next, next[temp])
    BY <1>5, <2>1, ReachStep
  <2>3. TypeOK'
    BY <1>15, <1>5, <2>1 DEF SkipTimer, memory, TypeOK, Label
  <2>4. Walk'
    BY <1>1, <1>2, <1>15, <2>1, <2>2 DEF SkipTimer, Walk, WalkStaysInQueue, Kind
  <2> QED  BY <1>2, <2>3, <2>4
<1>16. CASE Again
  <2>1. TypeOK'
    BY <1>16 DEF Again, memory, history, TypeOK, Label
  <2> QED  BY <1>2, <1>16, <2>1 DEF Again, Walk, WalkStaysInQueue
<1> QED  BY <1>6, <1>7, <1>8, <1>9, <1>10, <1>11, <1>12, <1>13, <1>14, <1>15, <1>16 DEF tw_run

LEMMA NextIInv == Disciplined /\ IInv /\ [Next]_vars => IInv'
<1> SUFFICES ASSUME Disciplined, TypeOK, Shape, Walk, [Next]_vars
             PROVE  TypeOK' /\ Shape' /\ Walk'
  BY Split DEF IInv, LoopInv, Shape, Walk
<1>1. CASE Application
  BY <1>1, ApplicationStep
<1>2. CASE tw_run
  BY <1>2, RunStep
<1>3. CASE UNCHANGED vars
  <2>1. Shape'
    BY <1>3, ShapeStutter DEF vars
  <2> QED  BY <1>3, <2>1 DEF vars, TypeOK, Walk, WalkStaysInQueue, Handles
<1> QED  BY <1>1, <1>2, <1>3 DEF Next

(* The invariant holds at every step of tw_run, for any number of handles, *)
(* with an application whose callbacks register handles and unregister     *)
(* only the youngest of a queue, and not their own.                        *)
THEOREM LoopInvariant == Disciplined => (Spec => []IInv)
<1> SUFFICES ASSUME Disciplined PROVE Spec => []IInv
  OBVIOUS
<1>1. IInv /\ [Next]_vars => IInv'
  BY NextIInv
<1> QED  BY <1>1, InitIInv, PTL DEF Spec

(* Type correctness of the loop.                                           *)
THEOREM TypeCorrect == Disciplined => (Spec => []TypeOK)
<1> SUFFICES ASSUME Disciplined PROVE Spec => []TypeOK
  OBVIOUS
<1>1. IInv => TypeOK
  BY DEF IInv
<1> QED  BY <1>1, LoopInvariant, PTL

(* The queues stay NULL-terminated and apart from each other.              *)
THEOREM QueuesCorrect == Disciplined => (Spec => []QueuesAreLists)
<1> SUFFICES ASSUME Disciplined PROVE Spec => []QueuesAreLists
  OBVIOUS
<1>1. IInv => QueuesAreLists
  BY DEF IInv
<1> QED  BY <1>1, LoopInvariant, PTL

(* No queue holds freed memory.                                            *)
THEOREM NoFreedHandle == Disciplined => (Spec => []LinkedIsLive)
<1> SUFFICES ASSUME Disciplined PROVE Spec => []LinkedIsLive
  OBVIOUS
<1>1. IInv => LinkedIsLive
  BY DEF IInv, LoopInv, LinkedIsLive
<1> QED  BY <1>1, LoopInvariant, PTL

(* Every walk serves every handle that was registered when it began and    *)
(* still is, although callbacks change the queue under it.                 *)
THEOREM RoundsComplete == Disciplined => (Spec => []RoundComplete)
<1> SUFFICES ASSUME Disciplined PROVE Spec => []RoundComplete
  OBVIOUS
<1>1. IInv => RoundComplete
  <2> SUFFICES ASSUME IInv, pc \in {"tx", "timer"}, temp = NULL PROVE due = {}
    BY DEF RoundComplete
  <2>1. due \subseteq Reach(next, NULL) /\ next \in [Block -> Pointer]
    BY DEF IInv, LoopInv, TypeOK
  <2> QED  BY <2>1, ReachNull
<1> QED  BY <1>1, LoopInvariant, PTL
(***************************************************************************)
(* active_handles, when there is no memory for HandleMod handles: then it  *)
(* never wraps and is exactly the number of handles tw_run has to serve.   *)
(***************************************************************************)
FewHandles == Cardinality(Block) < HandleMod

ExactCount ==
  active_handles = Cardinality(Handles("tx")) + Cardinality(Handles("timer"))

LEMMA CountBound ==
  ASSUME TypeOK, Shape
  PROVE  /\ \A k \in Kind : IsFiniteSet(Handles(k)) /\ Cardinality(Handles(k)) \in Nat
         /\ Cardinality(Handles("tx")) + Cardinality(Handles("timer")) <= Cardinality(Block)
         /\ Cardinality(Block) \in Nat
<1>1. \A k \in Kind : Handles(k) \subseteq Block
  BY DEF Handles, Reach
<1>2. \A k \in Kind : IsFiniteSet(Handles(k)) /\ Cardinality(Handles(k)) \in Nat
  BY <1>1, FS_Subset, FS_CardinalityType, BlockAssumption
<1> DEFINE T == Handles("tx")  M == Handles("timer")
<1>3. T \cap M = {}
  BY DEF Shape, QueuesAreLists, Kind
<1>4. Cardinality(T \cup M) = Cardinality(T) + Cardinality(M) - Cardinality(T \cap M)
  BY <1>2, FS_Union DEF Kind
<1>5. Cardinality(T \cap M) = 0
  BY <1>3, FS_EmptySet
<1>6. T \cup M \subseteq Block
  BY <1>1 DEF Kind
<1>7. Cardinality(T \cup M) <= Cardinality(Block) /\ Cardinality(Block) \in Nat
  BY <1>6, FS_Subset, FS_CardinalityType, BlockAssumption
<1> QED  BY <1>2, <1>4, <1>5, <1>7 DEF Kind

LEMMA ExactIsActiveCount == FewHandles /\ TypeOK /\ Shape /\ ExactCount => ActiveCount
<1> SUFFICES ASSUME FewHandles, TypeOK, Shape, ExactCount PROVE ActiveCount
  OBVIOUS
<1>1. active_handles \in 0..HandleMod-1 /\ HandleMod \in Nat \ {0}
  BY CountAssumption DEF TypeOK
<1>2. active_handles % HandleMod = active_handles
  BY <1>1, SMT
<1> QED  BY <1>2 DEF ExactCount, ActiveCount

LEMMA ExactStep ==
  ASSUME Disciplined, FewHandles, IInv, ExactCount, [Next]_vars
  PROVE  ExactCount'
<1>1. TypeOK /\ Shape /\ MemoryType
  BY Split DEF TypeOK, MemoryType
<1>2. TypeOK' /\ Shape'
  BY NextIInv DEF IInv, LoopInv, Shape
<1> DEFINE C(k) == Cardinality(Handles(k))
<1>3. /\ \A k \in Kind : IsFiniteSet(Handles(k)) /\ C(k) \in Nat
      /\ C("tx") + C("timer") < HandleMod
      /\ HandleMod \in Nat
  <2>1. /\ \A k \in Kind : IsFiniteSet(Handles(k)) /\ C(k) \in Nat
        /\ C("tx") + C("timer") <= Cardinality(Block)
        /\ Cardinality(Block) \in Nat
    BY <1>1, CountBound
  <2>2. Cardinality(Block) < HandleMod /\ HandleMod \in Nat
    BY CountAssumption DEF FewHandles
  <2>3. C("tx") \in Nat /\ C("timer") \in Nat
    BY <2>1 DEF Kind
  <2> HIDE DEF C
  <2>4. C("tx") + C("timer") < HandleMod
    BY <2>1, <2>2, <2>3
  <2> QED  BY <2>1, <2>2, <2>4
<1>4. C("tx")' \in Nat /\ C("timer")' \in Nat /\ C("tx")' + C("timer")' < HandleMod
  <2>1. /\ \A k \in Kind : Handles(k)' \subseteq Block
        /\ Handles("tx")' \cap Handles("timer")' = {}
    BY <1>2 DEF Handles, Reach, Shape, QueuesAreLists, Kind
  <2>2. \A k \in Kind : IsFiniteSet(Handles(k)') /\ Cardinality(Handles(k)') \in Nat
    BY <2>1, FS_Subset, FS_CardinalityType, BlockAssumption
  <2> DEFINE T == Handles("tx")'  M == Handles("timer")'
  <2>3. Cardinality(T \cup M) = Cardinality(T) + Cardinality(M)
    <3>1. IsFiniteSet(T) /\ IsFiniteSet(M) /\ Cardinality(T) \in Nat /\ Cardinality(M) \in Nat
      BY <2>2 DEF Kind
    <3>2. T \cap M = {}
      BY <2>1
    <3> HIDE DEF T, M
    <3>3. Cardinality(T \cup M) = Cardinality(T) + Cardinality(M) - Cardinality(T \cap M)
      BY <3>1, FS_Union
    <3>4. Cardinality(T \cap M) = 0
      BY <3>2, FS_EmptySet
    <3> QED  BY <3>1, <3>3, <3>4
  <2>4. Handles("tx")' \cup Handles("timer")' \subseteq Block
    BY <2>1 DEF Kind
  <2>5. /\ Cardinality(Handles("tx")' \cup Handles("timer")') <= Cardinality(Block)
        /\ Cardinality(Block) \in Nat
    BY <2>4, FS_Subset, FS_CardinalityType, BlockAssumption
  <2> QED  BY <1>3, <2>2, <2>3, <2>5 DEF FewHandles, Kind
<1>5. ASSUME NEW k \in {"tx", "timer"}, NEW b \in Block, Enqueue(k, b),
             active_handles' = (active_handles + 1) % HandleMod
      PROVE  ExactCount'
  <2>1. /\ b \notin Handles(k) /\ Handles(k)' = Handles(k) \cup {b}
        /\ \A j \in Kind \ {k} : Handles(j)' = Handles(j)
    BY <1>1, <1>5, EnqueueEffect, HandlesLive DEF Kind
  <2>2. C(k)' = C(k) + 1 /\ \A j \in Kind \ {k} : C(j)' = C(j)
    <3>1. IsFiniteSet(Handles(k))
      BY <1>3 DEF Kind
    <3>2. Cardinality(Handles(k) \cup {b}) = Cardinality(Handles(k)) + 1
      BY <2>1, <3>1, FS_AddElement
    <3>3. \A j \in Kind \ {k} : C(j)' = C(j)
      BY <2>1
    <3> QED  BY <2>1, <3>2, <3>3
  <2>3. C("tx")' + C("timer")' = active_handles + 1
    BY <1>3, <2>2 DEF ExactCount, Kind
  <2>4. (active_handles + 1) % HandleMod = active_handles + 1
    BY <1>1, <1>3, <1>4, <2>3, SMT DEF TypeOK
  <2> QED  BY <1>5, <2>3, <2>4 DEF ExactCount
<1>6. ASSUME NEW k \in {"tx", "timer"}, NEW h \in Handles(k), next[h] = NULL,
             \E p \in Pointer : Dequeue(k, h, p), live' = live \ {h},
             active_handles' = (active_handles - 1) % HandleMod
      PROVE  ExactCount'
  <2>1. Handles(k)' = Handles(k) \ {h} /\ \A j \in Kind \ {k} : Handles(j)' = Handles(j)
    BY <1>1, <1>6, DequeueEffect DEF Kind
  <2>2. C(k)' = C(k) - 1 /\ \A j \in Kind \ {k} : C(j)' = C(j)
    <3>1. IsFiniteSet(Handles(k))
      BY <1>3 DEF Kind
    <3>2. Cardinality(Handles(k) \ {h}) = Cardinality(Handles(k)) - 1
      BY <1>6, <3>1, FS_RemoveElement
    <3>3. \A j \in Kind \ {k} : C(j)' = C(j)
      BY <2>1
    <3> QED  BY <2>1, <3>2, <3>3
  <2>3. C("tx")' + C("timer")' = active_handles - 1
    BY <1>3, <2>2 DEF ExactCount, Kind
  <2>4. (active_handles - 1) % HandleMod = active_handles - 1
    BY <1>1, <1>3, <1>4, <2>3, SMT DEF TypeOK
  <2> QED  BY <1>6, <2>3, <2>4 DEF ExactCount
<1>7. CASE \E b \in Block : RegisterRx(b)
  <2>1. PICK b \in Block : RegisterRx(b)
    BY <1>7
  <2>2. \A j \in Kind \ {"rx"} : Handles(j)' = Handles(j)
    BY <1>1, <2>1, EnqueueEffect DEF RegisterRx, tw_rx_init, Kind
  <2> QED  BY <2>1, <2>2 DEF RegisterRx, tw_rx_init, ExactCount, Kind
<1>8. CASE \E b \in Block : RegisterTx(b)
  BY <1>5, <1>8 DEF RegisterTx, tw_tx_init
<1>9. CASE \E b \in Block : \E ms \in Timeouts : RegisterTimer(b, ms)
  BY <1>5, <1>9 DEF RegisterTimer, tw_timer_init
<1>10. CASE \E b \in Block : UnregisterTimer(b)
  BY <1>1, <1>6, <1>10, UnregisterIsDequeue DEF UnregisterTimer, tw_timer_unregister
<1>11. CASE \E b \in Block : UnregisterTx(b)
  BY <1>1, <1>6, <1>11, UnregisterIsDequeue DEF UnregisterTx, tw_tx_unregister
<1>12. CASE UNCHANGED <<next, head, active_handles>>
  BY <1>12 DEF ExactCount, Handles
<1>13. tw_run \/ UNCHANGED vars => UNCHANGED <<next, head, active_handles>>
  BY DEF vars, tw_run, Poll, CallRx, ReturnRx, BeginTx, CallTx, ReturnTx, BeginTimers,
         CallTimer, ReturnTimer, SkipTimer, Again, memory
<1> QED  BY <1>7, <1>8, <1>9, <1>10, <1>11, <1>12, <1>13 DEF Next, Application

(* tw_run's test of active_handles never turns a registered tx handle or   *)
(* timer away, as long as memory holds fewer handles than uint8_t counts.  *)
THEOREM CountCorrect == Disciplined /\ FewHandles => (Spec => []ActiveCount)
<1> SUFFICES ASSUME Disciplined, FewHandles PROVE Spec => []ActiveCount
  OBVIOUS
<1>1. Init => ExactCount
  <2> SUFFICES ASSUME Init PROVE ExactCount
    OBVIOUS
  <2>1. next \in [Block -> Pointer] /\ Handles("tx") = {} /\ Handles("timer") = {}
    BY ReachNull DEF Init, Handles, Pointer, Kind
  <2>2. Cardinality({}) = 0
    BY FS_EmptySet
  <2> QED  BY <2>1, <2>2 DEF Init, ExactCount
<1>2. IInv /\ ExactCount /\ [Next]_vars => ExactCount'
  BY ExactStep
<1>3. IInv /\ ExactCount => ActiveCount
  BY Split, ExactIsActiveCount
<1> QED  BY <1>1, <1>2, <1>3, LoopInvariant, PTL DEF Spec
=============================================================================
