-------------------------- MODULE HandleServerProofs --------------------------
(***************************************************************************)
(* The event loop implements HandleServer for every set of blocks, clock   *)
(* and timeout, with the applications EventLoopProofs is about.            *)
(***************************************************************************)
EXTENDS EventLoopProofs

(***************************************************************************)
(* Walks that end.                                                         *)
(***************************************************************************)

(* Every walk inside a queue that has an end comes to that end. *)
LEMMA EndReached ==
  ASSUME NEW nx \in [Block -> Pointer], NEW p \in Pointer,
         NEW t \in Reach(nx, p), nx[t] = NULL, NEW b \in Reach(nx, p)
  PROVE  t \in Reach(nx, b)
<1> DEFINE S == {c \in Reach(nx, p) : t \in Reach(nx, c)}
<1>1. Closed(nx, p, Reach(nx, p)) /\ Reach(nx, p) \subseteq Block
  BY ReachClosed
<1>2. p \in S
  BY <1>1, ReachNull DEF Closed
<1>3. ASSUME NEW c \in S PROVE nx[c] \in S \cup {NULL}
  <2>1. c \in Block /\ nx[c] \in Reach(nx, p) \cup {NULL}
    BY <1>1 DEF Closed
  <2>2. Reach(nx, c) = {c} \cup Reach(nx, nx[c])
    BY <2>1, ReachStep
  <2> QED  BY <2>1, <2>2
<1>4. Closed(nx, p, S) /\ S \in SUBSET Block
  BY <1>1, <1>2, <1>3 DEF Closed
<1>5. Reach(nx, p) \subseteq S
  <2> HIDE DEF S
  <2> QED  BY <1>4, ReachLeast
<1> QED  BY <1>5

(* Such a walk does not come back to where it was. *)
LEMMA NoReturn ==
  ASSUME NEW nx \in [Block -> Pointer], NEW p \in Pointer,
         NEW t \in Reach(nx, p), nx[t] = NULL, NEW b \in Reach(nx, p)
  PROVE  b \notin Reach(nx, nx[b])
<1> SUFFICES ASSUME b \in Reach(nx, nx[b]) PROVE FALSE
  OBVIOUS
<1> DEFINE q == nx[b]
           D == {c \in Reach(nx, q) : b \in Reach(nx, c)}
<1>1. b \in Block /\ q \in Pointer /\ t \in Block
  BY ReachClosed
<1>2. Closed(nx, q, Reach(nx, q)) /\ Reach(nx, q) \subseteq Block
  BY <1>1, ReachClosed
<1>3. q \in D
  BY <1>1, <1>2, ReachNull DEF Closed
<1>4. ASSUME NEW c \in D PROVE nx[c] \in D
  <2>1. c \in Block /\ nx[c] \in Reach(nx, q) \cup {NULL}
    BY <1>2 DEF Closed
  <2>2. Reach(nx, c) = {c} \cup Reach(nx, nx[c])
    BY <2>1, ReachStep
  <2>3. CASE c = b
    BY <1>3, <2>3
  <2>4. CASE c # b
    BY <2>1, <2>2, <2>4, ReachNull
  <2> QED  BY <2>3, <2>4
<1>5. Closed(nx, q, D) /\ D \in SUBSET Block
  BY <1>2, <1>3, <1>4 DEF Closed
<1>6. Reach(nx, q) \subseteq D
  <2> HIDE DEF D, q
  <2> QED  BY <1>1, <1>5, ReachLeast
<1>7. t \in Reach(nx, b)
  BY EndReached
<1>8. Reach(nx, b) = {b} \cup Reach(nx, q)
  BY <1>1, ReachStep
<1>9. t \in D
  BY <1>6, <1>7, <1>8
<1> QED  BY <1>4, <1>5, <1>9, BlockAssumption

(* The end of a queue. *)
LEMMA QueueEnd ==
  ASSUME MemoryType, Shape, NEW k \in Kind, NEW b \in Handles(k)
  PROVE  /\ next \in [Block -> Pointer] /\ head[k] \in Pointer
         /\ \E t \in Reach(next, head[k]) : next[t] = NULL
<1>1. next \in [Block -> Pointer] /\ head[k] \in Pointer
  BY DEF MemoryType
<1>2. head[k] # NULL
  BY <1>1, ReachNull DEF Handles
<1> QED  BY <1>1, <1>2 DEF Shape, QueuesAreLists, Tails, Handles

(***************************************************************************)
(* What the registration functions do to a walk that stands on temp.       *)
(***************************************************************************)

(* A handle registered in the queue that is walked is still to be visited; *)
(* one registered in another queue is not.                                 *)
LEMMA EnqueueAhead ==
  ASSUME MemoryType, Shape, NEW k \in Kind, NEW b \in Block, Enqueue(k, b),
         NEW j \in Kind, NEW c \in Handles(j)
  PROVE  Reach(next', next'[c]) =
           IF j = k THEN Reach(next, next[c]) \cup {b} ELSE Reach(next, next[c])
<1>1. /\ next \in [Block -> Pointer] /\ head \in [Kind -> Pointer]
      /\ b \notin live /\ b # NULL /\ next[b] = NULL /\ NULL \in Pointer
  BY BlockAssumption DEF MemoryType, Shape, Enqueue, Pointer
<1>2. \A i \in Kind : /\ Handles(i) \subseteq live
                      /\ \A d \in Handles(i) : next[d] \in Handles(i) \cup {NULL}
  BY HandlesLive
<1>3. c \in Block /\ next[c] \in Handles(j) \cup {NULL}
  BY <1>2 DEF MemoryType
<1>4. CASE head[k] = NULL
  <2>1. next' = next /\ Handles(k) = {}
    BY <1>4, <1>1, ReachNull DEF Enqueue, Tails, Handles
  <2> QED  BY <2>1
<1>5. CASE head[k] # NULL
  <2>1. PICK t \in Tails(k) : next' = [next EXCEPT ![t] = b]
    BY <1>5 DEF Enqueue
  <2>2. t \in Block /\ t \in Handles(k) /\ next[t] = NULL /\ t # b
    BY <1>1, <1>2, <2>1 DEF Tails, Handles, Reach
  <2>3. /\ next' \in [Block -> Pointer] /\ next'[t] = b
        /\ \A d \in Block : d # t => next'[d] = next[d]
    BY <1>1, <2>1, <2>2 DEF Pointer
  <2>4. \A p \in Pointer : Reach(next', p) =
          IF t \in Reach(next, p) THEN Reach(next, p) \cup {b} ELSE Reach(next, p)
    BY <1>1, <2>2, <2>3, ReachAppend
  <2>5. next[c] \in Pointer /\ b \in Pointer
    BY <1>1, <1>3 DEF Pointer
  <2>6. CASE c = t
    <3>1. j = k /\ next'[c] = b /\ next[c] = NULL
      BY <2>2, <2>3, <2>6 DEF Shape, QueuesAreLists
    <3>2. Reach(next, NULL) = {} /\ Reach(next, b) = {b}
      BY <1>1, ReachNull, ReachStep
    <3>3. Reach(next', b) = {b}
      BY <2>2, <2>4, <2>5, <3>2
    <3> QED  BY <3>1, <3>2, <3>3
  <2>7. CASE c # t /\ j = k
    <3>1. next[c] # NULL
      <4>1. t \in Reach(next, c)
        BY <1>1, <2>2, <2>7, EndReached DEF Handles
      <4>2. Reach(next, c) = {c} \cup Reach(next, next[c])
        BY <1>1, <1>3, ReachStep
      <4> QED  BY <1>1, <2>7, <4>1, <4>2, ReachNull
    <3>2. next[c] \in Handles(k)
      BY <1>3, <2>7, <3>1
    <3>3. t \in Reach(next, next[c])
      BY <1>1, <2>2, <3>2, EndReached DEF Handles
    <3> QED  BY <1>3, <2>3, <2>4, <2>5, <2>7, <3>3
  <2>8. CASE c # t /\ j # k
    <3>1. t \notin Handles(j)
      BY <2>2, <2>8 DEF Shape, QueuesAreLists
    <3>2. Reach(next, next[c]) \subseteq Handles(j)
      BY <1>1, <1>3, ReachNull, ReachMono DEF Handles
    <3> QED  BY <1>3, <2>3, <2>4, <2>5, <2>8, <3>1, <3>2
  <2> QED  BY <2>6, <2>7, <2>8
<1> QED  BY <1>4, <1>5

(* An unregistered handle is no longer ahead, and nothing else is lost.    *)
LEMMA DequeueAhead ==
  ASSUME MemoryType, Shape, NEW k \in Kind, NEW h \in Handles(k), next[h] = NULL,
         NEW r \in Pointer, Dequeue(k, h, r),
         NEW j \in Kind, NEW c \in Handles(j), c # h
  PROVE  Reach(next', next'[c]) = Reach(next, next[c]) \ {h}
<1>1. /\ next \in [Block -> Pointer] /\ head \in [Kind -> Pointer]
      /\ h \in Block /\ h # NULL /\ NULL \in Pointer
  BY BlockAssumption DEF MemoryType, Handles, Reach, Pointer
<1>2. \A i \in Kind : /\ Handles(i) \subseteq live
                      /\ \A d \in Handles(i) : next[d] \in Handles(i) \cup {NULL}
  BY HandlesLive
<1>3. c \in Block /\ next[c] \in Handles(j) \cup {NULL} /\ next[c] \in Pointer
  BY <1>1, <1>2 DEF MemoryType
<1>4. CASE head[k] = h
  <2>1. next' = next
    BY <1>1, <1>4 DEF Dequeue
  <2>2. Handles(k) = {h}
    BY <1>1, <1>4, ReachNull, ReachStep DEF Handles
  <2>3. h \notin Handles(j)
    BY <2>2 DEF Shape, QueuesAreLists
  <2>4. Reach(next, next[c]) \subseteq Handles(j)
    BY <1>1, <1>3, ReachNull, ReachMono DEF Handles
  <2> QED  BY <2>1, <2>3, <2>4
<1>5. CASE head[k] # h
  <2>1. /\ r \in Handles(k) /\ r \in Block /\ next[r] = h
        /\ next' = [next EXCEPT ![r] = NULL]
    BY <1>5 DEF Dequeue, Handles, Reach
  <2>2. /\ next' \in [Block -> Pointer] /\ next'[r] = NULL
        /\ \A d \in Block : d # r => next'[d] = next[d]
        /\ \A d \in Block : next[d] = h => d = r
    BY <1>1, <2>1 DEF Shape
  <2>3. \A p \in Pointer : p # h => Reach(next', p) = Reach(next, p) \ {h}
    <3>1. IsCut(next, next', h, r)
      BY <1>1, <2>1, <2>2 DEF IsCut
    <3> QED  BY <3>1, ReachCut
  <2>4. CASE c = r
    <3>1. Reach(next, h) = {h} /\ Reach(next', NULL) = {}
      BY <1>1, <2>2, ReachNull, ReachStep
    <3> QED  BY <2>1, <2>2, <2>4, <3>1
  <2>5. CASE c # r
    BY <1>3, <2>2, <2>3, <2>5
  <2> QED  BY <2>4, <2>5
<1> QED  BY <1>4, <1>5

(***************************************************************************)
(* Every step of the loop is a step of HandleServer or changes nothing     *)
(* that HandleServer sees.                                                 *)
(***************************************************************************)
Registered == [k \in Kind |-> Handles(k)]

(* The steps that leave the queues alone. *)
LEMMA SameQueues ==
  UNCHANGED <<next, head>> => Registered' = Registered
BY DEF Registered, Handles

(* Registering a handle. *)
LEMMA RegisterMaps ==
  ASSUME TypeOK, Shape, Walk, NEW k \in Kind, NEW b \in Block, Enqueue(k, b),
         MayRegister(k), UNCHANGED <<pc, temp>>
  PROVE  Server!Register(k, b)
<1>1. MemoryType
  BY DEF TypeOK, MemoryType
<1>2. /\ b \notin live
      /\ Handles(k)' = Handles(k) \cup {b}
      /\ \A j \in Kind \ {k} : Handles(j)' = Handles(j)
  BY <1>1, EnqueueEffect
<1>3. Registered' = [Registered EXCEPT ![k] = @ \cup {b}]
  BY <1>2 DEF Registered
<1>4. \A j \in Kind : b \notin Handles(j)
  BY <1>1, <1>2, HandlesLive
<1>5. pc \in {"setup"} \cup Callback
  BY DEF MayRegister
<1>6. Phase' = Phase /\ Current' = Current
  BY DEF Phase, Current
<1>7. Phase = "idle" \/ Current # NULL
  BY <1>5 DEF Phase, Current, Callback, Walk
<1>8. Ahead' = IF Phase = k THEN Ahead \cup {b} ELSE Ahead
  <2>1. CASE pc \in {"setup", "rx_cb"}
    BY <2>1 DEF Phase, Ahead, Kind
  <2>2. CASE pc = "tx_cb"
    <3>1. temp \in Handles("tx") /\ Phase = "tx"
      BY <2>2 DEF Walk, WalkStaysInQueue, Phase
    <3>2. Reach(next', next'[temp]) = IF "tx" = k THEN Reach(next, next[temp]) \cup {b}
                                                  ELSE Reach(next, next[temp])
      BY <1>1, <3>1, EnqueueAhead DEF Kind
    <3> QED  BY <2>2, <3>1, <3>2 DEF Ahead
  <2>3. CASE pc = "timer_cb"
    <3>1. temp \in Handles("timer") /\ Phase = "timer"
      BY <2>3 DEF Walk, WalkStaysInQueue, Phase
    <3>2. Reach(next', next'[temp]) = IF "timer" = k THEN Reach(next, next[temp]) \cup {b}
                                                     ELSE Reach(next, next[temp])
      BY <1>1, <3>1, EnqueueAhead DEF Kind
    <3> QED  BY <2>3, <3>1, <3>2 DEF Ahead
  <2> QED  BY <1>5, <2>1, <2>2, <2>3 DEF Callback
<1> QED  BY <1>3, <1>4, <1>6, <1>7, <1>8
         DEF Server!Register, Server!Application, Registered

(* Unregistering the last handle of a queue. *)
LEMMA UnregisterMaps ==
  ASSUME TypeOK, Shape, Walk, NEW k \in Kind, NEW h \in Handles(k), next[h] = NULL,
         NEW r \in Pointer, Dequeue(k, h, r), live' = live \ {h},
         pc \in Callback, h # temp, UNCHANGED <<pc, temp>>
  PROVE  Server!Unregister(k, h)
<1>1. MemoryType
  BY DEF TypeOK, MemoryType
<1>2. /\ Handles(k)' = Handles(k) \ {h}
      /\ \A j \in Kind \ {k} : Handles(j)' = Handles(j)
  BY <1>1, DequeueEffect
<1>3. Registered' = [Registered EXCEPT ![k] = @ \ {h}]
  BY <1>2 DEF Registered
<1>4. Phase' = Phase /\ Current' = Current
  BY DEF Phase, Current
<1>5. h # NULL
  BY BlockAssumption DEF Handles, Reach
<1>6. (Phase = "idle" \/ Current # NULL) /\ h # Current
  BY <1>5 DEF Phase, Current, Callback, Walk
<1>7. Ahead' = Ahead \ {h}
  <2>1. CASE pc = "rx_cb"
    BY <2>1 DEF Ahead
  <2>2. CASE pc \in {"tx_cb", "timer_cb"}
    <3>1. \E j \in Kind : temp \in Handles(j)
      BY <2>2 DEF Walk, WalkStaysInQueue, Kind
    <3>2. Reach(next', next'[temp]) = Reach(next, next[temp]) \ {h}
      BY <1>1, <3>1, DequeueAhead
    <3> QED  BY <2>2, <3>2 DEF Ahead
  <2> QED  BY <2>1, <2>2 DEF Callback
<1> QED  BY <1>3, <1>4, <1>6, <1>7
         DEF Server!Unregister, Server!Application, Registered

(* A visit moves the walk past its handle, which is not met again. *)
LEMMA VisitAhead ==
  ASSUME TypeOK, Shape, Walk, pc \in {"tx", "timer"}, temp # NULL
  PROVE  temp \in Reach(next, temp) /\ Reach(next, next[temp]) = Reach(next, temp) \ {temp}
<1>1. MemoryType
  BY DEF TypeOK, MemoryType
<1>2. PICK k \in Kind : temp \in Handles(k)
  BY DEF Walk, WalkStaysInQueue, Kind
<1>3. temp \in Block
  BY DEF TypeOK, Pointer
<1>4. Reach(next, temp) = {temp} \cup Reach(next, next[temp])
  BY <1>1, <1>3, ReachStep DEF MemoryType
<1>5. temp \notin Reach(next, next[temp])
  BY <1>1, <1>2, QueueEnd, NoReturn DEF Handles
<1> QED  BY <1>4, <1>5

(* The actions of the application. *)
LEMMA ApplicationMaps ==
  ASSUME Disciplined, TypeOK, Shape, Walk, Application
  PROVE  Server!Next
<1>1. PICK b \in Block : \/ RegisterRx(b)
                         \/ RegisterTx(b)
                         \/ \E ms \in Timeouts : RegisterTimer(b, ms)
                         \/ UnregisterTimer(b)
                         \/ UnregisterTx(b)
  BY DEF Application
<1>2. CASE RegisterRx(b)
  <2>1. Server!Register("rx", b)
    BY <1>2, RegisterMaps DEF RegisterRx, tw_rx_init, Kind
  <2> QED  BY <2>1 DEF Server!Next
<1>3. CASE RegisterTx(b)
  <2>1. Server!Register("tx", b)
    BY <1>3, RegisterMaps DEF RegisterTx, tw_tx_init, Kind
  <2> QED  BY <2>1 DEF Server!Next
<1>4. CASE \E ms \in Timeouts : RegisterTimer(b, ms)
  <2>1. Server!Register("timer", b)
    BY <1>4, RegisterMaps DEF RegisterTimer, tw_timer_init, Kind
  <2> QED  BY <2>1 DEF Server!Next
<1>5. CASE UnregisterTimer(b)
  <2>1. Server!Unregister("timer", b)
    BY <1>5, UnregisterIsDequeue, UnregisterMaps DEF UnregisterTimer, Kind
  <2> QED  BY <2>1 DEF Server!Next
<1>6. CASE UnregisterTx(b)
  <2>1. Server!Unregister("tx", b)
    BY <1>6, UnregisterIsDequeue, UnregisterMaps DEF UnregisterTx, Kind
  <2> QED  BY <2>1 DEF Server!Next
<1> QED  BY <1>1, <1>2, <1>3, <1>4, <1>5, <1>6

(* The steps of tw_run. *)
LEMMA RunMaps ==
  ASSUME TypeOK, Shape, Walk, tw_run
  PROVE  Server!Next \/ UNCHANGED Server!served
<1>1. next \in [Block -> Pointer] /\ Reach(next, NULL) = {}
  BY ReachNull DEF TypeOK
<1>2. CASE \E d \in 1..MaxStep, n \in 0..MaxRx : Poll(d, n)
  <2>1. UNCHANGED <<next, head, temp>> /\ pc \in {"setup", "top"} /\ pc' = "rx"
    BY <1>2 DEF Poll, memory
  <2> QED  BY <2>1, SameQueues DEF Server!served, Registered, Phase, Ahead, Current
<1>3. CASE CallRx \/ ReturnRx
  <2>1. UNCHANGED <<next, head, temp>> /\ pc \in {"rx", "rx_cb"} /\ pc' \in {"rx", "rx_cb"}
    BY <1>3 DEF CallRx, ReturnRx, memory
  <2> QED  BY <2>1, SameQueues DEF Server!served, Registered, Phase, Ahead, Current
<1>4. CASE BeginTx
  <2>1. UNCHANGED <<next, head>> /\ pc = "rx" /\ Registered["tx"] = Reach(next, head["tx"])
    BY <1>4 DEF BeginTx, memory, Registered, Kind, Handles
  <2>2. CASE pc' = "tx" /\ temp' = head["tx"]
    <3>1. Server!Start("idle", "tx")
      BY <2>1, <2>2, SameQueues DEF Server!Start, Registered, Phase, Ahead, Current
    <3> QED  BY <3>1 DEF Server!Next
  <2>3. CASE pc' = "top"
    BY <2>1, <2>3, SameQueues DEF Server!served, Registered, Phase, Ahead, Current
  <2> QED  BY <1>4, <2>2, <2>3 DEF BeginTx
<1>5. CASE CallTx
  <2>1. UNCHANGED <<next, head, temp>> /\ pc = "tx" /\ pc' = "tx_cb" /\ temp # NULL
    BY <1>5 DEF CallTx, memory
  <2>2. Server!Visit(temp)
    BY <2>1, SameQueues, VisitAhead DEF Server!Visit, Registered, Phase, Ahead, Current
  <2> QED  BY <2>1, <2>2 DEF Server!Next, TypeOK, Pointer
<1>6. CASE ReturnTx \/ ReturnTimer
  <2>1. /\ UNCHANGED <<next, head>> /\ temp' = next[temp] /\ temp # NULL
        /\ <<pc, pc'>> \in {<<"tx_cb", "tx">>, <<"timer_cb", "timer">>}
    BY <1>6 DEF ReturnTx, ReturnTimer, Walk
  <2>2. Server!Return
    BY <2>1, SameQueues DEF Server!Return, Registered, Phase, Ahead, Current
  <2> QED  BY <2>2 DEF Server!Next
<1>7. CASE BeginTimers
  <2>1. /\ UNCHANGED <<next, head>> /\ pc = "tx" /\ temp = NULL
        /\ pc' = "timer" /\ temp' = head["timer"]
        /\ Registered["timer"] = Reach(next, head["timer"])
    BY <1>7 DEF BeginTimers, memory, Registered, Kind, Handles
  <2>2. Server!Start("tx", "timer")
    BY <1>1, <2>1, SameQueues DEF Server!Start, Registered, Phase, Ahead, Current
  <2> QED  BY <2>2 DEF Server!Next
<1>8. CASE CallTimer
  <2>1. UNCHANGED <<next, head, temp>> /\ pc = "timer" /\ pc' = "timer_cb" /\ temp # NULL
    BY <1>8 DEF CallTimer, memory
  <2>2. Server!Visit(temp)
    BY <2>1, SameQueues, VisitAhead DEF Server!Visit, Registered, Phase, Ahead, Current
  <2> QED  BY <2>1, <2>2 DEF Server!Next, TypeOK, Pointer
<1>9. CASE SkipTimer
  <2>1. /\ UNCHANGED <<next, head, pc>> /\ pc = "timer" /\ temp # NULL /\ temp' = next[temp]
    BY <1>9 DEF SkipTimer, memory
  <2>2. Server!Visit(temp)
    BY <2>1, SameQueues, VisitAhead DEF Server!Visit, Registered, Phase, Ahead, Current
  <2> QED  BY <2>1, <2>2 DEF Server!Next, TypeOK, Pointer
<1>10. CASE Again
  <2>1. UNCHANGED <<next, head, temp>> /\ pc = "timer" /\ pc' = "top" /\ temp = NULL
    BY <1>10 DEF Again, memory
  <2>2. Server!Finish
    BY <1>1, <2>1, SameQueues DEF Server!Finish, Registered, Phase, Ahead, Current
  <2> QED  BY <2>2 DEF Server!Next
<1> QED  BY <1>2, <1>3, <1>4, <1>5, <1>6, <1>7, <1>8, <1>9, <1>10 DEF tw_run

(* The queues are empty at first. *)
LEMMA InitMaps == Init => Server!Init
<1> SUFFICES ASSUME Init PROVE Server!Init
  OBVIOUS
<1>1. \A k \in Kind : Handles(k) = {}
  BY ReachNull DEF Init, Handles, Pointer, Kind
<1> QED  BY <1>1 DEF Init, Server!Init, Kind, Phase, Ahead, Current

(* tw_run and the registration functions implement HandleServer: every     *)
(* registered handle is visited once per round, one registered during a    *)
(* round over its queue included, one unregistered never again, for any    *)
(* number of blocks and any timeouts, when callbacks register handles and  *)
(* unregister only the youngest timer or the only tx handle.               *)
THEOREM LoopServesHandles == Disciplined => (Spec => ServesHandles)
<1> SUFFICES ASSUME Disciplined PROVE Spec => ServesHandles
  OBVIOUS
<1>1. Init => Server!Init
  BY InitMaps
<1>2. IInv /\ [Next]_vars => [Server!Next]_(Server!served)
  <2> SUFFICES ASSUME IInv, [Next]_vars
               PROVE  Server!Next \/ UNCHANGED Server!served
    OBVIOUS
  <2>1. TypeOK /\ Shape /\ Walk
    BY Split
  <2>2. CASE Application
    BY <2>1, <2>2, ApplicationMaps
  <2>3. CASE tw_run
    BY <2>1, <2>3, RunMaps
  <2>4. CASE UNCHANGED vars
    <3>1. UNCHANGED <<next, head, pc, temp>>
      BY <2>4 DEF vars
    <3> QED  BY <3>1, SameQueues DEF Server!served, Registered, Phase, Ahead, Current
  <2> QED  BY <2>2, <2>3, <2>4 DEF Next
<1>3. Spec => []IInv
  BY LoopInvariant
<1> QED  BY <1>1, <1>2, <1>3, PTL DEF Spec, ServesHandles, Server!Spec
=============================================================================
