------------------------------ MODULE EventLoop ------------------------------
(***************************************************************************)
(* The event loop of twister/event/event_loop.c: the three queues of       *)
(* handles an application registers, as linked lists threaded through      *)
(* rte_malloc'd memory, and tw_run, which walks them and calls back into   *)
(* the application, which may call the registration functions again.       *)
(*                                                                         *)
(* rte_malloc and rte_free leave the contents of a block alone (only fresh *)
(* memory is zero), and tw_tx_init and tw_timer_init never write the       *)
(* `next' and `last_run_time' fields of the block they get, so the model   *)
(* keeps the contents of every block across free and reuse.                *)
(***************************************************************************)
EXTENDS Integers, FiniteSets

CONSTANTS
  Block,        \* memory blocks that can hold a handle
  NULL,         \* the null pointer
  HandleMod,    \* active_handles counts modulo this (uint8_t: 256)
  TimeMod,      \* the cycle counter counts modulo this (uint64_t: 2^64)
  CyclesPerMs,  \* rte_get_tsc_hz() / 1000
  Timeouts,     \* timeouts (ms) the application passes to tw_timer_start
  MaxStep,      \* an iteration of tw_run takes 1..MaxStep cycles
  MaxRx,        \* IPv4 packets received in one iteration
  App           \* what the application's callbacks do, see MayRegister

ASSUME BlockAssumption == IsFiniteSet(Block) /\ NULL \notin Block
ASSUME CountAssumption ==
  /\ HandleMod \in Nat \ {0}
  /\ TimeMod \in Nat \ {0}
  /\ CyclesPerMs \in Nat
  /\ Timeouts \subseteq Nat
  /\ MaxStep \in Nat \ {0}
  /\ MaxRx \in Nat
ASSUME AppAssumption == App \subseteq {"late", "tail", "timer", "tx", "self"}

VARIABLES
  next,            \* the `next' field of each block
  last_run_time,   \* its `last_run_time' field
  timeout,         \* its `timeout' field (cycles)
  live,            \* the blocks rte_malloc has given out
  head,            \* rx_handle_queue, tx_handle_queue, timer_handle_queue
  active_handles,
  pc,              \* where tw_run is
  temp,            \* temp_tx_handle or temp_timer_handle
  curr_time_cycle,
  num_rx_pkts,     \* packets of this iteration still to be delivered
  due,             \* history: handles this walk has yet to come to
  idle,            \* history: cycles since a timer was registered or fired
  fired            \* history: timers that have fired since registration

memory == <<next, last_run_time, timeout, live>>
history == <<due, idle, fired>>
vars == <<next, last_run_time, timeout, live, head, active_handles, pc, temp,
          curr_time_cycle, num_rx_pkts, due, idle, fired>>

Kind == {"rx", "tx", "timer"}
Pointer == Block \cup {NULL}
Callback == {"rx_cb", "tx_cb", "timer_cb"}
Label == {"setup", "top", "rx", "tx", "timer", "panic"} \cup Callback

(***************************************************************************)
(* The blocks a walk along the pointers nx visits when it starts at p: the *)
(* smallest set that holds p and is closed under nx.                       *)
(***************************************************************************)
Closed(nx, p, S) == p \in S \cup {NULL} /\ \A b \in S : nx[b] \in S \cup {NULL}

Reach(nx, p) == {b \in Block : \A S \in SUBSET Block : Closed(nx, p, S) => b \in S}

Handles(k) == Reach(next, head[k])

(* The handle at which the search for the end of a queue stops. *)
Tails(k) == {b \in Handles(k) : next[b] = NULL}

(***************************************************************************)
(* What a callback of the application may do, besides registering handles  *)
(* before tw_run as all applications do.  "late": register more handles.   *)
(* "tail": unregister the youngest timer or the only tx handle.  "timer",  *)
(* "tx": unregister any timer, any tx handle.  "self": also the handle it  *)
(* was called for.  The echo servers, twping and twgateway need none of    *)
(* these; tw_eventloop_smoke unregisters its own handles.                  *)
(***************************************************************************)
MayRegister(k) ==
  \/ pc = "setup"
  \/ pc \in Callback /\ "late" \in App /\ k # "rx"

MayUnregister(k, h) ==
  /\ pc \in Callback
  /\ h = temp => "self" \in App
  /\ \/ k \in App
     \/ "tail" \in App /\ next[h] = NULL /\ (k = "tx" => head[k] = h)

(***************************************************************************)
(* The registration functions.                                             *)
(***************************************************************************)

(* Mutant: the new block replaces the queue instead of ending it. *)
EnqueueMutantDropsQueue(k, b) ==
  /\ b \in Block \ live
  /\ live' = live \cup {b}
  /\ head' = [head EXCEPT ![k] = b]
  /\ UNCHANGED next

(* The block b that rte_malloc returns becomes the last of queue k. *)
Enqueue(k, b) ==
  /\ b \in Block \ live
  /\ live' = live \cup {b}
  /\ \/ /\ head[k] = NULL
        /\ head' = [head EXCEPT ![k] = b]
        /\ UNCHANGED next
     \/ \E t \in Tails(k) :
          /\ next' = [next EXCEPT ![t] = b]
          /\ UNCHANGED head

(* Mutant: rx handles are counted, as the commented-out line 57 did. *)
tw_rx_initMutantCounts(b) ==
  /\ Enqueue("rx", b)
  /\ active_handles' = (active_handles + 1) % HandleMod

tw_rx_init(b) == Enqueue("rx", b) /\ UNCHANGED active_handles

tw_tx_init(b) ==
  /\ Enqueue("tx", b)
  /\ active_handles' = (active_handles + 1) % HandleMod

tw_timer_init(b) ==
  /\ Enqueue("timer", b)
  /\ active_handles' = (active_handles + 1) % HandleMod

tw_timer_start(b, ms) == timeout' = [timeout EXCEPT ![b] = ms * CyclesPerMs]

(* Every application calls the _start function of a handle right after its *)
(* _init function, before it returns to tw_run.                            *)
RegisterRx(b) ==
  /\ MayRegister("rx")
  /\ tw_rx_init(b)
  /\ UNCHANGED <<last_run_time, timeout, pc, temp, curr_time_cycle,
                 num_rx_pkts, history>>

RegisterTx(b) ==
  /\ MayRegister("tx")
  /\ tw_tx_init(b)
  /\ UNCHANGED <<last_run_time, timeout, pc, temp, curr_time_cycle,
                 num_rx_pkts, history>>

RegisterTimer(b, ms) ==
  /\ MayRegister("timer")
  /\ tw_timer_init(b)
  /\ tw_timer_start(b, ms)
  /\ idle' = [idle EXCEPT ![b] = 0]
  /\ fired' = fired \ {b}
  /\ UNCHANGED <<last_run_time, pc, temp, curr_time_cycle, num_rx_pkts, due>>

(* rte_free panics on a block that is already free. *)
rte_free(b) ==
  /\ live' = live \ {b}
  /\ pc' = IF b \in live THEN pc ELSE "panic"

(* Mutant: the handle before h keeps pointing to it. *)
DequeueMutantKeepsLink(k, h, p) ==
  /\ \/ /\ head[k] = h /\ p = NULL
        /\ head' = [head EXCEPT ![k] = next[h]]
     \/ /\ head[k] # h /\ p \in Handles(k) /\ next[p] = h
        /\ UNCHANGED head
  /\ UNCHANGED next

(* h leaves queue k.  p is the handle before it, NULL if h is the first. *)
Dequeue(k, h, p) ==
  \/ /\ head[k] = h /\ p = NULL
     /\ head' = [head EXCEPT ![k] = next[h]]
     /\ UNCHANGED next
  \/ /\ head[k] # h /\ p \in Handles(k) /\ next[p] = h
     /\ next' = [next EXCEPT ![p] = next[h]]
     /\ UNCHANGED head

(* Mutant: active_handles-- is forgotten. *)
tw_timer_unregisterMutantKeepsCount(h) ==
  /\ h \in Handles("timer")
  /\ \E p \in Pointer : Dequeue("timer", h, p)
  /\ rte_free(h)
  /\ UNCHANGED active_handles

tw_timer_unregister(h) ==
  /\ h \in Handles("timer")
  /\ \E p \in Pointer : Dequeue("timer", h, p)
  /\ rte_free(h)
  /\ active_handles' = (active_handles - 1) % HandleMod

(* Mutant: the first tx handle's successor becomes the first timer. *)
tw_tx_unregisterMutantWrongQueue(h) ==
  /\ h = head["tx"] /\ h # NULL
  /\ head' = [head EXCEPT !["timer"] = next[h]]
  /\ rte_free(h)
  /\ active_handles' = (active_handles - 1) % HandleMod
  /\ UNCHANGED next

(* When h is not the first handle the block freed is the one before it. *)
tw_tx_unregister(h) ==
  /\ h \in Handles("tx")
  /\ \E p \in Pointer :
       /\ Dequeue("tx", h, p)
       /\ rte_free(IF p = NULL THEN h ELSE p)
  /\ active_handles' = (active_handles - 1) % HandleMod

UnregisterTimer(h) ==
  /\ MayUnregister("timer", h)
  /\ tw_timer_unregister(h)
  /\ due' = due \ {h}
  /\ idle' = [idle EXCEPT ![h] = 0]
  /\ fired' = fired \ {h}
  /\ UNCHANGED <<last_run_time, timeout, temp, curr_time_cycle, num_rx_pkts>>

UnregisterTx(h) ==
  /\ MayUnregister("tx", h)
  /\ tw_tx_unregister(h)
  /\ due' = due \ {h}
  /\ UNCHANGED <<last_run_time, timeout, temp, curr_time_cycle, num_rx_pkts, idle, fired>>

(***************************************************************************)
(* tw_run.                                                                 *)
(***************************************************************************)

(* The top of the loop: read the clock and poll the ports if there is an   *)
(* rx handle; n of the packets are IPv4.                                   *)
Poll(d, n) ==
  /\ pc \in {"setup", "top"}
  /\ pc' = "rx"
  /\ curr_time_cycle' = (curr_time_cycle + d) % TimeMod
  /\ num_rx_pkts' = IF head["rx"] # NULL THEN n ELSE 0
  /\ idle' = [b \in Block |->
                IF b \in Handles("timer") /\ idle[b] < TimeMod THEN idle[b] + d
                                                              ELSE idle[b]]
  /\ UNCHANGED <<memory, head, active_handles, temp, due, fired>>

(* Mutant: one packet more than was received is delivered. *)
CallRxMutantOneMore ==
  /\ pc = "rx" /\ num_rx_pkts >= 0
  /\ pc' = "rx_cb"
  /\ num_rx_pkts' = num_rx_pkts - 1
  /\ UNCHANGED <<memory, head, active_handles, temp, curr_time_cycle, history>>

(* Each IPv4 packet goes to the callback of the first rx handle. *)
CallRx ==
  /\ pc = "rx" /\ num_rx_pkts > 0
  /\ pc' = "rx_cb"
  /\ num_rx_pkts' = num_rx_pkts - 1
  /\ UNCHANGED <<memory, head, active_handles, temp, curr_time_cycle, history>>

ReturnRx ==
  /\ pc = "rx_cb"
  /\ pc' = "rx"
  /\ UNCHANGED <<memory, head, active_handles, temp, curr_time_cycle,
                 num_rx_pkts, history>>

(* Mutant: a single handle is not worth a round. *)
BeginTxMutantNeedsTwo ==
  /\ pc = "rx" /\ num_rx_pkts = 0
  /\ \/ /\ active_handles > 1
        /\ pc' = "tx"
        /\ temp' = head["tx"]
        /\ due' = Handles("tx")
     \/ /\ active_handles <= 1
        /\ pc' = "top"
        /\ UNCHANGED <<temp, due>>
  /\ UNCHANGED <<memory, head, active_handles, curr_time_cycle, num_rx_pkts, idle, fired>>

(* Handles are served only while active_handles > 0. *)
BeginTx ==
  /\ pc = "rx" /\ num_rx_pkts = 0
  /\ \/ /\ active_handles > 0
        /\ pc' = "tx"
        /\ temp' = head["tx"]
        /\ due' = Handles("tx")
     \/ /\ active_handles = 0
        /\ pc' = "top"
        /\ UNCHANGED <<temp, due>>
  /\ UNCHANGED <<memory, head, active_handles, curr_time_cycle, num_rx_pkts, idle, fired>>

CallTx ==
  /\ pc = "tx" /\ temp # NULL
  /\ pc' = "tx_cb"
  /\ due' = due \ {temp}
  /\ UNCHANGED <<memory, head, active_handles, temp, curr_time_cycle,
                 num_rx_pkts, idle, fired>>

(* Mutant: `if' in place of `while': only the first handle is served. *)
ReturnTxMutantStops ==
  /\ pc = "tx_cb"
  /\ pc' = "tx"
  /\ last_run_time' = [last_run_time EXCEPT ![temp] = curr_time_cycle]
  /\ temp' = NULL
  /\ UNCHANGED <<next, timeout, live, head, active_handles, curr_time_cycle,
                 num_rx_pkts, history>>

(* After the callback the handle is stamped and its `next' is followed.    *)
ReturnTx ==
  /\ pc = "tx_cb"
  /\ pc' = "tx"
  /\ last_run_time' = [last_run_time EXCEPT ![temp] = curr_time_cycle]
  /\ temp' = next[temp]
  /\ UNCHANGED <<next, timeout, live, head, active_handles, curr_time_cycle,
                 num_rx_pkts, history>>

(* Mutant: the timer walk starts in the tx queue. *)
BeginTimersMutantWrongQueue ==
  /\ pc = "tx" /\ temp = NULL
  /\ pc' = "timer"
  /\ temp' = head["tx"]
  /\ due' = Handles("timer")
  /\ UNCHANGED <<memory, head, active_handles, curr_time_cycle, num_rx_pkts, idle, fired>>

BeginTimers ==
  /\ pc = "tx" /\ temp = NULL
  /\ pc' = "timer"
  /\ temp' = head["timer"]
  /\ due' = Handles("timer")
  /\ UNCHANGED <<memory, head, active_handles, curr_time_cycle, num_rx_pkts, idle, fired>>

(* Mutant: >= for >. *)
ExpiredMutantEarly(h) == (curr_time_cycle - last_run_time[h]) % TimeMod >= timeout[h]

Expired(h) == (curr_time_cycle - last_run_time[h]) % TimeMod > timeout[h]

CallTimer ==
  /\ pc = "timer" /\ temp # NULL /\ Expired(temp)
  /\ pc' = "timer_cb"
  /\ due' = due \ {temp}
  /\ UNCHANGED <<memory, head, active_handles, temp, curr_time_cycle,
                 num_rx_pkts, idle, fired>>

(* Mutant: after a timer has fired the others wait for the next round. *)
ReturnTimerMutantStops ==
  /\ pc = "timer_cb"
  /\ pc' = "timer"
  /\ last_run_time' = [last_run_time EXCEPT ![temp] = curr_time_cycle]
  /\ idle' = [idle EXCEPT ![temp] = 0]
  /\ fired' = fired \cup {temp}
  /\ temp' = NULL
  /\ UNCHANGED <<next, timeout, live, head, active_handles, curr_time_cycle,
                 num_rx_pkts, due>>

ReturnTimer ==
  /\ pc = "timer_cb"
  /\ pc' = "timer"
  /\ last_run_time' = [last_run_time EXCEPT ![temp] = curr_time_cycle]
  /\ idle' = [idle EXCEPT ![temp] = 0]
  /\ fired' = fired \cup {temp}
  /\ temp' = next[temp]
  /\ UNCHANGED <<next, timeout, live, head, active_handles, curr_time_cycle,
                 num_rx_pkts, due>>

(* Mutant: last_run_time is stamped outside the if. *)
SkipTimerMutantStamps ==
  /\ pc = "timer" /\ temp # NULL /\ ~Expired(temp)
  /\ last_run_time' = [last_run_time EXCEPT ![temp] = curr_time_cycle]
  /\ temp' = next[temp]
  /\ due' = due \ {temp}
  /\ UNCHANGED <<next, timeout, live, head, active_handles, pc, curr_time_cycle,
                 num_rx_pkts, idle, fired>>

SkipTimer ==
  /\ pc = "timer" /\ temp # NULL /\ ~Expired(temp)
  /\ temp' = next[temp]
  /\ due' = due \ {temp}
  /\ UNCHANGED <<memory, head, active_handles, pc, curr_time_cycle,
                 num_rx_pkts, idle, fired>>

(* The test of stop_flag is commented out: the loop always goes round. *)
Again ==
  /\ pc = "timer" /\ temp = NULL
  /\ pc' = "top"
  /\ UNCHANGED <<memory, head, active_handles, temp, curr_time_cycle,
                 num_rx_pkts, history>>

-----------------------------------------------------------------------------

Init ==
  /\ next = [b \in Block |-> NULL]
  /\ last_run_time = [b \in Block |-> 0]
  /\ timeout = [b \in Block |-> 0]
  /\ live = {}
  /\ head = [k \in Kind |-> NULL]
  /\ active_handles = 0
  /\ pc = "setup"
  /\ temp = NULL
  /\ curr_time_cycle \in 0..TimeMod-1
  /\ num_rx_pkts = 0
  /\ due = {}
  /\ idle = [b \in Block |-> 0]
  /\ fired = {}

Application ==
  \E b \in Block :
    \/ RegisterRx(b)
    \/ RegisterTx(b)
    \/ \E ms \in Timeouts : RegisterTimer(b, ms)
    \/ UnregisterTimer(b)
    \/ UnregisterTx(b)

tw_run ==
  \/ \E d \in 1..MaxStep, n \in 0..MaxRx : Poll(d, n)
  \/ CallRx \/ ReturnRx
  \/ BeginTx \/ CallTx \/ ReturnTx
  \/ BeginTimers \/ CallTimer \/ ReturnTimer \/ SkipTimer
  \/ Again

Next == Application \/ tw_run

Spec == Init /\ [][Next]_vars

(* tw_run polls without blocking and every callback returns. *)
FairSpec == Spec /\ WF_vars(tw_run)

-----------------------------------------------------------------------------

TypeOK ==
  /\ next \in [Block -> Pointer]
  /\ last_run_time \in [Block -> 0..TimeMod-1]
  /\ timeout \in [Block -> Nat]
  /\ live \subseteq Block
  /\ head \in [Kind -> Pointer]
  /\ active_handles \in 0..HandleMod-1
  /\ pc \in Label
  /\ temp \in Pointer
  /\ curr_time_cycle \in 0..TimeMod-1
  /\ num_rx_pkts \in 0..MaxRx
  /\ due \subseteq Block
  /\ idle \in [Block -> Nat]
  /\ fired \subseteq Block

(* The searches for the end of a queue in tw_tx_init, tw_timer_init and    *)
(* the unregister functions, and the walks of tw_run, come to a NULL: no   *)
(* queue loops back on itself or runs into another queue.                  *)
QueuesAreLists ==
  \A k \in Kind :
    /\ head[k] # NULL => Tails(k) # {}
    /\ \A j \in Kind \ {k} : Handles(j) \cap Handles(k) = {}

(* No queue holds a handle whose memory has been given back to rte_free.   *)
LinkedIsLive == \A k \in Kind : Handles(k) \subseteq live

(* active_handles, which tw_run consults before it serves anyone, is the   *)
(* number of tx and timer handles in the queues (modulo its width).        *)
ActiveCount ==
  active_handles =
    (Cardinality(Handles("tx")) + Cardinality(Handles("timer"))) % HandleMod

(* Between two callbacks tw_run stands on a handle of the queue it walks,  *)
(* or at its end.                                                          *)
WalkStaysInQueue ==
  /\ pc \in {"tx", "tx_cb"} => temp \in Handles("tx") \cup {NULL}
  /\ pc \in {"timer", "timer_cb"} => temp \in Handles("timer") \cup {NULL}

(* A walk ends only when every handle that was in the queue when it began, *)
(* and has not been unregistered since, has been served.                   *)
RoundComplete == pc \in {"tx", "timer"} /\ temp = NULL => due = {}

(* A timer that has fired before fires again exactly at the first round    *)
(* more than its timeout after the last time, whatever the clock reads.    *)
TimerPeriod ==
  [][pc = "timer" /\ temp \in fired =>
       (pc' = "timer_cb" <=> idle[temp] > timeout[temp])]_vars

(* A tx handle that stays registered is called again and again.            *)
TxServed ==
  \A b \in Block :
    b \in Handles("tx") ~> b \notin Handles("tx") \/ (pc = "tx_cb" /\ temp = b)

(* A timer that stays registered fires again and again.                    *)
TimerServed ==
  \A b \in Block :
    b \in Handles("timer") ~>
      b \notin Handles("timer") \/ (pc = "timer_cb" /\ temp = b)

(* The pointers tw_run and the registration functions rely on but never    *)
(* check: memory that is not in a queue has a NULL `next', so a block      *)
(* malloc returns ends the queue it is appended to; no two handles share a *)
(* successor; and what a walk has yet to serve lies ahead of it.           *)
LoopInv ==
  /\ live = UNION {Handles(k) : k \in Kind}
  /\ \A b \in Block \ live : next[b] = NULL
  /\ \A b, c \in Block : next[b] = next[c] /\ next[b] # NULL => b = c
  /\ pc # "panic"
  /\ pc \in {"setup", "top", "rx", "rx_cb"} => temp = NULL
  /\ pc \in {"tx", "timer"} => due \subseteq Reach(next, temp)
  /\ pc \in {"tx_cb", "timer_cb"} => temp # NULL /\ due \subseteq Reach(next, next[temp])

(***************************************************************************)
(* The refinement mapping to HandleServer: what a walk has yet to visit is *)
(* what the pointers reach from where it stands.                           *)
(***************************************************************************)
Ahead ==
  CASE pc \in {"tx", "timer"} -> Reach(next, temp)
    [] pc \in {"tx_cb", "timer_cb"} -> Reach(next, next[temp])
    [] OTHER -> {}

Phase ==
  CASE pc \in {"tx", "tx_cb"} -> "tx"
    [] pc \in {"timer", "timer_cb"} -> "timer"
    [] OTHER -> "idle"

Current == IF pc \in {"tx_cb", "timer_cb"} THEN temp ELSE NULL

Server ==
  INSTANCE HandleServer WITH
    Handle <- Block, None <- NULL, registered <- [k \in Kind |-> Handles(k)],
    phase <- Phase, ahead <- Ahead, current <- Current

(* The lists, the recycled memory and the pointer tw_run holds across its  *)
(* callbacks amount to sets of handles served in rounds: every handle once *)
(* per round, whatever callbacks register and unregister meanwhile.        *)
ServesHandles == Server!Spec

(* A timer does not fire before its timeout has passed since it was        *)
(* started or last fired (tw_api.h: "time in seconds, after which timer    *)
(* event is fired").                                                       *)
TimerNotEarly ==
  [][pc = "timer" /\ pc' = "timer_cb" => idle[temp] > timeout[temp]]_vars
=============================================================================
