------------------------------ MODULE TxBuffers ------------------------------
(***************************************************************************)
(* The transmit path of rxtxmodule/tx.c and the packet memory behind it.   *)
(* Every core keeps, for every port, a table of packets to send; the table *)
(* is handed to the network card when it is full, and otherwise when       *)
(* tw_timely_burst finds that enough time has passed.  A packet (an mbuf)  *)
(* is in the pool, in the hands of the application code of a core, in a    *)
(* table, or in the transmit ring of a card.                               *)
(*                                                                         *)
(* The functions of one core run to completion; cores interleave.  A core  *)
(* sends on the ports mapped to its engine: a transmit queue of a card     *)
(* belongs to one core.  pool stands for all mempools.  The statistics     *)
(* tw_send_burst keeps are not modelled here.                              *)
(***************************************************************************)
EXTENDS Integers, Sequences, FiniteSets, SequencesExt

CONSTANTS
  Lcore,       \* the cores that run an event loop
  Mbuf,        \* the packets of the pool
  NumPorts,    \* ports have the ids 0..NumPorts-1
  Managed,     \* managed_port of each core: the ports mapped to its engine
  MaxBurst,    \* MAX_TX_PKT_BURST
  DrainTsc,    \* drain_tsc: BURST_TX_DRAIN_US in cycles
  TscMod,      \* the time stamps count modulo this (unsigned: 2^32)
  MaxStep      \* one round of an event loop takes 1..MaxStep cycles

ASSUME TxAssumption ==
  /\ NumPorts \in Nat \ {0}
  /\ Managed \in [Lcore -> Seq(0..NumPorts-1)]
  /\ \A k, l \in Lcore : k # l => ToSet(Managed[k]) \cap ToSet(Managed[l]) = {}
  /\ MaxBurst \in Nat \ {0}
  /\ DrainTsc \in Nat
  /\ TscMod \in Nat \ {0}
  /\ MaxStep \in Nat \ {0}

VARIABLES
  pool,       \* free mbufs
  held,       \* held[l]: mbufs the application code on core l works on
  tx_mbufs,   \* tx_mbufs[l][p]: the table of core l for port p
  ring,       \* ring[p]: what rte_eth_tx_burst has taken and not sent yet
  tsc,        \* the time stamp counter
  prev_tsc,   \* when a timely burst last sent something, on any core
  inflight    \* history: what core l has given to port p, oldest first, and
              \* is not back in the pool

txvars == <<pool, held, tx_mbufs, ring, tsc, prev_tsc, inflight>>

Port == 0..NumPorts-1
num_port(l) == Len(Managed[l])
NoPkts == [p \in Port |-> <<>>]

(* Packets that have gone back to the pool are no longer in flight. *)
Forget(f) ==
  inflight' = [l \in Lcore |-> [p \in Port |->
                 SelectSeq(f[l][p], LAMBDA m : m \notin pool')]]

(***************************************************************************)
(* tw_send_burst for the packets b[p] of every port p: the card takes the  *)
(* first r[p] of them (rte_eth_tx_burst), the rest joins the free mbufs.   *)
(***************************************************************************)
Accepts(b) == {r \in [Port -> 0..MaxBurst] : \A p \in Port : r[p] <= Len(b[p])}

(* Mutant: what the card refuses is forgotten. *)
tw_send_burstMutantLeaks(b, r, free) ==
  /\ ring' = [p \in Port |-> ring[p] \o SubSeq(b[p], 1, r[p])]
  /\ pool' = free

tw_send_burst(b, r, free) ==
  /\ ring' = [p \in Port |-> ring[p] \o SubSeq(b[p], 1, r[p])]
  /\ pool' = free \cup UNION {ToSet(SubSeq(b[p], r[p] + 1, Len(b[p]))) : p \in Port}

(* Mutant: the table is sent one packet too late. *)
FullMutantLate(s) == Len(s) > MaxBurst

(* Enough packets to be sent. *)
Full(s) == Len(s) = MaxBurst

(* Mutant: a new packet overtakes the table. *)
AddMutantInFront(s, m) == <<m>> \o s

(* m_table[len] = m; len++ *)
Add(s, m) == Append(s, m)

tw_add_pkt_to_tx_queue(l, m, p, free) ==
  LET s == Add(tx_mbufs[l][p], m) IN
  /\ \/ /\ Full(s)
        /\ LET b == [NoPkts EXCEPT ![p] = s]
           IN  \E r \in Accepts(b) : tw_send_burst(b, r, free)
        /\ tx_mbufs' = [tx_mbufs EXCEPT ![l][p] = <<>>]
     \/ /\ ~Full(s)
        /\ tx_mbufs' = [tx_mbufs EXCEPT ![l][p] = s]
        /\ pool' = free
        /\ UNCHANGED ring
  /\ Forget([inflight EXCEPT ![l][p] = Append(@, m)])

(***************************************************************************)
(* The application code of core l.                                         *)
(***************************************************************************)
tw_app_get_buffer(l, m) ==
  /\ m \in pool
  /\ pool' = pool \ {m}
  /\ held' = [held EXCEPT ![l] = @ \cup {m}]
  /\ UNCHANGED <<tx_mbufs, ring, tsc, prev_tsc, inflight>>

tw_free_pkt(l, m) ==
  /\ m \in held[l]
  /\ pool' = pool \cup {m}
  /\ held' = [held EXCEPT ![l] = @ \ {m}]
  /\ UNCHANGED <<tx_mbufs, ring, tsc, prev_tsc, inflight>>

tw_send_pkt(l, m, p) ==
  /\ m \in held[l]
  /\ held' = [held EXCEPT ![l] = @ \ {m}]
  /\ tw_add_pkt_to_tx_queue(l, m, p, pool)
  /\ UNCHANGED <<tsc, prev_tsc>>

(***************************************************************************)
(* tw_run calls this once in every round, d cycles after the last one.     *)
(* portid runs over 0..num_port-1, whatever the ids of the managed ports.  *)
(***************************************************************************)
(* Mutant: the last port is left out. *)
WaitingMutantNotLast(l) == {p \in Port : p + 1 < num_port(l) /\ tx_mbufs[l][p] # <<>>}

Waiting(l) == {p \in Port : p < num_port(l) /\ tx_mbufs[l][p] # <<>>}

(* Mutant: the time stamp is kept in full. *)
rte_rdtscMutantWide(d) == tsc + d

(* cur_tsc is an unsigned, narrower than what rte_rdtsc returns. *)
rte_rdtsc(d) == (tsc + d) % TscMod

tw_timely_burst(l, d) ==
  LET cur_tsc == rte_rdtsc(d)
      b == [p \in Port |-> IF p \in Waiting(l) THEN tx_mbufs[l][p] ELSE <<>>]
  IN  /\ tsc' = cur_tsc
      /\ \/ /\ (cur_tsc - prev_tsc) % TscMod > DrainTsc
            /\ Waiting(l) # {}
            /\ \E r \in Accepts(b) : tw_send_burst(b, r, pool)
            /\ tx_mbufs' = [tx_mbufs EXCEPT ![l] =
                              [p \in Port |-> IF p \in Waiting(l) THEN <<>> ELSE @[p]]]
            /\ prev_tsc' = cur_tsc
         \/ /\ \/ (cur_tsc - prev_tsc) % TscMod <= DrainTsc
               \/ Waiting(l) = {}
            /\ UNCHANGED <<ring, pool, tx_mbufs, prev_tsc>>
      /\ Forget(inflight)
      /\ UNCHANGED held

(* The card has sent the oldest packet of its ring; the driver frees it. *)
Transmitted(p) ==
  /\ ring[p] # <<>>
  /\ ring' = [ring EXCEPT ![p] = Tail(@)]
  /\ pool' = pool \cup {Head(ring[p])}
  /\ Forget(inflight)
  /\ UNCHANGED <<held, tx_mbufs, tsc, prev_tsc>>

-----------------------------------------------------------------------------

TxInit ==
  /\ pool = Mbuf
  /\ held = [l \in Lcore |-> {}]
  /\ tx_mbufs = [l \in Lcore |-> NoPkts]
  /\ ring = NoPkts
  /\ tsc \in 0..TscMod-1
  /\ prev_tsc = 0
  /\ inflight = [l \in Lcore |-> NoPkts]

Loop(l) == \E d \in 1..MaxStep : tw_timely_burst(l, d)

TxNext ==
  \/ \E l \in Lcore, m \in Mbuf :
       \/ tw_app_get_buffer(l, m)
       \/ tw_free_pkt(l, m)
       \/ \E p \in ToSet(Managed[l]) : tw_send_pkt(l, m, p)
  \/ \E l \in Lcore : Loop(l)
  \/ \E p \in Port : Transmitted(p)

TxSpec == TxInit /\ [][TxNext]_txvars

(* Every core keeps polling and every card keeps sending. *)
TxFairSpec ==
  /\ TxSpec
  /\ \A l \in Lcore : WF_txvars(Loop(l))
  /\ \A p \in Port : WF_txvars(Transmitted(p))

-----------------------------------------------------------------------------

TxTypeOK ==
  /\ pool \subseteq Mbuf
  /\ held \in [Lcore -> SUBSET Mbuf]
  /\ tx_mbufs \in [Lcore -> [Port -> Seq(Mbuf)]]
  /\ ring \in [Port -> Seq(Mbuf)]
  /\ tsc \in 0..TscMod-1
  /\ prev_tsc \in 0..TscMod-1
  /\ inflight \in [Lcore -> [Port -> Seq(Mbuf)]]

(* tw_add_pkt_to_tx_queue writes m_table[len] before it looks at len: the  *)
(* table must have room whenever it is called.                             *)
TableHasRoom == \A l \in Lcore, p \in Port : Len(tx_mbufs[l][p]) < MaxBurst

(* Where an mbuf is. *)
Places(m) ==
  {<<"pool">> : x \in pool \cap {m}}
    \cup {<<"held", l>> : l \in {k \in Lcore : m \in held[k]}}
    \cup UNION {{<<"table", l, p, i>> : i \in {j \in DOMAIN tx_mbufs[l][p] :
                                               tx_mbufs[l][p][j] = m}} :
                l \in Lcore, p \in Port}
    \cup UNION {{<<"ring", p, i>> : i \in {j \in DOMAIN ring[p] : ring[p][j] = m}} :
                p \in Port}

(* No packet is lost and none is in two places: what tw_send_burst frees   *)
(* is what the card refused, and a table is emptied when it is sent.       *)
OneOwner == \A m \in Mbuf : Cardinality(Places(m)) = 1

(* What a core sends to a port leaves in the order it was sent, except for *)
(* packets the card refused.                                               *)
Fifo ==
  \A l \in Lcore, p \in Port :
    inflight[l][p] =
      SelectSeq(ring[p] \o tx_mbufs[l][p], LAMBDA m : m \in ToSet(inflight[l][p]))

(* A packet does not stay in the table of a port its core manages: the     *)
(* application need not fill the table to have it sent (tx.h: "Used to     *)
(* send bursts if certain time has passed").                               *)
TableDrains ==
  \A l \in Lcore : \A p \in ToSet(Managed[l]) : \A m \in Mbuf :
    m \in ToSet(tx_mbufs[l][p]) ~> m \notin ToSet(tx_mbufs[l][p])
=============================================================================
