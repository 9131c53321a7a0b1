------------------------------ MODULE NetStack ------------------------------
(***************************************************************************)
(* A core that receives and sends on one port: the receive path            *)
(* (rxtxmodule/rx.c and the dispatch in tw_run, event/event_loop.c), ARP   *)
(* and pending packets (Arp), the transmit tables (TxBuffers) and the      *)
(* callback of an echo application (twudpecho.c, twicmpecho.c).  An mbuf   *)
(* is filled by the card, read in a burst, and then sent back, freed or    *)
(* forgotten by the code that handles its kind.                            *)
(***************************************************************************)
EXTENDS Arp

CONSTANTS
  Traffic,      \* the frames that arrive
  RxRing,       \* nb_rxd, the receive descriptors of the card
  MaxRxBurst    \* MAX_RX_PKT_BURST

ASSUME NetAssumption ==
  /\ Traffic \subseteq [op : {"ip", "request", "reply", "other"}, tags : Nat,
                       sip : Nat \X Nat, sha : Mac, tip : Nat \X Nat, dst : Address]
  /\ RxRing \in Nat
  /\ MaxRxBurst \in Nat \ {0}

VARIABLES
  rx,        \* filled mbufs in the card's receive ring
  m_table    \* the rest of the burst tw_run dispatches

vars == <<txvars, arpvars, rx, m_table>>

(* The card stores a frame in a free mbuf. *)
Receive(m, f) ==
  /\ m \in pool /\ Len(rx) < RxRing
  /\ pool' = pool \ {m}
  /\ rx' = Append(rx, m)
  /\ frame' = [frame EXCEPT ![m] = f]
  /\ UNCHANGED <<held, tx_mbufs, ring, tsc, prev_tsc, inflight>>
  /\ UNCHANGED <<arp_table, queue, total_queued_pkts, curr, leaked, m_table>>

(* Mutant: one packet less when more wait than are asked for. *)
tw_get_pkt_from_rx_queueMutantShort(n) == IF n < Len(rx) THEN n - 1 ELSE n

(* rte_eth_rx_burst returns as many packets as there are, up to n.         *)
tw_get_pkt_from_rx_queue(n) == IF n < Len(rx) THEN n ELSE Len(rx)

(* One port, one queue: the burst for tw_run.                              *)
tw_rx_for_each_queue ==
  /\ curr = 0 /\ m_table = <<>> /\ rx # <<>>
  /\ m_table' = SubSeq(rx, 1, tw_get_pkt_from_rx_queue(MaxRxBurst))
  /\ rx' = SubSeq(rx, Len(m_table') + 1, Len(rx))
  /\ UNCHANGED <<txvars, arpvars>>

(* Mutant: the source address is overwritten before it is copied. *)
reply_payloadMutantOrder(l, m, f) ==
  /\ tw_add_pkt_to_tx_queue(l, m, 0, pool)
  /\ Write([frame EXCEPT ![m] = Packet("echo", f.tip, MyMac, f.sip, MyMac)])

(* The callback of an echo application sends the packet back. *)
reply_payload(l, m, f) ==
  /\ tw_add_pkt_to_tx_queue(l, m, 0, pool)
  /\ Write([frame EXCEPT ![m] = Packet("echo", f.tip, MyMac, f.sip, f.sha)])

(* Mutant: one VLAN tag is removed. *)
rte_vlan_stripMutantOnce(f) ==
  IF f.tags > 1 THEN [f EXCEPT !.op = "other", !.tags = @ - 1] ELSE [f EXCEPT !.tags = 0]

(* goto label: tags are removed until there are none. *)
rte_vlan_strip(f) == [f EXCEPT !.tags = 0]

(* The switch on the type of one packet; it has no default case.           *)
Dispatch(l) ==
  LET m == Head(m_table)
      f == rte_vlan_strip(frame[m])
  IN  /\ curr = 0 /\ m_table # <<>>
      /\ m_table' = Tail(m_table)
      /\ \/ /\ f.op \in {"request", "reply"}
            /\ tw_parse_arp(l, m, f)
            /\ UNCHANGED leaked
         \/ /\ f.op = "ip"
            /\ reply_payload(l, m, f)
            /\ UNCHANGED <<arp_table, leaked>>
         \/ /\ f.op = "other"
            /\ leaked' = leaked \cup {m}
            /\ UNCHANGED <<pool, tx_mbufs, ring, inflight, frame, arp_table>>
      /\ UNCHANGED <<held, tsc, prev_tsc, queue, total_queued_pkts, curr, rx>>

-----------------------------------------------------------------------------

Init == TxInit /\ ArpInit /\ rx = <<>> /\ m_table = <<>>

(* What the event loop and the card do for any packet. *)
Transport ==
  /\ \/ \E l \in Lcore : curr = 0 /\ m_table = <<>> /\ Loop(l)
     \/ \E l \in Lcore, m \in Mbuf :
          curr = 0 /\ m_table = <<>> /\ (tw_app_get_buffer(l, m) \/ tw_free_pkt(l, m))
     \/ \E p \in Port : Transmitted(p)
  /\ Write(frame)
  /\ UNCHANGED <<arp_table, queue, total_queued_pkts, curr, leaked, rx, m_table>>

(* What the tx and timer callbacks of an application do. *)
Application(l, m) ==
  /\ m_table = <<>>
  /\ \/ \E ip \in Neighbour : tw_send_arp_request(l, m, ip)
     \/ \E dst \in Ip \ {MyIp} : tw_eth_pkt_ctor(l, m, dst)
  /\ UNCHANGED <<rx, m_table>>

Maintain == m_table = <<>> /\ Update /\ UNCHANGED <<rx, m_table>>

Clock == Second /\ UNCHANGED <<rx, m_table>>

Poll == tw_rx_for_each_queue \/ \E l \in Lcore : Dispatch(l)

Next ==
  \/ Transport
  \/ \E l \in Lcore, m \in Mbuf : Application(l, m)
  \/ \E m \in Mbuf, f \in Traffic : Receive(m, f)
  \/ Poll
  \/ Maintain
  \/ Clock

Spec == Init /\ [][Next]_vars

(***************************************************************************)
(* tw_run polls in every round, the queue is updated again and again, and  *)
(* time passes between updates.  The fairness is strong because a burst    *)
(* being dispatched and an update in progress disable each other and the   *)
(* clock in the model, and tw_run comes to each of them in turn.           *)
(***************************************************************************)
FairSpec == Spec /\ SF_vars(Poll) /\ SF_vars(Maintain) /\ SF_vars(Clock)

-----------------------------------------------------------------------------

NetTypeOK ==
  /\ TxTypeOK /\ ArpTypeOK
  /\ rx \in Seq(Mbuf) /\ Len(rx) <= RxRing
  /\ m_table \in Seq(Mbuf) /\ Len(m_table) <= MaxRxBurst

Uses(s, m) == Cardinality({i \in DOMAIN s : s[i] = m})

(* A packet, received or made by the application, is in one place: what    *)
(* tw_run, tw_parse_arp and tw_update_queued_pkts take is sent or freed,   *)
(* once ("If timestamp has expired, the packet will be deleted. If ARP     *)
(* reply for queued packet has arrived and added in ARP table, the packet  *)
(* will be sent.").                                                        *)
OwnedOrPending ==
  \A m \in Mbuf :
    Cardinality(Places(m)) + Uses([i \in DOMAIN queue |-> queue[i].pkt], m)
      + Uses(rx, m) + Uses(m_table, m) = IF m \in leaked THEN 0 ELSE 1

(* The only packets the code forgets: frames that are neither ARP nor IPv4 *)
(* below their VLAN tags, and packets for which the queue cannot allocate  *)
(* an entry.                                                               *)
LeaksKnown ==
  \A m \in leaked : frame[m].op = "other" \/ (MallocMayFail /\ frame[m].op = "none")

(* ARP replies and echoed packets go to the host that sent the request or  *)
(* the packet, untagged and in the name of the port, although the answer   *)
(* is written over the question and bursts interleave with other traffic.  *)
Answers ==
  \A m \in Outgoing :
    frame[m].op \in {"reply", "echo"} =>
      /\ frame[m].sip = Swap(MyIp) /\ frame[m].sha = MyMac /\ frame[m].tags = 0
      /\ \E f \in Traffic :
           /\ f.op = IF frame[m].op = "reply" THEN "request" ELSE "ip"
           /\ f.tip = Swap(MyIp)
           /\ f.sip = frame[m].tip /\ f.sha = frame[m].dst

(* A received packet is dispatched, whatever else the loop has to do.      *)
RxServed == \A m \in Mbuf : m \in ToSet(rx) ~> m \notin ToSet(rx \o m_table)
=============================================================================
