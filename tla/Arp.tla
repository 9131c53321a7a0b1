--------------------------------- MODULE Arp ---------------------------------
(***************************************************************************)
(* Address resolution: the ARP table and the handling of ARP packets       *)
(* (arp/arplogic.c), the construction of Ethernet frames (ethernet/eth.c)  *)
(* and the packets that wait for an address (rxtxmodule/queued_pkts.c),    *)
(* on top of the transmit tables of TxBuffers.  NetStack adds the receive  *)
(* path and has the specification.                                         *)
(*                                                                         *)
(* An address is a pair of bytes, so that the conversions between host and *)
(* network byte order are what they are: a swap.                           *)
(***************************************************************************)
EXTENDS TxBuffers

CONSTANTS
  Ip,             \* addresses (host order) of the port and the other hosts
  Neighbour,      \* the addresses of the hosts on the link, which speak ARP
  Mac,            \* the peers' Ethernet addresses
  MyIp,           \* start_ip_addr of the port
  MyMac,          \* its eth_mac
  Subnet,         \* the addresses that share MyIp's subnet
  Gateway,        \* gateway_ip
  Broadcast,      \* broadcastmac
  NoMac,          \* a d_addr that has not been written
  MaxQueued,      \* MAX_QUEUED_PKTS
  QueuedMod,      \* total_queued_pkts counts modulo this (uint32_t: 2^32)
  TimeLimit,      \* queued_pkt_time_limit (seconds)
  MaxPending,     \* an application lets at most this many packets wait
  MallocMayFail   \* whether rte_malloc may return NULL

ASSUME ArpAssumption ==
  /\ Ip \subseteq Nat \X Nat
  /\ MyIp \in Ip /\ Gateway \in Ip /\ Subnet \subseteq Ip
  /\ Neighbour \subseteq Ip \ {MyIp}
  /\ {MyMac, Broadcast, NoMac} \cap Mac = {}
  /\ MaxQueued \in Nat
  /\ QueuedMod \in Nat \ {0}
  /\ TimeLimit \in Nat
  /\ MaxPending \in Nat
  /\ MallocMayFail \in BOOLEAN

VARIABLES
  frame,               \* the contents of each mbuf
  arp_table,           \* a sequence of entries
  queue,               \* the list root_queued_pkt
  total_queued_pkts,
  curr,                \* curr_queued_pkt as an index of queue; 0 when
                       \* tw_update_queued_pkts is not running
  leaked               \* history: the packets the code forgets knowingly

arpvars == <<frame, arp_table, queue, total_queued_pkts, curr, leaked>>

(* rte_cpu_to_be_32 and rte_be_to_cpu_32 *)
Swap(a) == <<a[2], a[1]>>

(* Mutant: the table is searched in network order. *)
tw_search_arp_tableMutantOrder(be) == SelectInSeq(arp_table, LAMBDA e : e.ip = be)

(* The position of the entry of an address in network order, 0 if none.    *)
tw_search_arp_table(be) == SelectInSeq(arp_table, LAMBDA e : e.ip = Swap(be))

tw_add_arp_entry(be, mac) ==
  arp_table' = Append(arp_table, [ip |-> Swap(be), mac |-> mac])

(* Mutant: every ARP packet adds an entry. *)
LearnMutantAlways(be, mac) == tw_add_arp_entry(be, mac)

(* tw_parse_arp and tw_process_arp_reply add an entry only for an address  *)
(* that has none.                                                          *)
Learn(be, mac) ==
  IF tw_search_arp_table(be) = 0 THEN tw_add_arp_entry(be, mac) ELSE UNCHANGED arp_table

(***************************************************************************)
(* A frame: the kind of packet, its VLAN tags, the sender's and the target's  *)
(* IP address in network order, the sender's Ethernet address and the      *)
(* destination's.                                                          *)
(***************************************************************************)
Packet(op, sip, sha, tip, dst) ==
  [op |-> op, tags |-> 0, sip |-> sip, sha |-> sha, tip |-> tip, dst |-> dst]

Address == Mac \cup {MyMac, Broadcast, NoMac}

Frame == [op : {"none", "ip", "request", "reply", "echo", "other"}, tags : Nat,
          sip : Nat \X Nat, sha : Address, tip : Nat \X Nat, dst : Address]

Blank == Packet("none", MyIp, NoMac, MyIp, NoMac)

(* The frames after a step that wrote fr; nobody reads a free mbuf. *)
Write(fr) == frame' = [m \in Mbuf |-> IF m \in pool' THEN Blank ELSE fr[m]]

(***************************************************************************)
(* The ARP packet f in the mbuf m, which tw_run has received on core l.    *)
(***************************************************************************)
tw_send_arp_reply(l, m, f) ==
  /\ tw_add_pkt_to_tx_queue(l, m, 0, pool)
  /\ Write([frame EXCEPT ![m] = Packet("reply", Swap(MyIp), MyMac, f.sip, f.sha)])

rte_pktmbuf_free(m) ==
  /\ pool' = pool \cup {m}
  /\ Write(frame)
  /\ UNCHANGED <<tx_mbufs, ring, inflight>>

tw_process_arp_reply(m, f) ==
  /\ Learn(f.sip, f.sha)
  /\ rte_pktmbuf_free(m)

tw_parse_arp(l, m, f) ==
  \/ /\ f.op = "request" /\ Swap(f.tip) = MyIp
     /\ Learn(f.sip, f.sha)
     /\ tw_send_arp_reply(l, m, f)
  \/ /\ f.op = "request" /\ Swap(f.tip) # MyIp
     /\ rte_pktmbuf_free(m)
     /\ UNCHANGED arp_table
  \/ f.op = "reply" /\ tw_process_arp_reply(m, f)

(* A request for the address ip, in an mbuf a taken from the free ones.    *)
tw_construct_arp_packet(l, a, ip, fr) ==
  /\ a \in pool
  /\ tw_add_pkt_to_tx_queue(l, a, 0, pool \ {a})
  /\ Write([fr EXCEPT ![a] = Packet("request", Swap(MyIp), MyMac, Swap(ip), Broadcast)])

tw_send_arp_request(l, a, ip) ==
  /\ curr = 0
  /\ tw_construct_arp_packet(l, a, ip, frame)
  /\ UNCHANGED <<held, tsc, prev_tsc, arp_table, queue, total_queued_pkts, curr, leaked>>

(***************************************************************************)
(* Sending the packet m, which core l holds, to the host dst.              *)
(***************************************************************************)
ArpIp(dst) == IF dst \in Subnet THEN dst ELSE Gateway

(* The packet m waits for ip if the count allows it. *)
tw_add_pkt_to_queue(m, ip) ==
  /\ total_queued_pkts < MaxQueued /\ Len(queue) < MaxPending
  /\ queue' = Append(queue, [pkt |-> m, arp_ip |-> Swap(ip), age |-> 0])
  /\ total_queued_pkts' = (total_queued_pkts + 1) % QueuedMod

Refuse(m) ==
  /\ total_queued_pkts >= MaxQueued
  /\ rte_pktmbuf_free(m)

(* The request needs a free mbuf: the code does not survive without one. *)
tw_eth_pkt_ctor(l, m, dst) ==
  LET ip == ArpIp(dst)
      i == tw_search_arp_table(Swap(ip))
      Sent(mac) == [frame EXCEPT ![m] = Packet("ip", Swap(MyIp), MyMac, Swap(ip), mac)]
  IN  /\ curr = 0 /\ m \in held[l]
      /\ held' = [held EXCEPT ![l] = @ \ {m}]
      /\ \/ /\ i = 0
            /\ tw_add_pkt_to_queue(m, ip)
            /\ \E a \in pool : tw_construct_arp_packet(l, a, ip, Sent(NoMac))
            /\ UNCHANGED leaked
         \/ /\ i = 0
            /\ Refuse(m)
            /\ UNCHANGED <<queue, total_queued_pkts, leaked>>
         \/ /\ i = 0 /\ total_queued_pkts < MaxQueued /\ MallocMayFail
            /\ leaked' = leaked \cup {m}
            /\ UNCHANGED <<pool, tx_mbufs, ring, inflight, frame, queue, total_queued_pkts>>
         \/ /\ i # 0
            /\ tw_add_pkt_to_tx_queue(l, m, 0, pool)
            /\ Write(Sent(arp_table[i].mac))
            /\ UNCHANGED <<queue, total_queued_pkts, leaked>>
      /\ UNCHANGED <<tsc, prev_tsc, arp_table, curr>>

(***************************************************************************)
(* tw_update_queued_pkts, one iteration of its loop at a time.  Its prev   *)
(* pointer stays at the root of the list: taking a later packet out of the *)
(* list takes out every packet between the root and that one.              *)
(***************************************************************************)
(* Mutant: the root goes too. *)
LeftMutantNoRoot(q, i) == SubSeq(q, i + 1, Len(q))

Left(q, i) == IF i = 1 THEN Tail(q) ELSE <<Head(q)>> \o SubSeq(q, i + 1, Len(q))

(* Mutant: curr_queued_pkt is not advanced to the packet after the one deleted. *)
tw_delete_queued_pktMutantStays(more) ==
  /\ queue' = Left(queue, curr)
  /\ curr' = curr
  /\ total_queued_pkts' = (total_queued_pkts - (1 + more)) % QueuedMod

(* The decrement of the caller is added to the one of the function. *)
tw_delete_queued_pkt(more) ==
  /\ queue' = Left(queue, curr)
  /\ curr' = IF curr = Len(queue) THEN 0 ELSE IF curr = 1 THEN 1 ELSE 2
  /\ total_queued_pkts' = (total_queued_pkts - (1 + more)) % QueuedMod

Begin ==
  /\ curr = 0 /\ queue # <<>>
  /\ curr' = 1
  /\ UNCHANGED <<txvars, frame, arp_table, queue, total_queued_pkts, leaked>>

tw_send_queued_pkt(l, mac) ==
  LET m == queue[curr].pkt
  IN  /\ tw_delete_queued_pkt(1)
      /\ tw_add_pkt_to_tx_queue(l, m, 0, pool)
      /\ Write([frame EXCEPT ![m].dst = mac])

(* Mutant: no packet is ever too old. *)
YoungMutantAlways(e) == e.age <= TimeLimit

Young(e) == e.age < TimeLimit

tw_update_queued_pkts(l) ==
  /\ curr # 0
  /\ LET e == queue[curr]
         i == tw_search_arp_table(e.arp_ip)
     IN  \/ /\ Young(e) /\ i # 0
            /\ tw_send_queued_pkt(l, arp_table[i].mac)
         \/ /\ Young(e) /\ i = 0
            /\ curr' = IF Len(queue) = curr THEN 0 ELSE curr + 1
            /\ UNCHANGED <<pool, tx_mbufs, ring, inflight, frame, queue, total_queued_pkts>>
         \/ /\ ~Young(e)
            /\ rte_pktmbuf_free(e.pkt)
            /\ tw_delete_queued_pkt(0)
  /\ UNCHANGED <<held, tsc, prev_tsc, arp_table, leaked>>

(* A second passes. *)
Second ==
  /\ curr = 0
  /\ \E i \in DOMAIN queue : queue[i].age < TimeLimit
  /\ queue' = [i \in DOMAIN queue |->
                 [queue[i] EXCEPT !.age = IF @ < TimeLimit THEN @ + 1 ELSE @]]
  /\ UNCHANGED <<txvars, frame, arp_table, total_queued_pkts, curr, leaked>>

-----------------------------------------------------------------------------

ArpInit ==
  /\ frame = [m \in Mbuf |-> Blank]
  /\ arp_table = <<>>
  /\ queue = <<>>
  /\ total_queued_pkts = 0
  /\ curr = 0
  /\ leaked = {}

Update == Begin \/ \E l \in Lcore : tw_update_queued_pkts(l)

-----------------------------------------------------------------------------

Entry == [pkt : Mbuf, arp_ip : {Swap(a) : a \in Ip}, age : 0..TimeLimit]

ArpTypeOK ==
  /\ frame \in [Mbuf -> Frame]
  /\ arp_table \in Seq([ip : Ip, mac : Mac])
  /\ queue \in Seq(Entry)
  /\ total_queued_pkts \in 0..QueuedMod-1
  /\ curr \in 0..Len(queue)
  /\ leaked \subseteq Mbuf

(* An address has at most one entry, however requests and replies arrive.  *)
TableUnique ==
  \A i, j \in DOMAIN arp_table : arp_table[i].ip = arp_table[j].ip => i = j

Outgoing == UNION ({ToSet(ring[p]) : p \in Port}
                     \cup {ToSet(tx_mbufs[l][p]) : l \in Lcore, p \in Port})

(* Every IP packet on its way to the card, whether it was sent at once or  *)
(* waited in the queue, carries the Ethernet address of its next hop.      *)
Addressed ==
  \A m \in Outgoing :
    frame[m].op = "ip" =>
      \E i \in DOMAIN arp_table :
        arp_table[i].ip = Swap(frame[m].tip) /\ arp_table[i].mac = frame[m].dst

Pending(m) == \E i \in DOMAIN queue : queue[i].pkt = m

(* A packet does not wait for ever. *)
PendingLeaves == \A m \in Mbuf : Pending(m) ~> ~Pending(m)
=============================================================================
