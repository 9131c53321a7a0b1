--------------------------- MODULE NetStackProofs ---------------------------
(***************************************************************************)
(* Two properties the code of the network stack relies on and never        *)
(* checks, for any number of cores, ports, packets and hosts: a transmit   *)
(* table has room when a packet is stored in it, and an address has one    *)
(* entry in the ARP table.                                                 *)
(***************************************************************************)
EXTENDS NetStack, SequenceTheorems, WellFoundedInduction, TLAPS

(***************************************************************************)
(* The transmit tables.                                                    *)
(***************************************************************************)

(* The inductive form of TableHasRoom. *)
Tables ==
  /\ held \in [Lcore -> SUBSET Mbuf]
  /\ tx_mbufs \in [Lcore -> [Port -> Seq(Mbuf)]]
  /\ TableHasRoom

(* tw_add_pkt_to_tx_queue keeps the room: it empties the table that the    *)
(* packet fills.                                                           *)
LEMMA AddKeepsRoom ==
  ASSUME tx_mbufs \in [Lcore -> [Port -> Seq(Mbuf)]], TableHasRoom,
         NEW l \in Lcore, NEW m \in Mbuf, NEW p \in Port, NEW free,
         tw_add_pkt_to_tx_queue(l, m, p, free)
  PROVE  tx_mbufs' \in [Lcore -> [Port -> Seq(Mbuf)]] /\ TableHasRoom'
<1> DEFINE s == Append(tx_mbufs[l][p], m)
<1>1. /\ MaxBurst \in Nat \ {0}
      /\ tx_mbufs[l][p] \in Seq(Mbuf) /\ Len(tx_mbufs[l][p]) < MaxBurst
  BY TxAssumption DEF TableHasRoom
<1>2. s \in Seq(Mbuf) /\ Len(s) = Len(tx_mbufs[l][p]) + 1 /\ Len(s) \in Nat
      /\ <<>> \in Seq(Mbuf) /\ Len(<<>>) = 0
  BY <1>1
<1>3. PICK t \in Seq(Mbuf) : Len(t) < MaxBurst /\ tx_mbufs' = [tx_mbufs EXCEPT ![l][p] = t]
  <2>1. CASE Len(s) = MaxBurst
    <3>1. tx_mbufs' = [tx_mbufs EXCEPT ![l][p] = <<>>]
      BY <2>1 DEF tw_add_pkt_to_tx_queue, Full, Add
    <3>2. Len(<<>>) < MaxBurst
      BY <1>1, <1>2
    <3> QED  BY <1>2, <3>1, <3>2, Zenon
  <2>2. CASE Len(s) # MaxBurst
    <3>1. tx_mbufs' = [tx_mbufs EXCEPT ![l][p] = s]
      BY <2>2 DEF tw_add_pkt_to_tx_queue, Full, Add
    <3>2. Len(s) < MaxBurst
      BY <1>1, <1>2, <2>2
    <3> QED  BY <1>2, <3>1, <3>2, Zenon
  <2> QED  BY <2>1, <2>2
<1>4. ASSUME NEW k \in Lcore, NEW q \in Port
      PROVE  tx_mbufs'[k][q] = IF k = l /\ q = p THEN t ELSE tx_mbufs[k][q]
  BY <1>3
<1>5. tx_mbufs' \in [Lcore -> [Port -> Seq(Mbuf)]]
  BY <1>3
<1> QED  BY <1>3, <1>4, <1>5 DEF TableHasRoom

(* So does tw_timely_burst, which empties the tables it sends. *)
LEMMA BurstKeepsRoom ==
  ASSUME tx_mbufs \in [Lcore -> [Port -> Seq(Mbuf)]], TableHasRoom,
         NEW l \in Lcore, NEW d, tw_timely_burst(l, d)
  PROVE  tx_mbufs' \in [Lcore -> [Port -> Seq(Mbuf)]] /\ TableHasRoom'
<1>1. MaxBurst \in Nat \ {0} /\ Len(<<>>) = 0 /\ <<>> \in Seq(Mbuf)
  BY TxAssumption
<1>2. CASE tx_mbufs' = tx_mbufs
  BY <1>2 DEF TableHasRoom
<1>3. CASE tx_mbufs' = [tx_mbufs EXCEPT ![l] =
                          [p \in Port |-> IF p \in Waiting(l) THEN <<>> ELSE @[p]]]
  <2>1. ASSUME NEW k \in Lcore, NEW q \in Port
        PROVE  tx_mbufs'[k][q] \in {tx_mbufs[k][q], <<>>}
    BY <1>3
  <2>2. tx_mbufs' \in [Lcore -> [Port -> Seq(Mbuf)]]
    BY <1>1, <1>3
  <2> QED  BY <1>1, <2>1, <2>2 DEF TableHasRoom
<1> QED  BY <1>2, <1>3 DEF tw_timely_burst

(* Every step of TxBuffers keeps the room. *)
LEMMA TxStep == Tables /\ [TxNext]_txvars => Tables'
<1> SUFFICES ASSUME Tables, [TxNext]_txvars PROVE Tables'
  OBVIOUS
<1> USE DEF Tables
<1>1. CASE \E l \in Lcore, m \in Mbuf : tw_app_get_buffer(l, m) \/ tw_free_pkt(l, m)
  BY <1>1 DEF tw_app_get_buffer, tw_free_pkt, TableHasRoom
<1>2. CASE \E l \in Lcore, m \in Mbuf : \E p \in ToSet(Managed[l]) : tw_send_pkt(l, m, p)
  <2>1. PICK l \in Lcore, m \in Mbuf : \E p \in ToSet(Managed[l]) : tw_send_pkt(l, m, p)
    BY <1>2
  <2>2. PICK p \in ToSet(Managed[l]) : tw_send_pkt(l, m, p)
    BY <2>1
  <2>3. p \in Port
    BY TxAssumption DEF ToSet, Port
  <2>4. tx_mbufs' \in [Lcore -> [Port -> Seq(Mbuf)]] /\ TableHasRoom'
    BY <2>2, <2>3, AddKeepsRoom DEF tw_send_pkt
  <2> QED  BY <2>2, <2>4 DEF tw_send_pkt
<1>3. CASE \E l \in Lcore : Loop(l)
  <2>1. PICK l \in Lcore, d \in 1..MaxStep : tw_timely_burst(l, d)
    BY <1>3 DEF Loop
  <2>2. held' = held
    BY <2>1 DEF tw_timely_burst
  <2> QED  BY <2>1, <2>2, BurstKeepsRoom
<1>4. CASE \E p \in Port : Transmitted(p)
  BY <1>4 DEF Transmitted, TableHasRoom
<1>5. CASE UNCHANGED txvars
  BY <1>5 DEF txvars, TableHasRoom
<1> QED  BY <1>1, <1>2, <1>3, <1>4, <1>5 DEF TxNext

(* The tables are empty at first. *)
LEMMA TxStart == TxInit => Tables
BY TxAssumption DEF TxInit, Tables, TableHasRoom, NoPkts

(* A table of tw_tx_pkt is never full when tw_add_pkt_to_tx_queue stores a *)
(* packet behind its last one, for any number of cores and ports and any   *)
(* MAX_TX_PKT_BURST.                                                       *)
THEOREM RoomInTables == TxSpec => []TableHasRoom
<1>1. Tables => TableHasRoom
  BY DEF Tables
<1> QED  BY <1>1, TxStart, TxStep, PTL DEF TxSpec

(***************************************************************************)
(* The ARP table.                                                          *)
(***************************************************************************)

(* The inductive form of TableUnique. *)
Unique == arp_table \in Seq([ip : Nat \X Nat, mac : Address]) /\ TableUnique

(* A set of positions that is not empty has a least one. *)
LEMMA LeastIndex ==
  ASSUME NEW I \in SUBSET Nat, I # {}
  PROVE  Min(I) \in I
<1>1. PICK x \in I : \A y \in I : ~(<<y, x>> \in OpToRel(<, Nat))
  BY NatLessThanWellFounded, WFMin
<1>2. ASSUME NEW y \in I PROVE x =< y
  <2>1. y < x => <<y, x>> \in OpToRel(<, Nat)
    <3>1. <<y, x>> \in Nat \X Nat /\ <<y, x>>[1] = y /\ <<y, x>>[2] = x
      OBVIOUS
    <3> QED  BY <3>1, Zenon DEF OpToRel
  <2>2. ~(y < x)
    BY <1>1, <2>1, Zenon
  <2> QED  BY <2>2
<1> QED  BY <1>2 DEF Min

(* A search that fails has found no entry for the address. *)
LEMMA SearchFails ==
  ASSUME arp_table \in Seq([ip : Nat \X Nat, mac : Address]), NEW be,
         tw_search_arp_table(be) = 0
  PROVE  \A i \in 1..Len(arp_table) : arp_table[i].ip # Swap(be)
<1> DEFINE I == {i \in 1..Len(arp_table) : arp_table[i].ip = Swap(be)}
<1>1. 0 = IF I # {} THEN Min(I) ELSE 0
  BY DEF tw_search_arp_table, SelectInSeq
<1>2. ASSUME I # {} PROVE FALSE
  <2>1. I \subseteq Nat /\ \A i \in I : i > 0
    OBVIOUS
  <2> HIDE DEF I
  <2> QED  BY <1>1, <1>2, <2>1, LeastIndex
<1> QED  BY <1>2

(* A search that succeeds has found an entry. *)
LEMMA SearchFinds ==
  ASSUME arp_table \in Seq([ip : Nat \X Nat, mac : Address]), NEW be,
         tw_search_arp_table(be) # 0
  PROVE  arp_table[tw_search_arp_table(be)].mac \in Address
<1> DEFINE I == {i \in 1..Len(arp_table) : arp_table[i].ip = Swap(be)}
<1>1. I # {} /\ tw_search_arp_table(be) = Min(I)
  BY DEF tw_search_arp_table, SelectInSeq
<1>2. Min(I) \in I
  <2> HIDE DEF I
  <2>1. I \subseteq Nat
    BY DEF I
  <2> QED  BY <1>1, <2>1, LeastIndex
<1>3. tw_search_arp_table(be) \in 1..Len(arp_table)
  BY <1>1, <1>2
<1>4. arp_table[tw_search_arp_table(be)] \in [ip : Nat \X Nat, mac : Address]
  <2> DEFINE E == [ip : Nat \X Nat, mac : Address]
             j == tw_search_arp_table(be)
  <2>1. arp_table \in Seq(E) /\ j \in 1..Len(arp_table)
    BY <1>3
  <2> HIDE DEF E, j
  <2>2. arp_table[j] \in E
    BY <2>1
  <2> QED  BY <2>2 DEF E, j
<1> QED  BY <1>4

(* Learning an address that has no entry keeps the entries unique.         *)
LEMMA LearnKeepsUnique ==
  ASSUME Unique, NEW be \in Nat \X Nat, NEW mac \in Address, Learn(be, mac)
  PROVE  Unique'
<1> DEFINE E == [ip : Nat \X Nat, mac : Address]
           e == [ip |-> Swap(be), mac |-> mac]
<1>1. arp_table \in Seq(E) /\ e \in E
  BY DEF Unique, Swap
<1>2. CASE arp_table' = arp_table
  BY <1>2 DEF Unique, TableUnique
<1>3. CASE tw_search_arp_table(be) = 0 /\ arp_table' = Append(arp_table, e)
  <2>1. \A i \in 1..Len(arp_table) : arp_table[i].ip # e.ip
    BY <1>1, <1>3, SearchFails
  <2>2. /\ arp_table' \in Seq(E)
        /\ DOMAIN arp_table' = 1..Len(arp_table) + 1 /\ Len(arp_table) \in Nat
        /\ arp_table'[Len(arp_table) + 1] = e
        /\ \A i \in 1..Len(arp_table) : arp_table'[i] = arp_table[i]
    <3> HIDE DEF E, e
    <3> QED  BY <1>1, <1>3
  <2>3. \A i, j \in 1..Len(arp_table) : arp_table[i].ip = arp_table[j].ip => i = j
    <3>1. DOMAIN arp_table = 1..Len(arp_table)
      BY <1>1
    <3> QED  BY <3>1 DEF Unique, TableUnique
  <2>4. ASSUME NEW i \in DOMAIN arp_table', NEW j \in DOMAIN arp_table',
               arp_table'[i].ip = arp_table'[j].ip
        PROVE  i = j
    <3>1. i \in 1..Len(arp_table) \/ i = Len(arp_table) + 1
      BY <2>2
    <3>2. j \in 1..Len(arp_table) \/ j = Len(arp_table) + 1
      BY <2>2
    <3> HIDE DEF e
    <3> QED  BY <2>1, <2>2, <2>3, <2>4, <3>1, <3>2
  <2> QED  BY <2>2, <2>4 DEF Unique, TableUnique
<1> QED  BY <1>2, <1>3 DEF Learn, tw_add_arp_entry

(* The frames, and the mbufs on the receive path. *)
Received ==
  /\ frame \in [Mbuf -> Frame]
  /\ rx \in Seq(Mbuf)
  /\ m_table \in Seq(Mbuf)

(* What the code writes into an mbuf is a frame. *)
LEMMA PacketType ==
  ASSUME NEW op \in {"none", "ip", "request", "reply", "echo", "other"},
         NEW sip \in Nat \X Nat, NEW sha \in Address, NEW tip \in Nat \X Nat, NEW dst \in Address
  PROVE  Packet(op, sip, sha, tip, dst) \in Frame
BY DEF Packet, Frame

(* Write leaves frames in the mbufs, blank ones in the free mbufs. *)
LEMMA WriteType ==
  ASSUME NEW fr \in [Mbuf -> Frame], Write(fr)
  PROVE  frame' \in [Mbuf -> Frame]
<1>1. Blank \in Frame
  BY PacketType, ArpAssumption DEF Blank, Address
<1> QED  BY <1>1 DEF Write

(* A swapped address is an address. *)
LEMMA SwapType ==
  ASSUME NEW a \in Nat \X Nat
  PROVE  Swap(a) \in Nat \X Nat
BY DEF Swap

(* The port's addresses. *)
LEMMA PortType ==
  /\ MyMac \in Address /\ Broadcast \in Address /\ NoMac \in Address
  /\ MyIp \in Nat \X Nat /\ Swap(MyIp) \in Nat \X Nat
  /\ \A ip \in Ip : ip \in Nat \X Nat /\ Swap(ip) \in Nat \X Nat /\ Swap(ArpIp(ip)) \in Nat \X Nat
BY ArpAssumption, SwapType DEF Address, ArpIp

(* A request made by tw_construct_arp_packet. *)
LEMMA RequestType ==
  ASSUME NEW fr \in [Mbuf -> Frame], NEW l, NEW a, NEW ip, Swap(ip) \in Nat \X Nat,
         tw_construct_arp_packet(l, a, ip, fr)
  PROVE  frame' \in [Mbuf -> Frame]
<1> DEFINE q == Packet("request", Swap(MyIp), MyMac, Swap(ip), Broadcast)
<1>1. q \in Frame
  BY PacketType, PortType
<1>2. Write([fr EXCEPT ![a] = q])
  BY DEF tw_construct_arp_packet
<1> HIDE DEF q
<1>3. [fr EXCEPT ![a] = q] \in [Mbuf -> Frame]
  BY <1>1
<1> QED  BY <1>2, <1>3, WriteType

(* The tx and timer callbacks of an application. *)
LEMMA ApplicationFrames ==
  ASSUME Received, Unique, NEW l \in Lcore, NEW m \in Mbuf, Application(l, m)
  PROVE  frame' \in [Mbuf -> Frame] /\ UNCHANGED <<arp_table, rx, m_table>>
<1>1. CASE \E ip \in Neighbour : tw_send_arp_request(l, m, ip)
  <2>1. PICK ip \in Neighbour : tw_send_arp_request(l, m, ip)
    BY <1>1
  <2>2. Swap(ip) \in Nat \X Nat
    BY PortType, ArpAssumption
  <2>3. frame' \in [Mbuf -> Frame]
    BY <2>1, <2>2, RequestType DEF tw_send_arp_request, Received
  <2> QED  BY <2>1, <2>3 DEF Application, tw_send_arp_request
<1>2. CASE \E dst \in Ip \ {MyIp} : tw_eth_pkt_ctor(l, m, dst)
  <2>1. PICK dst \in Ip : tw_eth_pkt_ctor(l, m, dst)
    BY <1>2
  <2> DEFINE ip == ArpIp(dst)
             Sent(mac) == [frame EXCEPT ![m] = Packet("ip", Swap(MyIp), MyMac, Swap(ip), mac)]
  <2>2. Swap(ip) \in Nat \X Nat
    BY PortType
  <2>3. ASSUME NEW mac \in Address PROVE Sent(mac) \in [Mbuf -> Frame]
    <3>1. Packet("ip", Swap(MyIp), MyMac, Swap(ip), mac) \in Frame
      BY <2>2, PacketType, PortType
    <3> QED  BY <3>1 DEF Received
  <2>4. UNCHANGED <<arp_table, rx, m_table>>
    BY <2>1 DEF tw_eth_pkt_ctor, Application
  <2>5. CASE \E a \in pool : tw_construct_arp_packet(l, a, ip, Sent(NoMac))
    <3>1. Sent(NoMac) \in [Mbuf -> Frame]
      BY <2>3, PortType
    <3> HIDE DEF ip, Sent
    <3> QED  BY <2>2, <2>4, <2>5, <3>1, RequestType
  <2>6. CASE Refuse(m)
    BY <2>4, <2>6, WriteType DEF Refuse, rte_pktmbuf_free, Received
  <2>7. CASE frame' = frame
    BY <2>4, <2>7 DEF Received
  <2>8. CASE /\ tw_search_arp_table(Swap(ip)) # 0
             /\ Write(Sent(arp_table[tw_search_arp_table(Swap(ip))].mac))
    <3>1. arp_table[tw_search_arp_table(Swap(ip))].mac \in Address
      BY <2>8, SearchFinds DEF Unique
    <3>2. Sent(arp_table[tw_search_arp_table(Swap(ip))].mac) \in [Mbuf -> Frame]
      BY <2>3, <3>1
    <3> HIDE DEF ip, Sent
    <3> QED  BY <2>4, <2>8, <3>2, WriteType
  <2> QED  BY <2>1, <2>5, <2>6, <2>7, <2>8 DEF tw_eth_pkt_ctor
<1> QED  BY <1>1, <1>2 DEF Application

(* A burst and the packets in it. *)
LEMMA PollFrames ==
  ASSUME Received, Unique, Poll
  PROVE  Received' /\ Unique'
<1>1. CASE tw_rx_for_each_queue
  <2>1. Len(rx) \in Nat /\ \A i \in 1..Len(rx) : rx[i] \in Mbuf
    BY DEF Received
  <2>2. tw_get_pkt_from_rx_queue(MaxRxBurst) \in 0..Len(rx)
    BY <2>1, NetAssumption DEF tw_get_pkt_from_rx_queue
  <2>3. m_table' \in Seq(Mbuf)
    BY <1>1, <2>1, <2>2, SubSeqProperties DEF tw_rx_for_each_queue
  <2>4. Len(m_table') \in Nat
    BY <2>3
  <2>5. SubSeq(rx, Len(m_table') + 1, Len(rx)) \in Seq(Mbuf)
    BY <2>1, <2>4, SubSeqProperties
  <2> QED  BY <1>1, <2>3, <2>5
           DEF tw_rx_for_each_queue, arpvars, Received, Unique, TableUnique
<1>2. CASE \E l \in Lcore : Dispatch(l)
  <2>1. PICK l \in Lcore : Dispatch(l)
    BY <1>2
  <2> DEFINE m == Head(m_table)
             f == rte_vlan_strip(frame[m])
  <2>2. m \in Mbuf /\ Tail(m_table) \in Seq(Mbuf)
    BY <2>1, HeadTailProperties DEF Dispatch, Received
  <2>3. f \in Frame
    BY <2>2 DEF Received, rte_vlan_strip, Frame
  <2>4. f.sip \in Nat \X Nat /\ f.tip \in Nat \X Nat /\ f.sha \in Address
    BY <2>3 DEF Frame
  <2> HIDE DEF m, f
  <2>5. rx' \in Seq(Mbuf) /\ m_table' \in Seq(Mbuf)
    BY <2>1, <2>2 DEF Dispatch, Received, m
  <2>6. CASE f.op \in {"request", "reply"} /\ tw_parse_arp(l, m, f)
    <3>1. Learn(f.sip, f.sha) \/ UNCHANGED arp_table
      BY <2>6 DEF tw_parse_arp, tw_process_arp_reply
    <3>2. Unique'
      BY <2>4, <3>1, LearnKeepsUnique DEF Unique, TableUnique
    <3>3. CASE tw_send_arp_reply(l, m, f)
      <4> DEFINE q == Packet("reply", Swap(MyIp), MyMac, f.sip, f.sha)
      <4>1. q \in Frame
        BY <2>4, PacketType, PortType
      <4>2. Write([frame EXCEPT ![m] = q])
        BY <3>3 DEF tw_send_arp_reply
      <4> HIDE DEF q
      <4>3. frame' \in [Mbuf -> Frame]
        BY <4>1, <4>2, WriteType DEF Received
      <4> QED  BY <2>5, <3>2, <4>3 DEF Received
    <3>4. CASE rte_pktmbuf_free(m)
      BY <2>5, <3>2, <3>4, WriteType DEF rte_pktmbuf_free, Received
    <3> QED  BY <2>6, <3>3, <3>4 DEF tw_parse_arp, tw_process_arp_reply
  <2>7. CASE reply_payload(l, m, f) /\ UNCHANGED arp_table
    <3> DEFINE q == Packet("echo", f.tip, MyMac, f.sip, f.sha)
    <3>1. q \in Frame
      BY <2>4, PacketType, PortType
    <3>2. Write([frame EXCEPT ![m] = q])
      BY <2>7 DEF reply_payload
    <3> HIDE DEF q
    <3>3. frame' \in [Mbuf -> Frame]
      BY <3>1, <3>2, WriteType DEF Received
    <3> QED  BY <2>5, <2>7, <3>3 DEF Received, Unique, TableUnique
  <2>8. CASE UNCHANGED <<frame, arp_table>>
    BY <2>5, <2>8 DEF Received, Unique, TableUnique
  <2> QED  BY <2>1, <2>6, <2>7, <2>8 DEF Dispatch, m, f
<1> QED  BY <1>1, <1>2 DEF Poll

(* A packet that waited is sent or freed. *)
LEMMA MaintainFrames ==
  ASSUME Received, Unique, Maintain
  PROVE  frame' \in [Mbuf -> Frame] /\ UNCHANGED <<arp_table, rx, m_table>>
<1>1. UNCHANGED <<arp_table, rx, m_table>>
  BY DEF Maintain, Update, Begin, tw_update_queued_pkts
<1>2. CASE Begin
  BY <1>1, <1>2 DEF Begin, Received
<1>3. CASE \E l \in Lcore : tw_update_queued_pkts(l)
  <2>1. PICK l \in Lcore : tw_update_queued_pkts(l)
    BY <1>3
  <2> DEFINE i == tw_search_arp_table(queue[curr].arp_ip)
             m == queue[curr].pkt
  <2>2. CASE i # 0 /\ tw_send_queued_pkt(l, arp_table[i].mac)
    <3>1. arp_table[i].mac \in Address
      BY <2>2, SearchFinds DEF Unique
    <3>2. Write([frame EXCEPT ![m].dst = arp_table[i].mac])
      BY <2>2 DEF tw_send_queued_pkt
    <3> HIDE DEF i, m
    <3>3. [frame EXCEPT ![m].dst = arp_table[i].mac] \in [Mbuf -> Frame]
      <4>1. ASSUME NEW g \in Frame PROVE [g EXCEPT !.dst = arp_table[i].mac] \in Frame
        BY <3>1 DEF Frame
      <4> QED  BY <4>1 DEF Received
    <3> QED  BY <1>1, <3>2, <3>3, WriteType
  <2>3. CASE frame' = frame
    BY <1>1, <2>3 DEF Received
  <2>4. CASE rte_pktmbuf_free(m)
    BY <1>1, <2>4, WriteType DEF rte_pktmbuf_free, Received
  <2> QED  BY <2>1, <2>2, <2>3, <2>4 DEF tw_update_queued_pkts
<1> QED  BY <1>2, <1>3 DEF Maintain, Update

(* Every step of NetStack keeps the frames typed and the entries unique. *)
LEMMA NetStep == Received /\ Unique /\ [Next]_vars => Received' /\ Unique'
<1> SUFFICES ASSUME Received, Unique, [Next]_vars PROVE Received' /\ Unique'
  OBVIOUS
<1>1. ASSUME frame' \in [Mbuf -> Frame], UNCHANGED <<arp_table, rx, m_table>>
      PROVE  Received' /\ Unique'
  BY <1>1 DEF Received, Unique, TableUnique
<1>2. CASE Transport
  BY <1>1, <1>2, WriteType DEF Transport, Received
<1>3. CASE \E l \in Lcore, m \in Mbuf : Application(l, m)
  BY <1>1, <1>3, ApplicationFrames
<1>4. CASE \E m \in Mbuf, f \in Traffic : Receive(m, f)
  <2>1. PICK m \in Mbuf, f \in Traffic : Receive(m, f)
    BY <1>4
  <2>2. f \in Frame
    BY NetAssumption DEF Frame, Address
  <2>3. rx' \in Seq(Mbuf) /\ frame' \in [Mbuf -> Frame] /\ UNCHANGED <<arp_table, m_table>>
    BY <2>1, <2>2 DEF Receive, Received
  <2> QED  BY <2>3 DEF Received, Unique, TableUnique
<1>5. CASE Poll
  BY <1>5, PollFrames
<1>6. CASE Maintain
  BY <1>1, <1>6, MaintainFrames
<1>7. CASE Clock
  BY <1>1, <1>7 DEF Clock, Second, Received
<1>8. CASE UNCHANGED vars
  BY <1>1, <1>8 DEF vars, arpvars, Received
<1> QED  BY <1>2, <1>3, <1>4, <1>5, <1>6, <1>7, <1>8 DEF Next

(* The ARP table is empty at first. *)
LEMMA NetStart == Init => Received /\ Unique
<1> SUFFICES ASSUME Init PROVE Received /\ Unique
  OBVIOUS
<1>1. Blank \in Frame
  BY PacketType, PortType DEF Blank
<1> QED  BY <1>1 DEF Init, ArpInit, Received, Unique, TableUnique

(* However requests and replies arrive, at most one entry of the ARP table *)
(* has a given address, for any number of hosts and packets.               *)
THEOREM OneEntryPerAddress == Spec => []TableUnique
<1>1. Received /\ Unique => TableUnique
  BY DEF Unique
<1> QED  BY <1>1, NetStart, NetStep, PTL DEF Spec
=============================================================================
