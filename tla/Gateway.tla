------------------------------ MODULE Gateway ------------------------------
(***************************************************************************)
(* applications/twgateway.c: packets are forwarded by a routing table, and *)
(* a packet whose receiver's Ethernet address is unknown is queued until a *)
(* timer (update_queue) tries again.                                       *)
(*                                                                         *)
(* What is queued is the argument of the receive callback, the address of  *)
(* the variable temp_buffer of tw_run: every entry of the queue stands for *)
(* the last packet received.  When the mbuf of that packet has been sent   *)
(* or freed, it may hold anything by the time update_queue reads it again. *)
(* An address is a pair of bytes, as in Arp.                               *)
(* The names of the ports are taken to be found (port_name has no room for *)
(* a terminating zero).                                                    *)
(***************************************************************************)
EXTENDS Common

CONSTANTS
  Routes,      \* the entries of gw_conf, addresses in host order
  PortIp,      \* start_ip_addr of each port, in host order
  Host,        \* the addresses of other hosts
  MaxQueue     \* MAX_QUEUE_PACKETS

Ip == Host \cup {PortIp[p] : p \in DOMAIN PortIp}

ASSUME GatewayAssumption ==
  /\ Ip \subseteq Nat \X Nat
  /\ MaxQueue \in Nat \ {0}
  /\ \A k \in DOMAIN Routes : Routes[k].port_name \in DOMAIN PortIp

VARIABLES
  route_table,   \* a sequence, addresses in network order
  arp_table,     \* the addresses with an entry, in host order
  temp_buffer,   \* what the mbuf of the last IPv4 packet tw_run has received
                 \* holds, and whether it was given away
  sq_pkt_q,      \* pkt[k]: the entry is not NULL; n_pkts
  i,             \* where update_queue is; MaxQueue when it is not running
  sent           \* history: the last frame sent

vars == <<call, route_table, arp_table, temp_buffer, sq_pkt_q, i, sent>>

tw_be_to_cpu_32(a) == <<a[2], a[1]>>

And(mask, a) == [k \in 1..2 |-> IF mask[k] = 255 THEN a[k] ELSE 0]

(* Mutant: the address is turned round before it is compared. *)
tw_search_routeMutantOrder(ip) ==
  SelectInSeq(route_table, LAMBDA r : And(r.net_mask, tw_be_to_cpu_32(ip)) = r.net_addr)

(* The first route for an address in network order, 0 if there is none.    *)
tw_search_route(ip) ==
  SelectInSeq(route_table, LAMBDA r : And(r.net_mask, ip) = r.net_addr)

(* The first route whose port has the address the packet f is sent to.     *)
check_gateway_ping(f) ==
  SelectInSeq(route_table, LAMBDA r : PortIp[r.port_name] = tw_be_to_cpu_32(f.dst_addr))

tw_send_pkt(f, port) == sent' = [buffer |-> f, port |-> port]

(* Mutant: the queue takes one packet too many. *)
tw_sq_pushMutantOneMore(q) ==
  IF q.n_pkts > MaxQueue THEN q
  ELSE [pkt |-> [q.pkt EXCEPT ![q.n_pkts] = TRUE], n_pkts |-> q.n_pkts + 1]

(* Mutant: the packet is not counted. *)
tw_sq_pushMutantUncounted(q) ==
  IF q.n_pkts >= MaxQueue THEN q ELSE [q EXCEPT !.pkt[q.n_pkts] = TRUE]

tw_sq_push(q) ==
  IF q.n_pkts >= MaxQueue THEN q
  ELSE [pkt |-> [q.pkt EXCEPT ![q.n_pkts] = TRUE], n_pkts |-> q.n_pkts + 1]

(***************************************************************************)
(* reply_payload for the packet f: Settled when it does not queue it, and  *)
(* the ARP request it sends otherwise is of no consequence here (it asks   *)
(* for the address with its bytes turned round).                           *)
(***************************************************************************)
Settled(f) ==
  \/ f.type = "arp"
  \/ check_gateway_ping(f) # 0
  \/ tw_search_route(f.dst_addr) = 0
  \/ tw_be_to_cpu_32(f.dst_addr) \in arp_table

(* What reply_payload does to the frame before it sends it. *)
Answer(f, port) ==
  [f EXCEPT !.dst_addr = f.src_addr, !.src_addr = f.dst_addr, !.d_addr = f.s_addr,
            !.s_addr = PortIp[port], !.given = TRUE]
Forward(f, port) ==
  [f EXCEPT !.d_addr = tw_be_to_cpu_32(f.dst_addr), !.s_addr = PortIp[port], !.given = TRUE]

Settle(f) ==
  LET g == check_gateway_ping(f)
      r == tw_search_route(f.dst_addr)
  IN  \/ /\ f.type = "arp"
         /\ temp_buffer' = f
         /\ \/ arp_table' = arp_table \cup {f.s_addr}
            \/ UNCHANGED arp_table
         /\ UNCHANGED sent
      \/ /\ f.type = "ip" /\ g # 0
         /\ temp_buffer' = Answer(f, route_table[g].port_name)
         /\ tw_send_pkt(temp_buffer', route_table[g].port_name)
         /\ UNCHANGED arp_table
      \/ /\ f.type = "ip" /\ g = 0 /\ r = 0
         /\ temp_buffer' = [f EXCEPT !.given = TRUE]
         /\ UNCHANGED <<arp_table, sent>>
      \/ /\ f.type = "ip" /\ g = 0 /\ r # 0
         /\ tw_be_to_cpu_32(f.dst_addr) \in arp_table
         /\ temp_buffer' = Forward(f, route_table[r].port_name)
         /\ tw_send_pkt(temp_buffer', route_table[r].port_name)
         /\ UNCHANGED arp_table

(* A frame from s to d, as it is received. *)
Frame(type, s, d) ==
  [type |-> type, src_addr |-> tw_be_to_cpu_32(s), dst_addr |-> tw_be_to_cpu_32(d),
   s_addr |-> s, d_addr |-> <<0, 0>>, given |-> FALSE]

(* tw_run receives an IPv4 packet and calls reply_payload. *)
reply_payload(f) ==
  /\ i = MaxQueue
  /\ \/ /\ Settled(f)
        /\ Settle(f)
        /\ UNCHANGED sq_pkt_q
     \/ /\ ~Settled(f)
        /\ temp_buffer' = f
        /\ sq_pkt_q' = tw_sq_push(sq_pkt_q)
        /\ UNCHANGED <<arp_table, sent>>
  /\ UNCHANGED <<route_table, i>>

(* A host's ARP packet is received. *)
Learn(ip) ==
  /\ i = MaxQueue /\ ip \notin arp_table
  /\ arp_table' = arp_table \cup {ip}
  /\ UNCHANGED <<route_table, temp_buffer, sq_pkt_q, i, sent>>

(* The mbuf was given away and has been filled again, by the card or by    *)
(* other code.                                                             *)
Reuse(f) ==
  /\ temp_buffer # None /\ temp_buffer.given
  /\ temp_buffer' = [f EXCEPT !.given = TRUE]
  /\ UNCHANGED <<route_table, arp_table, sq_pkt_q, i, sent>>

(***************************************************************************)
(* update_queue, an iteration at a time.                                   *)
(***************************************************************************)
Begin ==
  /\ i = MaxQueue /\ sq_pkt_q.n_pkts >= 1
  /\ i' = 0
  /\ UNCHANGED <<route_table, arp_table, temp_buffer, sq_pkt_q, sent>>

(* The entry is emptied after reply_payload may have queued it again.      *)
Emptied(q) == [pkt |-> [q.pkt EXCEPT ![i] = FALSE], n_pkts |-> q.n_pkts - 1]

update_queue ==
  /\ i < MaxQueue
  /\ i' = i + 1
  /\ \/ /\ ~sq_pkt_q.pkt[i]
        /\ UNCHANGED <<arp_table, temp_buffer, sq_pkt_q, sent>>
     \/ /\ sq_pkt_q.pkt[i] /\ Settled(temp_buffer)
        /\ Settle(temp_buffer)
        /\ sq_pkt_q' = Emptied(sq_pkt_q)
     \/ /\ sq_pkt_q.pkt[i] /\ ~Settled(temp_buffer)
        /\ sq_pkt_q' = Emptied(tw_sq_push(sq_pkt_q))
        /\ UNCHANGED <<arp_table, temp_buffer, sent>>
  /\ UNCHANGED route_table

-----------------------------------------------------------------------------

tw_add_route_entry(r) ==
  [net_addr |-> tw_be_to_cpu_32(r.net_addr), net_mask |-> tw_be_to_cpu_32(r.net_mask),
   port_name |-> r.port_name]

Init ==
  /\ CommonInit
  /\ route_table = [k \in DOMAIN Routes |-> tw_add_route_entry(Routes[k])]
  /\ arp_table = {}
  /\ temp_buffer = None
  /\ sq_pkt_q = [pkt |-> [k \in 0..MaxQueue-1 |-> FALSE], n_pkts |-> 0]
  /\ i = MaxQueue
  /\ sent = None

Run ==
  \/ \E s \in Host, d \in Ip : s # d /\ reply_payload(Frame("ip", s, d))
  \/ \E type \in {"ip", "arp"}, s \in Host, d \in Ip : s # d /\ Reuse(Frame(type, s, d))
  \/ \E ip \in Host : Learn(ip)
  \/ Begin
  \/ update_queue

Next ==
  \/ Return /\ UNCHANGED <<route_table, arp_table, temp_buffer, sq_pkt_q, i, sent>>
  \/ call = None /\ Run /\ UNCHANGED call

Spec == Init /\ [][Next]_vars

-----------------------------------------------------------------------------

GatewayTypeOK ==
  /\ arp_table \subseteq Host
  /\ sq_pkt_q.pkt \in [0..MaxQueue-1 -> BOOLEAN]
  /\ sq_pkt_q.n_pkts \in 0..MaxQueue
  /\ i \in 0..MaxQueue

Entries == {k \in 0..MaxQueue-1 : sq_pkt_q.pkt[k]}

(* n_pkts, which update_queue decrements once for every entry although     *)
(* reply_payload queues packets, and overwrites entries, in between, is    *)
(* never less than the number of entries: it does not wrap below zero.     *)
CountCovers == Cardinality(Entries) <= sq_pkt_q.n_pkts

(* The port of the first entry of gw_conf whose network has the address.   *)
Egress(ip) ==
  LET k == SelectInSeq(Routes, LAMBDA r : And(r.net_mask, ip) = r.net_addr)
  IN  IF k = 0 THEN "none" ELSE Routes[k].port_name

(* A frame leaves with the Ethernet address of the host it is addressed    *)
(* to, by the port gw_conf names for it, also when it was tried again by   *)
(* update_queue; an answer to a ping may leave by the port that was pinged.*)
Routed ==
  sent # None =>
    LET f == sent.buffer
    IN  /\ f.d_addr = tw_be_to_cpu_32(f.dst_addr)
        /\ \/ sent.port = Egress(tw_be_to_cpu_32(f.dst_addr))
           \/ PortIp[sent.port] = tw_be_to_cpu_32(f.src_addr)
=============================================================================
