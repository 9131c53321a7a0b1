----------------------------- MODULE MCNetStack -----------------------------
(* Instances of NetStack for TLC: one core, one port, two peers on its     *)
(* subnet whose addresses differ in their byte order only, and a host      *)
(* behind the second of them, which is the gateway.                        *)
EXTENDS NetStack

OnePort == [l \in Lcore |-> <<0>>]
Self == <<1, 2>>
Peer == <<1, 3>>
Router == <<3, 1>>
Remote == <<4, 4>>
Addresses == {Self, Peer, Router, Remote}
OnLink == {Peer, Router}
Local == {Self, Peer, Router}

From(op, sip, mac, tip) == Packet(op, Swap(sip), mac, Swap(tip), MyMac)

(* ARP from both peers, some of it tagged, a packet to echo and one of     *)
(* another type.                                                           *)
Few ==
  {From("request", Peer, h, Self) : h \in Mac}
    \cup {[From("reply", Router, h, Self) EXCEPT !.tags = 2] : h \in Mac}
    \cup {From("ip", Router, h, Self) : h \in Mac}
    \cup {[From("other", Peer, h, Self) EXCEPT !.tags = 1] : h \in Mac}

(* The same, and requests for another host. *)
Frames ==
  Few \cup {[From("request", Router, h, ip) EXCEPT !.tags = 2] : h \in Mac, ip \in {Self, Peer}}

(* Replies from both peers. *)
Replies == {From("reply", ip, h, Self) : ip \in OnLink, h \in Mac}

MCSymmetry == Permutations(Mbuf) \cup Permutations(Mac)
=============================================================================
