------------------------------ MODULE MCGateway ------------------------------
(* The gateway of gw_conf for TLC: two networks, hosts whose addresses are  *)
(* each other's with the bytes turned round, and one on no network.         *)
EXTENDS Gateway

Network(a, port) == [net_addr |-> <<a, 0>>, net_mask |-> <<255, 0>>, port_name |-> port]
gw_conf == <<Network(5, "tw0"), Network(4, "tw1")>>
Ports == [p \in {"tw0", "tw1"} |-> IF p = "tw0" THEN <<5, 1>> ELSE <<4, 1>>]
Hosts == {<<5, 4>>, <<4, 5>>, <<9, 5>>}

Parts == {<<>>, <<7>>, <<4, 2>>, <<2, 5, 5>>, <<3, 0, 0>>, <<1, 0, 0, 0>>}
FirstParts == {<<>>, <<7>>, <<4, 2>>, <<1, 2, 7>>, <<1, 0, 2, 4>>}
Words == {0, 1, 2, 32768, 65534, 65535}
=============================================================================
