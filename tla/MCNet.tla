------------------------------- MODULE MCNet -------------------------------
(* The network stack, by uses of which one is chosen at the start: TCP     *)
(* between a client and a server, or address resolution for two hosts and  *)
(* a gateway.                                                              *)
EXTENDS Tcp

CONSTANTS host1, host2, gateway, mac1, mac2

VARIABLES part, arp_table, etharp_cached_entry, packets, sent, announced

Use(n, m, f, cc, cs) == [writes |-> [h \in Host |-> IF h = Client THEN n ELSE m],
                         faults |-> f, calls |-> ({Client} \X cc) \cup ({Server} \X cs)]

(* The bytes the client and the server write, the faults, and the calls of *)
(* each.                                                                   *)
Uses == {Use(2, 0, 1, {"delete"}, {"recv"}),
         Use(2, 0, 1, {}, {"recv", "delete"}),
         Use(1, 1, 0, {"delete"}, {"delete"}),
         Use(2, 0, 0, {"shutdown", "recv"}, {"recv", "delete"}),
         Use(0, 0, 2, {"delete"}, {"delete"}),
         Use(4, 0, 0, {"delete"}, {}),
         Use(0, 0, 1, {"delete", "shutdown"}, {"recv", "delete"}),
         Use(5, 0, 0, {}, {"recv"}),        \* segments that overlap
         Use(4, 0, 1, {}, {})}              \* three duplicate acknowledgements

(* Four bytes fill the window, and the FIN overruns it.                    *)
FullWindow == {Use(4, 0, 0, {"delete"}, {})}

Arp == INSTANCE Etharp WITH
  Ip <- {host1, host2, gateway}, Mac <- {mac1, mac2}, ARP_TABLE_SIZE <- 2,
  ARP_MAXAGE <- 4, ARP_AGE_REREQUEST <- 2, ARP_MAXPENDING <- 2,
  MEMP_NUM_ARP_QUEUE <- 2, MaxPackets <- 3

arpvars == <<arp_table, etharp_cached_entry, packets, sent, announced>>

NetInit == /\ part \in {"tcp", "arp"}
           /\ TcpInit /\ Arp!ArpInit
           /\ part = "arp" => tuse = Use(0, 0, 2, {"delete"}, {"delete"})
NetNext == \/ part = "tcp" /\ TcpNext /\ UNCHANGED <<part, arpvars>>
           \/ part = "arp" /\ Arp!ArpNext /\ UNCHANGED <<part, tcpvars>>
NetSpec == NetInit /\ [][NetNext]_<<part, tcpvars, arpvars>>

-----------------------------------------------------------------------------

(* a frame goes to the hardware address that its host named last,          *)
SentToLatest == Arp!SentToLatest

(* and packets to an address leave in order.                               *)
SentInOrder == Arp!SentInOrder
=============================================================================
