------------------------------- MODULE MCFair -------------------------------
(* What happens again and again under fairness, in one of two systems that *)
(* is chosen at the start: threads a and b of one priority below the root  *)
(* thread r, with idle i; or lwIP's tcpip thread with its timeouts.        *)
EXTENDS MCSched

VARIABLES part, next_timeout, tcpip_tcp_timer_active, pcbs, asked, fired

Tcpip == INSTANCE Timeouts WITH
  Cyclic <- [h \in {"arp_timer", "dns_timer"} |-> IF h = "arp_timer" THEN 3 ELSE 2],
  TcpHandler <- "tcpip_tcp_timer", TcpInterval <- 2,
  Client <- "client", ClientTimes <- {1, 4}, MaxPcbs <- 2

tmvars == <<next_timeout, tcpip_tcp_timer_active, pcbs, asked, fired>>

BothInit == part \in {"threads", "timeouts"} /\ Init /\ Tcpip!TmInit
Threads == part = "threads" /\ Next /\ UNCHANGED <<part, tmvars>>
Timeouts == part = "timeouts" /\ Tcpip!TmNext /\ UNCHANGED <<part, vars>>

BothSpec == /\ BothInit /\ [][Threads \/ Timeouts]_<<part, vars, tmvars>>
            /\ part = "threads" => Fairness
            /\ part = "timeouts" => WF_tmvars(Tcpip!TmNext)

-----------------------------------------------------------------------------
(* Timeouts states these: the list of timeouts and the TCP timer are exact, *)
TimeoutsExact == Tcpip!TimeoutsExact

(* no handler is called early but for the waits counted too long,          *)
NotEarly == Tcpip!NotEarly

(* and the cyclic handlers are called again and again, whatever comes.     *)
TimersServed == Tcpip!TimersServed
=============================================================================
