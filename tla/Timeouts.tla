------------------------------ MODULE Timeouts ------------------------------
(***************************************************************************)
(* The timeouts of lwIP (timers.c) and the thread that serves them between *)
(* its messages (tcpip_thread, sys_timeouts_mbox_fetch and the port's      *)
(* sys_arch_mbox_fetch).  A tick is a millisecond.  One step is one wait   *)
(* for a message with all that follows it: the message's function, or the  *)
(* handler of the timeout.                                                 *)
(***************************************************************************)
EXTENDS Integers, Sequences, FiniteSets, SequencesExt, FiniteSetsExt

CONSTANTS Cyclic,      \* the intervals of the handlers that start themselves again
          TcpHandler,  \* tcpip_tcp_timer
          TcpInterval, \* TCP_TMR_INTERVAL
          Client,      \* a handler that other threads set and cancel by messages
          ClientTimes, \* the times that they ask for
          MaxPcbs      \* bound: TCP control blocks at a time

VARIABLES next_timeout,            \* the list: handler, and time after the one before
          tcpip_tcp_timer_active,
          pcbs,                    \* how many control blocks are active or in TIME_WAIT
          asked,                   \* history of each timeout in the list
          fired                    \* history of the timeout that was served last
tmvars == <<next_timeout, tcpip_tcp_timer_active, pcbs, asked, fired>>

Handlers == DOMAIN Cyclic \cup {TcpHandler, Client}
MEMP_NUM_SYS_TIMEOUT == Cardinality(Handlers)

(* The time of the first n timeouts together.                              *)
Until(list, n) == FoldLeft(LAMBDA sum, t : sum + t.time, 0, SubSeq(list, 1, n))

(* A timeout goes behind all that are due no later; the time of the next   *)
(* one is counted from it.                                                 *)
sys_timeout(list, h, msecs) ==
  LET n == Cardinality({i \in DOMAIN list : Until(list, i) <= msecs})
      time == msecs - Until(list, n)
      rest == SubSeq(list, n + 1, Len(list))
  IN  SubSeq(list, 1, n) \o <<[h |-> h, time |-> time]>>
        \o (IF rest = <<>> THEN <<>> ELSE [rest EXCEPT ![1].time = @ - time])

(* Mutant of sys_untimeout: the time of the removed timeout is lost.       *)
sys_untimeout_lost(list, h) == SelectSeq(list, LAMBDA t : t.h # h)

(* The first timeout of h is unlinked and the next one gets its time.      *)
sys_untimeout(list, h) ==
  LET k == SelectInSeq(list, LAMBDA t : t.h = h)
  IN  IF k = 0 THEN list
      ELSE IF k = Len(list) THEN Front(list)
      ELSE RemoveAt([list EXCEPT ![k + 1].time = @ + list[k].time], k)

Set(list, h) == \E i \in DOMAIN list : list[i].h = h

(* Mutant of Counted: a wait that took no tick counts as none.             *)
Counted_zero(elapsed) == elapsed

(* Mutant of Counted: every wait counts as two at least.                   *)
Counted_two(elapsed) == IF elapsed < 2 THEN 2 ELSE elapsed

(* What sys_arch_mbox_fetch() returns when it got a message.               *)
Counted(elapsed) == IF elapsed = 0 THEN 1 ELSE elapsed

(* The wait is taken off the first timeout.                                *)
Waited(list, needed) ==
  IF list = <<>> THEN list
  ELSE [list EXCEPT ![1].time = IF needed < @ THEN @ - needed ELSE 0]

-----------------------------------------------------------------------------
(* The histories: for each timeout in the list the time asked for, what    *)
(* the list has counted, the time that passed and the number of messages,  *)
(* these two up to the time asked for.                                     *)
Asks(msecs) == [msecs |-> msecs, counted |-> 0, passed |-> 0, waits |-> 0]
Passes(elapsed, counted, message) ==
  [h \in DOMAIN asked |->
     [asked[h] EXCEPT !.counted = @ + counted,
                      !.waits = Min({@ + message, asked[h].msecs}),
                      !.passed = Min({@ + elapsed, asked[h].msecs})]]
With(history, h, msecs) == [g \in DOMAIN history \cup {h} |->
                              IF g = h THEN Asks(msecs) ELSE history[g]]
Without(history, h) == [g \in DOMAIN history \ {h} |-> history[g]]

TmInit ==
  /\ \E order \in SetToSeqs(DOMAIN Cyclic) :
       next_timeout = FoldLeft(LAMBDA list, h : sys_timeout(list, h, Cyclic[h]), <<>>, order)
  /\ asked = [h \in DOMAIN Cyclic |-> Asks(Cyclic[h])]
  /\ tcpip_tcp_timer_active = FALSE
  /\ pcbs = 0
  /\ fired = Asks(0)

-----------------------------------------------------------------------------
(* A message, which came elapsed ticks after the wait began.               *)

Head0 == IF next_timeout = <<>> THEN 0 ELSE next_timeout[1].time

Fetched(elapsed) ==
  /\ next_timeout # <<>> => Head0 > 0 /\ elapsed <= Head0 + 1
  /\ fired' = fired

(* What the list has counted of a wait: never more than its first time.    *)
Off(elapsed) == Min({Counted(elapsed), Head0})

(* Most messages have nothing to do with timeouts; they may remove control *)
(* blocks.                                                                 *)
Message(elapsed) ==
  /\ Fetched(elapsed)
  /\ next_timeout' = Waited(next_timeout, Counted(elapsed))
  /\ asked' = Passes(elapsed, Off(elapsed), 1)
  /\ pcbs' \in 0..pcbs
  /\ UNCHANGED tcpip_tcp_timer_active

(* TCP_REG: tcp_timer_needed() starts the timer that is off.               *)
TCP_REG(elapsed) ==
  LET list == Waited(next_timeout, Counted(elapsed))
      history == Passes(elapsed, Off(elapsed), 1)
  IN  /\ Fetched(elapsed)
      /\ pcbs < MaxPcbs /\ pcbs' = pcbs + 1
      /\ tcpip_tcp_timer_active' = TRUE
      /\ IF tcpip_tcp_timer_active THEN next_timeout' = list /\ asked' = history
         ELSE /\ next_timeout' = sys_timeout(list, TcpHandler, TcpInterval)
              /\ asked' = With(history, TcpHandler, TcpInterval)

(* TCPIP_MSG_TIMEOUT, for a handler that is not set.                       *)
tcpip_timeout(elapsed, msecs) ==
  /\ Fetched(elapsed) /\ ~Set(next_timeout, Client)
  /\ next_timeout' = sys_timeout(Waited(next_timeout, Counted(elapsed)), Client, msecs)
  /\ asked' = With(Passes(elapsed, Off(elapsed), 1), Client, msecs)
  /\ UNCHANGED <<tcpip_tcp_timer_active, pcbs>>

(* TCPIP_MSG_UNTIMEOUT, which may come too late.                           *)
tcpip_untimeout(elapsed) ==
  /\ Fetched(elapsed)
  /\ next_timeout' = sys_untimeout(Waited(next_timeout, Counted(elapsed)), Client)
  /\ asked' = Without(Passes(elapsed, Off(elapsed), 1), Client)
  /\ UNCHANGED <<tcpip_tcp_timer_active, pcbs>>

-----------------------------------------------------------------------------
(* No message came: the first timeout is taken off and its handler called. *)
Expires(h, late) ==
  /\ next_timeout # <<>> /\ next_timeout[1].h = h
  /\ Head0 = 0 => late = 0
  /\ fired' = Passes(Head0 + late, Head0, 0)[h]

Rest(late) == Without(Passes(Head0 + late, Head0, 0), next_timeout[1].h)

cyclic_timer(h, late) ==
  /\ Expires(h, late)
  /\ next_timeout' = sys_timeout(Tail(next_timeout), h, Cyclic[h])
  /\ asked' = With(Rest(late), h, Cyclic[h])
  /\ UNCHANGED <<tcpip_tcp_timer_active, pcbs>>

client_timer(late) ==
  /\ Expires(Client, late)
  /\ next_timeout' = Tail(next_timeout)
  /\ asked' = Rest(late)
  /\ UNCHANGED <<tcpip_tcp_timer_active, pcbs>>

(* tcp_tmr() removes control blocks, and its callbacks may register some.  *)
tcpip_tcp_timer(late) ==
  /\ Expires(TcpHandler, late)
  /\ pcbs' \in 0..MaxPcbs
  /\ tcpip_tcp_timer_active' = (pcbs' > 0)
  /\ IF pcbs' > 0
     THEN /\ next_timeout' = sys_timeout(Tail(next_timeout), TcpHandler, TcpInterval)
          /\ asked' = With(Rest(late), TcpHandler, TcpInterval)
     ELSE next_timeout' = Tail(next_timeout) /\ asked' = Rest(late)

TmNext ==
  \/ \E elapsed \in 0..(Head0 + 1) :
       \/ Message(elapsed) \/ TCP_REG(elapsed) \/ tcpip_untimeout(elapsed)
       \/ \E msecs \in ClientTimes : tcpip_timeout(elapsed, msecs)
  \/ \E late \in 0..1 :
       \/ client_timer(late) \/ tcpip_tcp_timer(late)
       \/ \E h \in DOMAIN Cyclic : cyclic_timer(h, late)

(* The thread serves messages or timeouts for ever.                        *)
TmSpec == TmInit /\ [][TmNext]_tmvars /\ WF_tmvars(TmNext)
-----------------------------------------------------------------------------
(* The list tells for every timeout in it, by the times up to and          *)
(* including its own, exactly what is left of the time asked for, through  *)
(* all insertions and removals; and it is ordered.  The TCP timer is in    *)
(* it if tcpip_tcp_timer_active says so and else not, and it is while      *)
(* there are control blocks; no handler is twice in the list, so that      *)
(* MEMP_SYS_TIMEOUT never runs out.                                        *)
TimeoutsExact ==
  /\ DOMAIN asked = {next_timeout[i].h : i \in DOMAIN next_timeout}
  /\ \A i \in DOMAIN next_timeout :
       /\ next_timeout[i].time >= 0
       /\ Until(next_timeout, i) + asked[next_timeout[i].h].counted
            = asked[next_timeout[i].h].msecs
  /\ tcpip_tcp_timer_active = Set(next_timeout, TcpHandler)
  /\ pcbs > 0 => tcpip_tcp_timer_active
  /\ Len(next_timeout) = Cardinality(DOMAIN asked)
  /\ Len(next_timeout) <= MEMP_NUM_SYS_TIMEOUT

(* A handler runs no earlier than asked, but for one millisecond for every *)
(* message fetched in between: sys_arch_mbox_fetch() returns at least 1.   *)
NotEarly == fired.passed + fired.waits >= fired.msecs

(* However many messages come, and be there no tick between them, every    *)
(* cyclic handler runs again and again: sys_arch_mbox_fetch() counts each  *)
(* wait as a millisecond at least.                                         *)
TimersServed == \A h \in DOMAIN Cyclic : []<>(asked[h].waits = 0)
=============================================================================
