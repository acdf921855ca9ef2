-------------------------------- MODULE Tcp --------------------------------
(***************************************************************************)
(* lwIP's TCP between two hosts that run this stack: tcp_input() and the   *)
(* state machine behind it (tcp_in.c), the timers and the closing of a     *)
(* connection (tcp.c) and the netconn calls of the applications            *)
(* (api_lib.c, api_msg.c).  Client opens one connection to Server, which   *)
(* listens.  The network may deliver segments in any order, lose them and  *)
(* deliver them twice.  Everything of lwIP runs in its tcpip thread, so    *)
(* that a segment, a timer or an application's message is one step.        *)
(*                                                                         *)
(* A use of the stack, chosen at the start, says how many bytes each host  *)
(* writes, how many faults there are, and which calls the applications     *)
(* make.  Memory never runs out; the peers' round trip times are only      *)
(* known as the timers that may expire.                                    *)
(***************************************************************************)
EXTENDS TcpOut, Bags

CONSTANTS Client, Server,
          FirstIss,        \* the first initial sequence number drawn
          TickStep,        \* tcp_ticks, by which each draw moves on
          TCP_MAXRTX, TCP_SYNMAXRTX,
          RecvSize,        \* DEFAULT_TCP_RECVMBOX_SIZE
          TcpUses          \* [writes: host -> Nat, faults: Nat, calls: SUBSET (host \X call)]

VARIABLES tuse, pcb, conn, net, iss, faults, stopped
tcpvars == <<tuse, pcb, conn, net, iss, faults, stopped>>

Host == {Client, Server}
Peer(h) == CHOOSE g \in Host : g # h

(* The application's end.  "reading" is set while netconn_recv() waits,    *)
(* "owed" holds what it has fetched and not yet reported to the stack; in  *)
(* recvmbox the empty sequence is the NULL that stands for the end.  got,  *)
(* wrote, eof and irs are histories: what the application read and wrote,  *)
(* that it read the end, the first number the peer's stream may have.      *)
NoConn == [open |-> FALSE, attached |-> FALSE, err |-> "OK", recvmbox |-> <<>>,
           reading |-> FALSE, owed |-> 0, got |-> <<>>, eof |-> FALSE,
           wrote |-> 0, irs |-> 0, accepted |-> 0]
NewConn(n) == [NoConn EXCEPT !.open = TRUE, !.attached = TRUE, !.accepted = n]

(* LWIP_ASSERT stops the thread.                                           *)
LWIP_ASSERT(c, cond) == [c EXCEPT !.ok = @ /\ cond]

SetErr(n, e) == IF n.err = "OK" THEN [n EXCEPT !.err = e] ELSE n
Post(n, m) == IF Len(n.recvmbox) < RecvSize THEN [n EXCEPT !.recvmbox = Append(@, m)] ELSE n
Full(n) == Len(n.recvmbox) = RecvSize

(* err_tcp(): the connection loses its pcb and its readers get a NULL.     *)
err_tcp(n, e) ==
  IF n.attached
  THEN Post([n EXCEPT !.attached = FALSE, !.err = e], <<>>)
  ELSE n

tcp_pcb_purge(p) ==
  [p EXCEPT !.refused = <<>>, !.refused_fin = FALSE, !.ooseq = <<>>, !.rtime = FALSE,
            !.unsent = <<>>, !.unacked = <<>>]

tcp_abort(c) ==
  IF c.p.state = "TIME_WAIT" THEN [c EXCEPT !.p = NoPcb]
  ELSE LET d == tcp_rst(c, c.p.snd_nxt, c.p.rcv_nxt)
       IN  [d EXCEPT !.p = NoPcb, !.conn = err_tcp(@, "ABRT")]

(* The announced window grows by a segment or half the buffer, never less. *)
Slack == IF TCP_WND \div 2 < TCP_MSS THEN TCP_WND \div 2 ELSE TCP_MSS
MayGrow(p) == TCP_SEQ_GEQ(p.rcv_nxt + p.rcv_wnd, p.ann_edge + Slack)

(* Mutant of tcp_update_rcv_ann_wnd: a window that may not grow is closed. *)
tcp_update_rcv_ann_wnd_zero(p) == [p EXCEPT !.rcv_ann_wnd = IF MayGrow(p) THEN p.rcv_wnd ELSE 0]

tcp_update_rcv_ann_wnd(p) ==
  [p EXCEPT !.rcv_ann_wnd = IF MayGrow(p) THEN p.rcv_wnd
                            ELSE IF TCP_SEQ_GT(p.rcv_nxt, p.ann_edge) THEN 0
                            ELSE Seq32(p.ann_edge - p.rcv_nxt)]

Opened(p, n) == [p EXCEPT !.rcv_wnd = IF @ + n > TCP_WND THEN TCP_WND ELSE @ + n]

tcp_recved(c, n) ==
  LET p == Opened(c.p, n)
      d == [c EXCEPT !.p = tcp_update_rcv_ann_wnd(p)]
  IN  IF MayGrow(p) /\ Minus(p.rcv_nxt + p.rcv_wnd, p.ann_edge) >= TCP_WND \div 4
      THEN tcp_output([d EXCEPT !.p = tcp_ack_now(@)]) ELSE d

(* TCP_EVENT_CLOSED: the FIN's number is given back to the window and the  *)
(* end is posted.  A full mailbox refuses it, and nobody keeps it.         *)
EventClosed(c) ==
  [c EXCEPT !.p.rcv_wnd = IF @ # TCP_WND THEN @ + 1 ELSE @,
            !.conn = IF @.attached THEN Post(@, <<>>) ELSE @]

(* Refused data is offered again; without a callback it is thrown away.    *)
tcp_process_refused_data(c) ==
  LET d == [c EXCEPT !.p.refused = <<>>, !.p.refused_fin = FALSE]
      Then(taken) == IF c.p.refused_fin THEN EventClosed(taken) ELSE taken
  IN  IF c.conn.attached /\ Full(c.conn) THEN c
      ELSE Then(IF c.conn.attached THEN [d EXCEPT !.conn = Post(@, c.p.refused)]
                ELSE tcp_recved(d, Len(c.p.refused)))

-----------------------------------------------------------------------------
(* tcp_receive(): what the acknowledgement of s does to the control block. *)

NewWindow(p, s) ==
  \/ TCP_SEQ_LT(p.snd_wl1, s.seq)
  \/ p.snd_wl1 = s.seq /\ TCP_SEQ_LT(p.snd_wl2, s.ack)
  \/ p.snd_wl2 = s.ack /\ s.wnd > p.snd_wnd

UpdateWindow(p, s) ==
  IF ~NewWindow(p, s) THEN p
  ELSE [p EXCEPT !.snd_wnd = s.wnd, !.snd_wl1 = s.seq, !.snd_wl2 = s.ack,
                 !.persist = (s.wnd = 0)]

Dupack(p, q, s, tcplen) ==
  /\ tcplen = 0
  /\ Seq32(q.snd_wl2 + q.snd_wnd) = Seq32(p.snd_wl2 + p.snd_wnd)
  /\ q.rtime
  /\ q.lastack = s.ack

(* The count of duplicates matters up to three.                            *)
CountDupack(q) ==
  LET d == [q EXCEPT !.dupacks = IF @ > 3 THEN @ ELSE @ + 1]
  IN  CASE d.dupacks > 3 -> [d EXCEPT !.cwnd = TCP_WND]
        [] d.dupacks = 3 -> tcp_rexmit_fast(d)
        [] OTHER -> d

AckNew(q, s) ==
  LET rest == DropWhile(q.unacked,
                        LAMBDA e : TCP_SEQ_LEQ(Seq32(e.seq + TCP_TCPLEN(e)), s.ack))
      grown == IF q.cwnd + TCP_MSS > TCP_WND THEN TCP_WND ELSE q.cwnd + TCP_MSS
  IN  [Unflag(q, {"INFR"}) EXCEPT
        !.cwnd = IF "INFR" \in q.flags THEN TCP_WND ELSE grown,
        !.nrtx = 0, !.dupacks = 0, !.lastack = s.ack,
        !.snd_buf = @ + Seq32(s.ack - q.lastack),
        !.unacked = rest, !.rtime = (rest # <<>>)]

Acknowledged(p, q, s, tcplen) ==
  CASE TCP_SEQ_LEQ(s.ack, q.lastack) ->
         IF Dupack(p, q, s, tcplen) THEN CountDupack(q) ELSE [q EXCEPT !.dupacks = 0]
    [] TCP_SEQ_BETWEEN(s.ack, q.lastack + 1, q.snd_nxt) -> AckNew(q, s)
    [] OTHER -> q

(* Segments that went back to unsent may be acknowledged, too.             *)
DropUnsent(p, ackno) ==
  [p EXCEPT !.unsent = DropWhile(@,
     LAMBDA e : TCP_SEQ_BETWEEN(ackno, e.seq + TCP_TCPLEN(e), p.snd_nxt))]

ReceiveAck(p, s, tcplen) ==
  DropUnsent(Acknowledged(p, UpdateWindow(p, s), s, tcplen), s.ack)

-----------------------------------------------------------------------------
(* tcp_receive(): the text of a segment.                                   *)

Trim(s, n) == [s EXCEPT !.len = n, !.data = SubSeq(@, 1, IF n < Len(@) THEN n ELSE Len(@))]


TrimFront(s, p) ==
  LET off == Seq32(p.rcv_nxt - s.seq)
  IN  [s EXCEPT !.seq = p.rcv_nxt, !.len = @ - off, !.data = From(@, off)]

(* rcv_nxt and the window move over a segment that is next in sequence.    *)
Advance(c, s) ==
  LET d == LWIP_ASSERT(c, c.p.rcv_wnd >= TCP_TCPLEN(s))
  IN  [d EXCEPT !.p = tcp_update_rcv_ann_wnd([@ EXCEPT !.rcv_nxt = Seq32(@ + TCP_TCPLEN(s)),
                                                       !.rcv_wnd = @ - TCP_TCPLEN(s)]),
                !.data = @ \o s.data,
                !.fin = @ \/ "FIN" \in s.flags]

RECURSIVE Dequeue(_)
Dequeue(c) ==
  IF c.p.ooseq = <<>> \/ Head(c.p.ooseq).seq # c.p.rcv_nxt THEN c
  ELSE LET s == Head(c.p.ooseq)
           ends == "FIN" \in s.flags /\ c.p.state = "ESTABLISHED"
       IN  Dequeue([Advance(c, s) EXCEPT !.p.ooseq = Tail(@),
                                         !.p.state = IF ends THEN "CLOSE_WAIT" ELSE @])

(* What overruns the window is cut off, and the FIN with it.               *)
IntoWindow(s, p) == IF TCP_TCPLEN(s) <= p.rcv_wnd THEN s
                    ELSE Trim([s EXCEPT !.flags = @ \ {"FIN"}], p.rcv_wnd)

(* Queued segments that s covers are dropped, s takes over their FIN, and  *)
(* s is cut where the next one starts: <<s, what remains queued>>.         *)
Overlap(s, queue, end) ==
  LET n == Leading(queue, LAMBDA e : TCP_SEQ_GEQ(end, e.seq + e.len))
      fin == \E i \in 1..n : "FIN" \in queue[i].flags
      rest == From(queue, n)
      t == IF fin THEN [s EXCEPT !.flags = @ \cup {"FIN"}] ELSE s
  IN  IF rest # <<>> /\ TCP_SEQ_GT(end, rest[1].seq)
      THEN <<Trim(t, Seq32(rest[1].seq - s.seq)), rest>> ELSE <<t, rest>>

InOrder(c, inseg) ==
  LET Fitted(s) == IF "FIN" \in s.flags THEN <<s, <<>>>>
                   ELSE Overlap(s, c.p.ooseq, s.seq + TCP_TCPLEN(s))
      Text(o) == Dequeue(Advance([c EXCEPT !.p.ooseq = o[2]], o[1]))
  IN  [Text(Fitted(IntoWindow(inseg, c.p))) EXCEPT !.p = tcp_ack(@)]

tcp_oos_insert_segment(s, next) ==
  IF "FIN" \in s.flags THEN <<s>>
  ELSE LET o == Overlap(s, next, s.seq + s.len) IN <<o[1]>> \o o[2]

(* The comparison with the window's edge is one of unsigned numbers.       *)
AppendQueued(queue, s, p) ==
  LET n == Len(queue)
      last == IF TCP_SEQ_GT(queue[n].seq + queue[n].len, s.seq)
              THEN Trim(queue[n], Seq32(s.seq - queue[n].seq)) ELSE queue[n]
      over == Seq32(TCP_TCPLEN(s) + s.seq) > Seq32(p.rcv_nxt + p.rcv_wnd)
      new == IF over THEN Trim([s EXCEPT !.flags = @ \ {"FIN"}],
                               Seq32(p.rcv_nxt + p.rcv_wnd - s.seq)) ELSE s
  IN  IF "FIN" \in queue[n].flags THEN queue
      ELSE SubSeq(queue, 1, n - 1) \o <<last, new>>

Queued(queue, s, p) ==
  LET n == Leading(queue, LAMBDA e : TCP_SEQ_LT(e.seq, s.seq))
      prev == IF n > 0 /\ TCP_SEQ_GT(queue[n].seq + queue[n].len, s.seq)
              THEN SubSeq(queue, 1, n - 1) \o <<Trim(queue[n], Seq32(s.seq - queue[n].seq))>>
              ELSE SubSeq(queue, 1, n)
      next == From(queue, n)
  IN  CASE queue = <<>> -> <<s>>
        [] queue # <<>> /\ next = <<>> -> AppendQueued(queue, s, p)
        [] next # <<>> /\ next[1].seq = s.seq /\ next[1].len >= s.len -> queue
        [] next # <<>> /\ next[1].seq = s.seq /\ next[1].len < s.len ->
             SubSeq(queue, 1, n) \o tcp_oos_insert_segment(s, next)
        [] OTHER -> prev \o tcp_oos_insert_segment(s, next)

OutOfOrder(c, s) ==
  LET d == tcp_send_empty_ack(c) IN [d EXCEPT !.p.ooseq = Queued(@, s, c.p)]

(* Text is taken while the peer has not ended its stream.                  *)
Open == {"ESTABLISHED", "FIN_WAIT_1", "FIN_WAIT_2"}
InWindow(p, seqno) == TCP_SEQ_BETWEEN(seqno, p.rcv_nxt, p.rcv_nxt + p.rcv_wnd - 1)

ReceiveText(c, s, tcplen) ==
  LET inseg == [seq |-> s.seq, len |-> Len(s.data), data |-> s.data, flags |-> s.flags]
      old == TCP_SEQ_LT(s.seq, c.p.rcv_nxt)
      part == TCP_SEQ_BETWEEN(c.p.rcv_nxt, s.seq + 1, s.seq + tcplen - 1)
      Text(d, t) == CASE ~InWindow(d.p, t.seq) -> tcp_send_empty_ack(d)
                      [] InWindow(d.p, t.seq) /\ t.seq = d.p.rcv_nxt -> InOrder(d, t)
                      [] OTHER -> OutOfOrder(d, t)
  IN  Text(IF old /\ ~part THEN [c EXCEPT !.p = tcp_ack_now(@)] ELSE c,
           IF part THEN TrimFront(inseg, c.p) ELSE inseg)

tcp_receive(c, s, tcplen) ==
  LET Then(d) == IF tcplen > 0 /\ d.p.state \in Open THEN ReceiveText(d, s, tcplen)
                 ELSE IF InWindow(d.p, s.seq) THEN d ELSE [d EXCEPT !.p = tcp_ack_now(@)]
  IN  Then(IF "ACK" \in s.flags THEN [c EXCEPT !.p = ReceiveAck(@, s, tcplen)] ELSE c)

-----------------------------------------------------------------------------
(* tcp_process(): the state machine.                                       *)

Goto(c, state) == [c EXCEPT !.p.state = state]
AckNow(c) == [c EXCEPT !.p = tcp_ack_now(@)]
TimeWait(c) == Goto([c EXCEPT !.p = tcp_pcb_purge(@)], "TIME_WAIT")
Reject(c, s, tcplen) == tcp_rst(c, s.ack, s.seq + tcplen)
InitialWindow(old) == IF old = 1 THEN 2 * TCP_MSS ELSE TCP_MSS

SynSent(c, s, tcplen) ==
  LET p == c.p
  IN  CASE /\ {"SYN", "ACK"} \subseteq s.flags
           /\ s.ack = Seq32(Head(p.unacked).seq + 1) ->
             [c EXCEPT !.p = tcp_ack_now(
                [p EXCEPT !.snd_buf = @ + 1, !.rcv_nxt = Seq32(s.seq + 1),
                          !.ann_edge = Seq32(s.seq + 1), !.lastack = s.ack,
                          !.snd_wnd = s.wnd, !.snd_wl1 = Seq32(s.seq - 1),
                          !.state = "ESTABLISHED", !.cwnd = InitialWindow(p.cwnd),
                          !.unacked = Tail(@), !.rtime = (Len(p.unacked) > 1),
                          !.nrtx = IF Len(p.unacked) > 1 THEN 0 ELSE @]),
                       !.conn.irs = Seq32(s.seq + 1)]
        [] /\ "ACK" \in s.flags
           /\ ~("SYN" \in s.flags /\ s.ack = Seq32(Head(p.unacked).seq + 1)) ->
             Reject(c, s, tcplen)
        [] OTHER -> c

(* accept_function() hands the application a new connection.               *)
SynRcvd(c, s, tcplen) ==
  LET a == [Goto(c, "ESTABLISHED") EXCEPT
              !.conn = [NewConn(@.accepted + 1) EXCEPT !.irs = c.p.rcv_nxt]]
      Then(d) == IF d.fin THEN Goto(AckNow(d), "CLOSE_WAIT") ELSE d
  IN  CASE "ACK" \in s.flags /\ TCP_SEQ_BETWEEN(s.ack, c.p.lastack + 1, c.p.snd_nxt) ->
             Then([tcp_receive(a, s, tcplen) EXCEPT !.p.cwnd = InitialWindow(c.p.cwnd)])
        [] "ACK" \in s.flags /\ ~TCP_SEQ_BETWEEN(s.ack, c.p.lastack + 1, c.p.snd_nxt) ->
             Reject(c, s, tcplen)
        [] "ACK" \notin s.flags /\ "SYN" \in s.flags /\ s.seq = Seq32(c.p.rcv_nxt - 1) ->
             [c EXCEPT !.p = tcp_rexmit(@)]
        [] OTHER -> c

(* From ESTABLISHED on.  Whether the own FIN is acknowledged is asked of   *)
(* snd_nxt.                                                                *)
Received(d, s, was) ==
  LET acked == "ACK" \in s.flags /\ s.ack = d.p.snd_nxt
  IN  CASE was \in {"ESTABLISHED", "CLOSE_WAIT"} ->
             IF d.fin THEN Goto(AckNow(d), "CLOSE_WAIT") ELSE d
        [] was = "FIN_WAIT_1" ->
             IF d.fin THEN IF acked THEN TimeWait(AckNow(d)) ELSE Goto(AckNow(d), "CLOSING")
             ELSE IF acked THEN Goto(d, "FIN_WAIT_2") ELSE d
        [] was = "FIN_WAIT_2" -> IF d.fin THEN TimeWait(AckNow(d)) ELSE d
        [] was = "CLOSING" -> IF acked THEN TimeWait(d) ELSE d
        [] was = "LAST_ACK" -> IF acked THEN [d EXCEPT !.ev = "CLOSED"] ELSE d

Synchronized(c, s, tcplen) == Received(tcp_receive(c, s, tcplen), s, c.p.state)

AcceptableReset(p, s) ==
  IF p.state = "SYN_SENT" THEN s.ack = p.snd_nxt
  ELSE TCP_SEQ_BETWEEN(s.seq, p.rcv_nxt, p.rcv_nxt + p.rcv_wnd)

tcp_process(c, s, tcplen) ==
  CASE "RST" \in s.flags ->
         IF AcceptableReset(c.p, s) THEN [c EXCEPT !.ev = "RESET"] ELSE c
    [] "RST" \notin s.flags /\ "SYN" \in s.flags
         /\ c.p.state \notin {"SYN_SENT", "SYN_RCVD"} -> AckNow(c)
    [] "RST" \notin s.flags /\ c.p.state = "SYN_SENT" -> SynSent(c, s, tcplen)
    [] "RST" \notin s.flags /\ c.p.state = "SYN_RCVD" -> SynRcvd(c, s, tcplen)
    [] OTHER -> Synchronized(c, s, tcplen)

-----------------------------------------------------------------------------
(* tcp_input(): who a segment is for, and what the application is told.    *)

tcp_listen_input(c, s, tcplen, i) ==
  LET p == [tcp_alloc(i) EXCEPT !.state = "SYN_RCVD", !.rcv_nxt = Seq32(s.seq + 1),
                                !.ann_edge = Seq32(s.seq + 1), !.snd_wnd = s.wnd,
                                !.snd_wl1 = Seq32(s.seq - 1)]
  IN  CASE "RST" \in s.flags -> c
        [] "RST" \notin s.flags /\ "ACK" \in s.flags -> Reject(c, s, tcplen)
        [] s.flags = {"SYN"} ->
             tcp_output([c EXCEPT !.p = tcp_enqueue_flags(p, {"SYN", "ACK"}), !.drew = TRUE])
        [] OTHER -> c

tcp_timewait_input(c, s, tcplen) ==
  CASE "RST" \in s.flags -> c
    [] /\ "RST" \notin s.flags /\ "SYN" \in s.flags
       /\ TCP_SEQ_BETWEEN(s.seq, c.p.rcv_nxt, c.p.rcv_nxt + c.p.rcv_wnd) -> Reject(c, s, tcplen)
    [] OTHER -> IF tcplen > 0 THEN tcp_output(AckNow(c)) ELSE c

(* Mutant of EventRecv: data that the mailbox refuses is dropped.          *)
EventRecv_drop(c) ==
  LET d == LWIP_ASSERT(c, c.p.refused = <<>>)
  IN  IF Full(c.conn) THEN d ELSE [d EXCEPT !.conn = Post(@, c.data)]

EventRecv(c) ==
  LET d == LWIP_ASSERT(c, c.p.refused = <<>>)
  IN  IF Full(c.conn) THEN [d EXCEPT !.p.refused = c.data]
      ELSE [d EXCEPT !.conn = Post(@, c.data)]

Events(c) ==
  LET Closed(d) == IF ~c.fin THEN d
                   ELSE IF d.p.refused # <<>> THEN [d EXCEPT !.p.refused_fin = TRUE]
                   ELSE EventClosed(d)
  IN  CASE c.ev = "RESET" -> [c EXCEPT !.p = NoPcb, !.conn = err_tcp(@, "RST")]
        [] c.ev = "CLOSED" ->
             [c EXCEPT !.p = NoPcb,
                       !.conn = IF "RXCLOSED" \in c.p.flags THEN @ ELSE err_tcp(@, "CLSD")]
        [] c.ev = "" /\ c.data # <<>> /\ "RXCLOSED" \in c.p.flags -> tcp_abort(c)
        [] OTHER -> tcp_output(Closed(IF c.data # <<>> THEN EventRecv(c) ELSE c))

tcp_input(c, s, i) ==
  LET tcplen == Len(s.data) + (IF s.flags \cap {"SYN", "FIN"} # {} THEN 1 ELSE 0)
      Process(d) == IF d.p.refused # <<>> /\ tcplen > 0 THEN d
                    ELSE Events(tcp_process(d, s, tcplen))
  IN  CASE c.p.state = "CLOSED" /\ s.to = Server -> tcp_listen_input(c, s, tcplen, i)
        [] c.p.state = "CLOSED" /\ s.to = Client ->
             IF "RST" \in s.flags THEN c ELSE Reject(c, s, tcplen)
        [] c.p.state = "TIME_WAIT" -> tcp_timewait_input(c, s, tcplen)
        [] OTHER -> Process(IF c.p.refused # <<>> THEN tcp_process_refused_data(c) ELSE c)

-----------------------------------------------------------------------------
(* The timers and the calls, as operators on a context.                    *)

FastTimer(c) ==
  LET Then(d) == IF d.p.refused # <<>> THEN tcp_process_refused_data(d) ELSE d
  IN  Then(IF "ACK_DELAY" \in c.p.flags
           THEN [tcp_output(AckNow(c)) EXCEPT !.p = Unflag(@, AckFlags)] ELSE c)

(* Which of the waiting times have passed is a choice: "rto" that of a     *)
(* retransmission or a window probe, "age" those of the states a peer may  *)
(* never let the connection leave and of queued text, "poll" the poll's.   *)
GivesUp(p) == \/ p.nrtx = TCP_MAXRTX
              \/ p.state = "SYN_SENT" /\ p.nrtx = TCP_SYNMAXRTX
TooOld(p) == \/ p.state \in {"SYN_RCVD", "LAST_ACK"}
             \/ p.state = "FIN_WAIT_2" /\ "RXCLOSED" \in p.flags

Retransmit(c, due) ==
  CASE "rto" \notin due \/ GivesUp(c.p) -> c
    [] "rto" \in due /\ ~GivesUp(c.p) /\ c.p.persist -> tcp_zero_window_probe(c)
    [] OTHER -> IF c.p.unacked = <<>> \/ ~c.p.rtime THEN c
                ELSE tcp_rexmit_rto([c EXCEPT !.p.cwnd = TCP_MSS])

SlowTimer(c, due) ==
  LET Aged(d) == IF "age" \in due THEN [d EXCEPT !.p.ooseq = <<>>] ELSE d
      Then(d) == IF GivesUp(c.p) \/ ("age" \in due /\ TooOld(d.p))
                 THEN [d EXCEPT !.p = NoPcb, !.conn = err_tcp(@, "ABRT")]
                 ELSE IF "poll" \in due THEN tcp_output(Aged(d)) ELSE Aged(d)
  IN  IF c.p.state # "TIME_WAIT" THEN Then(Retransmit(c, due))
      ELSE IF "age" \in due THEN [c EXCEPT !.p = NoPcb] ELSE c

(* do_connect(): netconn_new() has drawn a first number for the pcb.       *)
Connect(c, i) ==
  LET p == [tcp_alloc(i) EXCEPT !.snd_nxt = Seq32(i + TickStep),
                                !.lastack = Seq32(i + TickStep - 1),
                                !.snd_lbb = Seq32(i + TickStep - 1), !.snd_wnd = TCP_WND]
  IN  tcp_output([c EXCEPT !.p = [tcp_enqueue_flags(p, {"SYN"}) EXCEPT !.state = "SYN_SENT"],
                           !.conn = NewConn(0)])

Write(c, n) ==
  LET data == [k \in 1..n |-> c.conn.wrote + k]
  IN  tcp_output([c EXCEPT !.p = tcp_write(@, data), !.conn.wrote = @ + n])

(* tcp_send_fin() succeeds.                                                *)
FinFits(p) == \/ p.snd_buf > 0
              \/ p.unsent # <<>> /\ Last(p.unsent).flags \cap {"SYN", "FIN"} = {}

SendFin(c) ==
  tcp_output([c EXCEPT !.p = [tcp_send_fin(@) EXCEPT
                 !.state = IF c.p.state = "CLOSE_WAIT" THEN "LAST_ACK" ELSE "FIN_WAIT_1"]])

(* Unread text makes the close a reset.                                    *)
tcp_close(c) ==
  LET d == [c EXCEPT !.p = Flag(@, {"RXCLOSED"})]
      unread == c.p.refused # <<>> \/ c.p.rcv_wnd # TCP_WND
      r == tcp_rst(d, c.p.snd_nxt, c.p.rcv_nxt)
  IN  CASE c.p.state \in {"ESTABLISHED", "CLOSE_WAIT"} /\ unread ->
             IF c.p.state = "ESTABLISHED" THEN TimeWait(r) ELSE [r EXCEPT !.p = NoPcb]
        [] c.p.state \in {"ESTABLISHED", "CLOSE_WAIT"} /\ ~unread -> SendFin(d)
        [] OTHER -> d

netconn_drain(c) ==
  LET d == FoldLeft(LAMBDA e, m : IF m = <<>> \/ ~c.conn.attached THEN e
                                  ELSE tcp_recved(e, Len(m)), c, c.conn.recvmbox)
  IN  [d EXCEPT !.conn.recvmbox = <<>>]

Delete(c) ==
  LET Close(d) == IF c.conn.attached THEN tcp_close(d) ELSE d
  IN  [Close(netconn_drain(c)) EXCEPT !.conn.open = FALSE, !.conn.attached = FALSE]

-----------------------------------------------------------------------------
(* The steps.                                                              *)

Context(h) == [to |-> Peer(h), p |-> pcb[h], out |-> <<>>, conn |-> conn[h], ok |-> TRUE,
               data |-> <<>>, fin |-> FALSE, ev |-> "", drew |-> FALSE]

Sent(out) == FoldLeft(LAMBDA b, s : b (+) SetToBag({s}), EmptyBag, out)

(* What a step of host h leaves behind, with rest still in the network.    *)
Leaves(h, c, rest) ==
  /\ pcb' = [pcb EXCEPT ![h] = c.p]
  /\ conn' = [conn EXCEPT ![h] = c.conn]
  /\ net' = rest (+) Sent(c.out)
  /\ stopped' = IF c.ok THEN stopped ELSE stopped \cup {h}
  /\ UNCHANGED tuse

Runs(h) == h \notin stopped
Calls(h, call) == <<h, call>> \in tuse.calls
Live(h) == conn[h].attached /\ pcb[h].state \notin {"CLOSED", "SYN_SENT"}
Idle(h) == conn[h].open /\ ~conn[h].reading /\ conn[h].owed = 0
Finished(h) == conn[h].wrote = tuse.writes[h] \/ conn[h].err # "OK"

TcpInit ==
  /\ tuse \in TcpUses
  /\ pcb = [h \in Host |-> NoPcb]
  /\ conn = [h \in Host |-> NoConn]
  /\ net = EmptyBag
  /\ iss = [h \in Host |-> FirstIss]
  /\ faults = tuse.faults
  /\ stopped = {}

netconn_connect ==
  /\ Runs(Client) /\ ~conn[Client].open /\ conn[Client].accepted = 0 /\ iss[Client] = FirstIss
  /\ Leaves(Client, Connect(Context(Client), Seq32(FirstIss + TickStep)), net)
  /\ iss' = [iss EXCEPT ![Client] = Seq32(FirstIss + 2 * TickStep)]
  /\ UNCHANGED faults

netconn_write(h) ==
  /\ Runs(h) /\ Live(h) /\ Idle(h) /\ conn[h].err = "OK"
  /\ pcb[h].state \in {"ESTABLISHED", "CLOSE_WAIT"}
  /\ \E n \in 1..TCP_MSS : /\ n <= pcb[h].snd_buf /\ conn[h].wrote + n <= tuse.writes[h]
                           /\ Leaves(h, Write(Context(h), n), net)
  /\ UNCHANGED <<iss, faults>>

(* netconn_recv_data(): the check of last_err, the wait on the mailbox,    *)
(* and the message that tells the stack.                                   *)
netconn_recv(h) ==
  /\ Calls(h, "recv") /\ Runs(h) /\ Idle(h) /\ conn[h].err = "OK"
  /\ pcb[h].state # "SYN_SENT"
  /\ conn' = [conn EXCEPT ![h].reading = TRUE]
  /\ UNCHANGED <<tuse, pcb, net, iss, faults, stopped>>

netconn_recv_fetch(h) ==
  /\ conn[h].reading /\ conn[h].recvmbox # <<>>
  /\ LET m == Head(conn[h].recvmbox)
     IN  conn' = [conn EXCEPT ![h].reading = FALSE, ![h].recvmbox = Tail(@),
                              ![h].owed = IF m = <<>> THEN 1 ELSE Len(m),
                              ![h].got = @ \o m,
                              ![h].eof = (m = <<>> /\ conn[h].err = "OK")]
  /\ UNCHANGED <<tuse, pcb, net, iss, faults, stopped>>

do_recv(h) ==
  /\ Runs(h) /\ conn[h].owed > 0
  /\ ~conn[h].attached \/ Live(h)
  /\ LET c == Context(h)
         d == IF conn[h].attached THEN tcp_recved(c, conn[h].owed) ELSE c
     IN  Leaves(h, [d EXCEPT !.conn.owed = 0,
                             !.conn = IF @.eof THEN SetErr(@, "CLSD") ELSE @], net)
  /\ UNCHANGED <<iss, faults>>

netconn_shutdown(h) ==
  /\ Calls(h, "shutdown") /\ Runs(h) /\ Live(h) /\ Idle(h) /\ Finished(h)
  /\ pcb[h].state \in {"ESTABLISHED", "CLOSE_WAIT"} /\ FinFits(pcb[h])
  /\ Leaves(h, SendFin(Context(h)), net)
  /\ UNCHANGED <<iss, faults>>

netconn_delete(h) ==
  /\ Calls(h, "delete") /\ Runs(h) /\ Idle(h) /\ Finished(h)
  /\ conn[h].attached => Live(h) /\ FinFits(pcb[h])
  /\ Leaves(h, Delete(Context(h)), net)
  /\ UNCHANGED <<iss, faults>>

tcp_fasttmr(h) ==
  /\ Runs(h) /\ pcb[h].state \notin {"CLOSED", "TIME_WAIT"}
  /\ "ACK_DELAY" \in pcb[h].flags \/ pcb[h].refused # <<>>
  /\ Leaves(h, FastTimer(Context(h)), net)
  /\ UNCHANGED <<iss, faults>>

(* A retransmission timer that expires with segments under way is a fault; *)
(* the long waits outlive every segment.                                   *)
tcp_slowtmr(h, due) ==
  /\ Runs(h) /\ pcb[h].state # "CLOSED"
  /\ "rto" \in due => pcb[h].unacked \o pcb[h].unsent # <<>>
  /\ "age" \in due => net = EmptyBag
  /\ IF "rto" \in due /\ net # EmptyBag
     THEN faults > 0 /\ faults' = faults - 1 ELSE UNCHANGED faults
  /\ Leaves(h, SlowTimer(Context(h), due), net)
  /\ UNCHANGED iss


(* The network hands a segment over, and keeps it if it will come twice.   *)
Deliver(s, twice) ==
  /\ Runs(s.to)
  /\ LET i == Seq32(iss[s.to] + TickStep)
     IN  \E c \in {tcp_input(Context(s.to), s, i)} :
           /\ Leaves(s.to, c, IF twice THEN net ELSE net (-) SetToBag({s}))
           /\ iss' = IF c.drew THEN [iss EXCEPT ![s.to] = i] ELSE iss

tcp_input_once == /\ \E s \in BagToSet(net) : Deliver(s, FALSE)
                  /\ UNCHANGED faults
Duplicated == /\ faults > 0 /\ \E s \in BagToSet(net) : Deliver(s, TRUE)
              /\ faults' = faults - 1
Lost == /\ faults > 0 /\ \E s \in BagToSet(net) : net' = net (-) SetToBag({s})
        /\ faults' = faults - 1
        /\ UNCHANGED <<tuse, pcb, conn, iss, stopped>>

TcpNext ==
  \/ netconn_connect
  \/ \E h \in Host : \/ netconn_write(h) \/ netconn_recv(h) \/ netconn_recv_fetch(h)
                     \/ do_recv(h) \/ netconn_shutdown(h) \/ netconn_delete(h)
                     \/ tcp_fasttmr(h)
                     \/ \E due \in SUBSET {"rto", "age", "poll"} : tcp_slowtmr(h, due)
  \/ tcp_input_once \/ Duplicated \/ Lost

TcpSpec == TcpInit /\ [][TcpNext]_tcpvars

-----------------------------------------------------------------------------
Stream(h) == [k \in 1..conn[h].wrote |-> k]
Taken(h) == conn[h].got \o FlattenSeq(conn[h].recvmbox)
              \o (IF conn[h].attached THEN pcb[h].refused ELSE <<>>)


(* What rcv_nxt acknowledges is with the application, in its mailbox or in *)
(* refused_data, to the byte; the peer's FIN counts for one.               *)
AckIsDelivered ==
  \A h \in Host : conn[h].attached /\ pcb[h].state \notin {"CLOSED", "SYN_SENT"} =>
    LET n == Minus(pcb[h].rcv_nxt, conn[h].irs)
    IN  IF pcb[h].state \in Open THEN n = Len(Taken(h)) ELSE n = Len(Taken(h)) + 1


Queues(p) == Range(p.unacked) \cup Range(p.unsent)
Covers(q, n, lastack) == Minus(q.seq, lastack) <= n /\ n < Minus(q.seq, lastack) + q.len

(* Every byte between lastack and snd_lbb is in exactly one segment of     *)
(* unsent and unacked, with its own number, and snd_buf counts the rest,   *)
(* however segments move between the queues.                               *)
KeptOnce(h) ==
  LET p == pcb[h]
      n == Minus(p.snd_lbb, p.lastack)
  IN  /\ p.snd_buf + n = TCP_SND_BUF
      /\ \A k \in 0..(n - 1) :
           LET here == {q \in Queues(p) : Covers(q, k, p.lastack)}
           IN  /\ Cardinality(here) = 1
               /\ \A q \in here :
                    q.data[k - Minus(q.seq, p.lastack) + 1] = conn[h].wrote - n + k + 1

(* What was written is repeated until it is acknowledged: its bytes are    *)
(* kept, the retransmission timer runs while a segment is unacknowledged   *)
(* and the persist timer while the peer's window is closed, through all    *)
(* the places that start and stop them.                                    *)
NothingForgotten ==
  \A h \in Host :
    /\ pcb[h].state \in {"ESTABLISHED", "CLOSE_WAIT"} => KeptOnce(h)
    /\ pcb[h].state \in {"ESTABLISHED", "CLOSE_WAIT", "FIN_WAIT_1", "CLOSING", "LAST_ACK"} =>
         /\ pcb[h].unacked # <<>> => pcb[h].rtime
         /\ pcb[h].snd_wnd = 0 => pcb[h].persist

(* The right edge of the window that was announced to the peer never moves *)
(* back, as tcp_update_rcv_ann_wnd() takes care.                           *)
WindowNeverShrinks ==
  [][\A h \in Host :
       pcb[h].state \notin {"CLOSED", "SYN_SENT"} /\ pcb'[h].state # "CLOSED" =>
         TCP_SEQ_GEQ(pcb'[h].ann_edge, pcb[h].ann_edge)]_tcpvars

(* tcp_receive() asserts that a segment it takes from the queue of those   *)
(* out of order fits in the window.                                        *)
AssertsHold == stopped = {}
=============================================================================
