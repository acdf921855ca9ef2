------------------------------- MODULE TcpOut -------------------------------
(***************************************************************************)
(* The sending half of lwIP's TCP (tcp_out.c) as operators.  A context c   *)
(* holds the control block c.p of one host, and in c.out the segments it   *)
(* has put on the wire for the host c.to.  Sequence numbers count modulo   *)
(* SeqSpace, the model's 2^32; a byte of a stream is its place in it.        *)
(***************************************************************************)
EXTENDS Integers, Sequences, FiniteSets, SequencesExt

CONSTANTS TCP_MSS,       \* 1460 in the configuration
          TCP_WND,       \* 2 * TCP_MSS
          TCP_SND_BUF,   \* 2 * TCP_MSS
          SeqSpace

(* The congestion window counts only up to TCP_WND: a larger one never     *)
(* limits a host that is offered TCP_WND at most.  ssthresh never falls    *)
(* below 2 * TCP_MSS, so that with these sizes it never limits either.     *)
ASSUME TcpSizes == /\ TCP_MSS \in Nat \ {0}
                   /\ TCP_WND = 2 * TCP_MSS
                   /\ TCP_SND_BUF \in Nat \ {0}
                   /\ SeqSpace > 4 * TCP_WND

Seq32(n) == n % SeqSpace
Minus(a, b) == IF Seq32(a - b) < SeqSpace \div 2 THEN Seq32(a - b)
                                               ELSE Seq32(a - b) - SeqSpace
TCP_SEQ_LT(a, b) == Minus(a, b) < 0
TCP_SEQ_LEQ(a, b) == Minus(a, b) <= 0
TCP_SEQ_GT(a, b) == Minus(a, b) > 0
TCP_SEQ_GEQ(a, b) == Minus(a, b) >= 0
TCP_SEQ_BETWEEN(a, b, c) == TCP_SEQ_GEQ(a, b) /\ TCP_SEQ_LEQ(a, c)

TCP_TCPLEN(s) == s.len + (IF s.flags \cap {"SYN", "FIN"} # {} THEN 1 ELSE 0)

(* The first segments of q that all pass the test are dropped.             *)
Leading(q, Test(_)) == Cardinality({i \in DOMAIN q : \A j \in 1..i : Test(q[j])})
From(q, n) == SubSeq(q, n + 1, Len(q))
DropWhile(q, Test(_)) == From(q, Leading(q, Test))

(* A segment is put before the first one that does not precede it.         *)
InSequence(q, s) ==
  LET n == Leading(q, LAMBDA e : TCP_SEQ_LT(e.seq, s.seq))
  IN  SubSeq(q, 1, n) \o <<s>> \o From(q, n)

(* tcp_alloc(), with the initial sequence number it draws.                 *)
tcp_alloc(iss) ==
  [state |-> "CLOSED", snd_nxt |-> iss, lastack |-> iss, snd_lbb |-> iss,
   snd_wl1 |-> 0, snd_wl2 |-> iss, snd_wnd |-> 0, snd_buf |-> TCP_SND_BUF,
   cwnd |-> 1, unsent |-> <<>>, unacked |-> <<>>, ooseq |-> <<>>,
   rcv_nxt |-> 0, rcv_wnd |-> TCP_WND, rcv_ann_wnd |-> TCP_WND, ann_edge |-> 0,
   flags |-> {}, nrtx |-> 0, dupacks |-> 0, persist |-> FALSE, rtime |-> FALSE,
   refused |-> <<>>, refused_fin |-> FALSE]

(* What becomes of a control block that is freed.                          *)
NoPcb == tcp_alloc(0)

Flag(p, f) == [p EXCEPT !.flags = @ \cup f]
Unflag(p, f) == [p EXCEPT !.flags = @ \ f]
AckFlags == {"ACK_DELAY", "ACK_NOW"}
tcp_ack_now(p) == Flag(p, {"ACK_NOW"})
tcp_ack(p) == IF "ACK_DELAY" \in p.flags
              THEN tcp_ack_now(Unflag(p, {"ACK_DELAY"})) ELSE Flag(p, {"ACK_DELAY"})

(* A header is filled in from the control block when it goes out, and the  *)
(* window that it announces is remembered.                                 *)
Emit(c, seqno, flags, data) ==
  [c EXCEPT !.out = Append(@, [to |-> c.to, seq |-> seqno, ack |-> c.p.rcv_nxt,
                               flags |-> flags, wnd |-> c.p.rcv_ann_wnd, data |-> data]),
            !.p.ann_edge = Seq32(c.p.rcv_nxt + c.p.rcv_ann_wnd)]

tcp_rst(c, seqno, ackno) ==
  [c EXCEPT !.out = Append(@, [to |-> c.to, seq |-> seqno, ack |-> Seq32(ackno),
                               flags |-> {"RST", "ACK"}, wnd |-> TCP_WND, data |-> <<>>])]

tcp_send_empty_ack(c) ==
  Emit([c EXCEPT !.p = Unflag(@, AckFlags)], c.p.snd_nxt, {"ACK"}, <<>>)

(* The head of the unsent queue fits into what the peer and the congestion *)
(* window allow.                                                           *)
Fits(p) == Seq32(Head(p.unsent).seq - p.lastack + Head(p.unsent).len)
             <= Min({p.snd_wnd, p.cwnd})

tcp_do_output_nagle(p) == \/ p.unacked = <<>>
                          \/ p.flags \cap {"NODELAY", "INFR"} # {}
                          \/ Len(p.unsent) > 1
                          \/ Head(p.unsent).len >= TCP_MSS
                          \/ p.snd_buf = 0

(* One turn of tcp_output(): the head of unsent goes out and to unacked.   *)
OutputOne(c) ==
  LET s == IF c.p.state = "SYN_SENT" THEN Head(c.p.unsent)
           ELSE [Head(c.p.unsent) EXCEPT !.flags = @ \cup {"ACK"}]
      d == Emit(c, s.seq, s.flags, s.data)
      end == Seq32(s.seq + TCP_TCPLEN(s))
      late == c.p.unacked # <<>> /\ TCP_SEQ_LT(s.seq, Last(c.p.unacked).seq)
  IN  [d EXCEPT
        !.p.unsent = Tail(@),
        !.p.flags = IF c.p.state = "SYN_SENT" THEN @ ELSE @ \ AckFlags,
        !.p.rtime = TRUE,
        !.p.snd_nxt = IF TCP_SEQ_LT(@, end) THEN end ELSE @,
        !.p.unacked = IF TCP_TCPLEN(s) = 0 THEN @
                      ELSE IF late THEN InSequence(@, s) ELSE Append(@, s)]

RECURSIVE OutputAll(_)
OutputAll(c) ==
  IF /\ c.p.unsent # <<>> /\ Fits(c.p)
     /\ tcp_do_output_nagle(c.p) \/ "FIN" \in c.p.flags
  THEN OutputAll(OutputOne(c)) ELSE c

tcp_output(c) ==
  IF "ACK_NOW" \in c.p.flags /\ (c.p.unsent = <<>> \/ ~Fits(c.p))
  THEN tcp_send_empty_ack(c) ELSE OutputAll(c)

(* A segment with SYN or FIN takes a sequence number and a byte of buffer. *)
tcp_enqueue_flags(p, flags) ==
  [p EXCEPT !.unsent = Append(@, [seq |-> p.snd_lbb, len |-> 0, data |-> <<>>,
                                  flags |-> flags]),
            !.snd_lbb = Seq32(@ + 1), !.snd_buf = @ - 1,
            !.flags = @ \cup (flags \cap {"FIN"})]

(* FIN joins the last segment not yet sent if that carries no flag.        *)
tcp_send_fin(p) ==
  IF p.unsent # <<>> /\ Last(p.unsent).flags \cap {"SYN", "FIN"} = {}
  THEN Flag([p EXCEPT !.unsent[Len(p.unsent)].flags = @ \cup {"FIN"}], {"FIN"})
  ELSE tcp_enqueue_flags(p, {"FIN"})

(* Bytes of at most one segment: they fill the last unsent segment up, and *)
(* what is left makes a new one.                                           *)
tcp_write(p, data) ==
  LET joins == p.unsent # <<>> /\ Last(p.unsent).len > 0
      room == IF joins THEN Min({TCP_MSS - Last(p.unsent).len, Len(data)}) ELSE 0
      grown == IF room = 0 THEN p.unsent
               ELSE [p.unsent EXCEPT ![Len(p.unsent)].len = @ + room,
                                     ![Len(p.unsent)].data = @ \o SubSeq(data, 1, room)]
      rest == From(data, room)
  IN  [p EXCEPT
        !.unsent = IF rest = <<>> THEN grown
                   ELSE Append(grown, [seq |-> Seq32(p.snd_lbb + room),
                                       len |-> Len(rest), data |-> rest, flags |-> {}]),
        !.snd_lbb = Seq32(@ + Len(data)), !.snd_buf = @ - Len(data)]

(* The first unacknowledged segment goes back to the unsent queue.         *)
tcp_rexmit(p) ==
  IF p.unacked = <<>> THEN p
  ELSE [p EXCEPT !.unsent = InSequence(@, Head(p.unacked)),
                 !.unacked = Tail(@), !.nrtx = @ + 1]

tcp_rexmit_fast(p) ==
  IF p.unacked = <<>> \/ "INFR" \in p.flags THEN p
  ELSE Flag([tcp_rexmit(p) EXCEPT !.cwnd = TCP_WND], {"INFR"})

(* Mutant of tcp_rexmit_rto: what was not sent yet is forgotten.           *)
tcp_rexmit_rto_only(c) ==
  IF c.p.unacked = <<>> THEN c
  ELSE tcp_output([c EXCEPT !.p.unsent = c.p.unacked, !.p.unacked = <<>>, !.p.nrtx = @ + 1])

(* After a retransmission timeout all of them do.                          *)
tcp_rexmit_rto(c) ==
  IF c.p.unacked = <<>> THEN c
  ELSE tcp_output([c EXCEPT !.p.unsent = c.p.unacked \o @, !.p.unacked = <<>>,
                            !.p.nrtx = @ + 1])

(* One sequence number of the first segment is sent into a closed window;  *)
(* neither queue nor snd_nxt follows it.                                   *)
tcp_zero_window_probe(c) ==
  LET q == c.p.unacked \o c.p.unsent
      fin == "FIN" \in Head(q).flags /\ Head(q).len = 0
  IN  IF q = <<>> THEN c
      ELSE Emit(c, Head(q).seq, IF fin THEN {"ACK", "FIN"} ELSE {"ACK"},
                IF fin THEN <<>> ELSE SubSeq(Head(q).data, 1, 1))
=============================================================================
