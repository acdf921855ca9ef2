------------------------------- MODULE RxRing -------------------------------
(* The receive buffers of console.cpp and serial.cpp: the interrupt        *)
(* handler of the device stores characters in a ring, readers take them    *)
(* out one critical section at a time.  A full ring gives up its oldest    *)
(* character.  The indexes are members that no constructor sets: here they *)
(* start anywhere inside the ring.                                         *)
EXTENDS Integers, Sequences, SequencesExt

CONSTANTS Char,             \* what is received
          Garbage,          \* what an element holds that was never stored
          RX_BUFFER_SIZE,
          MaxBurst,         \* characters the keyboard holds for one interrupt
          MaxRead           \* the size a reader asks for

VARIABLES rx_buffer, read_index, save_index,
          size,             \* what driver_read still wants, 0 outside of it
          unread            \* history: the characters not read and not given up

ringvars == <<rx_buffer, read_index, save_index, size, unread>>

Place == 0..RX_BUFFER_SIZE - 1
Moved(i) == IF i + 1 >= RX_BUFFER_SIZE THEN 0 ELSE i + 1
Ring == [rx |-> rx_buffer, r |-> read_index, s |-> save_index]

(* What the handler of the keyboard announces to rx_indicate_.             *)
rx_length(g) == IF g.r > g.s THEN RX_BUFFER_SIZE - g.r + g.s ELSE g.s - g.r

RingInit ==
  /\ rx_buffer = [i \in Place |-> Garbage]
  /\ read_index \in Place /\ save_index \in Place
  /\ size = 0
  /\ unread = [k \in 1..rx_length(Ring) |-> Garbage]

(* Mutant of Stored: a full ring does not give up its oldest character.    *)
Stored_over(g, c) ==
  [rx |-> [g.rx EXCEPT ![g.s] = c], r |-> g.r, s |-> Moved(g.s)]

(* One character: when the next place is that of the reader, the oldest    *)
(* character goes.                                                         *)
Stored(g, c) ==
  LET s == Moved(g.s)
  IN  [rx |-> [g.rx EXCEPT ![g.s] = c], r |-> IF s = g.r THEN Moved(g.r) ELSE g.r, s |-> s]

Kept(q) == IF Len(q) < RX_BUFFER_SIZE THEN q ELSE Tail(q)

Becomes(g) == rx_buffer' = g.rx /\ read_index' = g.r /\ save_index' = g.s

(* The handler of the serial line takes one character.                     *)
serial_isr(c) ==
  /\ Becomes(Stored(Ring, c))
  /\ unread' = Kept(Append(unread, c))
  /\ UNCHANGED size

(* That of the keyboard takes them until a key goes up or none is left;    *)
(* the function it calls then is not part of the drivers.                  *)
console_isr(cs) ==
  /\ Becomes(FoldLeft(Stored, Ring, cs))
  /\ unread' = FoldLeft(LAMBDA q, c : Kept(Append(q, c)), unread, cs)
  /\ UNCHANGED size

driver_read(n) ==
  /\ size = 0
  /\ size' = n
  /\ UNCHANGED <<rx_buffer, read_index, save_index, unread>>

(* One turn of its loop, with interrupts disabled.                         *)
read_char ==
  /\ size > 0
  /\ IF read_index # save_index
     THEN /\ read_index' = Moved(read_index)
          /\ unread' = SubSeq(unread, 2, Len(unread))
          /\ size' = size - 1
     ELSE size' = 0 /\ UNCHANGED <<unread, read_index>>
  /\ UNCHANGED <<rx_buffer, save_index>>

RingNext ==
  \/ \E c \in Char : serial_isr(c)
  \/ \E cs \in BoundedSeq(Char, MaxBurst) : console_isr(cs)
  \/ \E n \in 1..MaxRead : driver_read(n)
  \/ read_char

(* What a reader finds from read_index_ up to save_index_ is what the      *)
(* handler stored last, in order and up to the capacity, and the length    *)
(* announced to rx_indicate_ is the number of these characters.            *)
RingExact ==
  /\ rx_length(Ring) = Len(unread)
  /\ \A k \in 1..Len(unread) : rx_buffer[(read_index + k - 1) % RX_BUFFER_SIZE] = unread[k]
=============================================================================
