-------------------------------- MODULE Fifo --------------------------------
(***************************************************************************)
(* What mailboxes and message queues promise: bounded queues.  A receiver  *)
(* gets the first value that was sent and not received; where there are    *)
(* urgent values, they go to the front.                                    *)
(***************************************************************************)
EXTENDS Integers, Sequences

CONSTANTS Object, Reader, Value, NoValue, Capacity

VARIABLES queue,          \* the values in each object
          got,            \* the value each reader received last
          urgent          \* the objects that urgent values are sent to

fifovars == <<queue, got, urgent>>

FifoInit == /\ queue = [o \in Object |-> <<>>] /\ got = [t \in Reader |-> NoValue]
            /\ urgent \in SUBSET Object

Put(o) == /\ Len(queue[o]) < Capacity
          /\ \E v \in Value : queue' = [queue EXCEPT ![o] = Append(@, v)]
          /\ UNCHANGED <<got, urgent>>

PutFirst(o) == /\ Len(queue[o]) < Capacity
               /\ \E v \in Value : queue' = [queue EXCEPT ![o] = <<v>> \o @]
               /\ o \in urgent /\ UNCHANGED <<got, urgent>>

Get(o, t) == /\ queue[o] # <<>>
             /\ queue' = [queue EXCEPT ![o] = Tail(@)]
             /\ got' = [got EXCEPT ![t] = Head(queue[o])]
             /\ UNCHANGED urgent

Clear(o) == queue' = [queue EXCEPT ![o] = <<>>] /\ UNCHANGED <<got, urgent>>

FifoNext == \E o \in Object : \/ Put(o) \/ PutFirst(o) \/ Clear(o)
                              \/ \E t \in Reader : Get(o, t)

FifoSpec == FifoInit /\ [][FifoNext]_fifovars
=============================================================================
