------------------------------ MODULE MCKernel ------------------------------
(* Small systems for Kernel: the root thread r, threads a and b with       *)
(* priorities of their own, idle i, and objects they share.                *)
EXTENDS Kernel

CONSTANTS r, a, b, i, lk, sg, mt, bx, bxs, mqu, ev

DistinctPrio == [t \in Thread |-> CASE t = r -> 0 [] t = a -> 1 [] t = b -> 2
                                    [] t = i -> PrioMax - 1]

ShortSlice == [t \in Thread |-> 1]

LockAndSignal == [o \in Semaphores |-> IF o = lk THEN 1 ELSE 0]

BoxSenders == [o \in MailBoxes |-> bxs]

(* a and b share a lock, a waits for the signal, and r, b and an interrupt *)
(* handler give it; b resets it.                                           *)
LockProgram == {<<a, "take", lk, -1>>, <<a, "release", lk, 0>>,
                <<b, "take", lk, -1>>, <<b, "release", lk, 0>>,
                <<a, "take", sg, -1>>, <<r, "release", sg, 0>>,
                <<b, "release", sg, 0>>, <<NULL, "release", sg, 0>>,
                <<b, "reset", sg, 0>>}

(* b waits for a mutex that r, more urgent, takes when it is available; b  *)
(* waits for a signal of a while it owns the mutex.                        *)
MutexProgram == {<<r, "take", mt, 0>>, <<r, "release", mt, 0>>,
                 <<b, "take", mt, -1>>, <<b, "release", mt, 0>>,
                 <<b, "take", sg, -1>>, <<a, "release", sg, 0>>}

(* a waits for mail and b for room, an interrupt handler sends and r       *)
(* resets the mailbox; or they wait for a tick, and r takes what there is. *)
MailProgram == {<<a, "recv", bx, -1>>, <<b, "send", bx, -1>>, <<r, "reset", bx, 0>>,
                <<NULL, "send", bx, 0>>}
MailTimed == {<<a, "recv", bx, 1>>, <<b, "send", bx, -1>>, <<b, "send", bx, 1>>,
              <<r, "recv", bx, 0>>}

(* a waits for messages of b and of an interrupt handler, and r resets the *)
(* queue; or a waits for a tick, and r sends urgent messages.              *)
QueueProgram == {<<a, "recv", mqu, -1>>, <<b, "send", mqu, 0>>, <<r, "reset", mqu, 0>>,
                 <<NULL, "send", mqu, 0>>}
QueueTimed == {<<a, "recv", mqu, 1>>, <<b, "send", mqu, 0>>, <<r, "urgent", mqu, 0>>}

(* a waits for events of b and of an interrupt handler, and r resets them; *)
(* or a waits for a tick, and r takes the events there are.                *)
EventProgram == {<<a, "recv", ev, -1>>, <<b, "send", ev, 0>>, <<r, "reset", ev, 0>>,
                 <<NULL, "send", ev, 0>>}
EventTimed == {<<a, "recv", ev, 1>>, <<b, "send", ev, 0>>, <<r, "recv", ev, 0>>}

EachProgram == {LockProgram, MutexProgram, MailProgram, MailTimed,
                QueueProgram, QueueTimed, EventProgram, EventTimed}

(* r waits for a mutex that b owns, so that b inherits its priority.       *)
InheritedPriority == {{<<r, "take", mt, -1>>, <<r, "release", mt, 0>>,
                       <<b, "take", mt, -1>>, <<b, "release", mt, 0>>}}

(* Two threads wait for the signal, for ever or for a tick, r gives it.    *)
TimedWaits == {({a, b} \X {"take"} \X {sg} \X {-1, 1}) \cup {<<r, "release", sg, 0>>}}
=============================================================================
