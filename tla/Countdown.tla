----------------------------- MODULE Countdown -----------------------------
(***************************************************************************)
(* What the timers promise, and what Sched takes them for: a running timer *)
(* counts down one per tick, and every timer that reaches zero is called   *)
(* before the clock interrupt returns.                                     *)
(***************************************************************************)
EXTENDS Integers

CONSTANTS Timer, MaxTime

VARIABLES left,           \* ticks until a timer is due, Off when it is not running
          isr             \* TRUE in the clock interrupt

Off == -1

CInit == left = [x \in Timer |-> Off] /\ isr = FALSE

(* A timer that is not running may be started, with at most what it asks   *)
(* for left; one with nothing left is due in the next interrupt.           *)
CStart(x) == /\ left[x] = Off /\ ~isr
             /\ \E n \in 0..MaxTime : left' = [left EXCEPT ![x] = n]
             /\ UNCHANGED isr

CStop(x) == left' = [left EXCEPT ![x] = Off] /\ UNCHANGED isr

CTick == /\ ~isr
         /\ left' = [x \in Timer |-> IF left[x] > 0 THEN left[x] - 1 ELSE left[x]]
         /\ isr' = TRUE

(* A due timer is called, and is started again if it is periodic.          *)
CFire(x) == /\ isr /\ left[x] = 0
            /\ \E n \in {Off} \cup 1..MaxTime : left' = [left EXCEPT ![x] = n]
            /\ UNCHANGED isr

CLeave == isr /\ (\A x \in Timer : left[x] # 0) /\ isr' = FALSE /\ UNCHANGED left

CNext == \/ CTick \/ CLeave
         \/ \E x \in Timer : CStart(x) \/ (~isr /\ CStop(x)) \/ CFire(x)

CSpec == CInit /\ [][CNext]_<<left, isr>>
=============================================================================
