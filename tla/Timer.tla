------------------------------- MODULE Timer -------------------------------
(***************************************************************************)
(* Timer and the system tick.  A tick is a number of W bits that wraps;    *)
(* the code has W = 32.  timer_tree_ is the set of the timers in it, which *)
(* is what RBTree is for three nodes, ordered by the keys of their nodes.  *)
(* start() and stop() enable interrupts between their steps; the clock     *)
(* interrupt runs Timer::check to its end.                                 *)
(***************************************************************************)
EXTENDS Integers

CONSTANTS Timer,          \* the timers, each used by one thread
          W,              \* the bits of a tick
          StartTick,      \* global_tick at the start
          MaxTicks,       \* bound: ticks counted from there
          Time,           \* the times in use for init_tick_
          Callback        \* what timeout_func_ does to its own timer: "none",
                          \* "stop" or "start"

VARIABLES tick,           \* global_tick
          tree,           \* the timers in timer_tree_
          timeout_tick, init_tick,
          active, periodic,
                          \* FLAG_ACTIVATED and FLAG_PERIODIC
          pc,             \* what the user of each timer does next
          isr,            \* TRUE in Timer::check
          elapsed         \* ticks counted (history)

vars == <<tick, tree, timeout_tick, init_tick, active, periodic, pc, isr, elapsed>>

Range == 2^W
TickMax == Range - 1
Half == TickMax \div 2

(* A key is a long: the tick as a signed number.                           *)
Key(n) == IF n < Range \div 2 THEN n ELSE n - Range

(* The unsigned difference of two ticks.                                   *)
Since(n, m) == (n - m) % Range

ASSUME TimerAssumption ==
  /\ W \in Nat \ {0, 1} /\ StartTick \in 0..TickMax /\ MaxTicks \in Nat
  /\ Time \subseteq 1..(Half - 1)
  /\ Callback \in [Timer -> {"none", "stop", "start"}]

Init == /\ tick = StartTick
        /\ tree = {}
        /\ timeout_tick = [x \in Timer |-> 0]
        /\ init_tick \in [Timer -> Time]
        /\ active = [x \in Timer |-> FALSE]
        /\ periodic \in [Timer -> BOOLEAN]
        /\ pc = [x \in Timer |-> "idle"]
        /\ isr = FALSE
        /\ elapsed = 0

At(x, l) == ~isr /\ pc[x] = l
Goto(x, l) == pc' = [pc EXCEPT ![x] = l]
-----------------------------------------------------------------------------
(* start(): out of the tree, a new timeout_tick_, and in again.            *)

start(x) ==
  /\ At(x, "idle")
  /\ tree' = tree \ {x}
  /\ active' = [active EXCEPT ![x] = FALSE]
  /\ Goto(x, "tick")
  /\ UNCHANGED <<tick, timeout_tick, init_tick, periodic, isr, elapsed>>

start_tick(x) ==
  /\ At(x, "tick")
  /\ timeout_tick' = [timeout_tick EXCEPT ![x] = (tick + init_tick[x]) % Range]
  /\ Goto(x, "insert")
  /\ UNCHANGED <<tick, tree, init_tick, active, periodic, isr, elapsed>>

start_insert(x) ==
  /\ At(x, "insert")
  /\ tree' = tree \cup {x}
  /\ active' = [active EXCEPT ![x] = TRUE]
  /\ Goto(x, "idle")
  /\ UNCHANGED <<tick, timeout_tick, init_tick, periodic, isr, elapsed>>

(* stop() looks at the flag, then takes the timer out, then clears it.     *)
stop(x) ==
  /\ At(x, "idle") /\ active[x]
  /\ Goto(x, "remove")
  /\ UNCHANGED <<tick, tree, timeout_tick, init_tick, active, periodic, isr, elapsed>>

(* Mutant of stop_remove: the timer stays in the tree.                     *)
stop_remove_not(x) ==
  /\ At(x, "remove")
  /\ Goto(x, "clear")
  /\ UNCHANGED <<tick, tree, timeout_tick, init_tick, active, periodic, isr, elapsed>>

stop_remove(x) ==
  /\ At(x, "remove")
  /\ tree' = tree \ {x}
  /\ Goto(x, "clear")
  /\ UNCHANGED <<tick, timeout_tick, init_tick, active, periodic, isr, elapsed>>

stop_clear(x) ==
  /\ At(x, "clear")
  /\ active' = [active EXCEPT ![x] = FALSE]
  /\ Goto(x, "idle")
  /\ UNCHANGED <<tick, tree, timeout_tick, init_tick, periodic, isr, elapsed>>

detach(x) ==
  /\ At(x, "idle")
  /\ tree' = tree \ {x}
  /\ Goto(x, "detached")
  /\ UNCHANGED <<tick, timeout_tick, init_tick, active, periodic, isr, elapsed>>

(* Timer::Timer(): in the place of a timer that was detached and deleted.  *)
construct(x) ==
  /\ At(x, "detached")
  /\ timeout_tick' = [timeout_tick EXCEPT ![x] = 0]
  /\ \E n \in Time : init_tick' = [init_tick EXCEPT ![x] = n]
  /\ \E b \in BOOLEAN : periodic' = [periodic EXCEPT ![x] = b]
  /\ active' = [active EXCEPT ![x] = FALSE]
  /\ Goto(x, "idle")
  /\ UNCHANGED <<tick, tree, isr, elapsed>>

(* control(): CTRL_SET_TIME, CTRL_SET_ONESHOT and CTRL_SET_PERIODIC.       *)
control(x) ==
  /\ At(x, "idle")
  /\ \/ \E n \in Time : init_tick' = [init_tick EXCEPT ![x] = n] /\ UNCHANGED periodic
     \/ \E b \in BOOLEAN : periodic' = [periodic EXCEPT ![x] = b] /\ UNCHANGED init_tick
  /\ UNCHANGED <<tick, tree, timeout_tick, active, pc, isr, elapsed>>
-----------------------------------------------------------------------------
(* The clock interrupt.                                                    *)

tick_increase ==
  /\ ~isr /\ elapsed < MaxTicks
  /\ tick' = (tick + 1) % Range
  /\ elapsed' = elapsed + 1
  /\ isr' = TRUE
  /\ UNCHANGED <<tree, timeout_tick, init_tick, active, periodic, pc>>

(* timer_tree_.min(), and when check() calls a timer.                      *)
IsMin(x) == x \in tree /\ \A y \in tree : Key(timeout_tick[x]) <= Key(timeout_tick[y])

(* Mutant of Due: a timer is due one tick late.                            *)
Due_late(x) == Since(tick, timeout_tick[x]) \in 1..(Half - 1)

Due(x) == Since(tick, timeout_tick[x]) < Half

(* One turn of the loop of check(): the timer leaves the tree, its         *)
(* function runs, and it is started again if it is periodic and active.    *)
fire(x) ==
  LET on    == CASE Callback[x] = "none" -> active[x]
                 [] Callback[x] = "stop" -> FALSE
                 [] Callback[x] = "start" -> TRUE
      again == periodic[x] /\ on
  IN  /\ isr /\ IsMin(x) /\ Due(x)
      /\ tree' = IF again \/ Callback[x] = "start" THEN tree ELSE tree \ {x}
      /\ timeout_tick' = IF again \/ Callback[x] = "start"
                         THEN [timeout_tick EXCEPT ![x] = (tick + init_tick[x]) % Range]
                         ELSE timeout_tick
      /\ active' = [active EXCEPT ![x] = again]
      /\ UNCHANGED <<tick, init_tick, periodic, pc, isr, elapsed>>

check_leave ==
  /\ isr /\ \A x \in tree : IsMin(x) => ~Due(x)
  /\ isr' = FALSE
  /\ UNCHANGED <<tick, tree, timeout_tick, init_tick, active, periodic, pc, elapsed>>

Next == \/ tick_increase \/ check_leave
        \/ \E x \in Timer : \/ start(x) \/ start_tick(x) \/ start_insert(x)
                            \/ stop(x) \/ stop_remove(x) \/ stop_clear(x)
                            \/ detach(x) \/ construct(x) \/ control(x) \/ fire(x)

Spec == Init /\ [][Next]_vars
-----------------------------------------------------------------------------
TypeOK == /\ tick \in 0..TickMax /\ elapsed \in 0..MaxTicks
          /\ tree \subseteq Timer
          /\ timeout_tick \in [Timer -> 0..TickMax] /\ init_tick \in [Timer -> Time]
          /\ active \in [Timer -> BOOLEAN] /\ periodic \in [Timer -> BOOLEAN]
          /\ pc \in [Timer -> {"idle", "tick", "insert", "remove", "clear", "detached"}]
          /\ isr \in BOOLEAN

(* The ticks until a timer is due, zero when it is late.                   *)
Left(x) == IF x \notin tree THEN -1
           ELSE IF Due(x) THEN 0 ELSE Since(timeout_tick[x], tick)

(* The timers count down and fire as Countdown says: the order of the tree *)
(* hides no timer that is due behind one that is not, although ticks wrap. *)
Abstract == INSTANCE Countdown WITH left <- [x \in Timer |-> Left(x)],
                                    MaxTime <- Half - 1

ImplementsCountdown == Abstract!CSpec

(* "if a timeout event happens, the corresponding timeout function will be *)
(* invoked" (Timer::check): check() leaves no timer behind that is due.    *)
DueFires == [][check_leave => \A x \in tree : ~Due(x)]_vars

(* RBTree::insert is given a node that is in no tree, whatever interrupts  *)
(* a start() between its steps.                                            *)
InsertedOnce == \A x \in Timer : pc[x] = "insert" => x \notin tree

(* FLAG_ACTIVATED says whether the timer is in the tree, which stop() and  *)
(* check() rely on: a timer that is not flagged never fires.               *)
ActiveInTree == \A x \in Timer :
                  pc[x] \in {"idle", "tick", "insert"} => (active[x] <=> x \in tree)
=============================================================================
