---------------------------- MODULE TimerProofs ----------------------------
(***************************************************************************)
(* The flag of a timer and its place in the tree, for any number of timers,*)
(* any width of a tick and any times.                                      *)
(***************************************************************************)
EXTENDS Timer, TLAPS

(* The strengthening: in a start() the timer is out of the tree until it   *)
(* is inserted, in a stop() from the removal on; elsewhere the flag says   *)
(* where it is.                                                            *)
FlagInv ==
  /\ pc \in [Timer -> {"idle", "tick", "insert", "remove", "clear", "detached"}]
  /\ active \in [Timer -> BOOLEAN]
  /\ tree \subseteq Timer
  /\ \A x \in Timer :
       /\ pc[x] \in {"idle", "tick", "insert", "remove"} => (active[x] <=> x \in tree)
       /\ pc[x] \in {"tick", "insert", "clear", "detached"} => x \notin tree

(* One step of a thread or of the clock interrupt keeps it, unless a timer *)
(* is started by its own function.                                         *)
LEMMA StepFlagInv ==
  ASSUME \A x \in Timer : Callback[x] # "start", FlagInv, [Next]_vars
  PROVE  FlagInv'
<1> USE DEF FlagInv, At, Goto
<1>1. CASE tick_increase BY <1>1 DEF tick_increase
<1>2. CASE check_leave BY <1>2 DEF check_leave
<1>3. ASSUME NEW x \in Timer, start(x) PROVE FlagInv' BY <1>3 DEF start
<1>4. ASSUME NEW x \in Timer, start_tick(x) PROVE FlagInv' BY <1>4 DEF start_tick
<1>5. ASSUME NEW x \in Timer, start_insert(x) PROVE FlagInv' BY <1>5 DEF start_insert
<1>6. ASSUME NEW x \in Timer, stop(x) PROVE FlagInv' BY <1>6 DEF stop
<1>7. ASSUME NEW x \in Timer, stop_remove(x) PROVE FlagInv' BY <1>7 DEF stop_remove
<1>8. ASSUME NEW x \in Timer, stop_clear(x) PROVE FlagInv' BY <1>8 DEF stop_clear
<1>9. ASSUME NEW x \in Timer, detach(x) PROVE FlagInv' BY <1>9 DEF detach
<1>10. ASSUME NEW x \in Timer, construct(x) PROVE FlagInv' BY <1>10 DEF construct
<1>11. ASSUME NEW x \in Timer, control(x) PROVE FlagInv' BY <1>11 DEF control
<1>12. ASSUME NEW x \in Timer, fire(x) PROVE FlagInv'
  <2> DEFINE on == IF Callback[x] = "none" THEN active[x] ELSE FALSE
  <2>1. /\ active' = [active EXCEPT ![x] = periodic[x] /\ on]
        /\ tree' = IF periodic[x] /\ on THEN tree ELSE tree \ {x}
        /\ pc' = pc /\ x \in tree
    BY <1>12, TimerAssumption DEF fire, IsMin
  <2>2. periodic[x] /\ on => active[x]
    OBVIOUS
  <2> HIDE DEF on
  <2>3. CASE periodic[x] /\ on BY <2>1, <2>2, <2>3
  <2>4. CASE ~(periodic[x] /\ on) BY <2>1, <2>4
  <2> QED BY <2>3, <2>4
<1>13. CASE UNCHANGED vars BY <1>13 DEF vars
<1> QED BY <1>1, <1>2, <1>3, <1>4, <1>5, <1>6, <1>7, <1>8, <1>9, <1>10, <1>11,
           <1>12, <1>13 DEF Next

(* Where no function starts its own timer, no start() inserts a node that  *)
(* is in the tree, whatever interrupts come between its steps.             *)
THEOREM NeverInsertedTwice ==
  ASSUME \A x \in Timer : Callback[x] # "start"
  PROVE  Spec => []InsertedOnce
<1>1. Init => FlagInv BY DEF Init, FlagInv
<1>2. FlagInv /\ [Next]_vars => FlagInv' BY StepFlagInv
<1>3. FlagInv => InsertedOnce BY DEF FlagInv, InsertedOnce
<1> QED BY <1>1, <1>2, <1>3, PTL DEF Spec

(* ... and FLAG_ACTIVATED never disagrees with the tree.                   *)
THEOREM FlagIsRight ==
  ASSUME \A x \in Timer : Callback[x] # "start"
  PROVE  Spec => []ActiveInTree
<1>1. Init => FlagInv BY DEF Init, FlagInv
<1>2. FlagInv /\ [Next]_vars => FlagInv' BY StepFlagInv
<1>3. FlagInv => ActiveInTree BY DEF FlagInv, ActiveInTree
<1> QED BY <1>1, <1>2, <1>3, PTL DEF Spec
=============================================================================
