---------------------------- MODULE MCStructures ----------------------------
(* Sequential parts of the kernel, each on its own: which one is chosen    *)
(* at the start, and the others stay as they begin.                        *)
(*   lists     three nodes that move between two lists                     *)
(*   tree      nodes with keys of their own, as in priority_tree_, and     *)
(*             three with any keys, as the timers of three threads         *)
(*   timers    two timers, one of which stops itself when it is called     *)
(*   devices   three devices, one stand-alone, and two names               *)
(*   ring      a receive buffer of three places and its interrupt handler  *)
EXTENDS Timer, ListUse, FiniteSets

CONSTANTS tx, ty, Nil

VARIABLES part,
          rt, rin, rstale, rkeys,                          \* RBTree
          live, name, open_flag, ref_count, object_container,
          console, log_buf, users, shared, out, printed,   \* Device
          rx_buffer, read_index, save_index, size, unread  \* RxRing

OneStops == [z \in Timer |-> IF z = tx THEN "stop" ELSE "none"]

OwnKeys == [n \in 1..7 |-> {n}]
ThreeNodes == [n \in 1..7 |-> IF n \in 1..3 THEN 0..3 ELSE {}]
RB == INSTANCE RBTree WITH Node <- 1..7, Low <- "OTHER", Uses <- {OwnKeys, ThreeNodes},
                           t <- rt, in <- rin, stale <- rstale, keys <- rkeys

DV == INSTANCE Device WITH Devices <- {"com1", "console", "video"}, Names <- {"a", "b"},
                           Standalone <- {"video"}, Message <- {"m"}, NotUnique <- "e",
                           MaxUsers <- 2, MaxPrints <- 2
RX == INSTANCE RxRing WITH Char <- {"x", "y"}, Garbage <- NULL, RX_BUFFER_SIZE <- 3,
                           MaxBurst <- 2, MaxRead <- 3

rvars == <<rt, rin, rstale, rkeys>>
dvars == <<live, name, open_flag, ref_count, object_container,
           console, log_buf, users, shared, out, printed>>
xvars == <<rx_buffer, read_index, save_index, size, unread>>

PartsInit ==
  /\ part \in {"lists", "tree", "timers", "devices", "ring"}
  /\ ListInit /\ RB!Init /\ Init /\ DV!DevInit /\ RX!RingInit
  /\ part # "tree" => rkeys = OwnKeys
  /\ part # "timers" => init_tick = [x \in Timer |-> 1] /\ periodic = [x \in Timer |-> FALSE]
  /\ part # "devices" => \A d \in DOMAIN open_flag : ~open_flag[d]
  /\ part # "ring" => read_index = 0 /\ save_index = 0

Listing == part = "lists" /\ CleanNext /\ UNCHANGED <<part, vars, rvars, dvars, xvars>>
Tree == part = "tree" /\ RB!Next /\ UNCHANGED <<part, vars, listvars, dvars, xvars>>
Timers == part = "timers" /\ Next /\ UNCHANGED <<part, listvars, rvars, dvars, xvars>>
Opening == part = "devices" /\ DV!DevNext /\ UNCHANGED <<part, vars, listvars, rvars, xvars>>
Receiving == part = "ring" /\ RX!RingNext /\ UNCHANGED <<part, vars, listvars, rvars, dvars>>

(* All may stop but the timers.                                            *)
MayStop == part # "timers" /\ UNCHANGED <<part, vars, listvars, rvars, dvars, xvars>>

PartsNext == Listing \/ Tree \/ Timers \/ Opening \/ Receiving \/ MayStop
partsvars == <<part, vars, listvars, rvars, dvars, xvars>>
PartsSpec == PartsInit /\ [][PartsNext]_partsvars

-----------------------------------------------------------------------------
(* The properties of the parts, which their modules state.                 *)

(* RBTree: the tree holds what is inserted, in order of the keys.          *)
Sorted == part = "tree" => RB!Sorted



(* Device: names lead to live devices, and devices of one name are found.  *)
NamesFound == part = "devices" => DV!NamesFound

(* Device: the open counts are those of the users.                         *)
OpenCounted == part = "devices" => DV!OpenCounted

(* RxRing: a reader finds the characters stored last, in order.            *)
RingExact == part = "ring" => RX!RingExact
=============================================================================
