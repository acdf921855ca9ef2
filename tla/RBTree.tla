------------------------------ MODULE RBTree ------------------------------
(***************************************************************************)
(* coslib::RBTree, the red-black tree under priority_tree_ and timer_tree_.*)
(*                                                                         *)
(* The nodes live outside the tree and keep their colour when they leave   *)
(* it.  A tree is a record                                                 *)
(*   t.root                     root, NULL in an empty tree                *)
(*   t.link[n], t.parent[n]     the two links and the parent of node n     *)
(*   t.color[n], t.key[n]       its colour and its key                     *)
(* Nil is the leaf every node starts with, whose own links are NULL.       *)
(* adjustLeave() looks at the colour of the links of Nil when a black node *)
(* leaves a tree that is not balanced.  The kernel runs unpaged, so that   *)
(* it reads the word at address 8 of the memory: Low stands for its value, *)
(* "RED" or "BLACK" if it is 0 or 1, and "OTHER" if it is neither, as the  *)
(* interrupt vector the firmware puts there.  link and parent have no      *)
(* value for NULL: TLC would report a read of them as an error.            *)
(***************************************************************************)
EXTENDS Integers, FiniteSets, Sequences

CONSTANTS Node, Nil, NULL, Low,
          Uses            \* the uses of the tree: the keys each node gets

VARIABLES t,              \* the tree
          in,             \* the nodes inserted and not removed since (history)
          stale,          \* a node came back black to this tree (history)
          keys            \* which use of the tree this is

vars == <<t, in, stale, keys>>

Other(s) == IF s = "L" THEN "R" ELSE "L"

key(u, n) == u.key[n]
isRed(u, n) == u.color[n] = "RED"
isBlack(u, n) == u.color[n] = "BLACK"
Paint(u, n, c) == [u EXCEPT !.color[n] = c]
swapColor(u, n, m) == [u EXCEPT !.color[n] = u.color[m], !.color[m] = u.color[n]]

whichSide(u, p, n) == IF u.link[p]["L"] # n /\ u.link[p]["R"] = n THEN "R" ELSE "L"

attachSide(u, p, s, n) ==
  LET v == [u EXCEPT !.link[p][s] = n] IN
  IF n = Nil THEN v ELSE [v EXCEPT !.parent[n] = p]

attach(u, p, n) == attachSide(u, p, IF key(u, n) < key(u, p) THEN "L" ELSE "R", n)

(* What detach(s) returns, and what it leaves.                             *)
Child(u, p, s) == IF p = Nil THEN Nil ELSE u.link[p][s]

detachSide(u, p, s) ==
  LET n == Child(u, p, s) IN
  IF n = Nil THEN u ELSE [u EXCEPT !.parent[n] = NULL, !.link[p][s] = Nil]

detach(u, p, n) == IF u.link[p]["R"] = n THEN detachSide(u, p, "R")
                   ELSE IF u.link[p]["L"] = n THEN detachSide(u, p, "L") ELSE u

(* The place of node n under its parent, or at the root, goes to m.        *)
ReplaceSide(u, n, m) ==
  LET g == u.parent[n] IN
  IF g = NULL THEN [u EXCEPT !.root = m]
  ELSE LET s == whichSide(u, g, n) IN attachSide(detachSide(u, g, s), g, s, m)


rotate(u, x, s) ==
  LET up   == Child(u, x, Other(s))
      leaf == Child(u, up, s)
      v    == detachSide(detachSide(u, x, Other(s)), up, s)
      w    == attachSide(ReplaceSide(v, x, up), up, s, x)
  IN  IF leaf = Nil THEN w ELSE attachSide(w, x, Other(s), leaf)
-----------------------------------------------------------------------------
RECURSIVE adjustInsert(_, _)
adjustInsert(u, n) ==
  LET p     == u.parent[n]
      g     == u.parent[p]
      uncle == u.link[g][Other(whichSide(u, g, p))]
      bent  == whichSide(u, p, n) # whichSide(u, g, p)
      v     == IF bent THEN rotate(u, p, Other(whichSide(u, p, n))) ELSE u
      top   == IF bent THEN n ELSE p
  IN  CASE p = NULL -> Paint(u, n, "BLACK")
        [] p # NULL /\ isBlack(u, p) -> u
        [] p # NULL /\ isRed(u, p) /\ isRed(u, uncle) ->
             adjustInsert(Paint(Paint(Paint(u, uncle, "BLACK"), p, "BLACK"), g, "RED"), g)
        [] OTHER -> swapColor(rotate(v, g, Other(whichSide(v, g, top))), g, top)

RECURSIVE insertUnder(_, _, _)
insertUnder(u, x, n) ==
  LET s == IF key(u, n) < key(u, x) THEN "L" ELSE "R" IN
  IF u.link[x][s] # Nil THEN insertUnder(u, u.link[x][s], n)
  ELSE adjustInsert(attachSide(u, x, s, n), n)

RECURSIVE searchMax(_, _)
searchMax(u, n) == IF u.link[n]["R"] = Nil THEN n ELSE searchMax(u, u.link[n]["R"])


(* adjustLeave(): n is the node that took the place under p.               *)
RECURSIVE adjustLeave(_, _, _)
adjustLeave(u, n, p) ==
  IF p = NULL \/ isRed(u, n) THEN Paint(u, n, "BLACK")
  ELSE
  LET s     == whichSide(u, p, n)
      near  == u.link[p][Other(s)]
      v     == IF isRed(u, near) THEN rotate(swapColor(u, p, near), p, s) ELSE u
      sib   == v.link[p][Other(s)]
      black == isBlack(v, v.link[sib]["L"]) /\ isBlack(v, v.link[sib]["R"])
  IN  IF isBlack(u, near) /\ isBlack(u, p) /\ black
      THEN adjustLeave(Paint(u, near, "RED"), p, u.parent[p])
      ELSE IF isRed(v, p) /\ black THEN swapColor(v, p, sib)
      ELSE LET ns  == whichSide(v, p, sib)
               os  == Other(ns)
               w   == IF isRed(v, v.link[sib][os]) /\ isBlack(v, v.link[sib][ns])
                      THEN rotate(swapColor(v, sib, v.link[sib][os]), sib, ns) ELSE v
               far == w.link[p][ns]
           IN  IF isRed(w, w.link[far][ns])
               THEN rotate(swapColor(Paint(w, w.link[far][ns], "BLACK"), p, far), p, os)
               ELSE w

(* leave() of a node with two children: it changes places and colours with *)
(* the largest node of its left subtree.                                   *)
Swapped(u, n) ==
  LET up    == u.parent[n]
      left  == u.link[n]["L"]
      right == u.link[n]["R"]
      max   == searchMax(u, left)
      above == u.parent[max]
      low   == u.link[max]["L"]
      v     == detachSide(detachSide(detachSide(u, n, "L"), n, "R"), max, "L")
      w     == attach(v, n, low)
      x     == IF up = NULL THEN w ELSE detach(w, up, n)
      y     == IF max # left
               THEN attachSide(attachSide(attach(detach(x, above, max), above, n),
                                          max, "L", left), max, "R", right)
               ELSE attachSide(attachSide(x, max, "R", right), max, "L", n)
      z     == IF up = NULL THEN [y EXCEPT !.root = max] ELSE attach(y, up, max)
  IN  swapColor(z, n, max)

RECURSIVE leave(_, _)
leave(u, n) ==
  LET p      == u.parent[n]
      left   == u.link[n]["L"]
      right  == u.link[n]["R"]
      child  == IF left = Nil THEN right ELSE left
      v      == detachSide(u, n, IF left = Nil THEN "R" ELSE "L")
      w      == IF p = NULL THEN [v EXCEPT !.root = child]
                ELSE attach(detach(v, p, n), p, child)
  IN  CASE left = Nil /\ right = Nil /\ p = NULL -> [u EXCEPT !.root = NULL]
        [] left = Nil /\ right = Nil /\ p # NULL ->
             IF isRed(u, n) THEN detach(u, p, n)
             ELSE adjustLeave(detach(u, p, n), Nil, p)
        [] (left = Nil) # (right = Nil) ->
             IF isRed(u, n) THEN w ELSE adjustLeave(w, child, p)
        [] left # Nil /\ right # Nil -> leave(Swapped(u, n), n)
-----------------------------------------------------------------------------
(* A new node is RED and in no tree.                                       *)
Init == /\ keys \in Uses
        /\ t = [root   |-> NULL,
                link   |-> [n \in Node \cup {Nil} |->
                              [s \in {"L", "R"} |-> IF n = Nil THEN NULL ELSE Nil]],
                parent |-> [n \in Node \cup {Nil} |-> NULL],
                key    |-> [n \in Node \cup {Nil} |-> -1],
                color  |-> [n \in Node \cup {Nil, NULL} |->
                              CASE n = Nil -> "BLACK" [] n = NULL -> Low
                                [] OTHER -> "RED"]]
        /\ in = {} /\ stale = FALSE

(* set_key() and insert().  The colour is set only at the root: elsewhere  *)
(* a node that was in a tree before comes with the colour it left with.    *)
insert(n, k) ==
  LET u == [t EXCEPT !.key[n] = k] IN
  /\ n \notin in /\ k \in keys[n]
  /\ t' = IF t.root = NULL THEN Paint([u EXCEPT !.root = n], n, "BLACK")
          ELSE insertUnder(u, t.root, n)
  /\ in' = in \cup {n}
  /\ stale' = (stale \/ (t.root # NULL /\ isBlack(t, n)))
  /\ UNCHANGED keys

remove(n) == /\ n \in in
             /\ t' = [leave(t, n) EXCEPT !.link[n] = [s \in {"L", "R"} |-> Nil]]
             /\ in' = in \ {n}
             /\ stale' = (stale /\ in # {n})
             /\ UNCHANGED keys

Next == \E n \in Node : (\E k \in keys[n] : insert(n, k)) \/ remove(n)

Spec == Init /\ [][Next]_vars
-----------------------------------------------------------------------------
RECURSIVE InOrder(_)
InOrder(n) == IF n \in {Nil, NULL} THEN <<>>
              ELSE InOrder(t.link[n]["L"]) \o <<n>> \o InOrder(t.link[n]["R"])

(* The tree is a sorted set: it holds the nodes that were inserted and not *)
(* removed, each once, in the order of their keys, so that min() returns   *)
(* one with the least key, whatever rotations and swaps came before.       *)
Sorted == LET s == InOrder(t.root) IN
          /\ {s[i] : i \in 1..Len(s)} = in /\ Len(s) = Cardinality(in)
          /\ \A i \in 1..(Len(s) - 1) : key(t, s[i]) <= key(t, s[i + 1])

RECURSIVE BlackHeights(_)
BlackHeights(n) ==
  IF n = Nil THEN {0}
  ELSE {h + (IF isBlack(t, n) THEN 1 ELSE 0) :
          h \in BlackHeights(t.link[n]["L"]) \cup BlackHeights(t.link[n]["R"])}

(* The root has no parent and neither has a node outside of the tree:      *)
(* adjustInsert() takes a node without one for the root, and insert() does *)
(* not reset it.                                                           *)
Detached == /\ \A n \in (Node \cup {Nil}) \ in : t.parent[n] = NULL
            /\ t.root # NULL => t.parent[t.root] = NULL

=============================================================================
