------------------------------ MODULE ListUse ------------------------------
(***************************************************************************)
(* Clients of coslib::List that keep every node in at most one list, push  *)
(* only nodes that are in none and erase only nodes from the list they are *)
(* in.  The history variable q records what such a client believes each    *)
(* list to hold; the memory h is what List makes of the same calls.        *)
(***************************************************************************)
EXTENDS List, Integers, Sequences

CONSTANT Lists   \* the lists that share the nodes

VARIABLES h,     \* the memory of the lists
          q      \* the sequence of nodes each list should hold (history)

listvars == <<h, q>>

Members(l) == {q[l][i] : i \in 1..Len(q[l])}

(* The sequence s without its i-th element.                                *)
Without(s, i) == [j \in 1..(Len(s) - 1) |-> IF j < i THEN s[j] ELSE s[j + 1]]

ListInit == /\ h = NewMemory(Lists)
            /\ q = [l \in Lists |-> <<>>]

(* A node is clean for a list when push_back will not carry an old         *)
(* successor into it.                                                      *)
Clean(l, p) == empty(h, l) => h.next[p] = NULL

Push(l, p) == /\ \A m \in Lists : p \notin Members(m)
              /\ h' = push_back(h, l, p)
              /\ q' = [q EXCEPT ![l] = Append(@, p)]

Erase(l, i) == /\ h' = erase(h, l, q[l][i])
               /\ q' = [q EXCEPT ![l] = Without(@, i)]

Erasures == \E l \in Lists : \E i \in 1..Len(q[l]) : Erase(l, i)

(* The clients push only clean nodes.                                      *)
CleanNext == \/ \E l \in Lists, p \in Node : Clean(l, p) /\ Push(l, p)
             \/ Erasures

CleanSpec == ListInit /\ [][CleanNext]_listvars
-----------------------------------------------------------------------------
ListTypeOK == /\ h \in Memory(Lists)
              /\ q \in [Lists -> Seq(Node)]

(* No node occurs twice, in one list or in two.                            *)
Distinct == \A l, m \in Lists : \A i \in 1..Len(q[l]), j \in 1..Len(q[m]) :
               q[l][i] = q[m][j] => l = m /\ i = j

(* List l of the memory is the sequence s: _pHead, _pTail and the links    *)
(* between neighbours in both directions.                                  *)
Holds(l, s) ==
  /\ Len(s) = 0 => h.head[l] = NULL
  /\ Len(s) > 0 => /\ h.head[l] = s[1]
                   /\ h.tail[l] = s[Len(s)]
                   /\ h.next[s[Len(s)]] = NULL
  /\ \A i \in 1..(Len(s) - 1) : /\ h.next[s[i]] = s[i + 1]
                                /\ h.prev[s[i + 1]] = s[i]

(* push_back and erase keep each list equal to the sequence of the nodes   *)
(* pushed and not yet erased, in the order of the pushes: no interleaving  *)
(* of operations on several lists that share nodes loses, repeats or       *)
(* reorders a node.                                                        *)
Faithful == \A l \in Lists : Holds(l, q[l])
=============================================================================
