---------------------------- MODULE ListProofs ----------------------------
(***************************************************************************)
(* coslib::List keeps its lists faithful for any number of lists and nodes *)
(* as long as its clients push only clean nodes.                           *)
(***************************************************************************)
EXTENDS ListUse, TLAPS

(* The inductive invariant: that no node occurs twice is what keeps a      *)
(* store to the links of one list from reaching another.                   *)
Inv == ListTypeOK /\ Distinct /\ Faithful

LEMMA InitInv == ListInit => Inv
  BY NullAssumption DEF ListInit, Inv, ListTypeOK, Distinct, Faithful, Holds, NewMemory,
     Memory, Pointer

(* What push_back does to the memory when p is in none of the lists.       *)
LEMMA PushInv ==
  ASSUME Inv, NEW l \in Lists, NEW p \in Node, Clean(l, p), Push(l, p)
  PROVE  Inv'
<1> USE NullAssumption
<1>1. /\ h \in Memory(Lists) /\ q \in [Lists -> Seq(Node)]
      /\ \A m \in Lists : q[m] \in Seq(Node) /\ Len(q[m]) \in Nat
      /\ \A m \in Lists : \A i \in 1..Len(q[m]) : q[m][i] \in Node /\ q[m][i] # p
  BY DEF Inv, ListTypeOK, Push, Members
<1>2. /\ q' = [q EXCEPT ![l] = Append(q[l], p)]
      /\ q'[l] = Append(q[l], p)
      /\ \A m \in Lists \ {l} : q'[m] = q[m]
      /\ Len(q'[l]) = Len(q[l]) + 1
      /\ q'[l][Len(q[l]) + 1] = p
      /\ \A i \in 1..Len(q[l]) : q'[l][i] = q[l][i]
  BY <1>1 DEF Push
<1>3. ListTypeOK'
  <2>1. q' \in [Lists -> Seq(Node)]
    BY <1>1, <1>2
  <2>2. h' \in Memory(Lists)
    BY <1>1 DEF Push, push_back, Store, Memory, Pointer, empty
  <2> QED  BY <2>1, <2>2 DEF ListTypeOK
<1>4. Distinct'
  BY <1>1, <1>2 DEF Distinct, Inv
<1>5. Faithful'
  <2> SUFFICES ASSUME NEW m \in Lists PROVE Holds(m, q[m])'
    BY DEF Faithful
  <2>1. Holds(m, q[m]) /\ Holds(l, q[l])
    BY DEF Inv, Faithful
  <2>2. CASE empty(h, l)
    <3>1. Len(q[l]) = 0 /\ h.next[p] = NULL
      BY <2>1, <2>2, <1>1 DEF Holds, empty, Clean
    <3>2. h' = [head |-> [h.head EXCEPT ![l] = p], tail |-> [h.tail EXCEPT ![l] = p],
                next |-> h.next, prev |-> h.prev]
      BY <2>2 DEF Push, push_back
    <3> QED  BY <1>1, <1>2, <2>1, <3>1, <3>2 DEF Holds, Memory
  <2>3. CASE ~empty(h, l)
    <3>1. /\ Len(q[l]) > 0 /\ h.tail[l] = q[l][Len(q[l])]
          /\ h.tail[l] \in Node /\ h.tail[l] # p
      BY <2>1, <2>3, <1>1 DEF Holds, empty
    <3>2. /\ h'.head = h.head
          /\ h'.tail = [h.tail EXCEPT ![l] = p]
          /\ h'.next = [h.next EXCEPT ![h.tail[l]] = p, ![p] = NULL]
          /\ h'.prev = [h.prev EXCEPT ![p] = h.tail[l]]
      BY <2>3, <1>1, <3>1 DEF Push, push_back, Store, Memory
    <3>3. CASE m = l
      <4> DEFINE n == Len(q[l])
      <4>1. n + 1 > 0 /\ h'.head[l] = q'[l][1]
        BY <1>1, <1>2, <2>1, <3>1, <3>2 DEF Holds
      <4>2. h'.tail[l] = q'[l][n + 1] /\ h'.next[q'[l][n + 1]] = NULL
        BY <1>1, <1>2, <3>1, <3>2 DEF Memory
      <4>3. ASSUME NEW i \in 1..n
            PROVE  h'.next[q'[l][i]] = q'[l][i + 1] /\ h'.prev[q'[l][i + 1]] = q'[l][i]
        <5>1. CASE i = n
          BY <1>1, <1>2, <3>1, <3>2, <5>1 DEF Memory
        <5>2. CASE i # n
          <6>1. /\ i \in 1..(n - 1) /\ i + 1 \in 1..n
                /\ q'[l][i] = q[l][i] /\ q'[l][i + 1] = q[l][i + 1]
            BY <1>1, <1>2, <5>2
          <6>2. q[l][i] # q[l][n]
            BY <1>1, <3>1, <5>2 DEF Inv, Distinct
          <6>3. h.next[q[l][i]] = q[l][i + 1] /\ h.prev[q[l][i + 1]] = q[l][i]
            BY <2>1, <6>1 DEF Holds
          <6> QED  BY <1>1, <3>1, <3>2, <6>1, <6>2, <6>3 DEF Memory
        <5> QED  BY <5>1, <5>2
      <4> QED  BY <1>1, <1>2, <3>3, <4>1, <4>2, <4>3 DEF Holds
    <3>4. CASE m # l
      BY <1>1, <1>2, <2>1, <3>1, <3>2, <3>4 DEF Holds, Memory, Distinct, Inv
    <3> QED  BY <3>3, <3>4
  <2> QED  BY <2>2, <2>3
<1> QED  BY <1>3, <1>4, <1>5 DEF Inv

(* Erasing the first, the last or a middle element.                        *)
LEMMA EraseInv ==
  ASSUME Inv, NEW l \in Lists, NEW k \in 1..Len(q[l]), Erase(l, k)
  PROVE  Inv'
<1> USE NullAssumption
<1> DEFINE n == Len(q[l])
           p == q[l][k]
<1>1. /\ h \in Memory(Lists) /\ q \in [Lists -> Seq(Node)]
      /\ \A m \in Lists : q[m] \in Seq(Node) /\ Len(q[m]) \in Nat
      /\ \A m \in Lists : \A i \in 1..Len(q[m]) : q[m][i] \in Node
      /\ p \in Node /\ n \in Nat \ {0} /\ n > 0 /\ k \in 1..n
  BY DEF Inv, ListTypeOK
<1>2. /\ q' = [q EXCEPT ![l] = Without(q[l], k)]
      /\ q'[l] = Without(q[l], k)
      /\ \A m \in Lists \ {l} : q'[m] = q[m]
      /\ q'[l] \in Seq(Node)
      /\ Len(q'[l]) = n - 1
      /\ \A i \in 1..(n - 1) : q'[l][i] = IF i < k THEN q[l][i] ELSE q[l][i + 1]
  <2>1. q' = [q EXCEPT ![l] = Without(q[l], k)]
    BY DEF Erase
  <2>2. Without(q[l], k) \in Seq(Node) /\ Len(Without(q[l], k)) = n - 1
    BY <1>1 DEF Without
  <2>3. q'[l] = Without(q[l], k)
    BY <1>1, <2>1
  <2> QED  BY <1>1, <2>1, <2>2, <2>3 DEF Without
<1>3. /\ \A m \in Lists : Holds(m, q[m])
      /\ \A m \in Lists : \A i \in 1..Len(q[m]) : q[m][i] = p => m = l /\ i = k
  BY <1>1 DEF Inv, Faithful, Distinct
<1>4. ListTypeOK'
  <2>1. q' \in [Lists -> Seq(Node)]
    BY <1>1, <1>2
  <2>2. h' \in Memory(Lists)
    BY <1>1 DEF Erase, erase, Store, Memory, Pointer
  <2> QED  BY <2>1, <2>2 DEF ListTypeOK
<1>5. Distinct'
  <2> SUFFICES ASSUME NEW a \in Lists, NEW b \in Lists,
                      NEW i \in 1..Len(q'[a]), NEW j \in 1..Len(q'[b]),
                      q'[a][i] = q'[b][j]
               PROVE  a = b /\ i = j
    BY DEF Distinct
  <2>1. PICK x \in 1..Len(q[a]) : /\ q'[a][i] = q[a][x]
                                  /\ x = IF a = l /\ i >= k THEN i + 1 ELSE i
    BY <1>1, <1>2
  <2>2. PICK y \in 1..Len(q[b]) : /\ q'[b][j] = q[b][y]
                                  /\ y = IF b = l /\ j >= k THEN j + 1 ELSE j
    BY <1>1, <1>2
  <2>3. q[a][x] = q[b][y]
    BY <2>1, <2>2
  <2>4. a = b /\ x = y
    BY <2>3 DEF Inv, Distinct
  <2> QED  BY <1>1, <1>2, <2>1, <2>2, <2>4
<1>6. Faithful'
  <2> SUFFICES ASSUME NEW m \in Lists PROVE Holds(m, q[m])'
    BY DEF Faithful
  <2>1. Holds(m, q[m]) /\ Holds(l, q[l]) /\ h' = erase(h, l, p)
    BY <1>3 DEF Erase
  <2>2. /\ h.head[l] = q[l][1] /\ h.tail[l] = q[l][n] /\ h.next[q[l][n]] = NULL
        /\ \A i \in 1..(n - 1) : /\ h.next[q[l][i]] = q[l][i + 1]
                                 /\ h.prev[q[l][i + 1]] = q[l][i]
    BY <1>1, <2>1 DEF Holds
  <2>3. \A i \in 1..n, j \in 1..n : q[l][i] = q[l][j] => i = j
    BY DEF Inv, Distinct
  <2>4. \A i \in 1..n, j \in 1..Len(q[m]) : m # l => q[l][i] # q[m][j]
    BY DEF Inv, Distinct
  (* A list whose nodes keep their links is not affected.                  *)
  <2>5. ASSUME m # l, h'.head[m] = h.head[m], h'.tail[m] = h.tail[m],
               \A j \in 1..Len(q[m]) : /\ h'.next[q[m][j]] = h.next[q[m][j]]
                                       /\ h'.prev[q[m][j]] = h.prev[q[m][j]]
        PROVE  Holds(m, q[m])'
    BY <1>1, <1>2, <2>1, <2>5 DEF Holds
  <2>6. CASE k = 1
    <3>1. h.head[l] = p
      BY <2>2, <2>6
    <3>2. /\ h'.head = [h.head EXCEPT ![l] = h.next[p]]
          /\ h'.tail = h.tail /\ h'.next = h.next
          /\ h'.prev = Store(h.prev, h.next[p], NULL)
      BY <2>1, <3>1 DEF erase
    <3>3. CASE n = 1
      <4>1. h.next[p] = NULL /\ h'.prev = h.prev
        BY <2>2, <2>6, <3>2, <3>3 DEF Store
      <4> QED  BY <1>1, <1>2, <2>5, <3>2, <3>3, <4>1 DEF Holds, Memory
    <3>4. CASE n # 1
      <4>0. n > 1
        <5>1. \A x \in Nat \ {0} : x # 1 => x > 1
          OBVIOUS
        <5>2. n \in Nat \ {0}
          BY <1>1
        <5> QED  BY <3>4, <5>1, <5>2
      <4>1. h.next[p] = q[l][2] /\ h'.prev = [h.prev EXCEPT ![q[l][2]] = NULL]
        BY <1>1, <2>2, <2>6, <3>2, <4>0 DEF Store
      <4>2. CASE m = l
        <5>1. \A i \in 1..(n - 1) : q'[l][i] = q[l][i + 1] /\ i + 1 \in 1..n
          BY <1>1, <1>2, <2>6
        <5>2. /\ h'.head[l] = q'[l][1] /\ h'.tail[l] = q'[l][n - 1]
              /\ h'.next[q'[l][n - 1]] = NULL
          BY <1>1, <2>2, <3>2, <4>0, <4>1, <5>1 DEF Memory
        <5>3. ASSUME NEW i \in 1..(n - 2)
              PROVE  /\ h'.next[q'[l][i]] = q'[l][i + 1]
                     /\ h'.prev[q'[l][i + 1]] = q'[l][i]
          <6>0. i \in 1..(n - 1) /\ i + 1 \in 1..(n - 1) /\ (i + 1) + 1 = i + 2
            BY <1>1
          <6>1. q'[l][i] = q[l][i + 1] /\ q'[l][i + 1] = q[l][i + 2]
            BY <6>0, <5>1
          <6>2. q[l][i + 2] # q[l][2] /\ q[l][i + 2] \in Node
            BY <1>1, <2>3
          <6>3. h.next[q[l][i + 1]] = q[l][i + 2] /\ h.prev[q[l][i + 2]] = q[l][i + 1]
            BY <1>1, <2>2
          <6> QED  BY <1>1, <3>2, <4>1, <6>1, <6>2, <6>3 DEF Memory
        <5> QED  BY <1>1, <1>2, <4>0, <4>2, <5>2, <5>3 DEF Holds
      <4>3. CASE m # l
        <5>1. \A j \in 1..Len(q[m]) : q[m][j] \in Node /\ q[m][j] # q[l][2]
          BY <1>1, <2>4, <4>0, <4>3
        <5> QED  BY <1>1, <2>5, <3>2, <4>1, <4>3, <5>1 DEF Memory
      <4> QED  BY <4>2, <4>3
    <3> QED  BY <3>3, <3>4
  <2>7. CASE k # 1 /\ k = n
    <3>1. /\ h.head[l] # p /\ h.tail[l] = p
          /\ h.prev[p] = q[l][n - 1] /\ q[l][n - 1] \in Node /\ n - 1 \in 1..n
      <4>1. n - 1 \in 1..n /\ n - 1 \in 1..(n - 1) /\ (n - 1) + 1 = n /\ 1 \in 1..n
        BY <1>1, <2>7
      <4> QED  BY <1>1, <2>2, <2>3, <2>7, <4>1
    <3>2. /\ h'.head = h.head /\ h'.prev = h.prev
          /\ h'.tail = [h.tail EXCEPT ![l] = q[l][n - 1]]
          /\ h'.next = [h.next EXCEPT ![q[l][n - 1]] = NULL]
      BY <2>1, <3>1 DEF erase, Store
    <3>3. CASE m = l
      <4>1. \A i \in 1..(n - 1) : q'[l][i] = q[l][i]
        BY <1>1, <1>2, <2>7
      <4>2. /\ h'.head[l] = q'[l][1] /\ h'.tail[l] = q'[l][n - 1]
            /\ h'.next[q'[l][n - 1]] = NULL
        BY <1>1, <2>2, <2>7, <3>1, <3>2, <4>1 DEF Memory
      <4>3. ASSUME NEW i \in 1..(n - 2)
            PROVE  /\ h'.next[q'[l][i]] = q'[l][i + 1]
                   /\ h'.prev[q'[l][i + 1]] = q'[l][i]
        <5>1. q'[l][i] = q[l][i] /\ q'[l][i + 1] = q[l][i + 1]
          BY <1>1, <4>1
        <5>2. q[l][i] # q[l][n - 1] /\ q[l][i] \in Node
          BY <1>1, <2>3
        <5>3. h.next[q[l][i]] = q[l][i + 1] /\ h.prev[q[l][i + 1]] = q[l][i]
          BY <1>1, <2>2
        <5> QED  BY <1>1, <3>2, <5>1, <5>2, <5>3 DEF Memory
      <4> QED  BY <1>1, <1>2, <2>7, <3>3, <4>2, <4>3 DEF Holds
    <3>4. CASE m # l
      BY <1>1, <2>4, <2>5, <3>1, <3>2, <3>4 DEF Memory
    <3> QED  BY <3>3, <3>4
  <2>8. CASE k # 1 /\ k # n
    <3>1. /\ k - 1 \in 1..n /\ k + 1 \in 1..n
          /\ h.head[l] # p /\ h.tail[l] # p
          /\ q[l][k - 1] \in Node /\ q[l][k + 1] \in Node
          /\ q[l][k + 1] # p
      <4>1. k - 1 \in 1..n /\ k + 1 \in 1..n /\ 1 \in 1..n /\ n \in 1..n /\ k + 1 # k
        BY <1>1, <2>8
      <4> QED  BY <1>1, <2>2, <2>3, <2>8, <4>1
    <3>2. h.prev[p] = q[l][k - 1] /\ h.next[p] = q[l][k + 1]
      <4>1. h.next[p] = q[l][k + 1]
        BY <1>1, <2>2, <2>8
      <4>2. k - 1 \in 1..(n - 1) /\ (k - 1) + 1 = k
        BY <1>1, <2>8
      <4> QED  BY <2>2, <4>1, <4>2
    <3>3. /\ h'.head = h.head /\ h'.tail = h.tail
          /\ h'.prev = [h.prev EXCEPT ![q[l][k + 1]] = q[l][k - 1]]
          /\ h'.next = [h.next EXCEPT ![q[l][k - 1]] = q[l][k + 1]]
      BY <1>1, <2>1, <3>1, <3>2 DEF erase, Store, Memory
    <3>4. CASE m = l
      <4>1. \A i \in 1..(n - 1) : q'[l][i] = IF i < k THEN q[l][i] ELSE q[l][i + 1]
        BY <1>2
      <4>2. /\ h'.head[l] = q'[l][1] /\ h'.tail[l] = q'[l][n - 1]
            /\ h'.next[q'[l][n - 1]] = NULL
        <5>1. q'[l][1] = q[l][1] /\ q'[l][n - 1] = q[l][n] /\ q[l][n] # q[l][k - 1]
          BY <1>1, <2>3, <2>8, <3>1, <4>1
        <5> QED  BY <1>1, <2>2, <3>3, <5>1 DEF Memory
      <4>3. ASSUME NEW i \in 1..(n - 2)
            PROVE  /\ h'.next[q'[l][i]] = q'[l][i + 1]
                   /\ h'.prev[q'[l][i + 1]] = q'[l][i]
        <5>1. CASE i + 1 < k
          <6>1. q'[l][i] = q[l][i] /\ q'[l][i + 1] = q[l][i + 1]
            BY <1>1, <4>1, <5>1
          <6>2. /\ q[l][i] # q[l][k - 1] /\ q[l][i + 1] # q[l][k + 1]
                /\ q[l][i] \in Node /\ q[l][i + 1] \in Node
            BY <1>1, <2>3, <3>1, <5>1
          <6>3. h.next[q[l][i]] = q[l][i + 1] /\ h.prev[q[l][i + 1]] = q[l][i]
            BY <1>1, <2>2
          <6> QED  BY <1>1, <3>3, <6>1, <6>2, <6>3 DEF Memory
        <5>2. CASE i + 1 = k
          <6>1. q'[l][i] = q[l][k - 1] /\ q'[l][i + 1] = q[l][k + 1]
            BY <1>1, <4>1, <5>2
          <6> QED  BY <1>1, <3>1, <3>3, <6>1 DEF Memory
        <5>3. CASE i + 1 > k
          <6>0. /\ i \in 1..(n - 1) /\ i + 1 \in 1..(n - 1) /\ (i + 1) + 1 = i + 2
                /\ ~(i < k) /\ ~(i + 1 < k)
            BY <1>1, <5>3
          <6>1. q'[l][i] = q[l][i + 1] /\ q'[l][i + 1] = q[l][i + 2]
            BY <4>1, <6>0
          <6>2. /\ q[l][i + 1] # q[l][k - 1] /\ q[l][i + 2] # q[l][k + 1]
                /\ q[l][i + 1] \in Node /\ q[l][i + 2] \in Node
            BY <1>1, <2>3, <3>1, <5>3
          <6>3. h.next[q[l][i + 1]] = q[l][i + 2] /\ h.prev[q[l][i + 2]] = q[l][i + 1]
            BY <1>1, <2>2
          <6> QED  BY <1>1, <3>3, <6>1, <6>2, <6>3 DEF Memory
        <5> QED  BY <5>1, <5>2, <5>3
      <4> QED  BY <1>1, <1>2, <2>8, <3>4, <4>2, <4>3 DEF Holds
    <3>5. CASE m # l
      <4>1. \A j \in 1..Len(q[m]) : /\ q[m][j] \in Node
                                    /\ q[m][j] # q[l][k - 1] /\ q[m][j] # q[l][k + 1]
        BY <1>1, <2>4, <3>1, <3>5
      <4> QED  BY <1>1, <2>5, <3>3, <3>5, <4>1 DEF Memory
    <3> QED  BY <3>4, <3>5
  <2> QED  BY <2>6, <2>7, <2>8
<1> QED  BY <1>4, <1>5, <1>6 DEF Inv

(* Every list of the kernel that is only ever given clean nodes is, at all *)
(* times, the sequence of the nodes pushed and not yet erased: push_back   *)
(* and erase of list.hpp implement a queue for any number of lists and     *)
(* nodes.                                                                  *)
THEOREM ListFaithful == CleanSpec => [](ListTypeOK /\ Faithful)
<1>1. Inv /\ [CleanNext]_listvars => Inv'
  <2> SUFFICES ASSUME Inv, [CleanNext]_listvars PROVE Inv'
    OBVIOUS
  <2>1. CASE \E l \in Lists, p \in Node : Clean(l, p) /\ Push(l, p)
    BY <2>1, PushInv
  <2>2. CASE Erasures
    BY <2>2, EraseInv DEF Erasures
  <2>3. CASE UNCHANGED listvars
    <3>1. h' = h /\ q' = q
      BY <2>3 DEF listvars
    <3>2. ListTypeOK'
      BY <3>1 DEF Inv, ListTypeOK
    <3>3. Distinct'
      BY <3>1 DEF Inv, Distinct
    <3>4. Faithful'
      BY <3>1 DEF Inv, Faithful, Holds
    <3> QED  BY <3>2, <3>3, <3>4 DEF Inv
  <2> QED  BY <2>1, <2>2, <2>3 DEF CleanNext
<1>2. Inv => ListTypeOK /\ Faithful
  BY DEF Inv
<1> QED  BY InitInv, <1>1, <1>2, PTL DEF CleanSpec
=============================================================================
