------------------------------ MODULE TuiProofs ------------------------------
(***************************************************************************)
(* Proofs about the terminal UI: for any session, caps and capacity, what  *)
(* TuiModel states of its history, totals, charts, tables, cursors and     *)
(* layout.  Each part has an invariant over the answers applied so far,    *)
(* kept by Answer, the only step that changes them; the loops of the code  *)
(* are recursive functions, reasoned about by the first step that fails.   *)
(***************************************************************************)
EXTENDS TuiModel, FiniteSetTheorems, SequenceTheorems, WellFoundedInduction, TLAPS

-----------------------------------------------------------------------------
(* Numbers *)

LEMMA LeastIs ==
    ASSUME NEW a \in Int, NEW b \in Int
    PROVE  Layout!least(a, b) = IF a <= b THEN a ELSE b
BY DEF Layout!least, Layout!Min

LEMMA MostIs ==
    ASSUME NEW a \in Int, NEW b \in Int
    PROVE  Layout!most(a, b) = IF a >= b THEN a ELSE b
BY DEF Layout!most, Layout!Max

LEMMA Upto ==
    ASSUME NEW n \in Nat
    PROVE  IsFiniteSet(1 .. n) /\ Cardinality(1 .. n) = n
BY FS_Interval

(* Every set of natural numbers that is not empty has a least element.      *)
LEMMA LeastNumber ==
    ASSUME NEW T, T \subseteq Nat, T # {}
    PROVE  \E x \in T : \A y \in T : x <= y
<1> DEFINE Less == OpToRel(<, Nat)
<1>1. IsWellFoundedOn(Less, Nat)
    BY NatLessThanWellFounded
<1>2. PICK x \in T : \A y \in T : ~(<<y, x>> \in Less)
    <2> HIDE DEF Less
    <2> QED BY <1>1, WFMin
<1>3. \A y \in T : x <= y
    <2> SUFFICES ASSUME NEW y \in T PROVE x <= y
        OBVIOUS
    <2>1. x \in Nat /\ y \in Nat /\ ~(<<y, x>> \in Less)
        BY <1>2
    <2>2. (y < x) => <<y, x>> \in Less
        BY <2>1 DEF OpToRel
    <2> HIDE DEF Less
    <2> QED BY <2>1, <2>2
<1> QED BY <1>3

LEMMA MinOf ==
    ASSUME NEW S, S \subseteq Int, NEW x \in S, \A y \in S : x <= y
    PROVE  Min(S) = x
<1>1. Min(S) \in S /\ \A y \in S : Min(S) <= y
    BY DEF Min
<1>2. Min(S) <= x /\ x <= Min(S) /\ Min(S) \in Int /\ x \in Int
    BY <1>1
<1> QED BY <1>2

LEMMA MaxOf ==
    ASSUME NEW S, S \subseteq Int, NEW x \in S, \A y \in S : y <= x
    PROVE  Max(S) = x
<1>1. Max(S) \in S /\ \A y \in S : Max(S) >= y
    <2>1. \A y \in S : x >= y
        <3> SUFFICES ASSUME NEW y \in S PROVE x >= y
            OBVIOUS
        <3>1. x \in Int /\ y \in Int /\ y <= x
            OBVIOUS
        <3> QED BY <3>1
    <2> QED BY <2>1 DEF Max
<1>2. Max(S) <= x /\ x <= Max(S) /\ Max(S) \in Int /\ x \in Int
    BY <1>1
<1> QED BY <1>2

LEMMA MinIs ==
    ASSUME NEW S, S \subseteq Nat, NEW x \in S, \A y \in S : x <= y
    PROVE  Min(S) = x
<1>1. S \subseteq Int
    OBVIOUS
<1> QED BY <1>1, MinOf

LEMMA MaxIs ==
    ASSUME NEW S, S \subseteq Nat, NEW x \in S, \A y \in S : y <= x
    PROVE  Max(S) = x
<1>1. S \subseteq Int
    OBVIOUS
<1> QED BY <1>1, MaxOf

(* The smallest natural number with a property comes right after one without *)
(* it: what an induction on the numbers up to n amounts to.                 *)
LEMMA FirstFailure ==
    ASSUME NEW n \in Nat, NEW Bad, Bad \subseteq 0 .. n, Bad # {}, 0 \notin Bad
    PROVE  \E k \in 0 .. n - 1 : k \notin Bad /\ k + 1 \in Bad
<1>1. PICK x \in Bad : \A y \in Bad : x <= y
    <2>1. Bad \subseteq Nat
        OBVIOUS
    <2> QED BY <2>1, LeastNumber
<1>2. x \in 1 .. n
    BY <1>1
<1>3. x - 1 \notin Bad
    <2> SUFFICES ASSUME x - 1 \in Bad PROVE FALSE
        OBVIOUS
    <2> QED BY <1>1, <1>2
<1> WITNESS x - 1 \in 0 .. n - 1
<1> QED BY <1>1, <1>2, <1>3

-----------------------------------------------------------------------------
(* The cap of the hint history *)

LEMMA Removed ==
    ASSUME NEW E, NEW q \in Seq(E), NEW v \in DOMAIN q
    PROVE  /\ Hist!RemoveAt(q, v) \in Seq(E)
           /\ Len(Hist!RemoveAt(q, v)) = Len(q) - 1
           /\ \A i \in 1 .. Len(q) - 1 : Hist!RemoveAt(q, v)[i] = IF i < v THEN q[i] ELSE q[i + 1]
<1>1. v \in 1 .. Len(q) /\ Len(q) \in Nat
    OBVIOUS
<1>2. SubSeq(q, 1, v - 1) \in Seq(E) /\ Len(SubSeq(q, 1, v - 1)) = v - 1
    BY <1>1
<1>3. SubSeq(q, v + 1, Len(q)) \in Seq(E) /\ Len(SubSeq(q, v + 1, Len(q))) = Len(q) - v
    BY <1>1
<1>4. \A i \in 1 .. v - 1 : SubSeq(q, 1, v - 1)[i] = q[i]
    BY <1>1
<1>5. \A i \in 1 .. Len(q) - v : SubSeq(q, v + 1, Len(q))[i] = q[v + i]
    BY <1>1
<1> DEFINE left == SubSeq(q, 1, v - 1)
           right == SubSeq(q, v + 1, Len(q))
<1>6. Hist!RemoveAt(q, v) = left \o right
    BY DEF Hist!RemoveAt
<1>7. left \o right \in Seq(E) /\ Len(left \o right) = Len(q) - 1
    <2>1. left \in Seq(E) /\ right \in Seq(E) /\ Len(left) = v - 1 /\ Len(right) = Len(q) - v
        BY <1>2, <1>3
    <2> HIDE DEF left, right
    <2> QED BY <1>1, <2>1
<1>8. ASSUME NEW i \in 1 .. Len(q) - 1
      PROVE  (left \o right)[i] = IF i < v THEN q[i] ELSE q[i + 1]
    <2>1. left \in Seq(E) /\ right \in Seq(E) /\ Len(left) = v - 1 /\ Len(right) = Len(q) - v
        BY <1>2, <1>3
    <2>2. (left \o right)[i] = IF i <= Len(left) THEN left[i] ELSE right[i - Len(left)]
        <3>1. i \in 1 .. Len(left) + Len(right)
            BY <1>1, <2>1
        <3> HIDE DEF left, right
        <3> QED BY <2>1, <3>1, ConcatProperties
    <2>3. CASE i < v
        BY <1>1, <1>4, <2>1, <2>2, <2>3
    <2>4. CASE ~(i < v)
        <3>1. i - (v - 1) \in 1 .. Len(q) - v
            BY <1>1, <2>4
        <3>2. right[i - (v - 1)] = q[v + (i - (v - 1))]
            BY <1>5, <3>1
        <3>3. v + (i - (v - 1)) = i + 1
            BY <1>1
        <3> HIDE DEF left, right
        <3> QED BY <1>1, <2>1, <2>2, <2>4, <3>2, <3>3
    <2> QED BY <2>3, <2>4
<1> HIDE DEF left, right
<1> QED BY <1>6, <1>7, <1>8

LEMMA OldestExists ==
    ASSUME NEW q, NEW S, S \subseteq Nat, S # {}, \A i \in S : q[i].last \in Nat
    PROVE  Hist!oldest(q, S) \in S
<1> DEFINE Times == {q[i].last : i \in S}
<1>1. PICK t \in Times : \A u \in Times : t <= u
    BY LeastNumber
<1> DEFINE First == {i \in S : q[i].last = t}
<1>2. First \subseteq Nat /\ First # {}
    BY <1>1
<1>3. PICK f \in First : \A i \in First : f <= i
    <2> HIDE DEF First
    <2> QED BY <1>2, LeastNumber
<1>4. /\ f \in S
      /\ \A j \in S : \/ q[f].last < q[j].last
                      \/ q[f].last = q[j].last /\ f <= j
    <2> SUFFICES ASSUME NEW j \in S
                 PROVE  \/ q[f].last < q[j].last
                        \/ q[f].last = q[j].last /\ f <= j
        BY <1>3
    <2>1. q[f].last = t /\ t <= q[j].last /\ t \in Nat /\ q[j].last \in Nat
        BY <1>1, <1>3
    <2>2. CASE q[j].last = t
        BY <1>3, <2>1, <2>2
    <2>3. CASE q[j].last # t
        BY <2>1, <2>3
    <2> QED BY <2>2, <2>3
<1> QED BY <1>4 DEF Hist!oldest

(* An entry that is dropped is one of the list's, and an active one only    *)
(* when the list has no other.                                              *)
LEMMA Victims ==
    ASSUME NEW E, \A e \in E : e.last \in Nat /\ e.active \in BOOLEAN,
           NEW q \in Seq(E), q # <<>>
    PROVE  /\ Hist!victim(q) \in DOMAIN q
           /\ q[Hist!victim(q)].active => \A i \in DOMAIN q : q[i].active
<1> DEFINE Inactive == {i \in DOMAIN q : ~q[i].active}
<1>1. DOMAIN q \subseteq Nat /\ DOMAIN q # {} /\ Inactive \subseteq DOMAIN q
    <2>1. DOMAIN q = 1 .. Len(q) /\ Len(q) \in Nat /\ Len(q) # 0
        OBVIOUS
    <2>2. 1 .. Len(q) \subseteq Nat /\ 1 \in 1 .. Len(q)
        BY <2>1
    <2> QED BY <2>1, <2>2
<1>2. \A i \in DOMAIN q : q[i].last \in Nat
    OBVIOUS
<1>3. CASE Inactive # {}
    <2>1. Hist!victim(q) = Hist!oldest(q, Inactive)
        BY <1>3 DEF Hist!victim
    <2>2. Hist!oldest(q, Inactive) \in Inactive
        <3>1. Inactive \subseteq Nat
            BY <1>1
        <3>2. \A i \in Inactive : q[i].last \in Nat
            BY <1>1, <1>2
        <3> HIDE DEF Inactive
        <3> QED BY <1>3, <3>1, <3>2, OldestExists
    <2> QED BY <2>1, <2>2
<1>4. CASE Inactive = {}
    <2>1. Hist!victim(q) = Hist!oldest(q, DOMAIN q)
        BY <1>4 DEF Hist!victim
    <2>2. Hist!oldest(q, DOMAIN q) \in DOMAIN q
        BY <1>1, <1>2, OldestExists
    <2> QED BY <1>4, <2>1, <2>2
<1> QED BY <1>3, <1>4

(* The lists on the way from h to the capped list, by how many were dropped. *)
Droppings(h, n, f) ==
    f = [k \in 0 .. n |-> IF k = 0 THEN h ELSE Hist!RemoveAt(f[k - 1], Hist!victim(f[k - 1]))]

LEMMA DroppingsExist ==
    ASSUME NEW h, NEW n \in Nat
    PROVE  \E f : Droppings(h, n, f)
<1> DEFINE Bad == {k \in 0 .. n : ~\E f : Droppings(h, k, f)}
<1> SUFFICES Bad = {}
    OBVIOUS
<1>1. 0 \notin Bad
    <2> DEFINE f == [k \in 0 .. 0 |-> h]
    <2>1. f = [k \in 0 .. 0 |-> IF k = 0 THEN h ELSE Hist!RemoveAt(f[k - 1], Hist!victim(f[k - 1]))]
        OBVIOUS
    <2>2. Droppings(h, 0, f)
        BY <2>1 DEF Droppings
    <2> QED BY <2>2
<1>2. ASSUME NEW k \in 0 .. n - 1, k \notin Bad
      PROVE  k + 1 \notin Bad
    <2>1. PICK f : Droppings(h, k, f)
        BY <1>2
    <2> DEFINE g == [i \in 0 .. k + 1 |-> IF i <= k THEN f[i] ELSE Hist!RemoveAt(f[k], Hist!victim(f[k]))]
    <2>2. \A i \in 0 .. k : f[i] = IF i = 0 THEN h ELSE Hist!RemoveAt(f[i - 1], Hist!victim(f[i - 1]))
        BY <2>1 DEF Droppings
    <2>3. \A i \in 0 .. k : g[i] = f[i]
        OBVIOUS
    <2>4. \A i \in 0 .. k + 1 : g[i] = IF i = 0 THEN h ELSE Hist!RemoveAt(g[i - 1], Hist!victim(g[i - 1]))
        <3> SUFFICES ASSUME NEW i \in 0 .. k + 1
                     PROVE  g[i] = IF i = 0 THEN h ELSE Hist!RemoveAt(g[i - 1], Hist!victim(g[i - 1]))
            OBVIOUS
        <3>1. CASE i = 0
            BY <2>2, <2>3, <3>1
        <3>2. CASE i \in 1 .. k
            <4>1. g[i] = f[i] /\ g[i - 1] = f[i - 1]
                BY <2>3, <3>2
            <4>2. f[i] = Hist!RemoveAt(f[i - 1], Hist!victim(f[i - 1]))
                BY <2>2, <3>2
            <4> HIDE DEF g
            <4> QED BY <3>2, <4>1, <4>2
        <3>3. CASE i = k + 1
            <4>1. g[i] = Hist!RemoveAt(f[k], Hist!victim(f[k])) /\ g[i - 1] = f[k]
                BY <2>3, <3>3
            <4> HIDE DEF g
            <4> QED BY <3>3, <4>1
        <3> QED BY <3>1, <3>2, <3>3
    <2>5. Droppings(h, k + 1, g)
        <3>1. g = [i \in 0 .. k + 1 |-> g[i]]
            OBVIOUS
        <3> HIDE DEF g
        <3> QED BY <2>4, <3>1 DEF Droppings
    <2> QED BY <2>5
<1> QED
    <2> SUFFICES ASSUME Bad # {} PROVE FALSE
        OBVIOUS
    <2>1. Bad \subseteq 0 .. n
        OBVIOUS
    <2> HIDE DEF Bad
    <2> QED BY <1>1, <1>2, <2>1, FirstFailure

LEMMA CapIsTheLastDropping ==
    ASSUME NEW E, NEW h \in Seq(E)
    PROVE  \E f : /\ Droppings(h, Len(h), f)
                  /\ Hist!capHintHistory(h) =
                        f[IF Len(h) > MaxHintHistory THEN Len(h) - MaxHintHistory ELSE 0]
<1> DEFINE f == CHOOSE f : Droppings(h, Len(h), f)
<1>1. Droppings(h, Len(h), f)
    BY DroppingsExist
<1>2. Hist!capHintHistory(h) = f[Max({0, Len(h) - MaxHintHistory})]
    BY DEF Hist!capHintHistory, Droppings, Hist!Max, Max
<1>3. Max({0, Len(h) - MaxHintHistory}) = IF Len(h) > MaxHintHistory THEN Len(h) - MaxHintHistory ELSE 0
    BY TuiAssumption DEF Max
<1> QED BY <1>1, <1>2, <1>3

(* q is the list h with entries taken out, and with an active one missing    *)
(* only when it has no other than active ones.                              *)
Remains(h, q) ==
    /\ \E m \in [DOMAIN q -> DOMAIN h] :
         /\ \A i \in DOMAIN q : q[i] = h[m[i]]
         /\ \A i, j \in DOMAIN q : i < j => m[i] < m[j]
    /\ \/ \A j \in DOMAIN h : h[j].active => \E i \in DOMAIN q : q[i] = h[j]
       \/ \A i \in DOMAIN q : q[i].active

LEMMA OneDropped ==
    ASSUME NEW E, \A e \in E : e.last \in Nat /\ e.active \in BOOLEAN,
           NEW h \in Seq(E), NEW q \in Seq(E), q # <<>>, Remains(h, q)
    PROVE  LET r == Hist!RemoveAt(q, Hist!victim(q))
           IN  r \in Seq(E) /\ Len(r) = Len(q) - 1 /\ Remains(h, r)
<1> DEFINE v == Hist!victim(q)
           r == Hist!RemoveAt(q, v)
<1>1. v \in DOMAIN q /\ (q[v].active => \A i \in DOMAIN q : q[i].active)
    BY Victims
<1>2. /\ r \in Seq(E) /\ Len(r) = Len(q) - 1
      /\ \A i \in 1 .. Len(q) - 1 : r[i] = IF i < v THEN q[i] ELSE q[i + 1]
    <2> HIDE DEF v
    <2> QED BY <1>1, Removed
<1>3. /\ DOMAIN q = 1 .. Len(q) /\ Len(q) \in Nat /\ v \in 1 .. Len(q)
      /\ DOMAIN r = 1 .. Len(q) - 1
    <2>1. DOMAIN q = 1 .. Len(q) /\ Len(q) \in Nat
        OBVIOUS
    <2> HIDE DEF r, v
    <2> QED BY <1>1, <1>2, <2>1
<1> HIDE DEF r, v
<1>4. \E m \in [DOMAIN r -> DOMAIN h] :
         /\ \A i \in DOMAIN r : r[i] = h[m[i]]
         /\ \A i, j \in DOMAIN r : i < j => m[i] < m[j]
    <2>1. PICK m \in [DOMAIN q -> DOMAIN h] :
             /\ \A i \in DOMAIN q : q[i] = h[m[i]]
             /\ \A i, j \in DOMAIN q : i < j => m[i] < m[j]
        BY DEF Remains
    <2> DEFINE n == [i \in DOMAIN r |-> m[IF i < v THEN i ELSE i + 1]]
    <2>2. n \in [DOMAIN r -> DOMAIN h]
        BY <1>3
    <2>3. \A i \in DOMAIN r : r[i] = h[n[i]]
        BY <1>2, <1>3, <2>1
    <2>4. \A i, j \in DOMAIN r : i < j => n[i] < n[j]
        <3> SUFFICES ASSUME NEW i \in DOMAIN r, NEW j \in DOMAIN r, i < j
                     PROVE  n[i] < n[j]
            OBVIOUS
        <3> DEFINE a == IF i < v THEN i ELSE i + 1
                   b == IF j < v THEN j ELSE j + 1
        <3>1. a \in DOMAIN q /\ b \in DOMAIN q /\ a < b
            BY <1>3
        <3>2. m[a] < m[b]
            <4> HIDE DEF a, b
            <4> QED BY <2>1, <3>1
        <3> QED BY <3>2
    <2> HIDE DEF n
    <2> QED BY <2>2, <2>3, <2>4
<1>5. \/ \A j \in DOMAIN h : h[j].active => \E i \in DOMAIN r : r[i] = h[j]
      \/ \A i \in DOMAIN r : r[i].active
    <2>1. CASE \A i \in DOMAIN q : q[i].active
        <3> SUFFICES ASSUME NEW i \in DOMAIN r PROVE r[i].active
            OBVIOUS
        <3>1. i \in DOMAIN q /\ i + 1 \in DOMAIN q
            BY <1>3
        <3>2. r[i] = q[i] \/ r[i] = q[i + 1]
            BY <1>2, <1>3
        <3> QED BY <2>1, <3>1, <3>2
    <2>2. CASE ~q[v].active /\ \A j \in DOMAIN h : h[j].active => \E i \in DOMAIN q : q[i] = h[j]
        <3> SUFFICES ASSUME NEW j \in DOMAIN h, h[j].active
                     PROVE  \E i \in DOMAIN r : r[i] = h[j]
            OBVIOUS
        <3>1. PICK i \in DOMAIN q : q[i] = h[j]
            BY <2>2
        <3>2. i # v
            BY <2>2, <3>1
        <3>3. CASE i < v
            <4>1. i \in DOMAIN r /\ r[i] = q[i]
                BY <1>2, <1>3, <3>3
            <4> QED BY <3>1, <4>1
        <3>4. CASE i > v
            <4>1. i - 1 \in 1 .. Len(q) - 1 /\ ~(i - 1 < v) /\ (i - 1) + 1 = i
                BY <1>3, <3>4
            <4>2. r[i - 1] = q[i]
                BY <1>2, <4>1
            <4> QED BY <1>3, <3>1, <4>1, <4>2
        <3> QED BY <1>3, <3>2, <3>3, <3>4
    <2> QED BY <1>1, <2>1, <2>2 DEF Remains
<1> QED BY <1>2, <1>4, <1>5 DEF Remains, r, v

LEMMA CapKeeps ==
    ASSUME NEW E, \A e \in E : e.last \in Nat /\ e.active \in BOOLEAN, NEW h \in Seq(E)
    PROVE  /\ Hist!capHintHistory(h) \in Seq(E)
           /\ Len(Hist!capHintHistory(h)) = IF Len(h) > MaxHintHistory THEN MaxHintHistory ELSE Len(h)
           /\ Remains(h, Hist!capHintHistory(h))
           /\ Len(h) <= MaxHintHistory => Hist!capHintHistory(h) = h
<1>1. PICK f : /\ Droppings(h, Len(h), f)
               /\ Hist!capHintHistory(h) =
                     f[IF Len(h) > MaxHintHistory THEN Len(h) - MaxHintHistory ELSE 0]
    BY CapIsTheLastDropping
<1>2. Len(h) \in Nat
    OBVIOUS
<1>3. \A k \in 0 .. Len(h) : f[k] = IF k = 0 THEN h ELSE Hist!RemoveAt(f[k - 1], Hist!victim(f[k - 1]))
    BY <1>1 DEF Droppings
<1> DEFINE Good(k) == f[k] \in Seq(E) /\ Len(f[k]) = Len(h) - k /\ Remains(h, f[k])
           Bad == {k \in 0 .. Len(h) : ~Good(k)}
<1>4. Good(0)
    <2>1. f[0] = h
        BY <1>2, <1>3
    <2>2. Remains(h, h)
        <3> DEFINE m == [i \in DOMAIN h |-> i]
        <3>1. m \in [DOMAIN h -> DOMAIN h]
            OBVIOUS
        <3>2. \A i \in DOMAIN h : h[i] = h[m[i]]
            OBVIOUS
        <3>3. \A i, j \in DOMAIN h : i < j => m[i] < m[j]
            OBVIOUS
        <3> HIDE DEF m
        <3> QED BY <3>1, <3>2, <3>3 DEF Remains
    <2> QED BY <1>2, <2>1, <2>2
<1>5. ASSUME NEW k \in 0 .. Len(h) - 1, Good(k)
      PROVE  Good(k + 1)
    <2>1. f[k] \in Seq(E) /\ Len(f[k]) = Len(h) - k /\ Remains(h, f[k])
        BY <1>5
    <2>2. f[k] # <<>>
        BY <1>2, <2>1
    <2>3. f[k + 1] = Hist!RemoveAt(f[k], Hist!victim(f[k]))
        <3>1. k + 1 \in 0 .. Len(h) /\ k + 1 # 0 /\ (k + 1) - 1 = k
            BY <1>2
        <3> QED BY <1>3, <3>1
    <2> DEFINE q == f[k]
               r == Hist!RemoveAt(q, Hist!victim(q))
    <2>4. r \in Seq(E) /\ Len(r) = Len(q) - 1 /\ Remains(h, r)
        <3>1. q \in Seq(E) /\ q # <<>> /\ Remains(h, q)
            BY <2>1, <2>2
        <3> HIDE DEF q
        <3> QED BY <3>1, OneDropped
    <2> QED BY <1>2, <2>1, <2>3, <2>4
<1>6. Bad = {}
    <2> SUFFICES ASSUME Bad # {} PROVE FALSE
        OBVIOUS
    <2>1. 0 \notin Bad /\ Bad \subseteq 0 .. Len(h)
        BY <1>4
    <2>2. \A k \in 0 .. Len(h) - 1 : k \notin Bad => k + 1 \notin Bad
        <3> SUFFICES ASSUME NEW k \in 0 .. Len(h) - 1, k \notin Bad PROVE k + 1 \notin Bad
            OBVIOUS
        <3>1. k \in 0 .. Len(h)
            BY <1>2
        <3>2. Good(k)
            <4> HIDE DEF Good
            <4> QED BY <3>1
        <3>3. Good(k + 1)
            <4> HIDE DEF Good
            <4> QED BY <1>5, <3>2
        <3> HIDE DEF Good
        <3> QED BY <3>3
    <2> HIDE DEF Bad
    <2> QED BY <1>2, <2>1, <2>2, FirstFailure
<1> DEFINE n == IF Len(h) > MaxHintHistory THEN Len(h) - MaxHintHistory ELSE 0
<1>7. n \in 0 .. Len(h) /\ Len(h) - n = IF Len(h) > MaxHintHistory THEN MaxHintHistory ELSE Len(h)
    BY <1>2, TuiAssumption
<1>8. Good(n)
    <2> HIDE DEF n, Good
    <2> QED BY <1>6, <1>7
<1>9. Len(h) <= MaxHintHistory => f[n] = h
    BY <1>2, <1>3, TuiAssumption
<1> HIDE DEF n
<1> QED BY <1>1, <1>7, <1>8, <1>9 DEF n

-----------------------------------------------------------------------------
(* What the state is made of *)

AllNames == UNION {UNION {{h.name : h \in Script(s)[i].hints} : i \in DOMAIN Script(s)} : s \in Sessions}

Entries == [name : AllNames, rank : 0 .. 2, first : Nat, last : Nat, count : Nat \ {0}, active : BOOLEAN]

Fields == {"paused", "showHelp", "hintDetail", "quitting", "activePanel", "sortField", "chartZoom",
           "cursor", "width", "height"}

Lists == {"gpu", "proc", "hints", "history"}

UiTypes ==
    /\ DOMAIN ui = Fields
    /\ ui.cursor \in [Lists -> Nat]
    /\ ui.activePanel \in Lists \union {"charts"}
    /\ ui.width \in Int /\ ui.height \in Int

Types ==
    /\ session \in Sessions
    /\ fetched \in 1 .. Len(script) /\ inFlight \subseteq 1 .. fetched
    /\ snapshot \in 0 .. Len(script) /\ (ready => snapshot # 0)
    /\ hintHistory \in Seq(Entries)
    /\ applied \in Seq(1 .. Len(script))
    /\ UiTypes

LEMMA ScriptIs ==
    ASSUME session \in Sessions
    PROVE  /\ Len(script) \in Nat \ {0} /\ DOMAIN script = 1 .. Len(script)
           /\ \A i \in 1 .. Len(script) :
                /\ IsSnapshot(script[i])
                /\ {h.name : h \in script[i].hints} \subseteq AllNames
<1>1. script \in Seq(Range(script)) /\ script # <<>>
    BY TuiAssumption DEF script
<1>2. Len(script) \in Nat \ {0} /\ DOMAIN script = 1 .. Len(script)
    BY <1>1
<1>3. \A i \in 1 .. Len(script) : IsSnapshot(script[i])
    BY <1>2, TuiAssumption DEF script
<1>4. \A i \in DOMAIN script : {h.name : h \in script[i].hints} \subseteq AllNames
    BY DEF AllNames, script
<1> QED BY <1>2, <1>3, <1>4

(* The rank of a hint's name is that of one of its hints, the most severe.  *)
LEMMA BestIs ==
    ASSUME NEW hints, IsFiniteSet(hints)
    PROVE  /\ DOMAIN Hist!best(hints) = {h.name : h \in hints}
           /\ IsFiniteSet(DOMAIN Hist!best(hints))
           /\ \A n \in DOMAIN Hist!best(hints) : Hist!best(hints)[n] \in 0 .. 2
<1>1. DOMAIN Hist!best(hints) = {h.name : h \in hints}
    BY DEF Hist!best
<1>2. IsFiniteSet({h.name : h \in hints})
    <2> DEFINE T == {h.name : h \in hints}
               f == [h \in hints |-> h.name]
    <2>1. f \in Surjection(hints, T)
        BY DEF Surjection
    <2>2. IsFiniteSet(T)
        <3> HIDE DEF T, f
        <3> QED BY <2>1, FS_Surjection
    <2> QED BY <2>2
<1>3. ASSUME NEW n \in DOMAIN Hist!best(hints)
      PROVE  Hist!best(hints)[n] \in 0 .. 2
    <2> DEFINE R == {Hist!severityRank(h.sev) : h \in {x \in hints : x.name = n}}
    <2>1. Hist!best(hints)[n] = Hist!Min(R)
        BY <1>1, <1>3 DEF Hist!best
    <2>2. R \subseteq 0 .. 2 /\ R # {}
        <3>1. \A sev : Hist!severityRank(sev) \in 0 .. 2
            BY DEF Hist!severityRank
        <3>2. PICK h \in hints : h.name = n
            BY <1>1, <1>3
        <3>3. Hist!severityRank(h.sev) \in R
            BY <3>2
        <3> QED BY <3>1, <3>3
    <2>3. Hist!Min(R) \in R
        <3> HIDE DEF R
        <3>1. R \subseteq Nat
            BY <2>2
        <3>2. \E x \in R : \A y \in R : x <= y
            BY <2>2, <3>1, LeastNumber
        <3> QED BY <3>2 DEF Hist!Min
    <2> HIDE DEF R
    <2> QED BY <2>1, <2>2, <2>3
<1> QED BY <1>1, <1>2, <1>3

-----------------------------------------------------------------------------
(* Merging a snapshot's hints *)

Past(e) == [e EXCEPT !.active = FALSE]

(* h is the history list with the hints of rank b seen at ts put in: known   *)
(* entries marked, and one new entry for each other name.                   *)
Merged(list, ts, b, h) ==
    LET old == Len(list)
        known == {list[i].name : i \in DOMAIN list}
    IN  /\ h \in Seq(Entries) /\ Len(h) >= old
        /\ \A i \in 1 .. old :
             h[i] = IF list[i].name \in DOMAIN b
                    THEN Hist!seenAgain(list[i], b[list[i].name], ts)
                    ELSE Past(list[i])
        /\ \A i \in old + 1 .. Len(h) :
             /\ h[i].name \in DOMAIN b \ known
             /\ h[i] = Hist!newEntry(h[i].name, b[h[i].name], ts)
        /\ \A i, j \in old + 1 .. Len(h) : i # j => h[i].name # h[j].name
        /\ \A n \in DOMAIN b \ known : \E i \in old + 1 .. Len(h) : h[i].name = n

Better(a, b) == IF a <= b THEN a ELSE b

LEMMA SeenAgainIs ==
    ASSUME NEW e \in Entries, NEW r \in 0 .. 2, NEW ts \in Nat
    PROVE  /\ Hist!seenAgain(e, r, ts) \in Entries
           /\ Hist!seenAgain(e, r, ts).name = e.name
           /\ Hist!seenAgain(e, r, ts).rank = Better(e.rank, r)
           /\ Hist!seenAgain(e, r, ts).first = e.first /\ Hist!seenAgain(e, r, ts).last = ts
           /\ Hist!seenAgain(e, r, ts).count = e.count + 1 /\ Hist!seenAgain(e, r, ts).active
<1> DEFINE s == Hist!seenAgain(e, r, ts)
<1>1. Hist!Min({e.rank, r}) = IF e.rank <= r THEN e.rank ELSE r
    BY DEF Hist!Min, Entries
<1>2. (IF e.rank <= r THEN e.rank ELSE r) \in 0 .. 2
    BY DEF Entries
<1>3. e.count + 1 \in Nat \ {0} /\ TRUE \in BOOLEAN
    BY DEF Entries
<1>4. /\ s.name = e.name /\ s.rank = Hist!Min({e.rank, r})
      /\ s.first = e.first /\ s.last = ts /\ s.count = e.count + 1 /\ s.active = TRUE
    BY DEF Hist!seenAgain, Entries
<1>5. s \in Entries
    BY <1>1, <1>2, <1>3 DEF Hist!seenAgain, Entries
<1> QED BY <1>1, <1>4, <1>5 DEF Better

LEMMA MarkedPastIs ==
    ASSUME NEW e \in Entries
    PROVE  /\ Past(e) \in Entries
           /\ Past(e).name = e.name /\ Past(e).rank = e.rank
           /\ Past(e).first = e.first /\ Past(e).last = e.last
           /\ Past(e).count = e.count /\ ~Past(e).active
<1> DEFINE s == Past(e)
<1>1. /\ s.name = e.name /\ s.rank = e.rank
      /\ s.first = e.first /\ s.last = e.last /\ s.count = e.count /\ s.active = FALSE
    BY DEF Entries, Past
<1>2. FALSE \in BOOLEAN
    OBVIOUS
<1>3. s \in Entries
    BY <1>2 DEF Entries, Past
<1> QED BY <1>1, <1>3

LEMMA NewEntryIs ==
    ASSUME NEW n \in AllNames, NEW r \in 0 .. 2, NEW ts \in Nat
    PROVE  Hist!newEntry(n, r, ts) \in Entries /\ Hist!newEntry(n, r, ts).name = n
BY DEF Hist!newEntry, Entries

LEMMA MergeEffect ==
    ASSUME NEW ts \in Nat, NEW hints, IsFiniteSet(hints),
           {h.name : h \in hints} \subseteq AllNames, hintHistory \in Seq(Entries),
           Hist!mergeHintHistory(ts, hints)
    PROVE  \E h : /\ Merged(hintHistory, ts, Hist!best(hints), h)
                  /\ hintHistory' = Hist!capHintHistory(h)
<1> DEFINE b == Hist!best(hints)
           old == Len(hintHistory)
           known == {hintHistory[i].name : i \in DOMAIN hintHistory}
           D == DOMAIN b \ known
           marked == [i \in DOMAIN hintHistory |->
                         IF hintHistory[i].name \in DOMAIN b
                         THEN Hist!seenAgain(hintHistory[i], b[hintHistory[i].name], ts)
                         ELSE Past(hintHistory[i])]
<1>1. PICK new \in Hist!SetToSeqs(D) :
        hintHistory' = Hist!capHintHistory(
            marked \o [k \in DOMAIN new |-> Hist!newEntry(new[k], b[new[k]], ts)])
    BY DEF Hist!mergeHintHistory, Past
<1> DEFINE fresh == [k \in DOMAIN new |-> Hist!newEntry(new[k], b[new[k]], ts)]
           h == marked \o fresh
<1>2. /\ DOMAIN b \subseteq AllNames /\ IsFiniteSet(DOMAIN b)
      /\ \A n \in DOMAIN b : b[n] \in 0 .. 2
    BY BestIs
<1>3. D \subseteq DOMAIN b /\ IsFiniteSet(D) /\ Cardinality(D) \in Nat
    <2>1. D \subseteq DOMAIN b
        OBVIOUS
    <2> HIDE DEF D, b
    <2> QED BY <1>2, <2>1, FS_Subset, FS_CardinalityType
<1>4. /\ new \in [1 .. Cardinality(D) -> D]
      /\ \A i, j \in 1 .. Cardinality(D) : i # j => new[i] # new[j]
    <2>1. new \in {f \in [1 .. Cardinality(D) -> D] :
                     \A i, j \in 1 .. Cardinality(D) : i # j => f[i] # f[j]}
        <3>1. Hist!Cardinality(D) = Cardinality(D)
            BY DEF Hist!Cardinality, Cardinality
        <3> HIDE DEF D
        <3> QED BY <1>1, <3>1 DEF Hist!SetToSeqs
    <2> HIDE DEF D
    <2> QED BY <2>1
<1> DEFINE n == Cardinality(D)
<1>5. \A x \in D : \E i \in 1 .. n : new[i] = x
    <2>1. new \in Injection(1 .. n, D)
        <3> HIDE DEF D
        <3> QED BY <1>4 DEF Injection, IsInjective
    <2>2. Cardinality(1 .. n) = n
        <3> HIDE DEF n
        <3>1. n \in Nat
            BY <1>3 DEF n
        <3> QED BY <3>1, Upto
    <2>3. new \in Surjection(1 .. n, D)
        <3> HIDE DEF D
        <3> QED BY <1>3, <2>1, <2>2, FS_Injection
    <2> HIDE DEF D
    <2> QED BY <2>3 DEF Surjection
<1>6. old \in Nat /\ DOMAIN hintHistory = 1 .. old /\ \A i \in 1 .. old : hintHistory[i] \in Entries
    OBVIOUS
<1>7. marked \in Seq(Entries) /\ Len(marked) = old
    <2>1. ASSUME NEW i \in 1 .. old PROVE marked[i] \in Entries
        <3>1. CASE hintHistory[i].name \in DOMAIN b
            <4>1. marked[i] = Hist!seenAgain(hintHistory[i], b[hintHistory[i].name], ts)
                BY <1>6, <3>1
            <4>2. b[hintHistory[i].name] \in 0 .. 2
                BY <1>2, <3>1
            <4>3. hintHistory[i] \in Entries
                BY <1>6
            <4> HIDE DEF marked, b
            <4>4. \A r \in 0 .. 2 : Hist!seenAgain(hintHistory[i], r, ts) \in Entries
                BY <4>3, SeenAgainIs
            <4> QED BY <4>1, <4>2, <4>4
        <3>2. CASE hintHistory[i].name \notin DOMAIN b
            <4>1. marked[i] = Past(hintHistory[i])
                BY <1>6, <3>2
            <4> HIDE DEF marked, b
            <4> QED BY <1>6, <4>1, MarkedPastIs
        <3> QED BY <3>1, <3>2
    <2>2. marked = [i \in 1 .. old |-> marked[i]]
        BY <1>6
    <2> HIDE DEF marked
    <2> QED BY <1>6, <2>1, <2>2
<1>8. \A k \in 1 .. n : new[k] \in D /\ new[k] \in AllNames /\ b[new[k]] \in 0 .. 2
    <2> HIDE DEF b, D
    <2> QED BY <1>2, <1>3, <1>4
<1>9. /\ fresh \in Seq(Entries) /\ Len(fresh) = n
      /\ \A k \in 1 .. n : fresh[k] = Hist!newEntry(new[k], b[new[k]], ts) /\ fresh[k].name = new[k]
    <2>1. DOMAIN new = 1 .. n /\ n \in Nat
        <3> HIDE DEF D
        <3> QED BY <1>3, <1>4
    <2> HIDE DEF n, b, D
    <2>2. \A k \in 1 .. n : Hist!newEntry(new[k], b[new[k]], ts) \in Entries
                          /\ Hist!newEntry(new[k], b[new[k]], ts).name = new[k]
        BY <1>8, NewEntryIs
    <2>3. fresh = [k \in 1 .. n |-> Hist!newEntry(new[k], b[new[k]], ts)]
        BY <2>1
    <2> QED BY <2>1, <2>2, <2>3
<1>10. /\ h \in Seq(Entries) /\ Len(h) = old + n
       /\ \A i \in 1 .. old : h[i] = marked[i]
       /\ \A i \in old + 1 .. old + n : i - old \in 1 .. n /\ h[i] = fresh[i - old]
    <2>1. n \in Nat
        BY <1>3
    <2> HIDE DEF marked, fresh, n, old
    <2>2. /\ h \in Seq(Entries) /\ Len(h) = old + n
          /\ \A i \in 1 .. old + n : h[i] = IF i <= old THEN marked[i] ELSE fresh[i - old]
        <3>1. /\ marked \o fresh \in Seq(Entries)
              /\ Len(marked \o fresh) = Len(marked) + Len(fresh)
              /\ \A i \in 1 .. Len(marked) + Len(fresh) :
                   (marked \o fresh)[i] = IF i <= Len(marked) THEN marked[i] ELSE fresh[i - Len(marked)]
            BY <1>7, <1>9, ConcatProperties
        <3> QED BY <1>7, <1>9, <3>1
    <2> HIDE DEF h
    <2>3. \A i \in 1 .. old : h[i] = marked[i]
        BY <1>6, <2>1, <2>2
    <2>4. \A i \in old + 1 .. old + n : i - old \in 1 .. n /\ h[i] = fresh[i - old]
        BY <1>6, <2>1, <2>2
    <2> QED BY <2>2, <2>3, <2>4
<1>11. Merged(hintHistory, ts, b, h)
    <2>0. n \in Nat
        BY <1>3
    <2>1. \A i \in 1 .. old :
             h[i] = IF hintHistory[i].name \in DOMAIN b
                    THEN Hist!seenAgain(hintHistory[i], b[hintHistory[i].name], ts)
                    ELSE Past(hintHistory[i])
        <3> HIDE DEF h, fresh, b, n
        <3> QED BY <1>6, <1>10
    <2> HIDE DEF h, fresh, marked, b
    <2>2. \A i \in old + 1 .. old + n :
             /\ h[i].name = new[i - old] /\ h[i].name \in D
             /\ h[i] = Hist!newEntry(h[i].name, b[h[i].name], ts)
        <3> HIDE DEF n, D, old
        <3> QED BY <1>8, <1>9, <1>10
    <2>3. \A i, j \in old + 1 .. old + n : i # j => h[i].name # h[j].name
        <3> SUFFICES ASSUME NEW i \in old + 1 .. old + n, NEW j \in old + 1 .. old + n, i # j
                     PROVE  h[i].name # h[j].name
            OBVIOUS
        <3>1. h[i].name = new[i - old] /\ h[j].name = new[j - old]
            BY <2>2
        <3>2. i - old \in 1 .. n /\ j - old \in 1 .. n /\ i - old # j - old
            BY <1>6, <1>10
        <3> QED BY <1>4, <3>1, <3>2
    <2>4. \A x \in D : \E i \in old + 1 .. old + n : h[i].name = x
        <3> SUFFICES ASSUME NEW x \in D PROVE \E i \in old + 1 .. old + n : h[i].name = x
            OBVIOUS
        <3>1. PICK k \in 1 .. n : new[k] = x
            BY <1>5
        <3> HIDE DEF n, D, old
        <3>2. old + k \in old + 1 .. old + n /\ (old + k) - old = k
            BY <1>6, <2>0
        <3> QED BY <2>2, <3>1, <3>2
    <2>5. Len(h) >= old
        BY <1>6, <1>10, <2>0
    <2> QED BY <1>10, <2>1, <2>2, <2>3, <2>4, <2>5 DEF Merged
<1> HIDE DEF h
<1>12. hintHistory' = Hist!capHintHistory(h)
    BY <1>1 DEF h
<1> QED BY <1>11, <1>12

-----------------------------------------------------------------------------
(* What a step changes *)

LEMMA ShownIs ==
    ASSUME Types
    PROVE  /\ IsFiniteSet(shown.hints) /\ IsFiniteSet(shown.procs)
           /\ shown.gpus \in Seq([util : Samples, temp : Int, clock : Int])
           /\ shown.swap \in 0 .. 1
           /\ {h.name : h \in shown.hints} \subseteq AllNames
<1>1. CASE snapshot = 0
    <2>1. shown = NoSnapshot
        BY <1>1 DEF shown
    <2>2. IsFiniteSet({})
        BY FS_EmptySet
    <2> QED BY <2>1, <2>2 DEF NoSnapshot
<1>2. CASE snapshot # 0
    <2>1. shown = script[snapshot] /\ snapshot \in 1 .. Len(script)
        BY <1>2, ScriptIs DEF shown, Types
    <2> QED BY <2>1, ScriptIs DEF Types, IsSnapshot
<1> QED BY <1>1, <1>2

LEMMA RowsAreNumbers ==
    ASSUME Types
    PROVE  \A p \in Lists : rows[p] \in Nat
<1>1. Cardinality(shown.procs) \in Nat
    BY ShownIs, FS_CardinalityType
<1>2. Cardinality(DOMAIN shown.gpus) \in Nat
    <2>1. DOMAIN shown.gpus = 1 .. Len(shown.gpus) /\ Len(shown.gpus) \in Nat
        BY ShownIs
    <2> QED BY <2>1, Upto
<1>3. Cardinality(uniqueHints) \in Nat
    BY ShownIs, BestIs, FS_CardinalityType DEF uniqueHints
<1>4. Len(hintHistory) \in Nat
    BY DEF Types
<1> QED BY <1>1, <1>2, <1>3, <1>4 DEF rows, Lists

(* Where a key leaves the cursor of a list *)
Settled(p, c) ==
    /\ c \in Nat
    /\ c <= ui.cursor[p] \/ (p \in {"gpu", "proc"} => c < rows[p])

(* What the sorted processes and the sorted history were made from is what  *)
(* View would make them from.                                               *)
MemoCurrent ==
    /\ memo.procs = sortedBy(shown, ui.sortField)
    /\ memo.history = hintHistory

LEMMA MovedIs ==
    ASSUME Types, NEW k \in MoveKeys
    PROVE  /\ DOMAIN moved(k) = Fields
           /\ moved(k).cursor \in [Lists -> Nat]
           /\ \A p \in Lists : Settled(p, moved(k).cursor[p])
           /\ \A f \in Fields \ {"cursor"} : moved(k)[f] = ui[f]
<1> DEFINE p == ui.activePanel
           c == ui.cursor[p]
<1>0. UiTypes
    BY DEF Types
<1>1. CASE moved(k) = ui
    BY <1>0, <1>1 DEF UiTypes, Settled
<1>2. CASE p # "charts" /\ (k = "up" \/ p \in {"hints", "history"} \/ rows[p] # 0)
    <2>1. p \in Lists /\ c \in Nat /\ rows[p] \in Nat
        BY <1>0, <1>2, RowsAreNumbers DEF UiTypes
    <2>2. \E d \in Nat : /\ moved(k) = [ui EXCEPT !.cursor[p] = d]
                        /\ Settled(p, d)
        <3>1. CASE k = "up"
            <4>1. moved(k) = [ui EXCEPT !.cursor[p] = Layout!most(c - 1, 0)]
                BY <1>2, <3>1 DEF moved
            <4>2. Layout!most(c - 1, 0) \in Nat /\ Layout!most(c - 1, 0) <= c
                BY <2>1, MostIs
            <4> QED BY <4>1, <4>2 DEF Settled
        <3>2. CASE k # "up" /\ p \in {"hints", "history"}
            <4>1. moved(k) = [ui EXCEPT !.cursor[p] = c + 1]
                BY <1>2, <3>2 DEF moved
            <4> QED BY <2>1, <3>2, <4>1 DEF Settled
        <3>3. CASE k # "up" /\ p \notin {"hints", "history"} /\ rows[p] # 0
            <4>1. moved(k) = [ui EXCEPT !.cursor[p] = Layout!least(c + 1, rows[p] - 1)]
                BY <1>2, <3>3 DEF moved
            <4>2. Layout!least(c + 1, rows[p] - 1) \in Nat /\ Layout!least(c + 1, rows[p] - 1) < rows[p]
                BY <2>1, <3>3, LeastIs
            <4> QED BY <4>1, <4>2 DEF Settled
        <3> QED BY <1>2, <3>1, <3>2, <3>3
    <2>3. PICK d \in Nat : moved(k) = [ui EXCEPT !.cursor[p] = d] /\ Settled(p, d)
        BY <2>2
    <2>4. \A f \in Fields \ {"cursor"} : moved(k)[f] = ui[f]
        BY <1>0, <2>3 DEF UiTypes
    <2>5. DOMAIN moved(k) = Fields /\ moved(k).cursor = [ui.cursor EXCEPT ![p] = d]
        BY <1>0, <2>3 DEF UiTypes, Fields
    <2>6. \A q \in Lists : Settled(q, moved(k).cursor[q])
        BY <1>0, <2>1, <2>3, <2>5 DEF UiTypes, Settled
    <2> QED BY <1>0, <2>1, <2>4, <2>5, <2>6 DEF UiTypes
<1>3. moved(k) # ui => p # "charts" /\ (k = "up" \/ p \in {"hints", "history"} \/ rows[p] # 0)
    BY DEF moved
<1> QED BY <1>1, <1>2, <1>3

LEMMA PressedIs ==
    ASSUME Types, NEW k \in AllKeys \ {"sort", "enter"}
    PROVE  /\ DOMAIN pressed(k) = Fields
           /\ pressed(k).cursor \in [Lists -> Nat]
           /\ \A p \in Lists : Settled(p, pressed(k).cursor[p])
           /\ pressed(k).activePanel \in Lists \union {"charts"}
           /\ pressed(k).sortField = ui.sortField
           /\ pressed(k).width = ui.width /\ pressed(k).height = ui.height
<1> USE DEF Fields, Lists
<1>0. UiTypes
    BY DEF Types
<1>1. \A p \in Lists : Settled(p, ui.cursor[p])
    BY <1>0 DEF UiTypes, Settled
<1>2. CASE k \in MoveKeys
    <2>1. pressed(k) = moved(k)
        BY <1>2 DEF pressed, MoveKeys, PanelKeys
    <2> QED BY <1>0, <1>2, <2>1, MovedIs DEF UiTypes
<1>3. CASE k \in DOMAIN PanelKeys
    <2>1. pressed(k) = [ui EXCEPT !.activePanel = PanelKeys[k]]
        BY <1>3 DEF pressed, PanelKeys, MoveKeys
    <2>2. PanelKeys[k] \in Lists \union {"charts"}
        BY <1>3 DEF PanelKeys
    <2> HIDE DEF Fields
    <2>3. DOMAIN pressed(k) = Fields /\ \A f \in Fields \ {"activePanel"} : pressed(k)[f] = ui[f]
        BY <1>0, <2>1 DEF UiTypes
    <2>4. pressed(k).activePanel = PanelKeys[k]
        BY <1>0, <2>1 DEF UiTypes, Fields
    <2> QED BY <1>0, <1>1, <2>2, <2>3, <2>4 DEF UiTypes, Fields
<1>4. CASE k = "tab"
    <2>1. pressed(k) = [ui EXCEPT !.activePanel = after(Panels, ui.activePanel)]
        BY <1>4 DEF pressed, PanelKeys, MoveKeys
    <2>2. after(Panels, ui.activePanel) \in Lists \union {"charts"}
        <3>1. \E i \in DOMAIN Panels : Panels[i] = ui.activePanel
            BY <1>0 DEF UiTypes, Panels
        <3>2. \A i \in DOMAIN Panels : Panels[(i % Len(Panels)) + 1] \in Lists \union {"charts"}
            BY DEF Panels
        <3> QED BY <3>1, <3>2 DEF after
    <2> HIDE DEF Fields
    <2>3. DOMAIN pressed(k) = Fields /\ \A f \in Fields \ {"activePanel"} : pressed(k)[f] = ui[f]
        BY <1>0, <2>1 DEF UiTypes
    <2>4. pressed(k).activePanel = after(Panels, ui.activePanel)
        BY <1>0, <2>1 DEF UiTypes, Fields
    <2> QED BY <1>0, <1>1, <2>2, <2>3, <2>4 DEF UiTypes, Fields
<1>5. CASE k \in {"quit", "help", "space", "zoom"}
    <2>1. PICK f \in {"quitting", "showHelp", "paused", "chartZoom"} :
             \E v : pressed(k) = [ui EXCEPT ![f] = v]
        <3>1. CASE k = "quit"
            BY <3>1 DEF pressed, PanelKeys, MoveKeys
        <3>2. CASE k = "help"
            BY <3>2 DEF pressed, PanelKeys, MoveKeys
        <3>3. CASE k = "space"
            BY <3>3 DEF pressed, PanelKeys, MoveKeys
        <3>4. CASE k = "zoom"
            BY <3>4 DEF pressed, PanelKeys, MoveKeys
        <3> QED BY <1>5, <3>1, <3>2, <3>3, <3>4
    <2>2. DOMAIN pressed(k) = Fields /\ \A g \in Fields \ {f} : pressed(k)[g] = ui[g]
        BY <1>0, <2>1 DEF UiTypes
    <2> QED BY <1>0, <1>1, <2>2 DEF UiTypes
<1> QED BY <1>2, <1>3, <1>4, <1>5 DEF AllKeys

LEMMA UserEffect ==
    ASSUME Types, User
    PROVE  /\ UNCHANGED <<session, fetchVars, shownVars>>
           /\ UiTypes'
           /\ \A p \in Lists : Settled(p, ui.cursor'[p])
           /\ \/ memo' = memo /\ ui.sortField' = ui.sortField
              \/ memo' = refreshed(shown, ui.sortField', hintHistory)
<1> USE DEF Fields, Lists
<1>0. UiTypes /\ \A p \in Lists : Settled(p, ui.cursor[p])
    BY DEF Types, UiTypes, Settled
<1>1. UNCHANGED <<session, fetchVars, shownVars>>
    BY DEF User
<1>2. ASSUME NEW k \in Keys(session), handleKey(k)
      PROVE  /\ UiTypes'
             /\ \A p \in Lists : Settled(p, ui.cursor'[p])
             /\ \/ memo' = memo /\ ui.sortField' = ui.sortField
                \/ memo' = refreshed(shown, ui.sortField', hintHistory)
    <2>0. k \in AllKeys
        BY TuiAssumption DEF Types
    <2>1. CASE ui.showHelp /\ ui' = [ui EXCEPT !.showHelp = FALSE] /\ UNCHANGED memo
        BY <1>0, <2>1 DEF UiTypes
    <2>2. CASE ui' = [ui EXCEPT !.hintDetail = NoHint, !.quitting = (k = "quit")] /\ UNCHANGED memo
        BY <1>0, <2>2 DEF UiTypes
    <2>3. CASE k = "sort" /\ Sort
        <3>1. PICK field : ui' = [ui EXCEPT !.sortField = field] /\ memo' = refreshed(shown, field, hintHistory)
            BY <2>3 DEF Sort, resorted
        <3>2. UiTypes' /\ ui'.cursor = ui.cursor /\ ui'.sortField = field
            BY <1>0, <3>1 DEF UiTypes
        <3> QED BY <1>0, <3>1, <3>2
    <2>4. CASE k = "enter" /\ OpenDetail
        <3>1. memo' = memo /\ (ui' = ui \/ \E x : ui' = [ui EXCEPT !.hintDetail = x])
            BY <2>4 DEF OpenDetail
        <3>2. UiTypes' /\ ui'.cursor = ui.cursor /\ ui'.sortField = ui.sortField
            BY <1>0, <3>1 DEF UiTypes
        <3> QED BY <1>0, <3>1, <3>2
    <2>5. CASE k \notin {"sort", "enter"} /\ ui' = pressed(k) /\ UNCHANGED memo
        BY <1>0, <2>0, <2>5, PressedIs DEF UiTypes
    <2> QED BY <1>2, <2>1, <2>2, <2>3, <2>4, <2>5 DEF handleKey
<1>3. ASSUME NEW s \in Sizes(session), Resize(s[1], s[2])
      PROVE  /\ UiTypes' /\ ui'.cursor = ui.cursor
             /\ memo' = memo /\ ui.sortField' = ui.sortField
    <2>1. s[1] \in Int /\ s[2] \in Int
        BY TuiAssumption DEF Types
    <2>2. ui' = [ui EXCEPT !.width = s[1], !.height = s[2]] /\ memo' = memo
        BY <1>3 DEF Resize
    <2> QED BY <1>0, <2>1, <2>2 DEF UiTypes
<1>4. CASE \E k \in Keys(session) : handleKey(k)
    BY <1>1, <1>2, <1>4
<1>5. CASE \E s \in Sizes(session) : Resize(s[1], s[2])
    BY <1>0, <1>1, <1>3, <1>5
<1> QED BY <1>4, <1>5 DEF User

LEMMA AnswerEffect ==
    ASSUME Types, NEW n \in inFlight, Answer(n)
    PROVE  /\ n \in 1 .. Len(script) /\ IsSnapshot(script[n])
           /\ Cardinality(script[n].procs) \in Nat /\ Cardinality(DOMAIN script[n].gpus) \in Nat
           /\ script' = script /\ shown' = script[n]
           /\ UiTypes' /\ ui.cursor' = clamped(ui.cursor, script[n])
           /\ memo' = refreshed(script[n], ui.sortField', hintHistory')
           /\ \E h : /\ Merged(hintHistory, script[n].ts, Hist!best(script[n].hints), h)
                     /\ hintHistory' = Hist!capHintHistory(h)
<1>1. n \in 1 .. Len(script) /\ IsSnapshot(script[n]) /\ n # 0
    BY ScriptIs DEF Types
<1>2. session' = session /\ snapshot' = n
    BY DEF Answer
<1>3. script' = script /\ shown' = script[n]
    BY <1>1, <1>2 DEF script, shown
<1>4. ui' = [ui EXCEPT !.cursor = clamped(ui.cursor, script[n])]
    BY DEF Answer
<1>5. Cardinality(script[n].procs) \in Nat
    BY <1>1, FS_CardinalityType DEF IsSnapshot
<1>6. Cardinality(DOMAIN script[n].gpus) \in Nat
    <2>1. DOMAIN script[n].gpus = 1 .. Len(script[n].gpus) /\ Len(script[n].gpus) \in Nat
        BY <1>1 DEF IsSnapshot
    <2> QED BY <2>1, Upto
<1>7. clamped(ui.cursor, script[n]) \in [Lists -> Nat]
    <2>1. \A c \in Nat, m \in Nat : Layout!least(c, Layout!most(0, m - 1)) \in Nat
        BY LeastIs, MostIs
    <2>2. ui.cursor \in [Lists -> Nat]
        BY DEF Types, UiTypes
    <2>3. /\ Layout!least(ui.cursor["proc"], Layout!most(0, Cardinality(script[n].procs) - 1)) \in Nat
          /\ Layout!least(ui.cursor["gpu"], Layout!most(0, Cardinality(DOMAIN script[n].gpus) - 1)) \in Nat
        BY <1>5, <1>6, <2>1, <2>2 DEF Lists
    <2> QED BY <2>2, <2>3 DEF clamped, Lists
<1>8. UiTypes' /\ ui'.cursor = clamped(ui.cursor, script[n]) /\ ui'.sortField = ui.sortField
    BY <1>4, <1>7 DEF Types, UiTypes, Fields
<1>9. memo' = refreshed(script[n], ui.sortField, hintHistory')
    BY DEF Answer
<1>10. Hist!mergeHintHistory(script[n].ts, script[n].hints)
    BY DEF Answer
<1>11. \E h : /\ Merged(hintHistory, script[n].ts, Hist!best(script[n].hints), h)
             /\ hintHistory' = Hist!capHintHistory(h)
    <2>1. /\ script[n].ts \in Nat /\ IsFiniteSet(script[n].hints)
          /\ {h.name : h \in script[n].hints} \subseteq AllNames
          /\ hintHistory \in Seq(Entries)
        BY <1>1, ScriptIs DEF IsSnapshot, Types
    <2> QED BY <1>10, <2>1, MergeEffect
<1> QED BY <1>1, <1>3, <1>5, <1>6, <1>8, <1>9, <1>11

LEMMA EntriesCanBeCapped == \A e \in Entries : e.last \in Nat /\ e.active \in BOOLEAN
BY DEF Entries

LEMMA AnswerTypes ==
    ASSUME Types, NEW n \in inFlight, Answer(n)
    PROVE  Types'
<1>1. PICK h : /\ Merged(hintHistory, script[n].ts, Hist!best(script[n].hints), h)
               /\ hintHistory' = Hist!capHintHistory(h)
    BY AnswerEffect
<1>2. hintHistory' \in Seq(Entries)
    BY <1>1, CapKeeps, EntriesCanBeCapped DEF Merged
<1>3. /\ session' = session /\ fetched' = fetched /\ inFlight' \subseteq inFlight /\ snapshot' = n
    BY DEF Answer
<1>4. n \in 1 .. Len(script) /\ script' = script /\ UiTypes'
    BY AnswerEffect
<1>5. applied' \in Seq(1 .. Len(script))
    <2>1. applied \in Seq(1 .. Len(script)) /\ applied' = Append(applied, n)
        BY DEF Types, Answer
    <2> QED BY <1>4, <2>1
<1> QED BY <1>2, <1>3, <1>4, <1>5 DEF Types

LEMMA InitTypes == Init => Types
<1> SUFFICES ASSUME Init PROVE Types
    OBVIOUS
<1>1. session \in Sessions /\ fetched = 1 /\ inFlight = {1} /\ snapshot = 0 /\ ready = FALSE
    BY DEF Init
<1>2. hintHistory = <<>> /\ applied = <<>>
    BY DEF Init, Hist!Init
<1>3. UiTypes
    BY DEF Init, UiTypes, Fields, Lists
<1>4. 1 \in 1 .. Len(script) /\ 0 \in 0 .. Len(script)
    BY <1>1, ScriptIs
<1>5. hintHistory \in Seq(Entries) /\ applied \in Seq(1 .. Len(script))
    BY <1>2
<1> QED BY <1>1, <1>3, <1>4, <1>5 DEF Types

LEMMA NextTypes == Types /\ [Next]_vars => Types'
<1> SUFFICES ASSUME Types, [Next]_vars PROVE Types'
    OBVIOUS
<1>1. CASE Tick
    <2>1. UNCHANGED <<session, snapshot, ready, hintHistory, applied, ui>>
        BY <1>1 DEF Tick, shownVars
    <2>2. \/ fetched' = fetched /\ inFlight' = inFlight
          \/ fetched < Len(script) /\ fetched' = fetched + 1 /\ inFlight' = inFlight \union {fetched + 1}
        BY <1>1 DEF Tick
    <2>3. script' = script /\ Len(script) \in Nat
        BY <2>1, ScriptIs DEF script, Types
    <2>4. fetched' \in 1 .. Len(script) /\ inFlight' \subseteq 1 .. fetched'
        <3>1. fetched \in 1 .. Len(script) /\ inFlight \subseteq 1 .. fetched
            BY DEF Types
        <3>2. \A x \in inFlight : x \in 1 .. fetched + 1
            BY <2>3, <3>1
        <3>3. fetched + 1 \in 1 .. fetched + 1
            BY <2>3, <3>1
        <3>4. fetched < Len(script) => fetched + 1 \in 1 .. Len(script)
            BY <2>3, <3>1
        <3> QED BY <2>2, <3>1, <3>2, <3>3, <3>4
    <2> QED BY <2>1, <2>3, <2>4 DEF Types, UiTypes
<1>2. ASSUME NEW n \in inFlight, Answer(n) PROVE Types'
    BY <1>2, AnswerTypes
<1>3. ASSUME NEW n \in inFlight, AnswerError(n) PROVE Types'
    <2>1. UNCHANGED <<session, snapshot, fetched, hintHistory, applied, ui>> /\ ready' = FALSE
          /\ inFlight' \subseteq inFlight
        BY <1>3 DEF AnswerError
    <2> QED BY <2>1 DEF Types, UiTypes, script
<1>4. CASE User
    <2>1. UiTypes' /\ UNCHANGED <<session, snapshot, ready, hintHistory, applied, fetched, inFlight>>
        BY <1>4, UserEffect DEF shownVars, fetchVars
    <2> QED BY <2>1 DEF Types, script
<1>5. CASE UNCHANGED vars
    BY <1>5 DEF Types, UiTypes, vars, shownVars, fetchVars, script
<1> QED BY <1>1, <1>2, <1>3, <1>4, <1>5 DEF Next

(* The state's types: what is shown comes from the session, the history is a *)
(* list of entries, cursors are numbers in panels that exist.               *)
THEOREM TypeCorrect == Spec => []Types
<1>1. Init => Types
    BY InitTypes
<1>2. Types /\ [Next]_vars => Types'
    BY NextTypes
<1> QED BY <1>1, <1>2, PTL DEF Spec

-----------------------------------------------------------------------------
(* The memoised lists *)

(* Every snapshot and every change of the sort field make the sorted lists   *)
(* anew, and nothing else changes what they are made from.                  *)
LEMMA NextMemo == Types /\ MemoCurrent /\ [Next]_vars => MemoCurrent'
<1> SUFFICES ASSUME Types, MemoCurrent, [Next]_vars PROVE MemoCurrent'
    OBVIOUS
<1>1. ASSUME UNCHANGED <<session, snapshot, hintHistory, memo>>, ui.sortField' = ui.sortField
      PROVE  MemoCurrent'
    <2>1. shown' = shown
        BY <1>1 DEF shown, script
    <2> QED BY <1>1, <2>1 DEF MemoCurrent, sortedBy
<1>2. CASE Tick
    BY <1>1, <1>2 DEF Tick, shownVars
<1>3. ASSUME NEW n \in inFlight, Answer(n) PROVE MemoCurrent'
    <2>1. shown' = script[n] /\ memo' = refreshed(script[n], ui.sortField', hintHistory')
        BY <1>3, AnswerEffect
    <2> QED BY <2>1 DEF refreshed, MemoCurrent, sortedBy
<1>4. ASSUME NEW n \in inFlight, AnswerError(n) PROVE MemoCurrent'
    BY <1>1, <1>4 DEF AnswerError
<1>5. CASE User
    <2>1. UNCHANGED <<session, snapshot, hintHistory>>
        BY <1>5, UserEffect DEF shownVars
    <2>2. CASE memo' = memo /\ ui.sortField' = ui.sortField
        BY <1>1, <2>1, <2>2
    <2>3. CASE memo' = refreshed(shown, ui.sortField', hintHistory)
        <3>1. shown' = shown
            BY <2>1 DEF shown, script
        <3> QED BY <2>1, <2>3, <3>1 DEF refreshed, MemoCurrent, sortedBy
    <2> QED BY <1>5, <2>2, <2>3, UserEffect
<1>6. CASE UNCHANGED vars
    BY <1>1, <1>6 DEF vars, shownVars
<1> QED BY <1>2, <1>3, <1>4, <1>5, <1>6 DEF Next

(* What View takes from the memoised lists is what it would compute afresh   *)
(* (refreshSortCaches and the versions), for every session.                 *)
THEOREM TablesCurrent == Spec => []TablesAreCurrent
<1>1. Init => Types /\ MemoCurrent
    <2> SUFFICES ASSUME Init PROVE MemoCurrent
        BY InitTypes
    <2>1. /\ memo.procs = sortedBy(NoSnapshot, "util") /\ memo.history = <<>>
          /\ hintHistory = <<>> /\ snapshot = 0 /\ ui.sortField = "util"
        BY DEF Init, Hist!Init
    <2> QED BY <2>1 DEF MemoCurrent, shown
<1>2. Types /\ MemoCurrent /\ [Next]_vars => (Types /\ MemoCurrent)'
    BY NextTypes, NextMemo
<1>3. MemoCurrent => TablesAreCurrent
    BY DEF MemoCurrent, TablesAreCurrent, sortedProcs, sortedHistory
<1> QED BY <1>1, <1>2, <1>3, PTL DEF Spec

-----------------------------------------------------------------------------
(* The cursors and the rows drawn *)

(* Update keeps the cursors of the GPU and process tables on a row.          *)
CursorsOnRows ==
    \A p \in {"gpu", "proc"} : ui.cursor[p] <= Layout!most(0, rows[p] - 1)

LEMMA ClampedIs ==
    ASSUME NEW c \in Nat, NEW m \in Nat
    PROVE  Layout!least(c, Layout!most(0, m - 1)) <= Layout!most(0, m - 1)
BY LeastIs, MostIs

LEMMA NextCursors == Types /\ CursorsOnRows /\ [Next]_vars => CursorsOnRows'
<1> SUFFICES ASSUME Types, CursorsOnRows, [Next]_vars PROVE CursorsOnRows'
    OBVIOUS
<1>1. ASSUME UNCHANGED <<session, snapshot, hintHistory, ui>>
      PROVE  CursorsOnRows'
    <2>1. shown' = shown
        BY <1>1 DEF shown, script
    <2> QED BY <1>1, <2>1 DEF CursorsOnRows, rows
<1>2. CASE Tick
    BY <1>1, <1>2 DEF Tick, shownVars
<1>3. ASSUME NEW n \in inFlight, Answer(n) PROVE CursorsOnRows'
    <2>1. shown' = script[n] /\ ui.cursor' = clamped(ui.cursor, script[n])
        BY <1>3, AnswerEffect
    <2>2. /\ rows'["proc"] = Cardinality(script[n].procs)
          /\ rows'["gpu"] = Cardinality(DOMAIN script[n].gpus)
        BY <2>1 DEF rows
    <2>3. ui.cursor \in [Lists -> Nat]
        BY DEF Types, UiTypes
    <2>4. rows'["proc"] \in Nat /\ rows'["gpu"] \in Nat
        BY <1>3, <2>2, AnswerEffect
    <2>5. /\ ui'.cursor["proc"] = Layout!least(ui.cursor["proc"], Layout!most(0, rows'["proc"] - 1))
          /\ ui'.cursor["gpu"] = Layout!least(ui.cursor["gpu"], Layout!most(0, rows'["gpu"] - 1))
        BY <2>1, <2>2, <2>3 DEF clamped, Lists
    <2>6. ui.cursor["proc"] \in Nat /\ ui.cursor["gpu"] \in Nat
        BY <2>3 DEF Lists
    <2> QED BY <2>4, <2>5, <2>6, ClampedIs DEF CursorsOnRows
<1>4. ASSUME NEW n \in inFlight, AnswerError(n) PROVE CursorsOnRows'
    BY <1>1, <1>4 DEF AnswerError
<1>5. CASE User
    <2>1. UNCHANGED <<session, snapshot, hintHistory>> /\ \A p \in Lists : Settled(p, ui.cursor'[p])
        BY <1>5, UserEffect DEF shownVars
    <2>2. shown' = shown
        BY <2>1 DEF shown, script
    <2>3. rows' = rows
        BY <2>1, <2>2 DEF rows, uniqueHints
    <2> SUFFICES ASSUME NEW p \in {"gpu", "proc"}
                 PROVE  ui'.cursor[p] <= Layout!most(0, rows[p] - 1)
        BY <2>3 DEF CursorsOnRows
    <2>4. p \in Lists /\ rows[p] \in Nat /\ ui.cursor[p] \in Nat
        BY RowsAreNumbers DEF Types, UiTypes, Lists
    <2>5. /\ ui'.cursor[p] \in Nat
          /\ ui'.cursor[p] <= ui.cursor[p] \/ ui'.cursor[p] < rows[p]
        BY <2>1, <2>4 DEF Settled
    <2>6. ui.cursor[p] <= Layout!most(0, rows[p] - 1)
        BY DEF CursorsOnRows
    <2> QED BY <2>4, <2>5, <2>6, MostIs
<1>6. CASE UNCHANGED vars
    BY <1>1, <1>6 DEF vars, shownVars
<1> QED BY <1>2, <1>3, <1>4, <1>5, <1>6 DEF Next

(* The window of a list that is not empty has the row of its cursor.         *)
LEMMA WindowHasCursor ==
    ASSUME NEW n \in Nat \ {0}, NEW c \in 0 .. n - 1, NEW k \in Nat \ {0}
    PROVE  c \in Layout!offset(c, n, k) .. Layout!lastVisible(c, n, k)
<1> DEFINE seen == IF n <= k THEN n ELSE k
           first == IF c >= seen THEN c - seen + 1 ELSE 0
<1>1. Layout!least(n, k) = seen /\ seen \in Nat \ {0} /\ seen <= n
    BY LeastIs
<1>2. Layout!offset(c, n, k) = first
    BY <1>1 DEF Layout!offset
<1>3. first \in Nat
    BY <1>1
<1>4. Layout!lastVisible(c, n, k) = (IF first + seen <= n THEN first + seen ELSE n) - 1
    <2> HIDE DEF first, seen
    <2> QED BY <1>1, <1>2, <1>3, LeastIs DEF Layout!lastVisible
<1> HIDE DEF seen
<1> QED BY <1>1, <1>2, <1>4

LEMMA VisibleNow == Types /\ CursorsOnRows => HighlightVisible
<1> SUFFICES ASSUME Types, CursorsOnRows, NEW p \in Lists, rows[p] > 0
             PROVE  row(p) \in Layout!offset(row(p), rows[p], cap[p]) .. Layout!lastVisible(row(p), rows[p], cap[p])
    <2>1. DOMAIN rows = Lists
        BY DEF rows, Lists
    <2> QED BY <2>1 DEF HighlightVisible
<1>1. rows[p] \in Nat \ {0} /\ ui.cursor[p] \in Nat
    BY RowsAreNumbers DEF Types, UiTypes
<1>2. row(p) \in 0 .. rows[p] - 1
    <2>1. CASE p \in {"hints", "history"}
        <3>1. row(p) = Layout!least(ui.cursor[p], Layout!most(0, rows[p] - 1))
            BY <2>1 DEF row
        <3> QED BY <1>1, <3>1, LeastIs, MostIs
    <2>2. CASE p \in {"gpu", "proc"}
        <3>1. row(p) = ui.cursor[p] /\ ui.cursor[p] <= Layout!most(0, rows[p] - 1)
            BY <2>2 DEF row, CursorsOnRows
        <3> QED BY <1>1, <3>1, MostIs
    <2> QED BY <2>1, <2>2 DEF Lists
<1>3. cap[p] \in Nat \ {0}
    <2>1. ui.height \in Int
        BY DEF Types, UiTypes
    <2> QED BY <2>1 DEF cap, Lists, Layout!gpuPanelCap, Layout!procPanelCap, Layout!activeCap,
                        Layout!historyCap, Layout!byHeight
<1> QED BY <1>1, <1>2, <1>3, WindowHasCursor

(* The selected row of every list that is not empty is among the rows drawn, *)
(* whatever snapshots, keys and resizes there were (the clamps of Update and *)
(* View, and the window arithmetic of the four view functions).             *)
THEOREM HighlightIsVisible == Spec => []HighlightVisible
<1>1. Init => Types /\ CursorsOnRows
    <2> SUFFICES ASSUME Init PROVE CursorsOnRows
        BY InitTypes
    <2>1. Types /\ \A p \in {"gpu", "proc"} : ui.cursor[p] = 0
        BY InitTypes DEF Init
    <2>2. \A p \in {"gpu", "proc"} : rows[p] \in Nat
        BY <2>1, RowsAreNumbers DEF Lists
    <2> QED BY <2>1, <2>2, MostIs DEF CursorsOnRows
<1>2. Types /\ CursorsOnRows /\ [Next]_vars => (Types /\ CursorsOnRows)'
    BY NextTypes, NextCursors
<1> QED BY <1>1, <1>2, VisibleNow, PTL DEF Spec

-----------------------------------------------------------------------------
(* The hints of the shown snapshot in the history *)

(* Every hint of the snapshot has an active entry in the merged list.        *)
LEMMA MergedHasCurrent ==
    ASSUME NEW list \in Seq(Entries), NEW ts \in Nat, NEW b, NEW h, Merged(list, ts, b, h),
           \A n \in DOMAIN b : b[n] \in 0 .. 2,
           NEW n \in DOMAIN b
    PROVE  \E i \in DOMAIN h : h[i].name = n /\ h[i].active
<1> DEFINE known == {list[i].name : i \in DOMAIN list}
<1>1. /\ DOMAIN list = 1 .. Len(list) /\ Len(list) \in Nat
      /\ DOMAIN h = 1 .. Len(h) /\ Len(h) \in Nat /\ Len(h) >= Len(list)
    BY DEF Merged
<1>2. CASE n \in known
    <2>1. PICK i \in DOMAIN list : list[i].name = n
        BY <1>2
    <2>2. list[i] \in Entries /\ b[n] \in 0 .. 2
        OBVIOUS
    <2>3. h[i] = Hist!seenAgain(list[i], b[n], ts)
        BY <1>1, <2>1 DEF Merged
    <2>4. h[i].name = n /\ h[i].active
        BY <2>1, <2>2, <2>3, SeenAgainIs
    <2>5. i \in DOMAIN h
        BY <1>1
    <2> QED BY <2>4, <2>5
<1>3. CASE n \notin known
    <2>1. PICK i \in Len(list) + 1 .. Len(h) : h[i].name = n
        BY <1>3 DEF Merged
    <2>2. h[i] = Hist!newEntry(h[i].name, b[h[i].name], ts)
        BY DEF Merged
    <2>3. h[i].active
        BY <2>2 DEF Hist!newEntry
    <2>4. i \in DOMAIN h
        BY <1>1
    <2> QED BY <2>1, <2>3, <2>4
<1> QED BY <1>2, <1>3

LEMMA AnswerListsCurrent ==
    ASSUME Types, NEW n \in inFlight, Answer(n)
    PROVE  CurrentHintsAreListed'
<1> DEFINE b == Hist!best(script[n].hints)
<1>1. PICK h : Merged(hintHistory, script[n].ts, b, h) /\ hintHistory' = Hist!capHintHistory(h)
    BY AnswerEffect
<1>2. IsSnapshot(script[n]) /\ shown' = script[n]
    BY AnswerEffect
<1>3. uniqueHints' = DOMAIN b
    BY <1>2 DEF uniqueHints
<1>4. h \in Seq(Entries)
    BY <1>1 DEF Merged
<1>5. \A x \in DOMAIN b : b[x] \in 0 .. 2
    BY <1>2, BestIs DEF IsSnapshot
<1>6. \A x \in DOMAIN b : \E i \in DOMAIN h : h[i].name = x /\ h[i].active
    <2>1. hintHistory \in Seq(Entries) /\ script[n].ts \in Nat
        BY <1>2 DEF Types, IsSnapshot
    <2> HIDE DEF b
    <2> QED BY <1>1, <1>5, <2>1, MergedHasCurrent
<1> DEFINE r == Hist!capHintHistory(h)
<1>7. /\ r \in Seq(Entries)
      /\ Len(r) = IF Len(h) > MaxHintHistory THEN MaxHintHistory ELSE Len(h)
      /\ Remains(h, r)
      /\ Len(h) <= MaxHintHistory => r = h
    BY <1>4, CapKeeps, EntriesCanBeCapped
<1> HIDE DEF b, r
<1>8. Len(h) \in Nat /\ MaxHintHistory \in Nat
    BY <1>4, TuiAssumption
<1>9. hintHistory' = r
    BY <1>1 DEF r
<1>10. Len(r) <= MaxHintHistory
    BY <1>7, <1>8
<1>11. CASE Len(h) <= MaxHintHistory \/ \A j \in DOMAIN h : h[j].active => \E i \in DOMAIN r : r[i] = h[j]
    <2>1. \A j \in DOMAIN h : h[j].active => \E i \in DOMAIN r : r[i] = h[j]
        BY <1>7, <1>11
    <2>2. \A x \in DOMAIN b : \E i \in DOMAIN r : r[i].name = x
        BY <1>6, <2>1
    <2>3. uniqueHints' \subseteq listed(r)
        BY <1>3, <2>2 DEF listed
    <2> QED BY <1>9, <1>10, <2>3 DEF CurrentHintsAreListed, listed
<1>12. CASE Len(h) > MaxHintHistory /\ \A i \in DOMAIN r : r[i].active
    BY <1>7, <1>9, <1>10, <1>12 DEF CurrentHintsAreListed
<1> QED BY <1>7, <1>8, <1>11, <1>12 DEF Remains

(* A hint of the shown snapshot is missing from the history only when it is  *)
(* full of hints as current (mergeHintHistory, capHintHistory), whatever     *)
(* the session's snapshots and the order of the answers.                    *)
THEOREM CurrentHintsListed == Spec => []CurrentHintsAreListed
<1>1. Init => Types /\ CurrentHintsAreListed
    <2> SUFFICES ASSUME Init PROVE CurrentHintsAreListed
        BY InitTypes
    <2>1. snapshot = 0 /\ hintHistory = <<>>
        BY DEF Init, Hist!Init
    <2>2. shown.hints = {}
        BY <2>1 DEF shown, NoSnapshot
    <2>3. uniqueHints = {}
        BY <2>2 DEF uniqueHints, Hist!best
    <2> QED BY <2>1, <2>3, TuiAssumption DEF CurrentHintsAreListed
<1>2. Types /\ CurrentHintsAreListed /\ [Next]_vars => (Types /\ CurrentHintsAreListed)'
    <2> SUFFICES ASSUME Types, CurrentHintsAreListed, [Next]_vars PROVE CurrentHintsAreListed'
        BY NextTypes
    <2>1. ASSUME UNCHANGED <<session, snapshot, hintHistory>>
          PROVE  CurrentHintsAreListed'
        <3>1. uniqueHints' = uniqueHints
            BY <2>1 DEF uniqueHints, shown, script
        <3> QED BY <2>1, <3>1 DEF CurrentHintsAreListed, listed
    <2>2. CASE Tick
        BY <2>1, <2>2 DEF Tick, shownVars
    <2>3. ASSUME NEW n \in inFlight, Answer(n) PROVE CurrentHintsAreListed'
        BY <2>3, AnswerListsCurrent
    <2>4. ASSUME NEW n \in inFlight, AnswerError(n) PROVE CurrentHintsAreListed'
        BY <2>1, <2>4 DEF AnswerError
    <2>5. CASE User
        BY <2>1, <2>5, UserEffect DEF shownVars
    <2>6. CASE UNCHANGED vars
        BY <2>1, <2>6 DEF vars, shownVars
    <2> QED BY <2>2, <2>3, <2>4, <2>5, <2>6 DEF Next
<1> QED BY <1>1, <1>2, PTL DEF Spec

-----------------------------------------------------------------------------
(* What the history tells of each hint *)

(* The answers whose snapshot had a hint of name x, and those from s on.     *)
having(x) == {k \in DOMAIN applied : x \in DOMAIN Hist!best(at(k).hints)}
since(x, s) == {k \in having(x) : k >= s}

(* Entry e is what the answers from s on said of its hint.                   *)
Tells(e, s) ==
    /\ s \in having(e.name)
    /\ e.count = Cardinality(since(e.name, s))
    /\ \E k \in since(e.name, s) : e.rank = Hist!best(at(k).hints)[e.name]
    /\ \A k \in since(e.name, s) : e.rank <= Hist!best(at(k).hints)[e.name]
    /\ e.first = at(s).ts
    /\ \E k \in having(e.name) : e.last = at(k).ts /\ \A l \in having(e.name) : l <= k
    /\ e.active <=> Len(applied) \in having(e.name)

Faithful ==
    /\ \A i, j \in DOMAIN hintHistory : i # j => hintHistory[i].name # hintHistory[j].name
    /\ \A i \in DOMAIN hintHistory : \E s \in Nat : Tells(hintHistory[i], s)

LEMMA AppliedGrows ==
    ASSUME Types, NEW n \in inFlight, Answer(n)
    PROVE  /\ Len(applied) \in Nat /\ DOMAIN applied = 1 .. Len(applied)
           /\ Len(applied') = Len(applied) + 1 /\ DOMAIN applied' = 1 .. Len(applied) + 1
           /\ \A k \in 1 .. Len(applied) : applied'[k] = applied[k] /\ at(k)' = at(k)
           /\ \A k : k = Len(applied) + 1 => at(k)' = script[n]
<1>1. applied \in Seq(1 .. Len(script)) /\ applied' = Append(applied, n)
    BY DEF Types, Answer
<1>2. n \in 1 .. Len(script) /\ script' = script
    BY AnswerEffect
<1>3. Len(applied) \in Nat /\ DOMAIN applied = 1 .. Len(applied)
    BY <1>1
<1>4. /\ Len(applied') = Len(applied) + 1 /\ DOMAIN applied' = 1 .. Len(applied) + 1
      /\ \A k \in 1 .. Len(applied) : applied'[k] = applied[k]
      /\ applied'[Len(applied) + 1] = n
    BY <1>1, <1>2, <1>3
<1> QED BY <1>2, <1>3, <1>4 DEF at

LEMMA HavingGrows ==
    ASSUME Types, NEW n \in inFlight, Answer(n), NEW x
    PROVE  having(x)' = IF x \in DOMAIN Hist!best(script[n].hints)
                        THEN having(x) \union {Len(applied) + 1} ELSE having(x)
<1>1. having(x)' = {k \in 1 .. Len(applied) + 1 : x \in DOMAIN Hist!best(at(k)'.hints)}
    BY AppliedGrows DEF having
<1>2. having(x) = {k \in 1 .. Len(applied) : x \in DOMAIN Hist!best(at(k).hints)}
    BY AppliedGrows DEF having
<1>3. ASSUME NEW k
      PROVE  k \in having(x)' <=> \/ k \in having(x)
                                  \/ k = Len(applied) + 1 /\ x \in DOMAIN Hist!best(script[n].hints)
    <2>1. CASE k \in 1 .. Len(applied)
        <3>1. k \in 1 .. Len(applied) + 1 /\ k # Len(applied) + 1 /\ at(k)' = at(k)
            BY <2>1, AppliedGrows
        <3> QED BY <1>1, <1>2, <2>1, <3>1
    <2>2. CASE k = Len(applied) + 1
        <3>1. k \notin 1 .. Len(applied) /\ k \in 1 .. Len(applied) + 1
            BY <2>2, AppliedGrows
        <3>2. at(k)' = script[n]
            BY <2>2, AppliedGrows
        <3> QED BY <1>1, <1>2, <2>2, <3>1, <3>2
    <2>3. CASE k \notin 1 .. Len(applied) /\ k # Len(applied) + 1
        <3>1. k \notin 1 .. Len(applied) + 1
            BY <2>3, AppliedGrows
        <3> QED BY <1>1, <1>2, <2>3, <3>1
    <2> QED BY <2>1, <2>2, <2>3
<1> QED BY <1>3

LEMMA HavingIs ==
    ASSUME Types, NEW x
    PROVE  /\ having(x) \subseteq 1 .. Len(applied) /\ Len(applied) \in Nat
           /\ \A s \in Nat : IsFiniteSet(since(x, s)) /\ Cardinality(since(x, s)) \in Nat
<1>1. having(x) \subseteq 1 .. Len(applied) /\ Len(applied) \in Nat
    BY DEF Types, having
<1>2. \A s \in Nat : since(x, s) \in SUBSET (1 .. Len(applied))
    BY <1>1 DEF since
<1>3. IsFiniteSet(1 .. Len(applied))
    BY <1>1, Upto
<1> QED BY <1>1, <1>2, <1>3, FS_Subset, FS_CardinalityType

(* An entry that is not in the snapshot keeps what it tells, and is past.    *)
LEMMA PastTells ==
    ASSUME Types, NEW n \in inFlight, Answer(n),
           NEW e \in Entries, NEW s \in Nat, Tells(e, s), e.name \notin DOMAIN Hist!best(script[n].hints)
    PROVE  Tells(Past(e), s)'
<1> DEFINE x == e.name
           p == Past(e)
<1>1. /\ p.name = x /\ p.rank = e.rank /\ p.first = e.first /\ p.last = e.last
      /\ p.count = e.count /\ ~p.active
    BY MarkedPastIs
<1>2. having(x)' = having(x) /\ since(x, s)' = since(x, s)
    BY HavingGrows DEF since
<1>3. having(x) \subseteq 1 .. Len(applied) /\ since(x, s) \subseteq having(x) /\ Len(applied) \in Nat
    BY HavingIs DEF since
<1>4. \A k \in having(x) : at(k)' = at(k)
    BY <1>3, AppliedGrows
<1>5. s \in having(x)
    BY DEF Tells
<1>6. Len(applied') \notin having(x)
    BY <1>3, AppliedGrows
<1> HIDE DEF p
<1>7. /\ s \in having(x)'
      /\ p.count = Cardinality(since(x, s)')
      /\ \E k \in since(x, s)' : p.rank = Hist!best(at(k)'.hints)[x]
      /\ \A k \in since(x, s)' : p.rank <= Hist!best(at(k)'.hints)[x]
      /\ p.first = at(s)'.ts
      /\ \E k \in having(x)' : p.last = at(k)'.ts /\ \A l \in having(x)' : l <= k
      /\ ~p.active /\ Len(applied') \notin having(x)'
    <2>1. p.count = Cardinality(since(x, s)')
        BY <1>1, <1>2 DEF Tells
    <2>2. \E k \in since(x, s)' : p.rank = Hist!best(at(k)'.hints)[x]
        BY <1>1, <1>2, <1>3, <1>4 DEF Tells
    <2>3. \A k \in since(x, s)' : p.rank <= Hist!best(at(k)'.hints)[x]
        BY <1>1, <1>2, <1>3, <1>4 DEF Tells
    <2>4. p.first = at(s)'.ts
        BY <1>1, <1>4, <1>5 DEF Tells
    <2>5. \E k \in having(x)' : p.last = at(k)'.ts /\ \A l \in having(x)' : l <= k
        BY <1>1, <1>2, <1>4 DEF Tells
    <2> QED BY <1>1, <1>2, <1>5, <1>6, <2>1, <2>2, <2>3, <2>4, <2>5
<1>8. p.name = x
    BY <1>1
<1> QED BY <1>7, <1>8 DEF Tells, p

(* An entry seen again tells of one more answer, and its rank is the worst   *)
(* of all of them.                                                          *)
LEMMA SeenAgainTells ==
    ASSUME Types, NEW n \in inFlight, Answer(n),
           NEW e \in Entries, NEW s \in Nat, Tells(e, s), e.name \in DOMAIN Hist!best(script[n].hints)
    PROVE  Tells(Hist!seenAgain(e, Hist!best(script[n].hints)[e.name], script[n].ts), s)'
<1> DEFINE x == e.name
           m == Len(applied)
<1>1. PICK r \in 0 .. 2 : r = Hist!best(script[n].hints)[x]
    <2>1. IsFiniteSet(script[n].hints)
        BY AnswerEffect DEF IsSnapshot
    <2> QED BY <2>1, BestIs
<1>2. PICK ts \in Nat : ts = script[n].ts
    BY AnswerEffect DEF IsSnapshot
<1>3. PICK p : p = Hist!seenAgain(e, r, ts)
    OBVIOUS
<1>4. /\ p.name = x /\ p.rank = Better(e.rank, r) /\ p.first = e.first
      /\ p.last = ts /\ p.count = e.count + 1 /\ p.active
    <2>1. /\ Hist!seenAgain(e, r, ts).name = e.name
          /\ Hist!seenAgain(e, r, ts).rank = Better(e.rank, r)
          /\ Hist!seenAgain(e, r, ts).first = e.first /\ Hist!seenAgain(e, r, ts).last = ts
          /\ Hist!seenAgain(e, r, ts).count = e.count + 1 /\ Hist!seenAgain(e, r, ts).active
        BY SeenAgainIs
    <2> QED BY <1>3, <2>1
<1>5. having(x)' = having(x) \union {m + 1}
    BY HavingGrows
<1>6. having(x) \subseteq 1 .. m /\ since(x, s) \subseteq having(x) /\ m \in Nat
    BY HavingIs DEF since
<1>7. s \in having(x) /\ s <= m + 1
    <2>1. s \in having(x)
        BY DEF Tells
    <2> QED BY <1>6, <2>1
<1>8. /\ since(x, s)' = since(x, s) \union {m + 1}
      /\ Cardinality(since(x, s)') = Cardinality(since(x, s)) + 1
    <2>1. since(x, s)' = {k \in having(x) \union {m + 1} : k >= s}
        BY <1>5 DEF since
    <2>2. since(x, s) = {k \in having(x) : k >= s}
        BY DEF since
    <2>3. since(x, s)' = since(x, s) \union {m + 1}
        BY <1>6, <1>7, <2>1, <2>2
    <2>4. IsFiniteSet(since(x, s)) /\ m + 1 \notin since(x, s)
        BY <1>6, HavingIs
    <2>5. Cardinality(since(x, s) \union {m + 1}) = Cardinality(since(x, s)) + 1
        <3> HIDE DEF m
        <3> QED BY <2>4, FS_AddElement
    <2> QED BY <2>3, <2>5
<1>9. \A k \in having(x) : at(k)' = at(k)
    BY <1>6, AppliedGrows
<1>10. \A k : k = m + 1 => at(k)' = script[n]
    BY AppliedGrows
<1>11. Len(applied') = m + 1
    BY AppliedGrows
<1>12. e.rank \in 0 .. 2
    BY DEF Entries
<1>0. p.rank <= r /\ p.rank <= e.rank /\ (p.rank = r \/ p.rank = e.rank)
    BY <1>1, <1>4, <1>12 DEF Better
<1>13. p.count = Cardinality(since(x, s)')
    BY <1>4, <1>8 DEF Tells
<1>14. PICK k0 \in since(x, s) : e.rank = Hist!best(at(k0).hints)[x]
    BY DEF Tells
<1>15. PICK k1 : k1 = m + 1
    OBVIOUS
<1>16. /\ k0 \in since(x, s)' /\ Hist!best(at(k0)'.hints)[x] = e.rank
       /\ k1 \in since(x, s)' /\ Hist!best(at(k1)'.hints)[x] = r
    <2>1. at(k0)' = at(k0) /\ at(k1)' = script[n]
        BY <1>6, <1>9, <1>10, <1>14, <1>15
    <2> QED BY <1>1, <1>8, <1>14, <1>15, <2>1
<1>17. \E k \in since(x, s)' : p.rank = Hist!best(at(k)'.hints)[x]
    BY <1>0, <1>16
<1>18. \A k \in since(x, s)' : p.rank <= Hist!best(at(k)'.hints)[x]
    <2> SUFFICES ASSUME NEW k \in since(x, s)' PROVE p.rank <= Hist!best(at(k)'.hints)[x]
        OBVIOUS
    <2>1. CASE k = k1
        BY <1>0, <1>16, <2>1
    <2>2. CASE k # k1
        <3>1. k \in since(x, s) /\ at(k)' = at(k)
            BY <1>6, <1>8, <1>9, <1>15, <2>2
        <3>2. e.rank <= Hist!best(at(k).hints)[x]
            BY <3>1 DEF Tells
        <3>3. IsFiniteSet(at(k).hints) /\ x \in DOMAIN Hist!best(at(k).hints)
            <4>1. k \in DOMAIN applied /\ x \in DOMAIN Hist!best(at(k).hints)
                BY <1>6, <3>1 DEF having
            <4>2. applied[k] \in 1 .. Len(script)
                BY <4>1 DEF Types
            <4>3. IsSnapshot(script[applied[k]])
                BY <4>2, ScriptIs DEF Types
            <4> QED BY <4>1, <4>3 DEF IsSnapshot, at
        <3>4. Hist!best(at(k).hints)[x] \in 0 .. 2
            BY <3>3, BestIs
        <3>5. p.rank <= e.rank
            BY <1>0
        <3> QED BY <1>0, <1>1, <1>12, <3>1, <3>2, <3>4, <3>5
    <2> QED BY <2>1, <2>2
<1>19. p.first = at(s)'.ts /\ s \in having(x)'
    BY <1>4, <1>5, <1>7, <1>9 DEF Tells
<1>20. \E k \in having(x)' : p.last = at(k)'.ts /\ \A l \in having(x)' : l <= k
    <2>1. k1 \in having(x)' /\ at(k1)' = script[n]
        BY <1>5, <1>10, <1>15
    <2>2. \A l \in having(x)' : l <= k1
        BY <1>5, <1>6, <1>15
    <2> QED BY <1>2, <1>4, <2>1, <2>2
<1>21. p.active /\ Len(applied') \in having(x)'
    BY <1>4, <1>5, <1>11
<1>22. Tells(p, s)'
    <2> HIDE DEF m
    <2>1. p.name = x
        BY <1>4
    <2> QED BY <1>13, <1>17, <1>18, <1>19, <1>20, <1>21, <2>1 DEF Tells
<1>23. script' = script
    BY AnswerEffect
<1> QED BY <1>1, <1>2, <1>3, <1>22, <1>23

LEMMA NewEntryTells ==
    ASSUME Types, NEW n \in inFlight, Answer(n), NEW x \in DOMAIN Hist!best(script[n].hints)
    PROVE  \E s \in Nat : Tells(Hist!newEntry(x, Hist!best(script[n].hints)[x], script[n].ts), s)'
<1>1. PICK r \in 0 .. 2 : r = Hist!best(script[n].hints)[x]
    <2>1. IsFiniteSet(script[n].hints)
        BY AnswerEffect DEF IsSnapshot
    <2> QED BY <2>1, BestIs
<1>2. PICK ts \in Nat : ts = script[n].ts
    BY AnswerEffect DEF IsSnapshot
<1>3. PICK p : p = Hist!newEntry(x, r, ts)
    OBVIOUS
<1>4. p.name = x /\ p.rank = r /\ p.first = ts /\ p.last = ts /\ p.count = 1 /\ p.active
    BY <1>3 DEF Hist!newEntry
<1>5. Len(applied) \in Nat /\ having(x) \subseteq 1 .. Len(applied)
    BY HavingIs
<1>6. PICK s \in Nat : s = Len(applied) + 1
    BY <1>5
<1>7. having(x)' = having(x) \union {s}
    BY <1>6, HavingGrows
<1>8. since(x, s)' = {s}
    <2>1. since(x, s)' = {k \in having(x) \union {s} : k >= s}
        BY <1>7 DEF since
    <2> QED BY <1>5, <1>6, <2>1
<1>9. at(s)' = script[n] /\ Len(applied') = s
    BY <1>6, AppliedGrows
<1>10. Cardinality(since(x, s)') = 1
    BY <1>8, FS_Singleton
<1>11. \A l \in having(x)' : l <= s
    BY <1>5, <1>6, <1>7
<1>12. Tells(p, s)'
    <2>1. /\ s \in having(x)'
          /\ \E k \in since(x, s)' : p.rank = Hist!best(at(k)'.hints)[x]
          /\ \A k \in since(x, s)' : p.rank <= Hist!best(at(k)'.hints)[x]
          /\ p.first = at(s)'.ts
          /\ \E k \in having(x)' : p.last = at(k)'.ts /\ \A l \in having(x)' : l <= k
          /\ Len(applied') \in having(x)'
        BY <1>1, <1>2, <1>4, <1>7, <1>8, <1>9, <1>11
    <2> QED BY <1>4, <1>10, <2>1 DEF Tells
<1>13. script' = script
    BY AnswerEffect
<1> QED BY <1>1, <1>2, <1>3, <1>12, <1>13

LEMMA MergedTells ==
    ASSUME Types, Faithful, NEW n \in inFlight, Answer(n),
           NEW h, Merged(hintHistory, script[n].ts, Hist!best(script[n].hints), h)
    PROVE  /\ \A i, j \in DOMAIN h : i # j => h[i].name # h[j].name
           /\ \A i \in DOMAIN h : \E s \in Nat : Tells(h[i], s)'
<1> DEFINE old == Len(hintHistory)
<1>1. PICK b : b = Hist!best(script[n].hints)
    OBVIOUS
<1>2. PICK ts \in Nat : ts = script[n].ts
    BY AnswerEffect DEF IsSnapshot
<1>3. \A x \in DOMAIN b : b[x] \in 0 .. 2
    <2>1. IsFiniteSet(script[n].hints)
        BY AnswerEffect DEF IsSnapshot
    <2> QED BY <1>1, <2>1, BestIs
<1>4. /\ DOMAIN hintHistory = 1 .. old /\ old \in Nat
      /\ \A i \in 1 .. old : hintHistory[i] \in Entries
      /\ DOMAIN h = 1 .. Len(h) /\ Len(h) \in Nat /\ Len(h) >= old
    BY DEF Types, Merged
<1>5. ASSUME NEW i \in 1 .. old
      PROVE  h[i].name = hintHistory[i].name /\ \E s \in Nat : Tells(h[i], s)'
    <2>1. PICK e \in Entries : e = hintHistory[i]
        BY <1>4
    <2>2. PICK s \in Nat : Tells(e, s)
        BY <1>4, <2>1 DEF Faithful
    <2>3. CASE e.name \in DOMAIN b
        <3>1. h[i] = Hist!seenAgain(e, b[e.name], ts)
            BY <1>1, <1>2, <2>1, <2>3 DEF Merged
        <3>2. h[i].name = e.name
            <4>1. PICK r \in 0 .. 2 : r = b[e.name]
                BY <1>3, <2>3
            <4>2. Hist!seenAgain(e, r, ts).name = e.name
                BY SeenAgainIs
            <4> QED BY <3>1, <4>1, <4>2
        <3>3. Tells(h[i], s)'
            <4>1. Tells(Hist!seenAgain(e, Hist!best(script[n].hints)[e.name], script[n].ts), s)'
                BY <1>1, <2>2, <2>3, SeenAgainTells
            <4>2. script' = script
                BY AnswerEffect
            <4> QED BY <1>1, <1>2, <3>1, <4>1, <4>2
        <3> QED BY <2>1, <3>2, <3>3
    <2>4. CASE e.name \notin DOMAIN b
        <3>1. h[i] = Past(e)
            BY <1>1, <2>1, <2>4 DEF Merged
        <3>2. Past(e).name = e.name
            BY MarkedPastIs
        <3>3. Tells(Past(e), s)'
            BY <1>1, <2>2, <2>4, PastTells
        <3> QED BY <2>1, <3>1, <3>2, <3>3
    <2> QED BY <2>3, <2>4
<1>6. ASSUME NEW i \in old + 1 .. Len(h)
      PROVE  /\ h[i].name \in DOMAIN b /\ \A j \in 1 .. old : h[i].name # hintHistory[j].name
             /\ \E s \in Nat : Tells(h[i], s)'
    <2>1. PICK x : x = h[i].name
        OBVIOUS
    <2>2. x \in DOMAIN b /\ \A j \in 1 .. old : x # hintHistory[j].name
        BY <1>1, <1>4, <2>1 DEF Merged
    <2>3. h[i] = Hist!newEntry(x, b[x], ts)
        BY <1>1, <1>2, <2>1 DEF Merged
    <2>4. PICK s \in Nat : Tells(Hist!newEntry(x, Hist!best(script[n].hints)[x], script[n].ts), s)'
        BY <1>1, <2>2, NewEntryTells
    <2>5. script' = script
        BY AnswerEffect
    <2>6. Tells(h[i], s)'
        BY <1>1, <1>2, <2>3, <2>4, <2>5
    <2> QED BY <2>1, <2>2, <2>6
<1>7. ASSUME NEW i \in DOMAIN h, NEW j \in DOMAIN h, i # j
      PROVE  h[i].name # h[j].name
    <2>1. CASE i \in 1 .. old /\ j \in 1 .. old
        <3>1. hintHistory[i].name # hintHistory[j].name
            BY <1>4, <1>7, <2>1 DEF Faithful
        <3> QED BY <1>5, <2>1, <3>1
    <2>2. CASE i \in 1 .. old /\ j \in old + 1 .. Len(h)
        BY <1>5, <1>6, <2>2
    <2>3. CASE i \in old + 1 .. Len(h) /\ j \in 1 .. old
        BY <1>5, <1>6, <2>3
    <2>4. CASE i \in old + 1 .. Len(h) /\ j \in old + 1 .. Len(h)
        BY <1>7, <2>4 DEF Merged
    <2>5. \A k \in DOMAIN h : k \in 1 .. old \/ k \in old + 1 .. Len(h)
        BY <1>4
    <2> QED BY <2>1, <2>2, <2>3, <2>4, <2>5
<1>8. \A i \in DOMAIN h : \E s \in Nat : Tells(h[i], s)'
    <2>1. \A k \in DOMAIN h : k \in 1 .. old \/ k \in old + 1 .. Len(h)
        BY <1>4
    <2> QED BY <1>5, <1>6, <2>1
<1> QED BY <1>7, <1>8

LEMMA NextFaithful == Types /\ Faithful /\ [Next]_vars => Faithful'
<1> SUFFICES ASSUME Types, Faithful, [Next]_vars PROVE Faithful'
    OBVIOUS
<1>1. ASSUME UNCHANGED <<session, hintHistory, applied>>
      PROVE  Faithful'
    <2>1. \A k : at(k)' = at(k)
        BY <1>1 DEF at, script
    <2>2. \A x : having(x)' = having(x)
        BY <1>1, <2>1 DEF having
    <2>3. \A x, s : since(x, s)' = since(x, s)
        BY <2>2 DEF since
    <2>4. \A e, s : Tells(e, s) => Tells(e, s)'
        BY <1>1, <2>1, <2>2, <2>3 DEF Tells
    <2> QED BY <1>1, <2>4 DEF Faithful
<1>2. CASE Tick
    BY <1>1, <1>2 DEF Tick, shownVars
<1>3. ASSUME NEW n \in inFlight, Answer(n) PROVE Faithful'
    <2>1. PICK h : /\ Merged(hintHistory, script[n].ts, Hist!best(script[n].hints), h)
                   /\ hintHistory' = Hist!capHintHistory(h)
        BY <1>3, AnswerEffect
    <2>2. /\ \A i, j \in DOMAIN h : i # j => h[i].name # h[j].name
          /\ \A i \in DOMAIN h : \E s \in Nat : Tells(h[i], s)'
        BY <1>3, <2>1, MergedTells
    <2>3. PICK r : r = Hist!capHintHistory(h)
        OBVIOUS
    <2>4. h \in Seq(Entries) /\ r \in Seq(Entries) /\ Remains(h, r)
        BY <2>1, <2>3, CapKeeps, EntriesCanBeCapped DEF Merged
    <2>5. PICK m \in [DOMAIN r -> DOMAIN h] :
             /\ \A i \in DOMAIN r : r[i] = h[m[i]]
             /\ \A i, j \in DOMAIN r : i < j => m[i] < m[j]
        BY <2>4 DEF Remains
    <2>6. \A i, j \in DOMAIN r : i # j => m[i] # m[j]
        <3>1. DOMAIN r = 1 .. Len(r) /\ DOMAIN h = 1 .. Len(h) /\ Len(r) \in Nat /\ Len(h) \in Nat
            BY <2>4
        <3>2. \A i \in DOMAIN r : m[i] \in Nat /\ i \in Nat
            BY <2>5, <3>1
        <3> QED BY <2>5, <3>2
    <2>7. \A i, j \in DOMAIN r : i # j => r[i].name # r[j].name
        BY <2>2, <2>5, <2>6
    <2>8. \A i \in DOMAIN r : \E s \in Nat : Tells(r[i], s)'
        BY <2>2, <2>5
    <2>9. hintHistory' = r
        BY <2>1, <2>3
    <2> QED BY <2>7, <2>8, <2>9 DEF Faithful
<1>4. ASSUME NEW n \in inFlight, AnswerError(n) PROVE Faithful'
    BY <1>1, <1>4 DEF AnswerError
<1>5. CASE User
    BY <1>1, <1>5, UserEffect DEF shownVars
<1>6. CASE UNCHANGED vars
    BY <1>1, <1>6 DEF vars, shownVars
<1> QED BY <1>2, <1>3, <1>4, <1>5, <1>6 DEF Next

LEMMA DistinctNames ==
    ASSUME NEW q, NEW n \in Nat, DOMAIN q = 1 .. n,
           \A i, j \in DOMAIN q : i # j => q[i].name # q[j].name
    PROVE  Cardinality({q[i].name : i \in DOMAIN q}) = n
<1> DEFINE T == {q[i].name : i \in 1 .. n}
           f == [i \in 1 .. n |-> q[i].name]
<1>1. f \in Surjection(1 .. n, T)
    BY DEF Surjection
<1>2. f \in Injection(1 .. n, T)
    BY DEF Injection, IsInjective
<1>3. Cardinality(T) = Cardinality(1 .. n)
    <2>1. IsFiniteSet(1 .. n)
        BY Upto
    <2> HIDE DEF T, f
    <2> QED BY <1>1, <1>2, <2>1, FS_Surjection
<1> QED BY <1>3, Upto

(* The answers counted for an entry are those since its first.               *)
LEMMA CountedAreSince ==
    ASSUME Types, NEW e \in Entries, NEW s \in Nat, Tells(e, s)
    PROVE  {k \in having(e.name) : Cardinality({l \in having(e.name) : l > k}) < e.count}
             = since(e.name, s)
<1> DEFINE H == having(e.name)
           S == since(e.name, s)
           After(k) == {l \in H : l > k}
<1>1. /\ S \subseteq H /\ IsFiniteSet(S) /\ H \subseteq Nat
      /\ \A k \in Nat : IsFiniteSet(After(k)) /\ Cardinality(After(k)) \in Nat
    <2>1. H \subseteq 1 .. Len(applied) /\ Len(applied) \in Nat /\ IsFiniteSet(S)
        BY HavingIs
    <2>2. \A k \in Nat : After(k) = since(e.name, k + 1)
        BY <2>1 DEF since
    <2>3. \A j \in Nat : IsFiniteSet(since(e.name, j)) /\ Cardinality(since(e.name, j)) \in Nat
        BY HavingIs
    <2>4. \A k \in Nat : k + 1 \in Nat
        OBVIOUS
    <2>5. S \subseteq H /\ H \subseteq Nat
        BY <2>1 DEF since
    <2> HIDE DEF After, H, S
    <2> QED BY <2>1, <2>2, <2>3, <2>4, <2>5
<1>2. e.count = Cardinality(S) /\ Cardinality(S) \in Nat
    BY HavingIs DEF Tells
<1>3. ASSUME NEW k \in S PROVE Cardinality(After(k)) < Cardinality(S)
    <2>1. After(k) \in SUBSET S /\ k \notin After(k)
        BY <1>1 DEF since
    <2>2. Cardinality(After(k)) <= Cardinality(S) /\ Cardinality(After(k)) # Cardinality(S)
        <3> HIDE DEF S, After
        <3> QED BY <1>1, <1>3, <2>1, FS_Subset
    <2>3. k \in Nat
        BY <1>1
    <2> HIDE DEF S, After
    <2> QED BY <1>1, <1>2, <2>2, <2>3
<1>4. ASSUME NEW k \in H \ S PROVE Cardinality(S) <= Cardinality(After(k))
    <2>1. S \in SUBSET After(k) /\ k \in Nat
        BY <1>1 DEF since
    <2> HIDE DEF S, After
    <2> QED BY <1>1, <2>1, FS_Subset
<1>5. \A k \in H : Cardinality(After(k)) < Cardinality(S) <=> k \in S
    <2> SUFFICES ASSUME NEW k \in H PROVE Cardinality(After(k)) < Cardinality(S) <=> k \in S
        OBVIOUS
    <2>1. Cardinality(After(k)) \in Nat
        BY <1>1
    <2> HIDE DEF S, After
    <2> QED BY <1>2, <1>3, <1>4, <2>1
<1> QED BY <1>1, <1>2, <1>5

LEMMA FaithfulNow == Types /\ Faithful => HistoryIsFaithful
<1> SUFFICES ASSUME Types, Faithful PROVE HistoryIsFaithful
    OBVIOUS
<1>1. Len(hintHistory) \in Nat /\ DOMAIN hintHistory = 1 .. Len(hintHistory)
    BY DEF Types
<1>2. Cardinality(listed(hintHistory)) = Len(hintHistory)
    BY <1>1, DistinctNames DEF Faithful, listed
<1>3. ASSUME NEW i \in DOMAIN hintHistory
      PROVE  LET e == hintHistory[i]
                 haves == {k \in DOMAIN applied : e.name \in {h.name : h \in at(k).hints}}
                 counted == {k \in haves : Cardinality({l \in haves : l > k}) < e.count}
             IN  /\ Cardinality(counted) = e.count
                 /\ e.rank = Min({Hist!best(at(k).hints)[e.name] : k \in counted})
                 /\ e.first = at(Min(counted)).ts /\ e.last = at(Max(haves)).ts
                 /\ e.active <=> Len(applied) \in haves
    <2>1. PICK e \in Entries : e = hintHistory[i]
        BY DEF Types
    <2>2. PICK s \in Nat : Tells(e, s)
        BY <2>1 DEF Faithful
    <2>3. {k \in DOMAIN applied : e.name \in {h.name : h \in at(k).hints}} = having(e.name)
        BY DEF having, Hist!best
    <2> DEFINE H == having(e.name)
               S == since(e.name, s)
               R == {Hist!best(at(k).hints)[e.name] : k \in S}
    <2>4. {k \in H : Cardinality({l \in H : l > k}) < e.count} = S
        BY <2>2, CountedAreSince
    <2>5. Cardinality(S) = e.count
        BY <2>2 DEF Tells
    <2>6. H \subseteq Nat
        BY HavingIs
    <2>7. e.rank = Min(R)
        <3>1. e.rank \in R /\ e.rank \in Nat
            <4>1. e.rank \in 0 .. 2
                BY DEF Entries
            <4>2. e.rank \in R
                BY <2>2 DEF Tells
            <4> QED BY <4>1, <4>2
        <3>2. \A x \in R : e.rank <= x
            BY <2>2 DEF Tells
        <3>3. R \subseteq Nat
            <4> SUFFICES ASSUME NEW k \in S PROVE Hist!best(at(k).hints)[e.name] \in Nat
                OBVIOUS
            <4>1. k \in DOMAIN applied /\ e.name \in DOMAIN Hist!best(at(k).hints)
                BY DEF since, having
            <4>2. applied[k] \in 1 .. Len(script)
                BY <4>1 DEF Types
            <4>3. IsFiniteSet(at(k).hints)
                BY <4>2, ScriptIs DEF Types, IsSnapshot, at
            <4>4. Hist!best(at(k).hints)[e.name] \in 0 .. 2
                BY <4>1, <4>3, BestIs
            <4> QED BY <4>4
        <3> HIDE DEF R
        <3> QED BY <3>1, <3>2, <3>3, MinIs
    <2>8. s = Min(S)
        <3>1. s \in S /\ \A k \in S : s <= k
            BY <2>2, <2>6 DEF since, Tells
        <3>2. S \subseteq Nat
            BY <2>6 DEF since
        <3> HIDE DEF S
        <3> QED BY <3>1, <3>2, MinIs
    <2>9. e.last = at(Max(H)).ts
        <3>1. PICK k \in H : e.last = at(k).ts /\ \A l \in H : l <= k
            BY <2>2 DEF Tells
        <3>2. k = Max(H)
            <4> HIDE DEF H
            <4> QED BY <2>6, <3>1, MaxIs
        <3> QED BY <3>1, <3>2
    <2>10. e.first = at(s).ts /\ (e.active <=> Len(applied) \in H)
        BY <2>2 DEF Tells
    <2> HIDE DEF H, S, R
    <2>11. R = {Hist!best(at(k).hints)[e.name] : k \in S}
        BY DEF R
    <2>12. {k \in DOMAIN applied : e.name \in {h.name : h \in at(k).hints}} = H
        BY <2>3 DEF H
    <2> QED BY <2>1, <2>4, <2>5, <2>7, <2>8, <2>9, <2>10, <2>11, <2>12
<1> QED BY <1>2, <1>3 DEF HistoryIsFaithful

(* The history tells of each hint what the applied snapshots said since its  *)
(* entry was made: how often, from when to when, whether the last has it,    *)
(* and the worst severity (mergeHintHistory); whatever the order of the      *)
(* answers, and with entries dropped and made again in between.              *)
THEOREM HistoryTellsTheTruth == Spec => []HistoryIsFaithful
<1>1. Init => Types /\ Faithful
    <2> SUFFICES ASSUME Init PROVE Faithful
        BY InitTypes
    <2>1. hintHistory = <<>>
        BY DEF Init, Hist!Init
    <2> QED BY <2>1 DEF Faithful
<1>2. Types /\ Faithful /\ [Next]_vars => (Types /\ Faithful)'
    BY NextTypes, NextFaithful
<1> QED BY <1>1, <1>2, FaithfulNow, PTL DEF Spec

-----------------------------------------------------------------------------
(* Link errors *)

(* A set of natural numbers that is not empty and has a bound has a largest. *)
LEMMA MaxExists ==
    ASSUME NEW S, S \subseteq Nat, S # {}, NEW m \in Nat, \A y \in S : y <= m
    PROVE  Max(S) \in S /\ \A y \in S : y <= Max(S)
<1> DEFINE T == {m - y : y \in S}
<1>1. T \subseteq Nat
    <2> SUFFICES ASSUME NEW y \in S PROVE m - y \in Nat
        OBVIOUS
    <2>1. y \in Nat /\ y <= m
        OBVIOUS
    <2> QED BY <2>1
<1>2. T # {}
    OBVIOUS
<1>3. PICK t \in T : \A u \in T : t <= u
    <2> HIDE DEF T
    <2> QED BY <1>1, <1>2, LeastNumber
<1>4. PICK x \in S : t = m - x
    OBVIOUS
<1>5. \A y \in S : y <= x
    <2> SUFFICES ASSUME NEW y \in S PROVE y <= x
        OBVIOUS
    <2>1. m - x <= m - y
        BY <1>3, <1>4
    <2>2. x \in Nat /\ y \in Nat
        OBVIOUS
    <2> QED BY <2>1, <2>2
<1> QED BY <1>5, MaxIs

(* Of a GPU: it has an entry once its links were read; its total makes up *)
(* for the difference between any reading, or the counter remembered, and    *)
(* the first reading; and it is just that difference as long as nothing      *)
(* lowered the remembered counter.                                          *)
TotalOf(g) ==
    /\ g \in DOMAIN prevCRC => prevCRC[g] \in Nat
    /\ g \in DOMAIN errorStats <=> readAt(g) # {}
    /\ g \notin DOMAIN errorStats /\ alwaysRead(g) => g \notin DOMAIN prevCRC
    /\ g \in DOMAIN errorStats =>
         /\ g \in DOMAIN prevCRC /\ errorStats[g].crc \in Nat
         /\ \E first \in readAt(g) :
              /\ \A i \in readAt(g) : first <= i
              /\ \A i \in readAt(g) : counter(g, i) <= errorStats[g].crc + counter(g, first)
              /\ prevCRC[g] <= errorStats[g].crc + counter(g, first)
              /\ neverFalls(g) /\ alwaysRead(g) =>
                   /\ prevCRC[g] = errorStats[g].crc + counter(g, first)
                   /\ \E i \in readAt(g) : prevCRC[g] = counter(g, i)

LinkTotals == \A g : TotalOf(g)

LEMMA ReadingsAre ==
    ASSUME Types, NEW g
    PROVE  /\ readAt(g) \subseteq 1 .. Len(applied) /\ Len(applied) \in Nat
           /\ \A i \in readAt(g) : counter(g, i) \in Nat
<1>1. /\ applied \in Seq(1 .. Len(script)) /\ Len(applied) \in Nat
      /\ DOMAIN applied = 1 .. Len(applied)
    BY DEF Types
<1>2. readAt(g) \subseteq 1 .. Len(applied)
    BY <1>1 DEF readAt
<1>3. ASSUME NEW i \in readAt(g) PROVE counter(g, i) \in Nat
    <2>1. i \in DOMAIN applied /\ g \in DOMAIN at(i).signals
        BY <1>3 DEF readAt, Links!linked
    <2>2. IsSnapshot(at(i))
        <3>1. applied[i] \in 1 .. Len(script)
            BY <1>1, <2>1
        <3> QED BY <3>1, ScriptIs DEF Types, at
    <2> QED BY <2>1, <2>2 DEF IsSnapshot, counter
<1> QED BY <1>1, <1>2, <1>3

LEMMA ReadingsGrow ==
    ASSUME Types, NEW n \in inFlight, Answer(n), NEW g
    PROVE  /\ readAt(g)' = IF g \in Links!linked(script[n].signals)
                           THEN readAt(g) \union {Len(applied) + 1} ELSE readAt(g)
           /\ \A i \in readAt(g) : counter(g, i)' = counter(g, i)
           /\ \A i : i = Len(applied) + 1 => counter(g, i)' = script[n].signals[g].crc
           /\ neverFalls(g)' => neverFalls(g)
           /\ alwaysRead(g)' <=>
                /\ alwaysRead(g)
                /\ Links!linked(script[n].signals) # {} /\ g \in DOMAIN script[n].signals
                     => g \in Links!linked(script[n].signals)
<1> DEFINE m == Len(applied)
<1>1. /\ m \in Nat /\ DOMAIN applied = 1 .. m /\ DOMAIN applied' = 1 .. m + 1
      /\ \A k \in 1 .. m : at(k)' = at(k)
      /\ \A k : k = m + 1 => at(k)' = script[n]
    BY AppliedGrows
<1> HIDE DEF m
<1>2. \A k : k \in 1 .. m + 1 <=> k \in 1 .. m \/ k = m + 1
    BY <1>1
<1>3. readAt(g)' = {k \in 1 .. m + 1 : g \in Links!linked(at(k)'.signals)}
    BY <1>1 DEF readAt, Links!linked
<1>4. readAt(g) = {k \in 1 .. m : g \in Links!linked(at(k).signals)}
    BY <1>1 DEF readAt
<1>5. ASSUME NEW k
      PROVE  k \in readAt(g)' <=> \/ k \in readAt(g)
                                  \/ k = m + 1 /\ g \in Links!linked(script[n].signals)
    <2>1. CASE k \in 1 .. m
        <3>1. k \in 1 .. m + 1 /\ k # m + 1 /\ at(k)' = at(k)
            BY <1>1, <2>1
        <3> QED BY <1>3, <1>4, <2>1, <3>1
    <2>2. CASE k = m + 1
        <3>1. k \notin 1 .. m /\ k \in 1 .. m + 1 /\ at(k)' = script[n]
            BY <1>1, <2>2
        <3> QED BY <1>3, <1>4, <2>2, <3>1
    <2>3. CASE k \notin 1 .. m + 1
        <3>1. k \notin 1 .. m /\ k # m + 1
            BY <1>2, <2>3
        <3> QED BY <1>3, <1>4, <2>3, <3>1
    <2> QED BY <1>2, <2>1, <2>2, <2>3
<1>6. \A i \in readAt(g) : counter(g, i)' = counter(g, i)
    BY <1>1, <1>4 DEF counter
<1>7. \A i : i = m + 1 => counter(g, i)' = script[n].signals[g].crc
    BY <1>1 DEF counter
<1>8. neverFalls(g)' => neverFalls(g)
    BY <1>5, <1>6 DEF neverFalls
<1>9. alwaysRead(g)' <=>
        \A k \in 1 .. m + 1 :
            Links!linked(at(k)'.signals) # {} /\ g \in DOMAIN at(k)'.signals
              => g \in Links!linked(at(k)'.signals)
    BY <1>1 DEF alwaysRead, Links!linked
<1>10. alwaysRead(g) <=>
        \A k \in 1 .. m :
            Links!linked(at(k).signals) # {} /\ g \in DOMAIN at(k).signals
              => g \in Links!linked(at(k).signals)
    BY <1>1 DEF alwaysRead
<1>11. PICK last : last = m + 1
    OBVIOUS
<1>12. at(last)' = script[n]
    BY <1>1, <1>11
<1>13. alwaysRead(g)' <=>
         /\ alwaysRead(g)
         /\ Links!linked(script[n].signals) # {} /\ g \in DOMAIN script[n].signals
              => g \in Links!linked(script[n].signals)
    BY <1>1, <1>2, <1>9, <1>10, <1>11, <1>12
<1> QED BY <1>5, <1>6, <1>7, <1>8, <1>13 DEF m

(* What updateNVLink makes of the entries of one GPU.                        *)
LEMMA LinksUpdated ==
    ASSUME NEW sigs, Links!linked(sigs) # {}, Links!updateNVLink(sigs), NEW g
    PROVE  /\ g \in DOMAIN prevCRC' <=> g \in DOMAIN prevCRC \/ g \in DOMAIN sigs
           /\ g \in DOMAIN sigs => prevCRC'[g] = sigs[g].crc
           /\ g \in DOMAIN prevCRC \ DOMAIN sigs => prevCRC'[g] = prevCRC[g]
           /\ g \in DOMAIN errorStats' <=> g \in DOMAIN errorStats \/ g \in Links!linked(sigs)
           /\ g \in Links!linked(sigs) =>
                errorStats'[g].crc = Links!errorsOf(g).crc + Links!growth(sigs, g)
           /\ g \in DOMAIN errorStats \ Links!linked(sigs) => errorStats'[g] = errorStats[g]
           /\ Links!linked(sigs) \subseteq DOMAIN sigs
<1>1. /\ errorStats' = Links!updated(errorStats, [h \in Links!linked(sigs) |-> Links!accumulated(sigs, h)])
      /\ prevCRC' = Links!updated(prevCRC, [h \in DOMAIN sigs |-> sigs[h].crc])
    BY DEF Links!updateNVLink
<1>2. /\ g \in DOMAIN prevCRC' <=> g \in DOMAIN prevCRC \/ g \in DOMAIN sigs
      /\ g \in DOMAIN sigs => prevCRC'[g] = sigs[g].crc
      /\ g \in DOMAIN prevCRC \ DOMAIN sigs => prevCRC'[g] = prevCRC[g]
    BY <1>1 DEF Links!updated
<1>3. /\ g \in DOMAIN errorStats' <=> g \in DOMAIN errorStats \/ g \in Links!linked(sigs)
      /\ g \in Links!linked(sigs) => errorStats'[g] = Links!accumulated(sigs, g)
      /\ g \in DOMAIN errorStats \ Links!linked(sigs) => errorStats'[g] = errorStats[g]
    BY <1>1 DEF Links!updated
<1>4. Links!accumulated(sigs, g).crc = Links!errorsOf(g).crc + Links!growth(sigs, g)
    BY DEF Links!accumulated
<1>5. Links!linked(sigs) \subseteq DOMAIN sigs
    BY DEF Links!linked
<1> QED BY <1>2, <1>3, <1>4, <1>5

LEMMA AnswerWithoutRead ==
    ASSUME Types, NEW n \in inFlight, Answer(n), NEW g, TotalOf(g),
           g \notin Links!linked(script[n].signals)
    PROVE  TotalOf(g)'
<1> DEFINE sigs == script[n].signals
<1>1. /\ readAt(g)' = readAt(g)
      /\ \A i \in readAt(g) : counter(g, i)' = counter(g, i)
      /\ neverFalls(g)' => neverFalls(g)
      /\ alwaysRead(g)' => alwaysRead(g)
      /\ alwaysRead(g)' => Links!linked(sigs) = {} \/ g \notin DOMAIN sigs
    BY ReadingsGrow
<1>2. \A i \in readAt(g) : counter(g, i) \in Nat
    BY ReadingsAre
<1>3. Links!updateNVLink(sigs) /\ IsSnapshot(script[n])
    BY AnswerEffect DEF Answer
<1>4. CASE Links!linked(sigs) = {} \/ g \notin DOMAIN sigs
    <2>1. /\ g \in DOMAIN prevCRC' <=> g \in DOMAIN prevCRC
          /\ g \in DOMAIN prevCRC => prevCRC'[g] = prevCRC[g]
          /\ g \in DOMAIN errorStats' <=> g \in DOMAIN errorStats
          /\ g \in DOMAIN errorStats => errorStats'[g] = errorStats[g]
        <3>1. CASE Links!linked(sigs) = {}
            <4>1. prevCRC' = prevCRC /\ errorStats' = errorStats
                BY <1>3, <3>1 DEF Links!updateNVLink, Links!linkVars
            <4> QED BY <4>1
        <3>2. CASE Links!linked(sigs) # {}
            <4>1. g \notin DOMAIN sigs /\ g \notin Links!linked(sigs)
                BY <1>4, <3>2
            <4> QED BY <1>3, <3>2, <4>1, LinksUpdated
        <3> QED BY <3>1, <3>2
    <2>2. CASE g \in DOMAIN errorStats
        <3>1. PICK first \in readAt(g) :
                /\ \A i \in readAt(g) : first <= i
                /\ \A i \in readAt(g) : counter(g, i) <= errorStats[g].crc + counter(g, first)
                /\ prevCRC[g] <= errorStats[g].crc + counter(g, first)
                /\ neverFalls(g) /\ alwaysRead(g) =>
                     /\ prevCRC[g] = errorStats[g].crc + counter(g, first)
                     /\ \E i \in readAt(g) : prevCRC[g] = counter(g, i)
            BY <2>2 DEF TotalOf
        <3>2. counter(g, first)' = counter(g, first) /\ first \in readAt(g)'
            BY <1>1
        <3>3. \A i \in readAt(g)' : counter(g, i)' <= errorStats'[g].crc + counter(g, first)'
            BY <1>1, <2>1, <2>2, <3>1, <3>2
        <3>4. prevCRC'[g] <= errorStats'[g].crc + counter(g, first)'
            BY <2>1, <2>2, <3>1, <3>2 DEF TotalOf
        <3>5. neverFalls(g)' /\ alwaysRead(g)' =>
                /\ prevCRC'[g] = errorStats'[g].crc + counter(g, first)'
                /\ \E i \in readAt(g)' : prevCRC'[g] = counter(g, i)'
            BY <1>1, <2>1, <2>2, <3>1, <3>2 DEF TotalOf
        <3>6. \A i \in readAt(g)' : first <= i
            BY <1>1, <3>1
        <3>7. /\ g \in DOMAIN prevCRC' /\ prevCRC'[g] \in Nat /\ g \in DOMAIN errorStats'
              /\ errorStats'[g].crc \in Nat /\ readAt(g)' # {}
            BY <1>1, <2>1, <2>2 DEF TotalOf
        <3> QED BY <3>2, <3>3, <3>4, <3>5, <3>6, <3>7 DEF TotalOf
    <2>3. CASE g \notin DOMAIN errorStats
        BY <1>1, <2>1, <2>3 DEF TotalOf
    <2> QED BY <2>2, <2>3
<1>5. CASE Links!linked(sigs) # {} /\ g \in DOMAIN sigs
    <2>1. /\ prevCRC'[g] = sigs[g].crc /\ g \in DOMAIN prevCRC'
          /\ g \in DOMAIN errorStats' <=> g \in DOMAIN errorStats
          /\ g \in DOMAIN errorStats => errorStats'[g] = errorStats[g]
        BY <1>3, <1>5, LinksUpdated
    <2>2. sigs[g].crc = 0
        <3>1. sigs[g].total \in Nat /\ (sigs[g].total = 0 => sigs[g].crc = 0)
            BY <1>3, <1>5 DEF IsSnapshot
        <3>2. ~(sigs[g].total > 0)
            BY <1>5 DEF Links!linked
        <3> QED BY <3>1, <3>2
    <2>3. ~alwaysRead(g)'
        BY <1>1, <1>5
    <2>4. CASE g \in DOMAIN errorStats
        <3>1. PICK first \in readAt(g) :
                /\ \A i \in readAt(g) : first <= i
                /\ \A i \in readAt(g) : counter(g, i) <= errorStats[g].crc + counter(g, first)
            BY <2>4 DEF TotalOf
        <3>2. counter(g, first)' = counter(g, first) /\ first \in readAt(g)' /\ counter(g, first) \in Nat
            BY <1>1, <1>2
        <3>3. \A i \in readAt(g)' : first <= i /\ counter(g, i)' <= errorStats'[g].crc + counter(g, first)'
            BY <1>1, <2>1, <2>4, <3>1, <3>2
        <3>4. errorStats'[g].crc \in Nat
            BY <2>1, <2>4 DEF TotalOf
        <3>5. prevCRC'[g] \in Nat /\ prevCRC'[g] <= errorStats'[g].crc + counter(g, first)'
            BY <2>1, <2>2, <3>2, <3>4
        <3>6. readAt(g)' # {} /\ g \in DOMAIN errorStats'
            BY <2>1, <2>4, <3>2
        <3> QED BY <2>1, <2>3, <3>2, <3>3, <3>4, <3>5, <3>6 DEF TotalOf
    <2>5. CASE g \notin DOMAIN errorStats
        BY <1>1, <2>1, <2>2, <2>3, <2>5 DEF TotalOf
    <2> QED BY <2>4, <2>5
<1> QED BY <1>4, <1>5

LEMMA AnswerWithRead ==
    ASSUME Types, NEW n \in inFlight, Answer(n), NEW g, TotalOf(g),
           g \in Links!linked(script[n].signals)
    PROVE  TotalOf(g)'
<1> DEFINE sigs == script[n].signals
           m == Len(applied)
<1>0. PICK last : last = m + 1
    OBVIOUS
<1>1. /\ readAt(g)' = readAt(g) \union {last}
      /\ \A i \in readAt(g) : counter(g, i)' = counter(g, i)
      /\ counter(g, last)' = sigs[g].crc
      /\ neverFalls(g)' => neverFalls(g)
      /\ alwaysRead(g)' => alwaysRead(g)
    BY <1>0, ReadingsGrow
<1>2. /\ \A i \in readAt(g) : counter(g, i) \in Nat /\ i < last
      /\ last \in Nat
    <2>1. readAt(g) \subseteq 1 .. m /\ m \in Nat /\ \A i \in readAt(g) : counter(g, i) \in Nat
        BY ReadingsAre
    <2> QED BY <1>0, <2>1
<1>3. Links!updateNVLink(sigs) /\ IsSnapshot(script[n]) /\ Links!linked(sigs) # {}
    BY AnswerEffect DEF Answer
<1>4. /\ g \in DOMAIN prevCRC' /\ prevCRC'[g] = sigs[g].crc
      /\ g \in DOMAIN errorStats' /\ errorStats'[g].crc = Links!errorsOf(g).crc + Links!growth(sigs, g)
      /\ g \in DOMAIN sigs
    BY <1>3, LinksUpdated
<1>5. PICK c \in Nat : c = sigs[g].crc
    BY <1>3, <1>4 DEF IsSnapshot
<1>6. last \in readAt(g)' /\ readAt(g)' # {}
    BY <1>1
<1>7. CASE g \in DOMAIN errorStats
    <2>1. PICK first \in readAt(g) :
            /\ \A i \in readAt(g) : first <= i
            /\ \A i \in readAt(g) : counter(g, i) <= errorStats[g].crc + counter(g, first)
            /\ prevCRC[g] <= errorStats[g].crc + counter(g, first)
            /\ neverFalls(g) /\ alwaysRead(g) =>
                 /\ prevCRC[g] = errorStats[g].crc + counter(g, first)
                 /\ \E i \in readAt(g) : prevCRC[g] = counter(g, i)
        BY <1>7 DEF TotalOf
    <2>2. g \in DOMAIN prevCRC /\ prevCRC[g] \in Nat /\ errorStats[g].crc \in Nat
        BY <1>7 DEF TotalOf
    <2>3. PICK prev \in Nat, total \in Nat, cf \in Nat :
            prev = prevCRC[g] /\ total = errorStats[g].crc /\ cf = counter(g, first)
        BY <1>2, <2>2
    <2>4. PICK now \in Nat : now = total + (IF c > prev THEN c - prev ELSE 0)
        BY <2>3
    <2>5. errorStats'[g].crc = now
        <3>1. Links!errorsOf(g).crc = total
            BY <1>7, <2>3 DEF Links!errorsOf
        <3>2. Links!growth(sigs, g) = IF c > prev THEN c - prev ELSE 0
            BY <1>5, <2>2, <2>3 DEF Links!growth
        <3> QED BY <1>4, <2>4, <3>1, <3>2
    <2>6. first \in readAt(g)' /\ counter(g, first)' = cf /\ prevCRC'[g] = c /\ counter(g, last)' = c
        BY <1>1, <1>4, <1>5, <2>3
    <2>7. total <= now /\ c <= now + cf
        BY <2>1, <2>3, <2>4
    <2>8. \A i \in readAt(g)' : first <= i /\ counter(g, i)' <= now + cf
        <3> SUFFICES ASSUME NEW i \in readAt(g)' PROVE first <= i /\ counter(g, i)' <= now + cf
            OBVIOUS
        <3>1. CASE i = last
            BY <1>2, <2>6, <2>7, <3>1
        <3>2. CASE i # last
            <4>1. i \in readAt(g) /\ counter(g, i)' = counter(g, i) /\ counter(g, i) \in Nat
                BY <1>1, <1>2, <3>2
            <4>2. first <= i /\ counter(g, i) <= total + cf
                BY <2>1, <2>3, <4>1
            <4> QED BY <2>7, <4>1, <4>2
        <3> QED BY <3>1, <3>2
    <2>9. neverFalls(g)' /\ alwaysRead(g)' => c = now + cf
        <3> SUFFICES ASSUME neverFalls(g)', alwaysRead(g)' PROVE c = now + cf
            OBVIOUS
        <3>1. PICK l \in readAt(g) : prev = counter(g, l)
            BY <1>1, <2>1, <2>3
        <3>2. prev = total + cf
            BY <1>1, <2>1, <2>3
        <3>3. counter(g, l)' <= counter(g, last)'
            BY <1>1, <1>2, <1>6 DEF neverFalls
        <3>4. prev <= c
            BY <1>1, <2>6, <3>1, <3>3
        <3> QED BY <2>4, <3>2, <3>4
    <2>10. neverFalls(g)' /\ alwaysRead(g)' =>
             /\ prevCRC'[g] = errorStats'[g].crc + counter(g, first)'
             /\ \E i \in readAt(g)' : prevCRC'[g] = counter(g, i)'
        BY <1>6, <2>5, <2>6, <2>9
    <2> QED BY <1>4, <1>6, <2>5, <2>6, <2>7, <2>8, <2>10 DEF TotalOf
<1>8. CASE g \notin DOMAIN errorStats
    <2>1. readAt(g)' = {last}
        BY <1>1, <1>8 DEF TotalOf
    <2>2. Links!errorsOf(g).crc = 0
        BY <1>8 DEF Links!errorsOf, Links!noErrors
    <2>3. PICK now \in Nat : /\ now = Links!growth(sigs, g)
                             /\ g \notin DOMAIN prevCRC => now = 0
        <3>1. CASE g \in DOMAIN prevCRC
            <4>1. PICK prev \in Nat : prev = prevCRC[g]
                BY <3>1 DEF TotalOf
            <4>2. Links!growth(sigs, g) = IF c > prev THEN c - prev ELSE 0
                BY <1>5, <3>1, <4>1 DEF Links!growth
            <4> QED BY <3>1, <4>2
        <3>2. CASE g \notin DOMAIN prevCRC
            BY <3>2 DEF Links!growth
        <3> QED BY <3>1, <3>2
    <2>4. errorStats'[g].crc = now
        BY <1>4, <2>2, <2>3
    <2>5. prevCRC'[g] = c /\ counter(g, last)' = c
        BY <1>1, <1>4, <1>5
    <2>6. alwaysRead(g)' => now = 0
        BY <1>1, <1>8, <2>3 DEF TotalOf
    <2>7. /\ last \in readAt(g)'
          /\ \A i \in readAt(g)' : last <= i
          /\ \A i \in readAt(g)' : counter(g, i)' <= now + counter(g, last)'
          /\ prevCRC'[g] <= now + counter(g, last)'
        BY <1>2, <2>1, <2>5
    <2>8. neverFalls(g)' /\ alwaysRead(g)' =>
             /\ prevCRC'[g] = now + counter(g, last)'
             /\ \E i \in readAt(g)' : prevCRC'[g] = counter(g, i)'
        BY <2>1, <2>5, <2>6
    <2> QED BY <1>4, <2>4, <2>5, <2>7, <2>8 DEF TotalOf
<1> QED BY <1>7, <1>8

LEMMA NextTotals == Types /\ LinkTotals /\ [Next]_vars => LinkTotals'
<1> SUFFICES ASSUME Types, LinkTotals, [Next]_vars, NEW g PROVE TotalOf(g)'
    BY DEF LinkTotals
<1>0. TotalOf(g)
    BY DEF LinkTotals
<1>1. ASSUME UNCHANGED <<session, applied, prevCRC, errorStats>>
      PROVE  TotalOf(g)'
    <2>1. \A i : at(i)' = at(i)
        BY <1>1 DEF at, script
    <2>2. /\ readAt(g)' = readAt(g) /\ \A i : counter(g, i)' = counter(g, i)
        BY <1>1, <2>1 DEF readAt, counter, Links!linked
    <2>3. (neverFalls(g)' <=> neverFalls(g)) /\ (alwaysRead(g)' <=> alwaysRead(g))
        BY <1>1, <2>1, <2>2 DEF neverFalls, alwaysRead, Links!linked
    <2> QED BY <1>0, <1>1, <2>2, <2>3 DEF TotalOf
<1>2. CASE Tick
    BY <1>1, <1>2 DEF Tick, shownVars, linkVars
<1>3. ASSUME NEW n \in inFlight, Answer(n) PROVE TotalOf(g)'
    BY <1>0, <1>3, AnswerWithRead, AnswerWithoutRead
<1>4. ASSUME NEW n \in inFlight, AnswerError(n) PROVE TotalOf(g)'
    BY <1>1, <1>4 DEF AnswerError, linkVars
<1>5. CASE User
    BY <1>1, <1>5, UserEffect DEF shownVars, linkVars
<1>6. CASE UNCHANGED vars
    BY <1>1, <1>6 DEF vars, shownVars, linkVars
<1> QED BY <1>2, <1>3, <1>4, <1>5, <1>6 DEF Next

LEMMA TotalsNow == Types /\ LinkTotals => ErrorTotalsAreExact
<1> SUFFICES ASSUME Types, LinkTotals, NEW g \in DOMAIN errorStats
             PROVE  LET grown == Max({counter(g, i) : i \in readAt(g)}) - counter(g, Min(readAt(g)))
                    IN  /\ errorStats[g].crc >= grown
                        /\ neverFalls(g) /\ alwaysRead(g) => errorStats[g].crc = grown
    BY DEF ErrorTotalsAreExact
<1>1. PICK first \in readAt(g) :
        /\ \A i \in readAt(g) : first <= i
        /\ \A i \in readAt(g) : counter(g, i) <= errorStats[g].crc + counter(g, first)
        /\ neverFalls(g) /\ alwaysRead(g) =>
             /\ prevCRC[g] = errorStats[g].crc + counter(g, first)
             /\ \E i \in readAt(g) : prevCRC[g] = counter(g, i)
    BY DEF LinkTotals, TotalOf
<1>2. errorStats[g].crc \in Nat
    BY DEF LinkTotals, TotalOf
<1>3. readAt(g) \subseteq Nat /\ \A i \in readAt(g) : counter(g, i) \in Nat
    BY ReadingsAre
<1>4. Min(readAt(g)) = first
    BY <1>1, <1>3, MinIs
<1> DEFINE C == {counter(g, i) : i \in readAt(g)}
<1>5. PICK total \in Nat, cf \in Nat : total = errorStats[g].crc /\ cf = counter(g, first)
    BY <1>2, <1>3
<1>6. C \subseteq Nat /\ C # {} /\ total + cf \in Nat /\ \A y \in C : y <= total + cf
    BY <1>1, <1>3, <1>5
<1>7. Max(C) \in C /\ \A y \in C : y <= Max(C)
    <2> HIDE DEF C
    <2> QED BY <1>6, MaxExists
<1>8. Max(C) \in Nat /\ Max(C) <= total + cf
    <2> HIDE DEF C
    <2> QED BY <1>6, <1>7
<1>9. neverFalls(g) /\ alwaysRead(g) => Max(C) = total + cf
    <2> SUFFICES ASSUME neverFalls(g), alwaysRead(g) PROVE Max(C) = total + cf
        OBVIOUS
    <2>1. total + cf \in C
        BY <1>1, <1>5
    <2> HIDE DEF C
    <2> QED BY <1>6, <1>7, <1>8, <2>1
<1> HIDE DEF C
<1>10. total >= Max(C) - cf /\ (neverFalls(g) /\ alwaysRead(g) => total = Max(C) - cf)
    BY <1>8, <1>9
<1> QED BY <1>4, <1>5, <1>10 DEF C

(* No CRC error between two readings of a GPU's links is missed, in whatever *)
(* order the answers come and whatever reads fail; and none is counted twice *)
(* when no reading lowered the remembered counter (updateNVLink).            *)
THEOREM ErrorTotals == Spec => []ErrorTotalsAreExact
<1>1. Init => Types /\ LinkTotals
    <2> SUFFICES ASSUME Init, NEW g PROVE TotalOf(g)
        BY InitTypes DEF LinkTotals
    <2>1. prevCRC = <<>> /\ errorStats = <<>> /\ applied = <<>>
        BY DEF Init, Links!Init, Links!NoEntries
    <2> QED BY <2>1 DEF TotalOf, readAt
<1>2. Types /\ LinkTotals /\ [Next]_vars => (Types /\ LinkTotals)'
    BY NextTypes, NextTotals
<1> QED BY <1>1, <1>2, TotalsNow, PTL DEF Spec

-----------------------------------------------------------------------------
(* The height of what is drawn *)

LEMMA Division ==
    ASSUME NEW a \in Nat, NEW b \in Nat \ {0}
    PROVE  a \div b \in Nat /\ b * (a \div b) <= a
<1>1. a \div b \in Int /\ a % b \in 0 .. b - 1 /\ a = (b * (a \div b)) + (a % b)
    OBVIOUS
<1> QED BY <1>1

IsView(v) ==
    /\ v.gpus \in Nat /\ v.procs \in Nat /\ v.hints \in Nat /\ v.past \in Nat
    /\ v.links \in Nat /\ v.errors \in Nat /\ v.swap \in Nat
    /\ v.width \in Int /\ v.height \in Int

LEMMA CapsAreNumbers ==
    ASSUME NEW h \in Int
    PROVE  Layout!procPanelCap(h) \in Nat /\ Layout!activeCap(h) \in Nat /\ Layout!historyCap(h) \in Nat
BY DEF Layout!procPanelCap, Layout!activeCap, Layout!historyCap, Layout!byHeight

(* The estimate of viewCharts, for any view: it misses nothing that is drawn *)
(* but the line after the last newline, and a GPU table or a process table   *)
(* of less than its cap leaves room for that one too.                        *)
LEMMA EstimateSuffices ==
    ASSUME NEW v, IsView(v), Layout!chartsDrawn(v), Layout!sideBySide(v),
           v.gpus <= Layout!gpuPanelCap, Layout!hostRows(v) <= 5
    PROVE  /\ Layout!cutRows(v) <= Layout!headerRows
           /\ (v.gpus < Layout!gpuPanelCap \/ v.procs \in 1 .. Layout!procPanelCap(v.height))
                => Layout!cutRows(v) = 0
<1>1. /\ v.gpus \in 1 .. 8 /\ v.procs \in Nat /\ v.hints \in Nat /\ v.past \in Nat
      /\ v.links \in Nat /\ v.errors \in Nat /\ v.swap \in Nat /\ v.height \in Int
    BY DEF IsView, Layout!chartsDrawn, Layout!gpuPanelCap
<1>2. PICK pc \in Nat, ac \in Nat, hc \in Nat :
        pc = Layout!procPanelCap(v.height) /\ ac = Layout!activeCap(v.height) /\ hc = Layout!historyCap(v.height)
    BY <1>1, CapsAreNumbers
<1>3. \A a, b \in Nat : /\ Layout!least(a, b) \in Nat /\ Layout!least(a, b) <= a
                       /\ Layout!more(a, b) \in 0 .. 1 /\ (a = 0 => Layout!more(a, b) = 0)
    BY LeastIs DEF Layout!more
<1>4. /\ Layout!gpuRows(v) \in Nat /\ Layout!gpuRows(v) <= 3 + 8
      /\ v.gpus < 8 => Layout!gpuRows(v) < 3 + 8
    <2>1. Layout!least(v.gpus, 8) = v.gpus /\ Layout!more(v.gpus, 8) = 0
        BY <1>1, LeastIs DEF Layout!more
    <2> QED BY <1>1, <2>1, MostIs DEF Layout!gpuRows
<1>5. Layout!hostRows(v) \in Int
    <2>1. Layout!nvlinkRows(v) \in Int
        <3>1. 1 + (v.links + 1) \div 2 \in Int
            BY <1>1
        <3>2. (IF v.errors = 0 THEN 0 ELSE 1 + v.errors) \in Int
            BY <1>1
        <3> QED BY <3>1, <3>2, MostIs DEF Layout!nvlinkRows
    <2> QED BY <1>1, <2>1, MostIs DEF Layout!hostRows
<1>6. PICK p \in Nat : /\ p = IF v.procs > 0 THEN 3 + Layout!least(v.procs, pc) + 1 ELSE 0
                       /\ Layout!procRows(v) \in Nat /\ Layout!procRows(v) <= p
                       /\ v.procs \in 1 .. pc => Layout!procRows(v) < p
    <2>1. PICK l \in Nat, m \in 0 .. 1 : l = Layout!least(v.procs, pc) /\ m = Layout!more(v.procs, pc)
        BY <1>1, <1>2, <1>3
    <2>2. Layout!procRows(v) = IF v.procs = 0 THEN 0 ELSE 3 + l + m
        BY <1>2, <2>1 DEF Layout!procRows
    <2> DEFINE p == IF v.procs > 0 THEN 3 + l + 1 ELSE 0
    <2>3. p \in Nat /\ Layout!procRows(v) \in Nat /\ Layout!procRows(v) <= p
        BY <1>1, <2>2
    <2>5. v.procs \in 1 .. pc => Layout!procRows(v) < p
        <3>1. v.procs \in 1 .. pc => m = 0 /\ v.procs # 0 /\ v.procs > 0
            BY <1>1, <1>2, <2>1 DEF Layout!more
        <3> QED BY <2>2, <3>1
    <2>4. p = IF v.procs > 0 THEN 3 + Layout!least(v.procs, pc) + 1 ELSE 0
        BY <2>1
    <2> HIDE DEF p
    <2> QED BY <2>3, <2>4, <2>5
<1>7. PICK a \in Nat, b \in Nat :
        /\ a = 1 + (IF v.hints > 0 THEN Layout!least(v.hints, ac) + 1 ELSE 0)
        /\ b = 1 + (IF v.past > 0 THEN Layout!least(v.past, hc) + 1 ELSE 0)
        /\ Layout!listRows(v.hints, ac) \in Nat /\ Layout!listRows(v.hints, ac) <= a
        /\ Layout!listRows(v.past, hc) \in Nat /\ Layout!listRows(v.past, hc) <= b
    <2>1. \A k \in Nat, c \in Nat :
            /\ 1 + (IF k > 0 THEN Layout!least(k, c) + 1 ELSE 0) \in Nat
            /\ Layout!listRows(k, c) \in Nat
            /\ Layout!listRows(k, c) <= 1 + (IF k > 0 THEN Layout!least(k, c) + 1 ELSE 0)
        <3> SUFFICES ASSUME NEW k \in Nat, NEW c \in Nat
                     PROVE  /\ 1 + (IF k > 0 THEN Layout!least(k, c) + 1 ELSE 0) \in Nat
                            /\ Layout!listRows(k, c) \in Nat
                            /\ Layout!listRows(k, c) <= 1 + (IF k > 0 THEN Layout!least(k, c) + 1 ELSE 0)
            OBVIOUS
        <3>1. PICK l \in Nat, m \in 0 .. 1 :
                l = Layout!least(k, c) /\ m = Layout!more(k, c) /\ l <= k /\ (k = 0 => m = 0)
            BY <1>3
        <3>2. Layout!listRows(k, c) = 1 + l + m
            BY <3>1 DEF Layout!listRows
        <3>3. CASE k = 0
            BY <3>1, <3>2, <3>3
        <3>4. CASE k > 0
            BY <3>1, <3>2, <3>4
        <3> QED BY <3>3, <3>4
    <2>2. \E a \in Nat, b \in Nat :
            /\ a = 1 + (IF v.hints > 0 THEN Layout!least(v.hints, ac) + 1 ELSE 0)
            /\ b = 1 + (IF v.past > 0 THEN Layout!least(v.past, hc) + 1 ELSE 0)
        BY <1>1, <1>2, <2>1
    <2> QED BY <1>1, <1>2, <2>1, <2>2
<1>8. Layout!hintRows(v) \in Nat /\ Layout!hintRows(v) <= Layout!most(a, b) + 1 /\ Layout!most(a, b) \in Nat
    <2>1. Layout!hintRows(v) = 1 + Layout!most(Layout!listRows(v.hints, ac), Layout!listRows(v.past, hc))
        BY <1>2 DEF Layout!hintRows
    <2>2. \A x, y \in Nat : x <= a /\ y <= b => Layout!most(x, y) \in Nat /\ Layout!most(x, y) <= Layout!most(a, b)
        BY MostIs
    <2>3. Layout!most(a, b) \in Nat
        BY MostIs
    <2> QED BY <1>7, <2>1, <2>2, <2>3
<1>9. Layout!overhead(v) = 1 + (3 + 8) + 5 + 2 + p + Layout!most(a, b) + 1 + 3
    BY <1>2, <1>6, <1>7 DEF Layout!overhead, Layout!headerRows, Layout!footerRows, Layout!gpuPanelCap
<1>10. PICK c \in Nat : c = Layout!chartContentRows(v) /\ c = Layout!termH(v) - Layout!overhead(v)
    <2>1. Layout!termH(v) \in Int /\ Layout!overhead(v) \in Int
        BY <1>1, <1>6, <1>8, <1>9 DEF Layout!termH
    <2>2. Layout!chartContentRows(v) >= v.gpus
        BY DEF Layout!chartsDrawn
    <2> QED BY <1>1, <2>1, <2>2 DEF Layout!chartContentRows
<1>11. Layout!chartRows(v) \in Nat /\ Layout!chartRows(v) <= 3 + c
    <2>1. c \div v.gpus \in Nat /\ v.gpus * (c \div v.gpus) <= c
        BY <1>1, Division
    <2>2. PICK k \in Nat : k = Layout!least(4, c \div v.gpus) /\ k <= c \div v.gpus
        BY <2>1, LeastIs
    <2>3. v.gpus * k <= v.gpus * (c \div v.gpus) /\ v.gpus * k \in Nat
        <3>1. PICK q \in Nat : q = c \div v.gpus
            BY <2>1
        <3>2. \A x \in 1 .. 8 : x * k <= x * q /\ x * k \in Nat
            BY <2>2, <3>1
        <3> QED BY <1>1, <3>1, <3>2
    <2>4. Layout!chartRows(v) = 3 + v.gpus * k
        BY <1>10, <2>2 DEF Layout!chartRows
    <2>5. v.gpus * (c \div v.gpus) \in Nat
        BY <1>1, <2>1
    <2> QED BY <2>1, <2>3, <2>4, <2>5
<1>12. Layout!termH(v) = c + Layout!overhead(v)
    BY <1>1, <1>6, <1>8, <1>9, <1>10 DEF Layout!termH
<1>13. Layout!rowsOf(v) = 1 + Layout!gpuRows(v) + Layout!hostRows(v) + Layout!procRows(v)
                            + Layout!hintRows(v) + Layout!chartRows(v) + 2 + 1
    BY DEF Layout!rowsOf, Layout!headerRows, Layout!footerRows, Layout!endRows
<1>14. /\ Layout!rowsOf(v) - Layout!termH(v) <= 1
       /\ v.gpus < 8 \/ v.procs \in 1 .. pc => Layout!rowsOf(v) - Layout!termH(v) <= 0
       /\ Layout!rowsOf(v) - Layout!termH(v) \in Int
    BY <1>4, <1>5, <1>6, <1>8, <1>9, <1>11, <1>12, <1>13
<1>15. \A d \in Int : Layout!most(0, d) = IF 0 >= d THEN 0 ELSE d
    BY MostIs
<1> QED BY <1>2, <1>14, <1>15 DEF Layout!cutRows, Layout!headerRows, Layout!gpuPanelCap

(* Only finitely many GPUs ever report links, so the tables can be counted. *)
LinkTablesFinite == IsFiniteSet(DOMAIN nvlinkCache) /\ IsFiniteSet(DOMAIN errorStats)

LEMMA NextFinite == Types /\ LinkTablesFinite /\ [Next]_vars => LinkTablesFinite'
<1> SUFFICES ASSUME Types, LinkTablesFinite, [Next]_vars PROVE LinkTablesFinite'
    OBVIOUS
<1>1. ASSUME UNCHANGED <<nvlinkCache, errorStats>> PROVE LinkTablesFinite'
    BY <1>1 DEF LinkTablesFinite
<1>2. CASE Tick
    BY <1>1, <1>2 DEF Tick, shownVars, linkVars
<1>3. ASSUME NEW n \in inFlight, Answer(n) PROVE LinkTablesFinite'
    <2> DEFINE sigs == script[n].signals
    <2>1. Links!updateNVLink(sigs) /\ IsSnapshot(script[n])
        BY <1>3, AnswerEffect DEF Answer
    <2>2. IsFiniteSet(DOMAIN sigs)
        BY <2>1 DEF IsSnapshot
    <2> HIDE DEF sigs
    <2>3. Links!linked(sigs) \subseteq DOMAIN sigs
        BY DEF Links!linked
    <2>4. IsFiniteSet(Links!linked(sigs))
        BY <2>2, <2>3, FS_Subset
    <2>5. CASE UNCHANGED <<nvlinkCache, errorStats>>
        BY <1>1, <2>5
    <2>6. CASE /\ DOMAIN nvlinkCache' = Links!linked(sigs)
               /\ DOMAIN errorStats' = DOMAIN errorStats \union Links!linked(sigs)
        BY <2>4, <2>6, FS_Union DEF LinkTablesFinite
    <2>7. \/ UNCHANGED <<nvlinkCache, errorStats>>
          \/ /\ DOMAIN nvlinkCache' = Links!linked(sigs)
             /\ DOMAIN errorStats' = DOMAIN errorStats \union Links!linked(sigs)
        BY <2>1 DEF Links!updateNVLink, Links!linkVars, Links!updated
    <2> QED BY <2>5, <2>6, <2>7
<1>4. ASSUME NEW n \in inFlight, AnswerError(n) PROVE LinkTablesFinite'
    BY <1>1, <1>4 DEF AnswerError, linkVars
<1>5. CASE User
    BY <1>1, <1>5, UserEffect DEF shownVars, linkVars
<1>6. CASE UNCHANGED vars
    BY <1>1, <1>6 DEF vars, shownVars, linkVars
<1> QED BY <1>2, <1>3, <1>4, <1>5, <1>6 DEF Next

LEMMA ErrorLinesCount ==
    ASSUME IsFiniteSet(DOMAIN errorStats)
    PROVE  Cardinality(Links!errorsSeen) \in Nat
<1> DEFINE labels == {"ecc uncorrectable", "remap pending", "crc", "ecc correctable"}
<1>1. Links!errorsSeen \subseteq labels \X DOMAIN errorStats
    BY DEF Links!errorsSeen
<1>2. IsFiniteSet(labels)
    <2>1. labels = ((({} \union {"ecc uncorrectable"}) \union {"remap pending"})
                       \union {"crc"}) \union {"ecc correctable"}
        OBVIOUS
    <2> HIDE DEF labels
    <2> QED BY <2>1, FS_EmptySet, FS_AddElement
<1> HIDE DEF labels
<1>3. IsFiniteSet(labels \X DOMAIN errorStats)
    BY <1>2, FS_Product
<1> QED BY <1>1, <1>3, FS_Subset, FS_CardinalityType

LEMMA ViewIs == Types /\ LinkTablesFinite => IsView(view)
<1> SUFFICES ASSUME Types, LinkTablesFinite PROVE IsView(view)
    OBVIOUS
<1>1. rows["gpu"] \in Nat /\ rows["proc"] \in Nat /\ rows["hints"] \in Nat /\ rows["history"] \in Nat
    BY RowsAreNumbers DEF Lists
<1>2. Cardinality(DOMAIN nvlinkCache) \in Nat /\ Cardinality(Links!errorsSeen) \in Nat
    BY ErrorLinesCount, FS_CardinalityType DEF LinkTablesFinite
<1>3. shown.swap \in Nat
    BY ShownIs
<1>4. ui.width \in Int /\ ui.height \in Int
    BY DEF Types, UiTypes
<1>5. (IF ui.width < 40 THEN 80 ELSE ui.width) \in Int
    BY <1>4
<1> QED BY <1>1, <1>2, <1>3, <1>4, <1>5 DEF IsView, view

(* Drawn charts cut off the header at most, where the estimate of viewCharts *)
(* knows of what is drawn: columns side by side, at most eight GPUs, a host  *)
(* section of at most five rows; with a shorter GPU or process table than it *)
(* takes them to be, nothing is cut off.                                     *)
THEOREM ChartsKeepToTheScreen == Spec => []ChartsFit
<1>1. Init => Types /\ LinkTablesFinite
    <2> SUFFICES ASSUME Init PROVE LinkTablesFinite
        BY InitTypes
    <2>1. DOMAIN nvlinkCache = {} /\ DOMAIN errorStats = {}
        BY DEF Init, Links!Init, Links!NoEntries
    <2> QED BY <2>1, FS_EmptySet DEF LinkTablesFinite
<1>2. Types /\ LinkTablesFinite /\ [Next]_vars => (Types /\ LinkTablesFinite)'
    BY NextTypes, NextFinite
<1>3. Types /\ LinkTablesFinite => ChartsFit
    <2> SUFFICES ASSUME IsView(view), Layout!chartsDrawn(view), Layout!sideBySide(view),
                        view.gpus <= Layout!gpuPanelCap, Layout!hostRows(view) <= 5
                 PROVE  /\ Layout!cutRows(view) <= Layout!headerRows
                        /\ (\/ view.gpus < Layout!gpuPanelCap
                            \/ view.procs \in 1 .. Layout!procPanelCap(view.height))
                             => Layout!cutRows(view) = 0
        BY ViewIs DEF ChartsFit
    <2> QED BY EstimateSuffices
<1> QED BY <1>1, <1>2, <1>3, PTL DEF Spec

-----------------------------------------------------------------------------
(* Charts *)

LEMMA Wrapped ==
    ASSUME NEW x \in 0 .. 2 * Cap - 1
    PROVE  x % Cap = IF x < Cap THEN x ELSE x - Cap
<1>1. Cap \in Nat /\ Cap > 0 /\ x \in Int
    BY TuiAssumption
<1>2. \A W \in Nat : W > 0 => \A y \in Int :
        y = (W * (y \div W)) + (y % W) /\ y \div W \in Int /\ y % W \in 0 .. W - 1
    OBVIOUS
<1>3. \A W \in Nat : W > 0 => \A a, b \in Int : \A r, q \in 0 .. W - 1 :
        W * a + r = W * b + q => r = q
    OBVIOUS
<1>4. x = (Cap * (x \div Cap)) + (x % Cap) /\ x \div Cap \in Int /\ x % Cap \in 0 .. Cap - 1
    BY <1>1, <1>2
<1>5. CASE x < Cap
    <2>1. x \in 0 .. Cap - 1 /\ Cap * 0 + x = x
        BY <1>1, <1>5
    <2> QED BY <1>1, <1>3, <1>4, <1>5, <2>1
<1>6. CASE x >= Cap
    <2>1. x - Cap \in 0 .. Cap - 1 /\ Cap * 1 + (x - Cap) = x
        BY <1>1, <1>6
    <2> QED BY <1>1, <1>3, <1>4, <1>6, <2>1
<1> QED BY <1>1, <1>5, <1>6

(* The slot of the a-th sample from the last, in a ring with this head.     *)
slot(head, a) == (head - a + Cap) % Cap

LEMMA SlotIs ==
    ASSUME NEW head \in 0 .. Cap - 1, NEW a \in 1 .. Cap
    PROVE  /\ slot(head, a) = IF a <= head THEN head - a ELSE head - a + Cap
           /\ slot(head, a) \in 0 .. Cap - 1
<1>1. Cap \in Nat /\ Cap > 0
    BY TuiAssumption
<1>2. head - a + Cap \in 0 .. 2 * Cap - 1
    BY <1>1
<1> QED BY <1>1, <1>2, Wrapped DEF slot

LEMMA PushShifts ==
    ASSUME NEW r \in Ring!Rings, NEW v \in Samples
    PROVE  LET q == Ring!Push(r, v)
           IN  /\ q \in Ring!Rings
               /\ q.size = IF r.size < Cap THEN r.size + 1 ELSE r.size
               /\ q.data[slot(q.head, 1)] = v
               /\ \A a \in 1 .. Cap - 1 : q.data[slot(q.head, a + 1)] = r.data[slot(r.head, a)]
<1> DEFINE q == Ring!Push(r, v)
<1>1. Cap \in Nat /\ Cap > 0
    BY TuiAssumption
<1>2. r.data \in [0 .. Cap - 1 -> Samples] /\ r.head \in 0 .. Cap - 1 /\ r.size \in 0 .. Cap
    BY DEF Ring!Rings, Ring!Slots
<1>3. /\ q.data = [r.data EXCEPT ![r.head] = v] /\ q.head = (r.head + 1) % Cap
      /\ q.size = IF r.size < Cap THEN r.size + 1 ELSE r.size
      /\ q = [data |-> q.data, head |-> q.head, size |-> q.size]
    BY DEF Ring!Push
<1>4. q.head = IF r.head + 1 < Cap THEN r.head + 1 ELSE 0
    <2>1. r.head + 1 \in 0 .. 2 * Cap - 1
        BY <1>1, <1>2
    <2> QED BY <1>1, <1>2, <1>3, <2>1, Wrapped
<1>5. q.head \in 0 .. Cap - 1
    BY <1>1, <1>2, <1>4
<1>6. q \in Ring!Rings
    <2>1. q.data \in [0 .. Cap - 1 -> Samples] /\ q.size \in 0 .. Cap
        BY <1>1, <1>2, <1>3
    <2> HIDE DEF q
    <2> QED BY <1>3, <1>5, <2>1 DEF Ring!Rings, Ring!Slots
<1> HIDE DEF q
<1>7. slot(q.head, 1) = r.head
    <2>1. 1 \in 1 .. Cap
        BY <1>1
    <2> QED BY <1>1, <1>2, <1>4, <1>5, <2>1, SlotIs
<1>8. ASSUME NEW a \in 1 .. Cap - 1
      PROVE  q.data[slot(q.head, a + 1)] = r.data[slot(r.head, a)]
    <2>1. a \in 1 .. Cap /\ a + 1 \in 1 .. Cap
        BY <1>1
    <2>2. /\ slot(r.head, a) = IF a <= r.head THEN r.head - a ELSE r.head - a + Cap
          /\ slot(r.head, a) \in 0 .. Cap - 1
        BY <1>2, <2>1, SlotIs
    <2>3. slot(q.head, a + 1) = IF a + 1 <= q.head THEN q.head - (a + 1) ELSE q.head - (a + 1) + Cap
        BY <1>5, <2>1, SlotIs
    <2>4. slot(q.head, a + 1) = slot(r.head, a) /\ slot(r.head, a) # r.head
        BY <1>1, <1>2, <1>4, <2>2, <2>3
    <2> QED BY <1>2, <1>3, <2>2, <2>4
<1>9. q.data[slot(q.head, 1)] = v
    BY <1>2, <1>3, <1>7
<1> QED BY <1>3, <1>6, <1>8, <1>9 DEF q

LEMMA WindowIs ==
    ASSUME NEW r \in Ring!Rings, NEW n \in Nat
    PROVE  LET w == Ring!LastNInto(r, n)
               count == IF r.size > n THEN n ELSE r.size
           IN  /\ Len(w) = count
               /\ \A a \in 1 .. count : w[count - a + 1] = r.data[slot(r.head, a)]
               /\ r.size > 0 => Ring!Last(r) = r.data[slot(r.head, 1)]
<1> DEFINE w == Ring!LastNInto(r, n)
           count == IF r.size > n THEN n ELSE r.size
           start == (r.head - count + Cap) % Cap
<1>1. Cap \in Nat /\ Cap > 0
    BY TuiAssumption
<1>2. r.head \in 0 .. Cap - 1 /\ r.size \in 0 .. Cap
    BY DEF Ring!Rings, Ring!Slots
<1>3. count \in 0 .. Cap
    BY <1>1, <1>2
<1>4. w = [i \in 1 .. count |-> r.data[(start + i - 1) % Cap]]
    BY DEF Ring!LastNInto
<1>5. Ring!Last(r) = IF r.size = 0 THEN 0 ELSE r.data[(r.head - 1 + Cap) % Cap]
    BY DEF Ring!Last
<1>6. start = IF count <= r.head THEN r.head - count ELSE r.head - count + Cap
    <2>1. r.head - count + Cap \in 0 .. 2 * Cap - 1
        BY <1>1, <1>2, <1>3
    <2> HIDE DEF count
    <2> QED BY <1>1, <1>2, <1>3, <2>1, Wrapped
<1> HIDE DEF w, count, start
<1>7. Len(w) = count
    BY <1>3, <1>4
<1>8. ASSUME NEW a \in 1 .. count
      PROVE  w[count - a + 1] = r.data[slot(r.head, a)]
    <2>1. count - a + 1 \in 1 .. count /\ a \in 1 .. Cap
        BY <1>1, <1>3
    <2>2. w[count - a + 1] = r.data[(start + (count - a + 1) - 1) % Cap]
        BY <1>4, <2>1
    <2>3. start + (count - a + 1) - 1 \in 0 .. 2 * Cap - 1
        BY <1>1, <1>2, <1>3, <1>6
    <2>4. (start + (count - a + 1) - 1) % Cap = slot(r.head, a)
        <3> DEFINE x == start + (count - a + 1) - 1
        <3>1. x % Cap = IF x < Cap THEN x ELSE x - Cap
            BY <2>3, Wrapped
        <3>2. slot(r.head, a) = IF a <= r.head THEN r.head - a ELSE r.head - a + Cap
            BY <1>2, <2>1, SlotIs
        <3>3. x = start + count - a
            BY <1>1, <1>2, <1>3, <1>6, <2>1
        <3>4. CASE count <= r.head
            BY <1>1, <1>2, <1>3, <1>6, <2>1, <3>1, <3>2, <3>3, <3>4
        <3>5. CASE count > r.head
            BY <1>1, <1>2, <1>3, <1>6, <2>1, <3>1, <3>2, <3>3, <3>5
        <3> QED BY <1>1, <1>2, <1>3, <3>4, <3>5
    <2> QED BY <2>2, <2>4
<1> QED BY <1>2, <1>5, <1>7, <1>8 DEF w, count, slot

ringOf(g) == IF g \in DOMAIN history THEN history[g] ELSE Ring!newRingBuffer

(* The ring of a GPU has the latest samples of the GPU, as many as it can.  *)
RingTells(g) ==
    /\ g \in DOMAIN history <=> sampledAt(g) # {}
    /\ ringOf(g) \in Ring!Rings
    /\ ringOf(g).size = Layout!least(Cap, Cardinality(sampledAt(g)))
    /\ \A i \in sampledAt(g) :
         age(g, i) <= ringOf(g).size =>
            ringOf(g).data[slot(ringOf(g).head, age(g, i))] = at(i).gpus[g].util

RingsTell == \A g : RingTells(g)

LEMMA SampledIs ==
    ASSUME Types, NEW g
    PROVE  /\ sampledAt(g) \subseteq 1 .. Len(applied) /\ Len(applied) \in Nat
           /\ IsFiniteSet(sampledAt(g)) /\ Cardinality(sampledAt(g)) \in Nat
           /\ \A i \in sampledAt(g) : /\ IsFiniteSet({j \in sampledAt(g) : j >= i})
                                      /\ age(g, i) \in 1 .. Cardinality(sampledAt(g))
<1>1. sampledAt(g) \subseteq 1 .. Len(applied) /\ Len(applied) \in Nat
    BY DEF Types, sampledAt
<1>2. IsFiniteSet(sampledAt(g)) /\ Cardinality(sampledAt(g)) \in Nat
    BY <1>1, Upto, FS_Subset, FS_CardinalityType
<1>3. ASSUME NEW i \in sampledAt(g)
      PROVE  /\ IsFiniteSet({j \in sampledAt(g) : j >= i})
             /\ age(g, i) \in 1 .. Cardinality(sampledAt(g))
    <2> DEFINE later == {j \in sampledAt(g) : j >= i}
    <2>1. later \subseteq sampledAt(g) /\ i \in later
        BY <1>1
    <2>2. age(g, i) = Cardinality(later)
        BY DEF age
    <2> HIDE DEF later
    <2>3. IsFiniteSet(later) /\ Cardinality(later) \in Nat /\ Cardinality(later) <= Cardinality(sampledAt(g))
        BY <1>2, <2>1, FS_Subset, FS_CardinalityType
    <2>4. Cardinality(later) # 0
        BY <2>1, <2>3, FS_EmptySet
    <2> QED BY <1>2, <2>2, <2>3, <2>4 DEF later
<1> QED BY <1>1, <1>2, <1>3

LEMMA SampledGrows ==
    ASSUME Types, NEW n \in inFlight, Answer(n), NEW g
    PROVE  sampledAt(g)' = IF g \in DOMAIN script[n].gpus
                           THEN sampledAt(g) \union {Len(applied) + 1} ELSE sampledAt(g)
<1>1. sampledAt(g)' = {k \in 1 .. Len(applied) + 1 : g \in DOMAIN at(k)'.gpus}
    BY AppliedGrows DEF sampledAt
<1>2. sampledAt(g) = {k \in 1 .. Len(applied) : g \in DOMAIN at(k).gpus}
    BY AppliedGrows DEF sampledAt
<1>3. ASSUME NEW k
      PROVE  k \in sampledAt(g)' <=> \/ k \in sampledAt(g)
                                     \/ k = Len(applied) + 1 /\ g \in DOMAIN script[n].gpus
    <2>1. CASE k \in 1 .. Len(applied)
        <3>1. k \in 1 .. Len(applied) + 1 /\ k # Len(applied) + 1 /\ at(k)' = at(k)
            BY <2>1, AppliedGrows
        <3> QED BY <1>1, <1>2, <2>1, <3>1
    <2>2. CASE k = Len(applied) + 1
        <3>1. k \notin 1 .. Len(applied) /\ k \in 1 .. Len(applied) + 1
            BY <2>2, AppliedGrows
        <3>2. at(k)' = script[n]
            BY <2>2, AppliedGrows
        <3> QED BY <1>1, <1>2, <2>2, <3>1, <3>2
    <2>3. CASE k \notin 1 .. Len(applied) /\ k # Len(applied) + 1
        <3>1. k \notin 1 .. Len(applied) + 1
            BY <2>3, AppliedGrows
        <3> QED BY <1>1, <1>2, <2>3, <3>1
    <2> QED BY <2>1, <2>2, <2>3
<1> QED BY <1>3

LEMMA AgesGrow ==
    ASSUME Types, NEW n \in inFlight, Answer(n), NEW g, g \in DOMAIN script[n].gpus
    PROVE  /\ Cardinality(sampledAt(g)') = Cardinality(sampledAt(g)) + 1
           /\ \A i \in sampledAt(g) : age(g, i)' = age(g, i) + 1
           /\ \A i : i = Len(applied) + 1 => age(g, i)' = 1
<1> DEFINE S == sampledAt(g)  m == Len(applied) + 1
<1>1. S' = S \union {m}
    BY SampledGrows
<1>2. S \subseteq 1 .. Len(applied) /\ Len(applied) \in Nat /\ IsFiniteSet(S)
    BY SampledIs
<1>3. m \notin S
    BY <1>2
<1>4. Cardinality(S') = Cardinality(S) + 1
    BY <1>1, <1>2, <1>3, FS_AddElement
<1>5. ASSUME NEW i \in S PROVE age(g, i)' = age(g, i) + 1
    <2> DEFINE later == {j \in S : j >= i}
    <2>1. {j \in S \union {m} : j >= i} = later \union {m}
        BY <1>2
    <2>2. age(g, i)' = Cardinality(later \union {m})
        BY <1>1, <2>1 DEF age
    <2>3. IsFiniteSet(later) /\ m \notin later
        BY <1>3, SampledIs
    <2>4. age(g, i) = Cardinality(later)
        BY DEF age
    <2> HIDE DEF later
    <2> QED BY <2>2, <2>3, <2>4, FS_AddElement
<1>6. ASSUME NEW i, i = m PROVE age(g, i)' = 1
    <2>1. {j \in S \union {m} : j >= m} = {m}
        BY <1>2
    <2>2. age(g, i)' = Cardinality({m})
        BY <1>1, <1>6, <2>1 DEF age
    <2> QED BY <2>2, FS_Singleton
<1> QED BY <1>4, <1>5, <1>6

LEMMA GpuOf ==
    ASSUME NEW s, IsSnapshot(s), NEW g \in DOMAIN s.gpus
    PROVE  g \in Nat /\ s.gpus[g].util \in Samples /\ s.gpus[g].temp \in Int /\ s.gpus[g].clock \in Int
<1> DEFINE q == s.gpus  T == [util : Samples, temp : Int, clock : Int]
<1>1. q \in Seq(T) /\ g \in DOMAIN q
    BY DEF IsSnapshot
<1>2. \A x \in T : x.util \in Samples /\ x.temp \in Int /\ x.clock \in Int
    OBVIOUS
<1> HIDE DEF q, T
<1>3. g \in Nat /\ q[g] \in T
    BY <1>1
<1> QED BY <1>2, <1>3 DEF q

LEMMA AnswerRings ==
    ASSUME Types, RingsTell, NEW n \in inFlight, Answer(n), NEW g
    PROVE  RingTells(g)'
<1> DEFINE s == script[n]  m == Len(applied) + 1
<1>1. pushHistory(s) /\ IsSnapshot(s)
    BY AnswerEffect DEF Answer
<1>2. /\ DOMAIN history' = DOMAIN history \union DOMAIN s.gpus
      /\ g \in DOMAIN history' => history'[g] = IF g \in DOMAIN s.gpus THEN pushed(s, g) ELSE history[g]
    BY <1>1 DEF pushHistory
<1>3. RingTells(g)
    BY DEF RingsTell
<1>4. /\ sampledAt(g) \subseteq 1 .. Len(applied) /\ Len(applied) \in Nat
      /\ Cardinality(sampledAt(g)) \in Nat
      /\ \A i \in sampledAt(g) : age(g, i) \in Nat /\ age(g, i) > 0
    <2>1. \A i \in sampledAt(g) : age(g, i) \in 1 .. Cardinality(sampledAt(g))
        BY SampledIs
    <2>2. Cardinality(sampledAt(g)) \in Nat
        BY SampledIs
    <2>3. \A c \in Nat : \A x \in 1 .. c : x \in Nat /\ x > 0
        OBVIOUS
    <2> QED BY <2>1, <2>2, <2>3, SampledIs
<1>5. \A i \in sampledAt(g) : at(i)' = at(i)
    BY <1>4, AppliedGrows
<1>6. Cap \in Nat /\ Cap > 0
    BY TuiAssumption
<1>7. CASE g \notin DOMAIN s.gpus
    <2>1. sampledAt(g)' = sampledAt(g) /\ \A i : age(g, i)' = age(g, i)
        BY <1>7, SampledGrows DEF age
    <2>2. ringOf(g)' = ringOf(g) /\ (g \in DOMAIN history' <=> g \in DOMAIN history)
        BY <1>2, <1>7 DEF ringOf
    <2> QED BY <1>3, <1>5, <2>1, <2>2 DEF RingTells
<1>8. CASE g \in DOMAIN s.gpus
    <2> DEFINE r == ringOf(g)  v == s.gpus[g].util  q == Ring!Push(r, v)
    <2>1. r \in Ring!Rings /\ r.size = Layout!least(Cap, Cardinality(sampledAt(g)))
        BY <1>3 DEF RingTells
    <2>2. v \in Samples
        <3> HIDE DEF s
        <3> QED BY <1>1, <1>8, GpuOf
    <2>3. g \in DOMAIN history' /\ ringOf(g)' = q
        BY <1>2, <1>8 DEF pushed, ringOf
    <2>4. /\ sampledAt(g)' = sampledAt(g) \union {m}
          /\ Cardinality(sampledAt(g)') = Cardinality(sampledAt(g)) + 1
          /\ \A i \in sampledAt(g) : age(g, i)' = age(g, i) + 1
          /\ \A i : i = m => age(g, i)' = 1
        BY <1>8, SampledGrows, AgesGrow
    <2>5. /\ q \in Ring!Rings /\ q.size = IF r.size < Cap THEN r.size + 1 ELSE r.size
          /\ q.data[slot(q.head, 1)] = v
          /\ \A a \in 1 .. Cap - 1 : q.data[slot(q.head, a + 1)] = r.data[slot(r.head, a)]
        BY <2>1, <2>2, PushShifts
    <2>6. r.size \in 0 .. Cap
        BY <2>1 DEF Ring!Rings
    <2> HIDE DEF r, v, q
    <2>7. q.size = Layout!least(Cap, Cardinality(sampledAt(g)) + 1)
        BY <1>4, <1>6, <2>1, <2>5, LeastIs
    <2>8. ASSUME NEW i \in sampledAt(g), age(g, i) + 1 <= q.size
          PROVE  q.data[slot(q.head, age(g, i) + 1)] = at(i).gpus[g].util
        <3>1. age(g, i) \in 1 .. Cap - 1 /\ age(g, i) <= r.size
            BY <1>4, <1>6, <2>5, <2>6, <2>8
        <3> QED BY <1>3, <2>5, <3>1 DEF RingTells, r
    <2>9. ASSUME NEW i \in sampledAt(g)', age(g, i)' <= q.size
          PROVE  q.data[slot(q.head, age(g, i)')] = at(i)'.gpus[g].util
        <3>1. CASE i \in sampledAt(g)
            BY <1>5, <2>4, <2>8, <2>9, <3>1
        <3>2. CASE i = m
            <4>1. at(i)' = s
                BY <3>2, AppliedGrows
            <4> QED BY <2>4, <2>5, <3>2, <4>1 DEF v
        <3> QED BY <2>4, <3>1, <3>2
    <2> QED BY <2>3, <2>4, <2>5, <2>7, <2>9 DEF RingTells
<1> QED BY <1>7, <1>8
LEMMA NextRings == Types /\ RingsTell /\ [Next]_vars => RingsTell'
<1> SUFFICES ASSUME Types, RingsTell, [Next]_vars, NEW g PROVE RingTells(g)'
    BY DEF RingsTell
<1>1. ASSUME UNCHANGED <<session, applied, history>> PROVE RingTells(g)'
    <2>1. \A i : at(i)' = at(i)
        BY <1>1 DEF at, script
    <2>2. sampledAt(g)' = sampledAt(g) /\ (\A i : age(g, i)' = age(g, i)) /\ ringOf(g)' = ringOf(g)
        BY <1>1, <2>1 DEF sampledAt, age, ringOf
    <2> QED BY <1>1, <2>1, <2>2 DEF RingTells, RingsTell
<1>2. CASE Tick
    BY <1>1, <1>2 DEF Tick, shownVars
<1>3. ASSUME NEW n \in inFlight, Answer(n) PROVE RingTells(g)'
    BY <1>3, AnswerRings
<1>4. ASSUME NEW n \in inFlight, AnswerError(n) PROVE RingTells(g)'
    BY <1>1, <1>4 DEF AnswerError
<1>5. CASE User
    BY <1>1, <1>5, UserEffect DEF shownVars
<1>6. CASE UNCHANGED vars
    BY <1>1, <1>6 DEF vars, shownVars
<1> QED BY <1>2, <1>3, <1>4, <1>5, <1>6 DEF Next

LEMMA RingsNow == Types /\ RingsTell => windowsAreLatest
<1> SUFFICES ASSUME Types, RingsTell, NEW g \in UNION {DOMAIN at(i).gpus : i \in DOMAIN applied},
                    NEW n \in 0 .. Cap + 1
             PROVE  LET w == Ring!LastNInto(history[g], n)
                    IN  /\ g \in DOMAIN history
                        /\ Len(w) = Layout!least(n, Layout!least(Cap, Cardinality(sampledAt(g))))
                        /\ \A i \in sampledAt(g) :
                             /\ age(g, i) <= Len(w) => w[Len(w) - age(g, i) + 1] = at(i).gpus[g].util
                             /\ age(g, i) = 1 => Ring!Last(history[g]) = at(i).gpus[g].util
    BY DEF windowsAreLatest
<1> DEFINE w == Ring!LastNInto(history[g], n)  r == history[g]
<1>1. sampledAt(g) # {}
    BY DEF sampledAt
<1>2. /\ g \in DOMAIN history /\ r \in Ring!Rings
      /\ r.size = Layout!least(Cap, Cardinality(sampledAt(g)))
      /\ \A i \in sampledAt(g) :
            age(g, i) <= r.size => r.data[slot(r.head, age(g, i))] = at(i).gpus[g].util
    BY <1>1 DEF RingsTell, RingTells, ringOf
<1>3. Cap \in Nat /\ Cap > 0 /\ n \in Nat
    BY TuiAssumption
<1>4. r.size \in 0 .. Cap
    BY <1>2 DEF Ring!Rings
<1>5. PICK count \in Nat : count = IF r.size > n THEN n ELSE r.size
    BY <1>3, <1>4
<1>6. /\ Len(w) = count
      /\ \A a \in 1 .. count : w[count - a + 1] = r.data[slot(r.head, a)]
      /\ r.size > 0 => Ring!Last(r) = r.data[slot(r.head, 1)]
    BY <1>2, <1>3, <1>5, WindowIs
<1> HIDE DEF w, r
<1>7. Len(w) = Layout!least(n, r.size)
    BY <1>3, <1>4, <1>5, <1>6, LeastIs
<1>8. \A i \in sampledAt(g) : age(g, i) \in 1 .. Cardinality(sampledAt(g))
    BY SampledIs
<1>9. ASSUME NEW i \in sampledAt(g), age(g, i) <= count
      PROVE  w[count - age(g, i) + 1] = at(i).gpus[g].util
    <2>1. age(g, i) \in 1 .. count /\ age(g, i) <= r.size
        BY <1>3, <1>4, <1>5, <1>8, <1>9, SampledIs
    <2> QED BY <1>2, <1>6, <2>1
<1>10. ASSUME NEW i \in sampledAt(g), age(g, i) = 1
       PROVE  Ring!Last(r) = at(i).gpus[g].util
    <2>1. Cardinality(sampledAt(g)) \in Nat /\ Cardinality(sampledAt(g)) >= 1
        BY <1>8, <1>10, SampledIs
    <2>2. r.size >= 1
        BY <1>2, <1>3, <2>1, LeastIs
    <2> QED BY <1>2, <1>4, <1>6, <1>10, <2>2
<1> QED BY <1>2, <1>6, <1>7, <1>9, <1>10 DEF w, r

(* The statistics *)

tempOf(list, x) == script[list[x[1]]].gpus[x[2]].temp
clockOf(list, x) == script[list[x[1]]].gpus[x[2]].clock

StatTypes == [peak : Int, peakGPU : Nat, min : Int, minGPU : Nat, count : Nat, initialized : BOOLEAN]

(* st is what the readings S of the applied snapshots in list amount to.    *)
Summary(st, S, list) ==
    /\ st \in StatTypes /\ st.initialized
    /\ st.count = Cardinality(S)
    /\ \A x \in S : /\ tempOf(list, x) \in Int /\ tempOf(list, x) <= st.peak
                    /\ clockOf(list, x) \in Int /\ st.min <= clockOf(list, x)
    /\ \E x \in S : x[2] = st.peakGPU /\ tempOf(list, x) = st.peak
    /\ \E x \in S : x[2] = st.minGPU /\ clockOf(list, x) = st.min

Summarises(st, S, list) ==
    /\ IsFiniteSet(S)
    /\ S = {} => st = NoStats
    /\ S # {} => Summary(st, S, list)

LEMMA OneMore ==
    ASSUME NEW s, IsSnapshot(s), NEW g \in DOMAIN s.gpus, NEW st, NEW S, NEW list, NEW x, x \notin S,
           Summarises(st, S, list), x[2] = g,
           tempOf(list, x) = s.gpus[g].temp, clockOf(list, x) = s.gpus[g].clock
    PROVE  Summarises(withGPU(s, g, st), S \union {x}, list)
<1> DEFINE y == s.gpus[g]
           T == S \union {x}
           st0 == IF st.initialized THEN st
                  ELSE [peak |-> y.temp, peakGPU |-> g, min |-> y.clock, minGPU |-> g,
                        count |-> 0, initialized |-> TRUE]
           new == withGPU(s, g, st)
<1>1. y.temp \in Int /\ y.clock \in Int /\ g \in Nat
    BY GpuOf
<1>2. IsFiniteSet(T) /\ Cardinality(T) = Cardinality(S) + 1 /\ T # {} /\ Cardinality(S) \in Nat
    BY FS_AddElement, FS_CardinalityType DEF Summarises
<1>3. /\ st0 \in StatTypes /\ st0.initialized /\ st0.count = Cardinality(S)
    <2>1. CASE S = {}
        <3>1. ~st.initialized
            BY <2>1 DEF Summarises, NoStats
        <3>2. Cardinality(S) = 0
            BY <2>1, FS_EmptySet
        <3> QED BY <1>1, <3>1, <3>2 DEF StatTypes
    <2>2. CASE S # {}
        BY <2>2 DEF Summarises, Summary
    <2> QED BY <2>1, <2>2
<1>4. new = [st0 EXCEPT !.peak = Layout!most(@, y.temp),
                        !.peakGPU = IF y.temp > st0.peak THEN g ELSE @,
                        !.min = Layout!least(@, y.clock),
                        !.minGPU = IF y.clock < st0.min THEN g ELSE @,
                        !.count = @ + 1]
    BY DEF withGPU
<1>5. /\ S = {} => st0.peak = y.temp /\ st0.peakGPU = g /\ st0.min = y.clock /\ st0.minGPU = g
      /\ S # {} => Summary(st0, S, list)
    BY DEF Summarises, NoStats, Summary
<1>6. tempOf(list, x) = y.temp /\ clockOf(list, x) = y.clock
    OBVIOUS
<1> HIDE DEF st0, y, new
<1>7. /\ new \in StatTypes /\ new.initialized /\ new.count = st0.count + 1
      /\ new.peak = (IF st0.peak >= y.temp THEN st0.peak ELSE y.temp)
      /\ new.peakGPU = (IF y.temp > st0.peak THEN g ELSE st0.peakGPU)
      /\ new.min = (IF st0.min <= y.clock THEN st0.min ELSE y.clock)
      /\ new.minGPU = (IF y.clock < st0.min THEN g ELSE st0.minGPU)
    <2>1. st0.peak \in Int /\ st0.min \in Int /\ st0.count \in Nat
        BY <1>3 DEF StatTypes
    <2>2. /\ Layout!most(st0.peak, y.temp) = (IF st0.peak >= y.temp THEN st0.peak ELSE y.temp)
          /\ Layout!least(st0.min, y.clock) = (IF st0.min <= y.clock THEN st0.min ELSE y.clock)
        BY <1>1, <2>1, LeastIs, MostIs
    <2>3. st0.peakGPU \in Nat /\ st0.minGPU \in Nat
        BY <1>3 DEF StatTypes
    <2> DEFINE a == IF st0.peak >= y.temp THEN st0.peak ELSE y.temp
               b == IF y.temp > st0.peak THEN g ELSE st0.peakGPU
               c == IF st0.min <= y.clock THEN st0.min ELSE y.clock
               d == IF y.clock < st0.min THEN g ELSE st0.minGPU
               e == st0.count + 1
    <2>4. a \in Int /\ b \in Nat /\ c \in Int /\ d \in Nat /\ e \in Nat
        BY <1>1, <2>1, <2>3
    <2>5. new = [st0 EXCEPT !.peak = a, !.peakGPU = b, !.min = c, !.minGPU = d, !.count = e]
        BY <1>4, <2>2
    <2> HIDE DEF a, b, c, d, e
    <2>6. /\ new \in StatTypes /\ new.initialized = st0.initialized
          /\ new.peak = a /\ new.peakGPU = b /\ new.min = c /\ new.minGPU = d /\ new.count = e
        BY <1>3, <2>4, <2>5 DEF StatTypes
    <2> QED BY <1>3, <2>6 DEF a, b, c, d, e
<1>8. st0.peak \in Int /\ st0.min \in Int /\ new.peak \in Int /\ new.min \in Int
    BY <1>3, <1>7 DEF StatTypes
<1>9. ASSUME NEW z \in T
      PROVE  /\ tempOf(list, z) \in Int /\ tempOf(list, z) <= new.peak
             /\ clockOf(list, z) \in Int /\ new.min <= clockOf(list, z)
    <2>1. CASE z = x
        BY <1>1, <1>6, <1>7, <1>8, <2>1
    <2>2. CASE z \in S
        <3>1. /\ tempOf(list, z) \in Int /\ tempOf(list, z) <= st0.peak
              /\ clockOf(list, z) \in Int /\ st0.min <= clockOf(list, z)
            BY <1>5, <2>2 DEF Summary
        <3> QED BY <1>1, <1>7, <1>8, <3>1
    <2> QED BY <2>1, <2>2
<1>10. \E z \in T : z[2] = new.peakGPU /\ tempOf(list, z) = new.peak
    <2>1. CASE S = {} \/ y.temp > st0.peak
        <3>1. new.peakGPU = g /\ new.peak = y.temp
            BY <1>1, <1>5, <1>7, <1>8, <2>1
        <3> QED BY <1>6, <3>1
    <2>2. CASE S # {} /\ ~(y.temp > st0.peak)
        <3>1. PICK z \in S : z[2] = st0.peakGPU /\ tempOf(list, z) = st0.peak
            BY <1>5, <2>2 DEF Summary
        <3>2. new.peakGPU = st0.peakGPU /\ new.peak = st0.peak
            BY <1>1, <1>7, <1>8, <2>2
        <3> QED BY <3>1, <3>2
    <2> QED BY <2>1, <2>2
<1>11. \E z \in T : z[2] = new.minGPU /\ clockOf(list, z) = new.min
    <2>1. CASE S = {} \/ y.clock < st0.min
        <3>1. new.minGPU = g /\ new.min = y.clock
            BY <1>1, <1>5, <1>7, <1>8, <2>1
        <3> QED BY <1>6, <3>1
    <2>2. CASE S # {} /\ ~(y.clock < st0.min)
        <3>1. PICK z \in S : z[2] = st0.minGPU /\ clockOf(list, z) = st0.min
            BY <1>5, <2>2 DEF Summary
        <3>2. new.minGPU = st0.minGPU /\ new.min = st0.min
            BY <1>1, <1>7, <1>8, <2>2
        <3> QED BY <3>1, <3>2
    <2> QED BY <2>1, <2>2
<1>12. Summary(new, T, list)
    BY <1>2, <1>3, <1>7, <1>9, <1>10, <1>11 DEF Summary
<1> QED BY <1>2, <1>12 DEF Summarises, new

(* The loop of updateSessionStats, after each GPU. *)
StatSteps(s, n, f) ==
    f = [k \in 0 .. n |-> IF k = 0 THEN sessionStats ELSE withGPU(s, k, f[k - 1])]

LEMMA StatStepsExist ==
    ASSUME NEW s, NEW n \in Nat
    PROVE  \E f : StatSteps(s, n, f)
<1> DEFINE Bad == {k \in 0 .. n : ~\E f : StatSteps(s, k, f)}
<1> SUFFICES Bad = {}
    OBVIOUS
<1>1. 0 \notin Bad
    <2> DEFINE f == [k \in 0 .. 0 |-> sessionStats]
    <2>1. f = [k \in 0 .. 0 |-> IF k = 0 THEN sessionStats ELSE withGPU(s, k, f[k - 1])]
        OBVIOUS
    <2>2. StatSteps(s, 0, f)
        BY <2>1 DEF StatSteps
    <2> QED BY <2>2
<1>2. ASSUME NEW k \in 0 .. n - 1, k \notin Bad
      PROVE  k + 1 \notin Bad
    <2>1. PICK f : StatSteps(s, k, f)
        BY <1>2
    <2> DEFINE h == [i \in 0 .. k + 1 |-> IF i <= k THEN f[i] ELSE withGPU(s, k + 1, f[k])]
    <2>2. \A i \in 0 .. k : f[i] = IF i = 0 THEN sessionStats ELSE withGPU(s, i, f[i - 1])
        BY <2>1 DEF StatSteps
    <2>3. \A i \in 0 .. k : h[i] = f[i]
        OBVIOUS
    <2>4. ASSUME NEW i \in 0 .. k + 1
          PROVE  h[i] = IF i = 0 THEN sessionStats ELSE withGPU(s, i, h[i - 1])
        <3>1. CASE i = 0
            BY <2>2, <2>3, <3>1
        <3>2. CASE i \in 1 .. k
            <4>1. h[i] = f[i] /\ h[i - 1] = f[i - 1]
                BY <2>3, <3>2
            <4>2. f[i] = withGPU(s, i, f[i - 1])
                BY <2>2, <3>2
            <4> HIDE DEF h
            <4> QED BY <3>2, <4>1, <4>2
        <3>3. CASE i = k + 1
            <4>1. h[i] = withGPU(s, k + 1, f[k]) /\ h[i - 1] = f[k]
                BY <2>3, <3>3
            <4> HIDE DEF h
            <4> QED BY <3>3, <4>1
        <3> QED BY <3>1, <3>2, <3>3
    <2>5. StatSteps(s, k + 1, h)
        <3>1. h = [i \in 0 .. k + 1 |-> h[i]]
            OBVIOUS
        <3> HIDE DEF h
        <3> QED BY <2>4, <3>1 DEF StatSteps
    <2> QED BY <2>5
<1> QED
    <2> SUFFICES ASSUME Bad # {} PROVE FALSE
        OBVIOUS
    <2>1. Bad \subseteq 0 .. n
        OBVIOUS
    <2> HIDE DEF Bad
    <2> QED BY <1>1, <1>2, <2>1, FirstFailure

(* A snapshot's GPUs, taken one after the other into the statistics.        *)
LEMMA StatsOfOneMore ==
    ASSUME NEW s, IsSnapshot(s), NEW S, NEW list, NEW m, Summarises(sessionStats, S, list),
           \A x \in S : x[1] # m,
           \A g \in DOMAIN s.gpus : /\ tempOf(list, <<m, g>>) = s.gpus[g].temp
                                    /\ clockOf(list, <<m, g>>) = s.gpus[g].clock
    PROVE  Summarises(updatedStats(s), S \union ({m} \X DOMAIN s.gpus), list)
<1> DEFINE n == Len(s.gpus)
           f == CHOOSE f : StatSteps(s, n, f)
           upTo(k) == S \union ({m} \X (1 .. k))
           Bad == {k \in 0 .. n : ~Summarises(f[k], upTo(k), list)}
<1>1. n \in Nat /\ DOMAIN s.gpus = 1 .. n
    BY DEF IsSnapshot
<1>2. StatSteps(s, n, f)
    <2> HIDE DEF n
    <2> QED BY <1>1, StatStepsExist
<1>3. updatedStats(s) = f[n]
    BY DEF updatedStats, StatSteps
<1> HIDE DEF n, f
<1>4. 0 \notin Bad
    <2>1. f[0] = sessionStats
        BY <1>1, <1>2 DEF StatSteps
    <2>2. upTo(0) = S
        <3>1. 1 .. 0 = {}
            OBVIOUS
        <3> QED BY <3>1
    <2> HIDE DEF upTo
    <2> QED BY <2>1, <2>2
<1>5. ASSUME NEW k \in 0 .. n - 1, k \notin Bad PROVE k + 1 \notin Bad
    <2>1. Summarises(f[k], upTo(k), list)
        BY <1>1, <1>5
    <2>2. f[k + 1] = withGPU(s, k + 1, f[k])
        <3>1. k + 1 \in 0 .. n /\ k + 1 # 0 /\ (k + 1) - 1 = k
            BY <1>1
        <3> QED BY <1>2, <3>1 DEF StatSteps
    <2>3. k + 1 \in DOMAIN s.gpus
        BY <1>1
    <2>4. upTo(k + 1) = upTo(k) \union {<<m, k + 1>>}
        <3>1. 1 .. k + 1 = (1 .. k) \union {k + 1}
            BY <1>1
        <3> QED BY <3>1
    <2>5. <<m, k + 1>> \notin upTo(k)
        <3>1. k + 1 \notin 1 .. k
            BY <1>1
        <3> QED BY <3>1
    <2> HIDE DEF upTo
    <2>6. PICK x : x = <<m, k + 1>>
        OBVIOUS
    <2>7. x \notin upTo(k) /\ x[2] = k + 1
        BY <2>5, <2>6
    <2>8. tempOf(list, x) = s.gpus[k + 1].temp /\ clockOf(list, x) = s.gpus[k + 1].clock
        BY <2>3, <2>6
    <2>9. Summarises(withGPU(s, k + 1, f[k]), upTo(k) \union {x}, list)
        BY <2>1, <2>3, <2>7, <2>8, OneMore
    <2> QED BY <2>2, <2>4, <2>6, <2>9
<1>6. Bad = {}
    <2> SUFFICES ASSUME Bad # {} PROVE FALSE
        OBVIOUS
    <2>1. Bad \subseteq 0 .. n
        OBVIOUS
    <2> HIDE DEF Bad
    <2> QED BY <1>1, <1>4, <1>5, <2>1, FirstFailure
<1>7. Summarises(f[n], upTo(n), list)
    <2>1. n \in 0 .. n
        BY <1>1
    <2>2. n \notin Bad
        <3> HIDE DEF Bad
        <3> QED BY <1>6
    <2> HIDE DEF upTo
    <2> QED BY <2>1, <2>2
<1> QED BY <1>1, <1>3, <1>7
StatsTell == Summarises(sessionStats, readings, applied)

LEMMA ReadingPlaces ==
    ASSUME Types
    PROVE  /\ Len(applied) \in Nat /\ DOMAIN applied = 1 .. Len(applied)
           /\ \A x \in readings : x = <<x[1], x[2]>> /\ x[1] \in 1 .. Len(applied)
           /\ \A i, g : <<i, g>> \in readings <=> i \in 1 .. Len(applied) /\ g \in DOMAIN at(i).gpus
<1>1. Len(applied) \in Nat /\ DOMAIN applied = 1 .. Len(applied)
    BY DEF Types
<1> QED BY <1>1 DEF readings

LEMMA AnswerStats ==
    ASSUME Types, StatsTell, NEW n \in inFlight, Answer(n)
    PROVE  StatsTell'
<1> DEFINE s == script[n]  m == Len(applied) + 1  new == {m} \X DOMAIN s.gpus
<1>1. sessionStats' = updatedStats(s) /\ IsSnapshot(s) /\ script' = script
    BY AnswerEffect DEF Answer, pushHistory
<1>2. Types'
    BY AnswerTypes
<1>3. /\ Len(applied) \in Nat /\ Len(applied') = m
      /\ \A i \in 1 .. Len(applied) : applied'[i] = applied[i] /\ at(i)' = at(i)
      /\ \A i : i = m => at(i)' = s
    BY AppliedGrows
<1>4. /\ \A x \in readings' : x = <<x[1], x[2]>>
      /\ \A i, g : <<i, g>> \in readings' <=> i \in 1 .. Len(applied') /\ g \in DOMAIN at(i)'.gpus
    <2>1. DOMAIN applied' = 1 .. Len(applied')
        BY <1>2 DEF Types
    <2> QED BY <2>1 DEF readings
<1>5. readings' = readings \union new
    <2>1. ASSUME NEW x \in readings', NEW i, NEW g, x = <<i, g>> PROVE x \in readings \union new
        <3>1. i \in 1 .. m /\ g \in DOMAIN at(i)'.gpus
            BY <1>3, <1>4, <2>1
        <3>2. CASE i = m
            BY <1>3, <2>1, <3>1, <3>2
        <3>3. CASE i \in 1 .. Len(applied)
            BY <1>3, <2>1, <3>1, <3>3, ReadingPlaces
        <3> QED BY <1>3, <3>1, <3>2, <3>3
    <2>2. ASSUME NEW x \in readings, NEW i, NEW g, x = <<i, g>> PROVE x \in readings'
        <3>1. i \in 1 .. Len(applied) /\ g \in DOMAIN at(i).gpus
            BY <2>2, ReadingPlaces
        <3>2. i \in 1 .. m /\ g \in DOMAIN at(i)'.gpus
            BY <1>3, <3>1
        <3> QED BY <1>3, <1>4, <2>2, <3>2
    <2>3. ASSUME NEW x \in new, NEW i, NEW g, x = <<i, g>> PROVE x \in readings'
        <3>1. i = m /\ g \in DOMAIN at(i)'.gpus
            BY <1>3, <2>3
        <3>2. i \in 1 .. m
            BY <1>3, <3>1
        <3> QED BY <1>3, <1>4, <2>3, <3>1, <3>2
    <2>4. \A x \in readings \union new \union readings' : \E i, g : x = <<i, g>>
        <3>1. \A x \in readings : x = <<x[1], x[2]>>
            BY ReadingPlaces
        <3>2. \A x \in readings' : x = <<x[1], x[2]>>
            BY <1>4
        <3>3. \A x \in new : x = <<x[1], x[2]>>
            OBVIOUS
        <3> QED BY <3>1, <3>2, <3>3
    <2> HIDE DEF new, m
    <2> QED BY <2>1, <2>2, <2>3, <2>4
<1>6. \A x \in readings : /\ x[1] # m /\ tempOf(applied', x) = tempOf(applied, x)
                          /\ clockOf(applied', x) = clockOf(applied, x)
    BY <1>3, ReadingPlaces DEF tempOf, clockOf
<1>7. Summarises(sessionStats, readings, applied')
    <2>1. IsFiniteSet(readings) /\ (readings = {} => sessionStats = NoStats)
          /\ (readings # {} => Summary(sessionStats, readings, applied))
        BY DEF StatsTell, Summarises
    <2>2. Summary(sessionStats, readings, applied) => Summary(sessionStats, readings, applied')
        BY <1>6 DEF Summary
    <2> QED BY <2>1, <2>2 DEF Summarises
<1>8. \A g \in DOMAIN s.gpus : /\ tempOf(applied', <<m, g>>) = s.gpus[g].temp
                               /\ clockOf(applied', <<m, g>>) = s.gpus[g].clock
    <2>1. applied'[m] = n
        <3>1. applied \in Seq(1 .. Len(script)) /\ applied' = Append(applied, n) /\ n \in 1 .. Len(script)
            BY AnswerEffect DEF Types, Answer
        <3> QED BY <3>1
    <2> QED BY <2>1 DEF tempOf, clockOf
<1>9. Summarises(updatedStats(s), readings \union new, applied')
    <2>1. PICK list, k : list = applied' /\ k = m
        OBVIOUS
    <2>2. Summarises(sessionStats, readings, list) /\ \A x \in readings : x[1] # k
        BY <1>6, <1>7, <2>1
    <2>3. \A g \in DOMAIN s.gpus : /\ tempOf(list, <<k, g>>) = s.gpus[g].temp
                                   /\ clockOf(list, <<k, g>>) = s.gpus[g].clock
        BY <1>8, <2>1
    <2>4. Summarises(updatedStats(s), readings \union ({k} \X DOMAIN s.gpus), list)
        <3> HIDE DEF s, m, new
        <3> QED BY <1>1, <2>2, <2>3, StatsOfOneMore
    <2> QED BY <2>1, <2>4
<1>10. Summarises(sessionStats', readings', applied')
    BY <1>1, <1>5, <1>9
<1> QED BY <1>1, <1>10 DEF StatsTell, Summarises, Summary, tempOf, clockOf
LEMMA NextStats == Types /\ StatsTell /\ [Next]_vars => StatsTell'
<1> SUFFICES ASSUME Types, StatsTell, [Next]_vars PROVE StatsTell'
    OBVIOUS
<1>1. ASSUME UNCHANGED <<session, applied, sessionStats>> PROVE StatsTell'
    <2>1. \A i : at(i)' = at(i)
        BY <1>1 DEF at, script
    <2>2. readings' = readings /\ script' = script
        BY <1>1, <2>1 DEF readings, script
    <2> QED BY <1>1, <2>2 DEF StatsTell, Summarises, Summary, tempOf, clockOf
<1>2. CASE Tick
    BY <1>1, <1>2 DEF Tick, shownVars
<1>3. ASSUME NEW n \in inFlight, Answer(n) PROVE StatsTell'
    BY <1>3, AnswerStats
<1>4. ASSUME NEW n \in inFlight, AnswerError(n) PROVE StatsTell'
    BY <1>1, <1>4 DEF AnswerError
<1>5. CASE User
    BY <1>1, <1>5, UserEffect DEF shownVars
<1>6. CASE UNCHANGED vars
    BY <1>1, <1>6 DEF vars, shownVars
<1> QED BY <1>2, <1>3, <1>4, <1>5, <1>6 DEF Next

LEMMA StatsNow == StatsTell => statsAreExtremes
<1> SUFFICES ASSUME StatsTell PROVE statsAreExtremes
    OBVIOUS
<1> DEFINE temps == {at(x[1]).gpus[x[2]].temp : x \in readings}
           clocks == {at(x[1]).gpus[x[2]].clock : x \in readings}
<1>1. CASE readings = {}
    BY <1>1 DEF StatsTell, Summarises, statsAreExtremes
<1>2. CASE readings # {}
    <2>1. Summary(sessionStats, readings, applied)
        BY <1>2 DEF StatsTell, Summarises
    <2>2. \A x \in readings : /\ tempOf(applied, x) = at(x[1]).gpus[x[2]].temp
                              /\ clockOf(applied, x) = at(x[1]).gpus[x[2]].clock
        BY DEF tempOf, clockOf, at
    <2>3. PICK hot \in readings : hot[2] = sessionStats.peakGPU /\ tempOf(applied, hot) = sessionStats.peak
        BY <2>1 DEF Summary
    <2>4. PICK slow \in readings : slow[2] = sessionStats.minGPU /\ clockOf(applied, slow) = sessionStats.min
        BY <2>1 DEF Summary
    <2>5. /\ temps \subseteq Int /\ sessionStats.peak \in temps /\ \A t \in temps : t <= sessionStats.peak
          /\ clocks \subseteq Int /\ sessionStats.min \in clocks /\ \A c \in clocks : sessionStats.min <= c
        BY <2>1, <2>2, <2>3, <2>4 DEF Summary
    <2> HIDE DEF temps, clocks
    <2>6. sessionStats.peak = Max(temps) /\ sessionStats.min = Min(clocks)
        BY <2>5, MaxOf, MinOf
    <2>7. sessionStats.count = Cardinality(readings)
        BY <2>1 DEF Summary
    <2> QED BY <1>2, <2>2, <2>3, <2>4, <2>6, <2>7 DEF statsAreExtremes, temps, clocks
<1> QED BY <1>1, <1>2

(* Every window a chart draws is the latest samples of its GPU, oldest      *)
(* first, and the session's statistics are those of all applied snapshots   *)
(* (pushHistory, updateSessionStats, ringBuffer).                           *)
THEOREM Trends == Spec => []TrendsAreExact
<1>1. Init => Types /\ RingsTell /\ StatsTell
    <2> SUFFICES ASSUME Init PROVE RingsTell /\ StatsTell
        BY InitTypes
    <2>1. applied = <<>> /\ history = <<>> /\ sessionStats = NoStats
        BY DEF Init
    <2>2. readings = {}
        BY <2>1 DEF readings
    <2>3. ASSUME NEW g PROVE RingTells(g)
        <3>1. sampledAt(g) = {} /\ g \notin DOMAIN history
            BY <2>1 DEF sampledAt
        <3>2. Cap \in Nat /\ Cap > 0 /\ 0 \in Samples
            BY TuiAssumption
        <3>3. Ring!newRingBuffer \in Ring!Rings /\ Ring!newRingBuffer.size = 0
            BY <3>2 DEF Ring!newRingBuffer, Ring!Rings, Ring!Slots
        <3>4. Cardinality(sampledAt(g)) = 0
            BY <3>1, FS_EmptySet
        <3>5. Layout!least(Cap, 0) = 0
            BY <3>2, LeastIs
        <3> QED BY <3>1, <3>3, <3>4, <3>5 DEF RingTells, ringOf
    <2> QED BY <2>1, <2>2, <2>3, FS_EmptySet DEF RingsTell, StatsTell, Summarises
<1>2. Types /\ RingsTell /\ StatsTell /\ [Next]_vars => (Types /\ RingsTell /\ StatsTell)'
    BY NextTypes, NextRings, NextStats
<1>3. Types /\ RingsTell /\ StatsTell => TrendsAreExact
    BY RingsNow, StatsNow DEF TrendsAreExact
<1> QED BY <1>1, <1>2, <1>3, PTL DEF Spec
=============================================================================
