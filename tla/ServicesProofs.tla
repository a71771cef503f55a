---------------------------- MODULE ServicesProofs ---------------------------
(***************************************************************************)
(* Proofs about Services as a whole: the listeners of the event bus, which *)
(* are called in the order that sortListeners makes, the command that a    *)
(* message runs, the waits of the adapter, and the types of all state.     *)
(*                                                                         *)
(* sortListeners is a loop in a loop.  What it makes of a list of any      *)
(* length is proved by induction, which here is a fact about the least     *)
(* element of a set of numbers.                                            *)
(***************************************************************************)
EXTENDS PartsProofs, SequenceTheorems, WellFoundedInduction

-----------------------------------------------------------------------------
(* Induction, and functions that are defined step by step. *)

Below == {p \in Nat \X Nat : p[1] < p[2]}

LEMMA BelowIsWellFounded == IsWellFoundedOn(Below, Nat)
  BY NatLessThanWellFounded DEF OpToRel, Below

LEMMA LeastOf ==
    ASSUME NEW T, T \subseteq Nat, T # {}
    PROVE  \E x \in T : \A y \in T : x <= y
<1>1. PICK x \in T : \A y \in T : ~ (<<y, x>> \in Below)
  BY BelowIsWellFounded, WFMin
<1>2. ASSUME NEW y \in T
      PROVE  x <= y
  <2>1. x \in Nat /\ y \in Nat
    OBVIOUS
  <2>2. ~ (y < x)
    BY <1>1, <2>1 DEF Below
  <2>3. QED
    BY <2>1, <2>2
<1>3. QED
  BY <1>2

(* A set with 0, and with each number up to n whose predecessor is in it. *)
LEMMA UpTo ==
    ASSUME NEW n \in Nat, NEW T, 0 \in T,
           \A k \in 1 .. n : k - 1 \in T => k \in T
    PROVE  0 .. n \subseteq T
<1> SUFFICES ASSUME (0 .. n) \ T # {}
             PROVE  FALSE
  OBVIOUS
<1> DEFINE U == (0 .. n) \ T
<1>1. U \subseteq Nat /\ U # {}
  OBVIOUS
<1>2. PICK x \in U : \A y \in U : x <= y
  BY <1>1, LeastOf
<1>3. x \in 0 .. n /\ x \notin T /\ x # 0
  OBVIOUS
<1>4. x \in 1 .. n /\ x - 1 \in 0 .. n /\ ~ (x <= x - 1)
  BY <1>3
<1>5. x - 1 \in T
  BY <1>2, <1>4
<1>6. QED
  BY <1>3, <1>4, <1>5

(* From a value, n steps lead to a value. *)
LEMMA Steps ==
    ASSUME NEW V, NEW v \in V, NEW n \in Nat, NEW step \in [1 .. n -> [V -> V]]
    PROVE  \E f \in [0 .. n -> V] :
             f[0] = v /\ \A k \in 1 .. n : f[k] = step[k][f[k - 1]]
<1> DEFINE Leads(f, m) == f[0] = v /\ \A k \in 1 .. m : f[k] = step[k][f[k - 1]]
           T == {m \in 0 .. n : \E f \in [0 .. m -> V] : Leads(f, m)}
<1>1. 0 \in T
  <2> DEFINE f == [k \in 0 .. 0 |-> v]
  <2>1. f \in [0 .. 0 -> V] /\ f[0] = v
    OBVIOUS
  <2> HIDE DEF f
  <2>2. 0 \in 0 .. n /\ 1 .. 0 = {}
    OBVIOUS
  <2>3. \E g \in [0 .. 0 -> V] : Leads(g, 0)
    BY <2>1, <2>2
  <2>4. QED
    BY <2>2, <2>3
<1>2. ASSUME NEW m \in 1 .. n, m - 1 \in T
      PROVE  m \in T
  <2>1. PICK f \in [0 .. m - 1 -> V] : Leads(f, m - 1)
    BY <1>2
  <2> DEFINE g == [k \in 0 .. m |-> IF k = m THEN step[m][f[m - 1]] ELSE f[k]]
  <2>2. m \in Nat /\ m - 1 \in 0 .. m - 1 /\ m \in 0 .. n
        /\ \A k \in 0 .. m : k # m => k \in 0 .. m - 1
    OBVIOUS
  <2>3. step[m] \in [V -> V] /\ f[m - 1] \in V
    BY <2>2
  <2>4. step[m][f[m - 1]] \in V
    BY <2>3
  <2>5. \A k \in 0 .. m : g[k] = IF k = m THEN step[m][f[m - 1]] ELSE f[k]
    OBVIOUS
  <2>6. g \in [0 .. m -> V]
    <3>1. \A k \in 0 .. m : (IF k = m THEN step[m][f[m - 1]] ELSE f[k]) \in V
      BY <2>2, <2>4
    <3>2. QED
      BY <3>1
  <2> HIDE DEF g
  <2>7. g[0] = v
    <3>1. 0 \in 0 .. m /\ 0 # m
      BY <2>2
    <3>2. QED
      BY <2>1, <2>5, <3>1
  <2>8. ASSUME NEW k \in 1 .. m
        PROVE  g[k] = step[k][g[k - 1]]
    <3>1. k \in 0 .. m /\ k - 1 \in 0 .. m /\ k - 1 # m
      BY <2>2
    <3>2. g[k - 1] = f[k - 1]
      BY <2>5, <3>1
    <3>3. CASE k = m
      BY <2>5, <3>1, <3>2, <3>3
    <3>4. CASE k # m
      <4>1. k \in 1 .. m - 1
        BY <2>2, <3>4
      <4>2. QED
        BY <2>1, <2>5, <3>1, <3>2, <3>4, <4>1
    <3>5. QED
      BY <3>3, <3>4
  <2>9. QED
    BY <2>2, <2>6, <2>7, <2>8
<1>3. 0 .. n \subseteq T
  <2> HIDE DEF T
  <2>1. QED
    BY <1>1, <1>2, UpTo
<1>4. n \in T
  BY <1>3
<1>5. QED
  BY <1>4

-----------------------------------------------------------------------------
(* sortListeners. *)

\* Lists of n listeners.
Lists(n) == [1 .. n -> Listeners]

LEMMA ExchangedList ==
    ASSUME NEW n \in Nat, NEW t \in Lists(n), NEW i \in 1 .. n, NEW j \in 1 .. n, i # j
    PROVE  LET e == Exchanged(t, i, j) IN
           /\ e \in Lists(n) /\ e[i] = t[j] /\ e[j] = t[i]
           /\ \A k \in 1 .. n : k \notin {i, j} => e[k] = t[k]
  BY DEF Exchanged, Lists

\* The inner loop, as a function from how far it has come to the list.
Inner(s, i, h) ==
    h = [j \in 0 .. Len(s) |->
            IF j = 0 THEN s
            ELSE IF i < j /\ h[j - 1][j].order < h[j - 1][i].order
                 THEN Exchanged(h[j - 1], i, j)
                 ELSE h[j - 1]]

LEMMA InnerLoop ==
    ASSUME NEW n \in Nat, NEW s \in Lists(n), NEW i \in 1 .. n, Len(s) = n
    PROVE  \E h : h \in [0 .. n -> Lists(n)] /\ Inner(s, i, h)
<1> DEFINE Compared(t, j) ==
             IF i < j /\ t[j].order < t[i].order THEN Exchanged(t, i, j) ELSE t
           step == [j \in 1 .. n |-> [t \in Lists(n) |-> Compared(t, j)]]
<1>1. \A j \in 1 .. n : \A t \in Lists(n) : Compared(t, j) \in Lists(n)
  BY ExchangedList
<1>2. step \in [1 .. n -> [Lists(n) -> Lists(n)]]
  BY <1>1
<1>3. \A j \in 1 .. n : \A t \in Lists(n) : step[j][t] = Compared(t, j)
  OBVIOUS
<1> HIDE DEF step
<1>4. PICK h \in [0 .. n -> Lists(n)] :
        h[0] = s /\ \A k \in 1 .. n : h[k] = step[k][h[k - 1]]
  BY <1>2, Steps
<1>5. \A k \in 1 .. n : h[k] = Compared(h[k - 1], k)
  <2>1. \A k \in 1 .. n : k - 1 \in 0 .. n
    OBVIOUS
  <2>2. QED
    BY <1>3, <1>4, <2>1
<1>6. \A j \in 0 .. n : h[j] = IF j = 0 THEN s ELSE Compared(h[j - 1], j)
  <2>1. \A j \in 0 .. n : j = 0 \/ j \in 1 .. n
    OBVIOUS
  <2>2. QED
    BY <1>4, <1>5, <2>1
<1>7. h = [j \in 0 .. n |-> IF j = 0 THEN s ELSE Compared(h[j - 1], j)]
  BY <1>6
<1>8. Inner(s, i, h)
  BY <1>7 DEF Inner
<1>9. QED
  BY <1>8

LEMMA SelectedIsInner ==
    ASSUME NEW s, NEW i, NEW g, Inner(s, i, g)
    PROVE  \E h : Inner(s, i, h) /\ Selected(s, i) = h[Len(s)]
  BY Zenon DEF Selected, Inner

\* The lists t and s hold the same listeners from place i on.
SameFrom(i, n, t, s) ==
    /\ \A k \in i .. n : \E l \in i .. n : t[k] = s[l]
    /\ \A k \in i .. n : \E l \in i .. n : s[k] = t[l]

LEMMA SameIsTransitive ==
    ASSUME NEW i, NEW n, NEW a, NEW b, NEW c,
           SameFrom(i, n, a, b), SameFrom(i, n, b, c)
    PROVE  SameFrom(i, n, a, c)
<1>1. ASSUME NEW k \in i .. n
      PROVE  \E l \in i .. n : a[k] = c[l]
  <2>1. PICK m \in i .. n : a[k] = b[m]
    BY DEF SameFrom
  <2>2. PICK l \in i .. n : b[m] = c[l]
    BY DEF SameFrom
  <2>3. QED
    BY <2>1, <2>2
<1>2. ASSUME NEW k \in i .. n
      PROVE  \E l \in i .. n : c[k] = a[l]
  <2>1. PICK m \in i .. n : c[k] = b[m]
    BY DEF SameFrom
  <2>2. PICK l \in i .. n : b[m] = a[l]
    BY DEF SameFrom
  <2>3. QED
    BY <2>1, <2>2
<1>3. QED
  BY <1>1, <1>2 DEF SameFrom

LEMMA SameListeners ==
    ASSUME NEW n, NEW a, NEW b, DOMAIN a = 1 .. n, DOMAIN b = 1 .. n,
           SameFrom(1, n, a, b)
    PROVE  ToSet(a) = ToSet(b)
<1>1. ASSUME NEW x \in ToSet(a)
      PROVE  x \in ToSet(b)
  <2>1. PICK k \in 1 .. n : x = a[k]
    BY DEF ToSet
  <2>2. PICK l \in 1 .. n : a[k] = b[l]
    BY DEF SameFrom
  <2>3. QED
    BY <2>1, <2>2 DEF ToSet
<1>2. ASSUME NEW x \in ToSet(b)
      PROVE  x \in ToSet(a)
  <2>1. PICK k \in 1 .. n : x = b[k]
    BY DEF ToSet
  <2>2. PICK l \in 1 .. n : b[k] = a[l]
    BY DEF SameFrom
  <2>3. QED
    BY <2>1, <2>2 DEF ToSet
<1>3. QED
  BY <1>1, <1>2

\* What is so of the list t when i has been compared up to j.
InnerGood(s, i, n, t, j) ==
    /\ t \in Lists(n)
    /\ \A k \in 1 .. i - 1 : t[k] = s[k]
    /\ SameFrom(i, n, t, s)
    /\ \A k \in i + 1 .. j : t[i].order <= t[k].order

(* The inner loop leaves alone what is before i, has the rest of the list in *)
(* some order after it, and at i the lowest of the rest.                     *)
LEMMA SelectedIsLowest ==
    ASSUME NEW n \in Nat, NEW s \in Lists(n), NEW i \in 1 .. n, Len(s) = n
    PROVE  InnerGood(s, i, n, Selected(s, i), n)
<1>1. PICK h : Inner(s, i, h) /\ Selected(s, i) = h[n]
  BY InnerLoop, SelectedIsInner
<1> DEFINE T == {j \in 0 .. n : InnerGood(s, i, n, h[j], j)}
<1>2. h[0] = s /\ \A j \in 1 .. n :
        h[j] = IF i < j /\ h[j - 1][j].order < h[j - 1][i].order
               THEN Exchanged(h[j - 1], i, j) ELSE h[j - 1]
  <2>1. h = [j \in 0 .. n |->
            IF j = 0 THEN s
            ELSE IF i < j /\ h[j - 1][j].order < h[j - 1][i].order
                 THEN Exchanged(h[j - 1], i, j)
                 ELSE h[j - 1]]
    BY <1>1 DEF Inner
  <2>2. 0 \in 0 .. n /\ \A j \in 1 .. n : j \in 0 .. n /\ j # 0
    OBVIOUS
  <2>3. QED
    BY <2>1, <2>2
<1>3. 0 \in T
  <2>1. i + 1 .. 0 = {} /\ 0 \in 0 .. n
    OBVIOUS
  <2>2. InnerGood(s, i, n, s, 0)
    BY <2>1 DEF InnerGood, SameFrom
  <2>3. QED
    BY <1>2, <2>1, <2>2
<1>4. ASSUME NEW j \in 1 .. n, j - 1 \in T
      PROVE  j \in T
  <2> DEFINE t == h[j - 1]
  <2>1. InnerGood(s, i, n, t, j - 1) /\ t \in Lists(n)
    BY <1>4 DEF InnerGood
  <2> HIDE DEF t
  <2>2. \A k \in 1 .. n : t[k] \in Listeners /\ t[k].order \in Int
    BY <2>1, BusAssumption DEF Lists
  <2>3. \A k \in i + 1 .. j : k \in i + 1 .. j - 1 \/ k = j
    OBVIOUS
  <2>4. \A k \in i + 1 .. n : k \in 1 .. n
    OBVIOUS
  <2>5. CASE i < j /\ t[j].order < t[i].order
    <3> DEFINE e == Exchanged(t, i, j)
    <3>1. /\ e \in Lists(n) /\ e[i] = t[j] /\ e[j] = t[i]
          /\ \A k \in 1 .. n : k \notin {i, j} => e[k] = t[k]
      <4>1. i # j
        BY <2>5
      <4>2. QED
        BY <2>1, <4>1, ExchangedList
    <3>2. h[j] = e
      BY <1>2, <2>5 DEF t
    <3> HIDE DEF e
    <3>3. \A k \in 1 .. i - 1 : e[k] = s[k]
      <4>1. \A k \in 1 .. i - 1 : k \in 1 .. n /\ k \notin {i, j}
        BY <2>5
      <4>2. QED
        BY <2>1, <3>1, <4>1 DEF InnerGood
    <3>4. SameFrom(i, n, e, t)
      <4>1. i \in i .. n /\ j \in i .. n /\ \A k \in i .. n : k \in 1 .. n
        BY <2>5
      <4>2. \A k \in i .. n : \E l \in i .. n : e[k] = t[l]
        BY <3>1, <4>1
      <4>3. \A k \in i .. n : \E l \in i .. n : t[k] = e[l]
        BY <3>1, <4>1
      <4>4. QED
        BY <4>2, <4>3 DEF SameFrom
    <3>5. ASSUME NEW k \in i + 1 .. j
          PROVE  e[i].order <= e[k].order
      <4>1. CASE k = j
        BY <2>2, <2>5, <3>1, <4>1
      <4>2. CASE k \in i + 1 .. j - 1
        <5>1. k \in 1 .. n /\ k \notin {i, j}
          BY <4>2
        <5>2. t[i].order <= t[k].order
          BY <2>1, <4>2 DEF InnerGood
        <5>3. e[k] = t[k] /\ e[i] = t[j]
          BY <3>1, <5>1
        <5>4. QED
          BY <2>2, <2>5, <5>1, <5>2, <5>3
      <4>3. QED
        BY <2>3, <4>1, <4>2
    <3>6. SameFrom(i, n, e, s)
      BY <2>1, <3>4, SameIsTransitive DEF InnerGood
    <3>7. InnerGood(s, i, n, e, j)
      BY <3>1, <3>3, <3>5, <3>6 DEF InnerGood
    <3>8. QED
      BY <3>2, <3>7
  <2>6. CASE ~ (i < j /\ t[j].order < t[i].order)
    <3>1. h[j] = t
      BY <1>2, <2>6 DEF t
    <3>2. ASSUME NEW k \in i + 1 .. j
          PROVE  t[i].order <= t[k].order
      <4>1. CASE k = j
        BY <2>2, <2>6, <4>1
      <4>2. CASE k \in i + 1 .. j - 1
        BY <2>1, <4>2 DEF InnerGood
      <4>3. QED
        BY <2>3, <4>1, <4>2
    <3>3. InnerGood(s, i, n, t, j)
      BY <2>1, <3>2 DEF InnerGood
    <3>4. QED
      BY <3>1, <3>3
  <2>7. QED
    BY <2>5, <2>6
<1>5. 0 .. n \subseteq T
  <2> HIDE DEF T
  <2>1. QED
    BY <1>3, <1>4, UpTo
<1>6. InnerGood(s, i, n, h[n], n)
  <2>1. n \in T
    BY <1>5
  <2>2. QED
    BY <2>1
<1>7. QED
  BY <1>1, <1>6

\* The outer loop.
Outer(s, h) ==
    h = [i \in 0 .. Len(s) |-> IF i = 0 THEN s ELSE Selected(h[i - 1], i)]

LEMMA OuterLoop ==
    ASSUME NEW n \in Nat, NEW s \in Lists(n), Len(s) = n
    PROVE  \E h : Outer(s, h)
<1> DEFINE step == [i \in 1 .. n |-> [t \in Lists(n) |-> Selected(t, i)]]
<1>1. \A i \in 1 .. n : \A t \in Lists(n) : Selected(t, i) \in Lists(n)
  <2> SUFFICES ASSUME NEW i \in 1 .. n, NEW t \in Lists(n)
               PROVE  Selected(t, i) \in Lists(n)
    OBVIOUS
  <2>1. Len(t) = n
    BY DEF Lists
  <2>2. QED
    BY <2>1, SelectedIsLowest DEF InnerGood
<1>2. step \in [1 .. n -> [Lists(n) -> Lists(n)]]
  BY <1>1
<1>3. \A i \in 1 .. n : \A t \in Lists(n) : step[i][t] = Selected(t, i)
  OBVIOUS
<1> HIDE DEF step
<1>4. PICK h \in [0 .. n -> Lists(n)] :
        h[0] = s /\ \A k \in 1 .. n : h[k] = step[k][h[k - 1]]
  BY <1>2, Steps
<1>5. \A i \in 0 .. n : h[i] = IF i = 0 THEN s ELSE Selected(h[i - 1], i)
  <2>1. \A i \in 0 .. n : i = 0 \/ (i \in 1 .. n /\ i - 1 \in 0 .. n)
    OBVIOUS
  <2>2. \A i \in 1 .. n : i - 1 \in 0 .. n => h[i] = Selected(h[i - 1], i)
    BY <1>3, <1>4
  <2>3. QED
    BY <1>4, <2>1, <2>2
<1>6. h = [i \in 0 .. n |-> IF i = 0 THEN s ELSE Selected(h[i - 1], i)]
  BY <1>5
<1>7. QED
  BY <1>6 DEF Outer

LEMMA SortedIsOuter ==
    ASSUME NEW s, NEW g, Outer(s, g)
    PROVE  \E h : Outer(s, h) /\ Sorted(s) = h[Len(s)]
  BY Zenon DEF Sorted, Outer

\* What is so of the list t when the places up to i are filled.
OuterGood(s, n, t, i) ==
    /\ t \in Lists(n)
    /\ SameFrom(1, n, t, s)
    /\ \A a \in 1 .. i : \A b \in a + 1 .. n : t[a].order <= t[b].order

(* sortListeners loses and invents no listener, and puts those with a lower *)
(* Order first.                                                             *)
LEMMA SortedIsInOrder ==
    ASSUME NEW s \in Seq(Listeners)
    PROVE  LET r == Sorted(s) IN
           /\ r \in Seq(Listeners) /\ Len(r) = Len(s) /\ ToSet(r) = ToSet(s)
           /\ \A i, j \in DOMAIN r : i < j => r[i].order <= r[j].order
<1> DEFINE n == Len(s)
<1>1. n \in Nat /\ s \in Lists(n) /\ Len(s) = n
  BY DEF Lists
<1> HIDE DEF n
<1>2. PICK h : Outer(s, h) /\ Sorted(s) = h[n]
  BY <1>1, OuterLoop, SortedIsOuter
<1> DEFINE T == {i \in 0 .. n : OuterGood(s, n, h[i], i)}
<1>3. h[0] = s /\ \A i \in 1 .. n : h[i] = Selected(h[i - 1], i)
  <2>1. h = [i \in 0 .. n |-> IF i = 0 THEN s ELSE Selected(h[i - 1], i)]
    BY <1>1, <1>2 DEF Outer
  <2>2. 0 \in 0 .. n /\ \A i \in 1 .. n : i \in 0 .. n /\ i # 0
    BY <1>1
  <2>3. QED
    BY <2>1, <2>2
<1>4. 0 \in T
  <2>1. 1 .. 0 = {} /\ 0 \in 0 .. n
    BY <1>1
  <2>2. OuterGood(s, n, s, 0)
    BY <1>1, <2>1 DEF OuterGood, SameFrom
  <2>3. QED
    BY <1>3, <2>1, <2>2
<1>5. ASSUME NEW i \in 1 .. n, i - 1 \in T
      PROVE  i \in T
  <2> DEFINE t == h[i - 1]
             r == Selected(t, i)
  <2>1. OuterGood(s, n, t, i - 1) /\ t \in Lists(n)
    BY <1>5 DEF OuterGood
  <2>2. h[i] = r
    BY <1>3
  <2> HIDE DEF t
  <2>3. InnerGood(t, i, n, r, n)
    <3>1. Len(t) = n
      BY <1>1, <2>1 DEF Lists
    <3>2. QED
      BY <1>1, <2>1, <3>1, SelectedIsLowest
  <2> HIDE DEF r
  <2>4. \A k \in 1 .. n : k \in 1 .. i - 1 \/ k \in i .. n
    BY <1>1
  <2>5. SameFrom(1, n, r, t)
    <3>1. \A k \in i .. n : k \in 1 .. n
      BY <1>1
    <3>2. \A k \in 1 .. i - 1 : r[k] = t[k]
      BY <2>3 DEF InnerGood
    <3>3. /\ \A k \in i .. n : \E l \in i .. n : r[k] = t[l]
          /\ \A k \in i .. n : \E l \in i .. n : t[k] = r[l]
      BY <2>3 DEF InnerGood, SameFrom
    <3>4. /\ \A k \in 1 .. n : \E l \in 1 .. n : r[k] = t[l]
          /\ \A k \in 1 .. n : \E l \in 1 .. n : t[k] = r[l]
      BY <2>4, <3>1, <3>2, <3>3
    <3>5. QED
      BY <3>4 DEF SameFrom
  <2>6. ASSUME NEW a \in 1 .. i, NEW b \in a + 1 .. n
        PROVE  r[a].order <= r[b].order
    <3>1. CASE a = i
      BY <2>3, <3>1 DEF InnerGood
    <3>2. CASE a # i
      <4>1. a \in 1 .. i - 1 /\ b \in 1 .. n /\ \A c \in i .. n : c \in a + 1 .. n
        BY <1>1, <3>2
      <4>2. CASE b \in 1 .. i - 1
        BY <2>1, <2>3, <4>1, <4>2 DEF InnerGood, OuterGood
      <4>3. CASE b \in i .. n
        <5>1. PICK c \in i .. n : r[b] = t[c]
          BY <2>3, <4>3 DEF InnerGood, SameFrom
        <5>2. r[a] = t[a] /\ t[a].order <= t[c].order
          BY <2>1, <2>3, <4>1 DEF InnerGood, OuterGood
        <5>3. QED
          BY <5>1, <5>2
      <4>4. QED
        BY <2>4, <4>1, <4>2, <4>3
    <3>3. QED
      BY <3>1, <3>2
  <2>7. OuterGood(s, n, r, i)
    <3>1. SameFrom(1, n, r, s)
      BY <2>1, <2>5, SameIsTransitive DEF OuterGood
    <3>2. r \in Lists(n)
      BY <2>3 DEF InnerGood
    <3>3. QED
      BY <2>6, <3>1, <3>2 DEF OuterGood
  <2>8. i \in 0 .. n
    BY <1>1
  <2>9. QED
    BY <2>2, <2>7, <2>8
<1>6. 0 .. n \subseteq T
  <2> HIDE DEF T
  <2>1. QED
    BY <1>1, <1>4, <1>5, UpTo
<1> DEFINE r == Sorted(s)
<1>7. OuterGood(s, n, r, n)
  <2>1. n \in T
    <3>1. n \in 0 .. n
      BY <1>1
    <3> HIDE DEF T
    <3>2. QED
      BY <1>6, <3>1
  <2>2. QED
    BY <1>2, <2>1
<1> HIDE DEF r
<1>8. r \in Seq(Listeners) /\ Len(r) = n /\ DOMAIN r = 1 .. n
  BY <1>1, <1>7 DEF Lists, OuterGood
<1>9. ToSet(r) = ToSet(s)
  <2>1. DOMAIN s = 1 .. n
    BY <1>1
  <2>2. SameFrom(1, n, r, s)
    BY <1>7 DEF OuterGood
  <2>3. QED
    BY <1>8, <2>1, <2>2, SameListeners
<1>10. ASSUME NEW i \in DOMAIN r, NEW j \in DOMAIN r, i < j
       PROVE  r[i].order <= r[j].order
  <2>1. i \in 1 .. n /\ j \in i + 1 .. n
    BY <1>1, <1>8, <1>10
  <2>2. QED
    BY <1>7, <2>1 DEF OuterGood
<1>11. QED
  BY <1>1, <1>8, <1>9, <1>10 DEF r

-----------------------------------------------------------------------------
(* Steps of the loop, the router and the bus. *)

(* What is no step of the loop, and no registration, leaves the loop, the   *)
(* router and the bus alone, unless it closes the bus.                      *)
LEMMA LoopFrame ==
    ASSUME [Next]_vars
    PROVE  /\ \/ LoopStep \/ Edit \/ CloseServices
              \/ UNCHANGED <<loopVars, routerVars, busVars, edits>>
           /\ cancelled' \in {cancelled, TRUE}
<1>1. CASE UNCHANGED vars
  BY <1>1 DEF vars, shutdownVars
<1>2. CASE LoopStep
  <2>1. UNCHANGED OtherThanLoop
    BY <1>2 DEF LoopStep, HandlerStep, TakeMessage, TakeGuildEvent, Route,
      RunCommand, Listen, Return, Hang, Abandon
  <2>2. QED
    BY <1>2, <2>1 DEF OtherThanLoop, shutdownVars
<1>3. CASE Edit
  BY <1>3 DEF Edit
<1>4. CASE Stream \/ \E t \in Tellers : Publish(t)
  BY <1>4 DEF Stream, Publish, OtherThanLoop, shutdownVars
<1>5. CASE Schedule \/ Serve \/ Restart \/ Session
  BY <1>5 DEF Schedule, Serve, Restart, Session, OtherThanSchedule, shutdownVars
<1>6. CASE Cache \/ Time
  BY <1>6 DEF Cache, Time, shutdownVars
<1>7. CASE Shutdown
  BY <1>7 DEF Shutdown, Signal, StopScheduler, StopSession, Cancel,
    CloseServices, OtherThanSchedule, shutdownVars
<1>8. QED
  BY <1>1, <1>2, <1>3, <1>4, <1>5, <1>6, <1>7 DEF Next

(* A step of the loop leaves the rest alone. *)
LEMMA LoopStepFrame ==
    ASSUME LoopStep
    PROVE  UNCHANGED <<routerVars, busVars, edits, cron, clock>>
  BY DEF LoopStep, HandlerStep, TakeMessage, TakeGuildEvent, Route, RunCommand,
    Listen, Return, Hang, Abandon, OtherThanLoop, shutdownVars, schedulerVars

(* The scheduler is started once. *)
LEMMA CronStays ==
    ASSUME [Next]_vars, cron # "none"
    PROVE  cron' # "none"
<1>1. SchedulerNext => cron' # "none"
  BY DEF SchedulerNext, SchedulerStep, Start, Every, Fire, JobStep, AskStop,
    StopLock, StopReturn
<1>2. QED
  BY <1>1, SchedulerFrame DEF schedulerVars

-----------------------------------------------------------------------------
(* The lists of the bus. *)

BusInv ==
    /\ BusTypeOK
    /\ \A t \in EventTypes : IsInjective(listeners[t])

LEMMA ListOfSet ==
    ASSUME NEW S, IsFiniteSet(S)
    PROVE  SetToSeq(S) \in Seq(S) /\ IsInjective(SetToSeq(S))
<1>1. Cardinality(S) \in Nat /\ ExistsBijection(1 .. Cardinality(S), S)
  BY FS_CardinalityType
<1>2. \E f \in [1 .. Cardinality(S) -> S] : IsInjective(f)
  BY <1>1 DEF ExistsBijection, Bijection, Injection
<1>3. SetToSeq(S) \in [1 .. Cardinality(S) -> S] /\ IsInjective(SetToSeq(S))
  BY <1>2 DEF SetToSeq
<1>4. QED
  BY <1>1, <1>3

LEMMA NoListeners == <<>> \in Seq(Listeners) /\ IsInjective(<<>>)
  BY DEF IsInjective

(* A list without repetition is as long as the set of its elements. *)
LEMMA ListIsCounted ==
    ASSUME NEW S, NEW s \in Seq(S), IsInjective(s)
    PROVE  Cardinality(ToSet(s)) = Len(s)
<1>1. Len(s) \in Nat /\ DOMAIN s = 1 .. Len(s)
  OBVIOUS
<1>2. s \in [1 .. Len(s) -> ToSet(s)]
  BY <1>1 DEF ToSet
<1>3. \A x \in ToSet(s) : \E i \in 1 .. Len(s) : s[i] = x
  BY <1>1 DEF ToSet
<1>4. s \in Bijection(1 .. Len(s), ToSet(s))
  BY <1>2, <1>3 DEF Bijection, Injection, Surjection
<1>5. QED
  BY <1>1, <1>4, FS_CountingElements DEF ExistsBijection

LEMMA BusInitInv == Init => BusInv
<1> SUFFICES ASSUME Init
             PROVE  BusInv
  OBVIOUS
<1>1. BusInit(ListenersHere) /\ ListenersHere \subseteq Listeners
  BY DEF Init, ListenersHere
<1>2. ASSUME NEW t \in EventTypes
      PROVE  /\ SetToSeq({l \in ListenersHere : l.event = t}) \in Seq(Listeners)
             /\ IsInjective(SetToSeq({l \in ListenersHere : l.event = t}))
  <2> DEFINE S == {l \in ListenersHere : l.event = t}
  <2>1. S \in SUBSET Listeners
    BY <1>1
  <2>2. IsFiniteSet(S)
    BY <2>1, BusAssumption, FS_Subset
  <2>3. SetToSeq(S) \in Seq(S) /\ IsInjective(SetToSeq(S))
    BY <2>2, ListOfSet
  <2> HIDE DEF S
  <2>4. SetToSeq(S) \in Seq(Listeners)
    BY <2>1, <2>3
  <2>5. QED
    BY <2>3, <2>4 DEF S
<1>3. /\ listeners = [t \in EventTypes |-> SetToSeq({l \in ListenersHere : l.event = t})]
      /\ closed = FALSE
  BY <1>1 DEF BusInit
<1>4. QED
  BY <1>2, <1>3 DEF BusInv, BusTypeOK

LEMMA BusInvStep ==
    ASSUME BusInv, [Next]_vars
    PROVE  BusInv'
<1>1. /\ listeners \in [EventTypes -> Seq(Listeners)] /\ closed \in BOOLEAN
      /\ \A t \in EventTypes : IsInjective(listeners[t])
  BY DEF BusInv, BusTypeOK
<1>2. CASE UNCHANGED busVars
  BY <1>2 DEF busVars, BusInv, BusTypeOK
<1>3. ASSUME NEW l \in Listeners, Subscribe(l)
      PROVE  BusInv'
  <2> DEFINE s == listeners[l.event]
             u == Append(s, l)
  <2>1. /\ s \in Seq(Listeners) /\ IsInjective(s) /\ l.event \in EventTypes
        /\ l \notin ToSet(s)
        /\ listeners' = [listeners EXCEPT ![l.event] = u] /\ closed' = closed
    BY <1>1, <1>3, BusAssumption DEF Subscribe, Subscribed
  <2> HIDE DEF s
  <2>2. /\ u \in Seq(Listeners) /\ Len(s) \in Nat
        /\ DOMAIN s = 1 .. Len(s) /\ DOMAIN u = 1 .. Len(s) + 1
        /\ u[Len(s) + 1] = l /\ \A i \in 1 .. Len(s) : u[i] = s[i]
    BY <2>1
  <2> HIDE DEF u
  <2>3. \A i \in 1 .. Len(s) : s[i] # l
    BY <2>1, <2>2 DEF ToSet
  <2>4. \A i \in 1 .. Len(s) + 1 : i \in 1 .. Len(s) \/ i = Len(s) + 1
    BY <2>2
  <2>5. IsInjective(u)
    BY <2>1, <2>2, <2>3, <2>4 DEF IsInjective
  <2>6. QED
    BY <1>1, <2>1, <2>2, <2>5 DEF BusInv, BusTypeOK
<1>4. ASSUME NEW t \in EventTypes, Unsubscribe(t)
      PROVE  BusInv'
  BY <1>1, <1>4, NoListeners DEF Unsubscribe, BusInv, BusTypeOK
<1>5. CASE CloseServices
  BY <1>1, <1>5, NoListeners DEF CloseServices, CloseBus, BusInv, BusTypeOK
<1>6. CASE Edit
  BY <1>2, <1>3, <1>4, <1>6 DEF Edit
<1>7. CASE LoopStep
  BY <1>2, <1>7, LoopStepFrame
<1>8. QED
  BY <1>2, <1>5, <1>6, <1>7, LoopFrame

(* What Publish has copied and sorted is everyone who is subscribed, once,  *)
(* and in order.                                                            *)
LEMMA HeardInOrder ==
    ASSUME BusInv, NEW t \in EventTypes
    PROVE  LET s == Sorted(listeners[t]) IN
           /\ s \in Seq(Listeners) /\ ToSet(s) = ToSet(listeners[t])
           /\ Len(s) = Cardinality(ToSet(listeners[t]))
           /\ \A i, j \in DOMAIN s : i < j => s[i].order <= s[j].order
<1>1. listeners[t] \in Seq(Listeners) /\ IsInjective(listeners[t])
  BY DEF BusInv, BusTypeOK
<1>2. Cardinality(ToSet(listeners[t])) = Len(listeners[t])
  BY <1>1, ListIsCounted
<1>3. QED
  BY <1>1, <1>2, SortedIsInOrder

-----------------------------------------------------------------------------
(* The maps of the router. *)

\* A command is under its name; and while no name and no alias has been
\* registered twice, an alias leads to the command that has it.
NamesInv ==
    /\ \A w \in Words : commands[w] # NoCommand => commands[w].name = w
    /\ ~ clash => \A a \in Words : aliases[a] # NoCommand =>
           /\ commands[aliases[a]] # NoCommand
           /\ a \in ToSet(commands[aliases[a]].aliases)
    /\ ~ clash => \A w \in Words : commands[w] # NoCommand =>
           \A a \in ToSet(commands[w].aliases) : aliases[a] = w

RouterInv == RouterTypeOK /\ NamesInv

LEMMA CommandFacts ==
    ASSUME NEW c \in Commands
    PROVE  /\ c.name \in Words /\ c.aliases \in Seq(Words) /\ c.level \in Levels
           /\ ToSet(c.aliases) \subseteq Words
<1>1. c.name \in Words /\ c.aliases \in Seq(Words) /\ c.level \in Levels
  BY RouterAssumption
<1>2. ToSet(c.aliases) \subseteq Words
  BY <1>1 DEF ToSet
<1>3. QED
  BY <1>1, <1>2

LEMMA RouterInitInv == Init => RouterInv
<1> SUFFICES ASSUME Init
             PROVE  RouterInv
  OBVIOUS
<1>1. RouterInit
  BY DEF Init
<1>2. PICK f \in Configs : permissions = Normalized(f)
  BY <1>1 DEF RouterInit
<1>3. DOMAIN f \subseteq Words /\ \A w \in DOMAIN f : f[w] \in Levels
  BY RouterAssumption
<1>4. AnyLevel \in Levels
  BY DEF AnyLevel, Levels, LevelItems, Rank
<1>5. /\ DOMAIN permissions = DOMAIN f
      /\ \A w \in DOMAIN f : permissions[w] \in {f[w], AnyLevel}
  BY <1>2 DEF Normalized
<1>6. DOMAIN permissions \subseteq Words
      /\ \A w \in DOMAIN permissions : permissions[w] \in Levels
  BY <1>3, <1>4, <1>5
<1>7. QED
  BY <1>1, <1>6 DEF RouterInit, RouterInv, RouterTypeOK, NamesInv, CommandOr

LEMMA RegisterKeeps ==
    ASSUME RouterInv, NEW c \in Commands, Register(c)
    PROVE  RouterInv'
<1>1. /\ commands \in [Words -> CommandOr]
      /\ aliases \in [Words -> Words \cup {NoCommand}]
      /\ clash \in BOOLEAN
  BY DEF RouterInv, RouterTypeOK
<1>2. /\ c.name \in Words /\ ToSet(c.aliases) \subseteq Words /\ c # NoCommand
      /\ NoCommand \notin Words
  BY CommandFacts, RouterAssumption
<1>3. /\ commands' = [commands EXCEPT ![c.name] = c]
      /\ aliases' = [w \in Words |->
            IF w \in ToSet(c.aliases) THEN c.name ELSE aliases[w]]
      /\ clash' = (clash \/ commands[c.name] # NoCommand
                       \/ \E w \in ToSet(c.aliases) : aliases[w] # NoCommand)
      /\ permissions' = permissions
  BY DEF Register
<1>4. RouterTypeOK'
  <2>1. commands' \in [Words -> CommandOr]
    BY <1>1, <1>3 DEF CommandOr
  <2>2. aliases' \in [Words -> Words \cup {NoCommand}]
    BY <1>1, <1>2, <1>3
  <2>3. clash' \in BOOLEAN
    BY <1>3
  <2>4. QED
    BY <1>3, <2>1, <2>2, <2>3 DEF RouterInv, RouterTypeOK
<1>5. /\ commands'[c.name] = c
      /\ \A w \in Words : w # c.name => commands'[w] = commands[w]
      /\ \A a \in ToSet(c.aliases) : aliases'[a] = c.name
      /\ \A a \in Words : a \notin ToSet(c.aliases) => aliases'[a] = aliases[a]
  BY <1>1, <1>2, <1>3
<1>6. \A w \in Words : commands'[w] # NoCommand => commands'[w].name = w
  BY <1>5 DEF RouterInv, NamesInv
<1>7. ASSUME ~ clash'
      PROVE  /\ ~ clash /\ commands[c.name] = NoCommand
             /\ \A a \in ToSet(c.aliases) : aliases[a] = NoCommand
  BY <1>3, <1>7
<1>8. ASSUME ~ clash', NEW a \in Words, aliases'[a] # NoCommand
      PROVE  /\ commands'[aliases'[a]] # NoCommand
             /\ a \in ToSet(commands'[aliases'[a]].aliases)
  <2>1. CASE a \in ToSet(c.aliases)
    BY <1>2, <1>5, <2>1
  <2>2. CASE a \notin ToSet(c.aliases)
    <3>1. aliases'[a] = aliases[a] /\ aliases[a] \in Words
      BY <1>1, <1>5, <1>8, <2>2
    <3>2. /\ commands[aliases[a]] # NoCommand
          /\ a \in ToSet(commands[aliases[a]].aliases)
      BY <1>7, <1>8, <3>1 DEF RouterInv, NamesInv
    <3>3. aliases[a] # c.name
      BY <1>7, <1>8, <3>2
    <3>4. QED
      BY <1>5, <3>1, <3>2, <3>3
  <2>3. QED
    BY <2>1, <2>2
<1>9. ASSUME ~ clash', NEW w \in Words, commands'[w] # NoCommand,
             NEW a \in ToSet(commands'[w].aliases)
      PROVE  aliases'[a] = w
  <2>1. CASE w = c.name
    BY <1>5, <1>9, <2>1
  <2>2. CASE w # c.name
    <3>1. commands'[w] = commands[w] /\ commands[w] \in Commands
      BY <1>1, <1>5, <1>9, <2>2 DEF CommandOr
    <3>2. a \in Words
      BY <1>9, <3>1, CommandFacts
    <3>3. aliases[a] = w
      BY <1>7, <1>9, <3>1 DEF RouterInv, NamesInv
    <3>4. a \notin ToSet(c.aliases)
      BY <1>2, <1>7, <1>9, <3>3
    <3>5. QED
      BY <1>5, <3>2, <3>3, <3>4
  <2>3. QED
    BY <2>1, <2>2
<1>10. QED
  BY <1>4, <1>6, <1>8, <1>9 DEF RouterInv, NamesInv

LEMMA UnregisterKeeps ==
    ASSUME RouterInv, NEW w \in Words, Unregister(w)
    PROVE  RouterInv'
<1> DEFINE gone == ToSet(commands[w].aliases)
<1>1. /\ commands \in [Words -> CommandOr]
      /\ aliases \in [Words -> Words \cup {NoCommand}]
  BY DEF RouterInv, RouterTypeOK
<1>2. /\ commands[w] # NoCommand
      /\ commands' = [commands EXCEPT ![w] = NoCommand]
      /\ aliases' = [a \in Words |-> IF a \in gone THEN NoCommand ELSE aliases[a]]
      /\ UNCHANGED <<permissions, clash>>
  BY DEF Unregister
<1>3. RouterTypeOK'
  <2>1. commands' \in [Words -> CommandOr]
    BY <1>1, <1>2 DEF CommandOr
  <2>2. aliases' \in [Words -> Words \cup {NoCommand}]
    BY <1>1, <1>2
  <2>3. QED
    BY <1>2, <2>1, <2>2 DEF RouterInv, RouterTypeOK
<1>4. /\ commands'[w] = NoCommand
      /\ \A v \in Words : v # w => commands'[v] = commands[v]
      /\ \A a \in Words : aliases'[a] = IF a \in gone THEN NoCommand ELSE aliases[a]
  BY <1>1, <1>2
<1>5. \A v \in Words : commands'[v] # NoCommand => commands'[v].name = v
  BY <1>4 DEF RouterInv, NamesInv
<1>6. ASSUME ~ clash, NEW a \in Words, aliases'[a] # NoCommand
      PROVE  /\ commands'[aliases'[a]] # NoCommand
             /\ a \in ToSet(commands'[aliases'[a]].aliases)
  <2>1. aliases'[a] = aliases[a] /\ a \notin gone /\ aliases[a] \in Words
    BY <1>1, <1>4, <1>6
  <2>2. commands[aliases[a]] # NoCommand /\ a \in ToSet(commands[aliases[a]].aliases)
    BY <1>6, <2>1 DEF RouterInv, NamesInv
  <2>3. aliases[a] # w
    BY <2>1, <2>2
  <2>4. QED
    BY <1>4, <2>1, <2>2, <2>3
<1>7. ASSUME ~ clash, NEW v \in Words, commands'[v] # NoCommand,
             NEW a \in ToSet(commands'[v].aliases)
      PROVE  aliases'[a] = v
  <2>1. v # w /\ commands'[v] = commands[v] /\ commands[v] \in Commands
    BY <1>1, <1>4, <1>7 DEF CommandOr
  <2>2. a \in Words
    BY <1>7, <2>1, CommandFacts
  <2>3. aliases[a] = v
    BY <1>7, <2>1 DEF RouterInv, NamesInv
  <2>4. a \notin gone
    BY <1>2, <1>7, <2>1, <2>3 DEF RouterInv, NamesInv
  <2>5. QED
    BY <1>4, <2>2, <2>3, <2>4
<1>8. QED
  BY <1>2, <1>3, <1>5, <1>6, <1>7 DEF RouterInv, NamesInv

LEMMA RouterInvStep ==
    ASSUME RouterInv, [Next]_vars
    PROVE  RouterInv'
<1>1. CASE UNCHANGED routerVars
  BY <1>1 DEF routerVars, RouterInv, RouterTypeOK, NamesInv
<1>2. CASE Edit
  BY <1>1, <1>2, RegisterKeeps, UnregisterKeeps DEF Edit
<1>3. CASE LoopStep \/ CloseServices
  BY <1>1, <1>3, LoopStepFrame DEF CloseServices
<1>4. QED
  BY <1>1, <1>2, <1>3, LoopFrame

-----------------------------------------------------------------------------
(* The checker. *)

(* A role is allowed if it is one that the level admits, but for a list    *)
(* with public in it, of which the role must be a member all the same.     *)
LEMMA AllowedAreAdmitted ==
    ASSUME NEW level \in Levels, NEW role \in Roles
    PROVE  Allowed(level, role) <=>
             /\ role \in Admits(level)
             /\ level.mode = "list" => role \in level.of \cup {""}
<1>1. DOMAIN Rank = {"owner", "admin", "member", "public"}
  BY DEF Rank
<1>2. role \in {"owner", "admin", "member", ""}
  BY DEF Roles
<1>3. CASE level.mode = "list"
  <2>1. level.of \subseteq {"owner", "admin", "member", "public",
                            "owner_exact", "unknown"}
    BY <1>1, <1>3 DEF Levels, LevelItems
  <2>2. Allowed(level, role)
          <=> role \in level.of \/ (role \notin DOMAIN Rank /\ "public" \in level.of)
    BY <1>3 DEF Allowed
  <2>3. Admits(level) =
            IF "public" \in level.of THEN Roles
            ELSE level.of \cap {"owner", "admin", "member"}
    BY <1>3 DEF Admits
  <2>4. QED
    BY <1>1, <1>2, <1>3, <2>1, <2>2, <2>3 DEF Roles
<1>4. CASE level.mode # "list"
  <2>1. /\ level.mode \in {"least", "exact"}
        /\ \E i \in LevelItems : level.of = {i}
    BY <1>4 DEF Levels
  <2>2. PICK i \in LevelItems : level.of = {i}
    BY <2>1
  <2>3. (CHOOSE b \in level.of : TRUE) = i
    BY <2>2
  <2>4. i \in {"owner", "admin", "member", "public", "owner_exact", "unknown"}
    BY <1>1 DEF LevelItems
  <2>5. Allowed(level, role) <=>
         \/ i \notin DOMAIN Rank
         \/ Rank[i] >= Rank["public"]
         \/ /\ role \in DOMAIN Rank
            /\ IF level.mode = "exact" THEN Rank[role] = Rank[i]
               ELSE Rank[role] <= Rank[i]
    BY <1>4, <2>3 DEF Allowed
  <2>6. /\ i = "owner" => Admits(level) = {"owner"}
        /\ i = "admin" => Admits(level) =
             IF level.mode = "exact" THEN {"admin"} ELSE {"owner", "admin"}
        /\ i = "member" => Admits(level) =
             IF level.mode = "exact" THEN {"member"} ELSE {"owner", "admin", "member"}
        /\ i \in {"public", "owner_exact", "unknown"} => Admits(level) = Roles
    BY <1>4, <2>2 DEF Admits
  <2>7. Rank["owner"] = 0 /\ Rank["admin"] = 1 /\ Rank["member"] = 2 /\ Rank["public"] = 3
    BY DEF Rank
  <2>8. CASE i \in {"owner_exact", "unknown"}
    <3>1. i \notin DOMAIN Rank
      BY <1>1, <2>8
    <3>2. QED
      BY <1>4, <2>5, <2>6, <2>8, <3>1
  <2>9. CASE i = "public"
    <3>1. Rank[i] >= Rank["public"]
      BY <2>7, <2>9
    <3>2. QED
      BY <1>4, <2>5, <2>6, <2>9, <3>1
  <2>10. CASE i \in {"owner", "admin", "member"}
    <3>1. i \in DOMAIN Rank /\ ~ (Rank[i] >= Rank["public"])
      BY <1>1, <2>7, <2>10
    <3>2. CASE role = ""
      <4>1. role \notin DOMAIN Rank
        BY <1>1, <3>2
      <4>2. Admits(level) \subseteq {"owner", "admin", "member"}
        <5>1. CASE i = "owner"
          BY <2>6, <5>1
        <5>2. CASE i = "admin"
          BY <2>6, <5>2
        <5>3. CASE i = "member"
          BY <2>6, <5>3
        <5>4. QED
          BY <2>10, <5>1, <5>2, <5>3
      <4>3. QED
        BY <1>4, <2>5, <3>1, <3>2, <4>1, <4>2
    <3>3. CASE role \in {"owner", "admin", "member"}
      <4>1. role \in DOMAIN Rank
        BY <1>1, <3>3
      <4>2. Allowed(level, role) <=>
              IF level.mode = "exact" THEN Rank[role] = Rank[i]
              ELSE Rank[role] <= Rank[i]
        BY <2>5, <3>1, <4>1
      <4>3. CASE level.mode = "exact"
        <5>1. Rank[role] = Rank[i] <=> role = i
          BY <2>7, <2>10, <3>3
        <5>2. Admits(level) = {i}
          BY <2>6, <2>10, <4>3
        <5>3. QED
          BY <1>4, <4>2, <4>3, <5>1, <5>2
      <4>4. CASE level.mode # "exact"
        <5>1. Rank[role] <= Rank[i] <=>
                \/ role = "owner" \/ i = "member"
                \/ i = "admin" /\ role = "admin"
          BY <2>7, <2>10, <3>3
        <5>2. role \in Admits(level) <=>
                \/ role = "owner" \/ i = "member"
                \/ i = "admin" /\ role = "admin"
          BY <2>6, <2>10, <3>3, <4>4
        <5>3. QED
          BY <1>4, <4>2, <4>4, <5>1, <5>2
      <4>5. QED
        BY <4>3, <4>4
    <3>4. QED
      BY <1>2, <3>2, <3>3
  <2>11. QED
    BY <2>4, <2>8, <2>9, <2>10
<1>5. QED
  BY <1>3, <1>4

(* The level that is required of a command is one of those there are. *)
LEMMA RequiredIsALevel ==
    ASSUME RouterTypeOK, NEW c \in Commands
    PROVE  Required(c) \in Levels
<1> DEFINE names == Names(c)
           listed == Listed(c)
<1>1. c.name \in Words /\ c.aliases \in Seq(Words) /\ c.level \in Levels
  BY CommandFacts
<1>2. names \in Seq(Words)
  BY <1>1 DEF Names
<1>3. listed \subseteq Nat
  BY <1>2 DEF Listed
<1>4. CASE listed = {}
  BY <1>1, <1>4 DEF Required
<1>5. CASE listed # {}
  <2>1. Min(listed) \in listed
    <3> HIDE DEF listed
    <3>1. \E x \in listed : \A y \in listed : x <= y
      BY <1>3, <1>5, LeastOf
    <3>2. QED
      BY <3>1 DEF Min
  <2>2. names[Min(listed)] \in DOMAIN permissions
    BY <2>1 DEF Listed
  <2>3. Required(c) = permissions[names[Min(listed)]]
    BY <1>5 DEF Required
  <2> HIDE DEF listed, names
  <2>4. QED
    BY <2>2, <2>3 DEF RouterTypeOK
<1>6. QED
  BY <1>4, <1>5

\* The refusals the comments of the checker know, and the two they do not.
Refused(c, role) ==
    \/ role \notin Admits(Documented(c))
    \/ Unlisted(c, role)
    \/ NotInTheList(c, role)

(* There are no others. *)
LEMMA RefusedAreNotAllowed ==
    ASSUME RouterTypeOK, NEW c \in Commands, NEW role \in Roles
    PROVE  Allowed(Required(c), role) <=> ~ Refused(c, role)
<1> DEFINE level == Required(c)
<1>1. Allowed(level, role) <=>
         /\ role \in Admits(level)
         /\ level.mode = "list" => role \in level.of \cup {""}
  BY RequiredIsALevel, AllowedAreAdmitted
<1>2. NotInTheList(c, role) <=>
         ~ (level.mode = "list" => role \in level.of \cup {""})
  BY DEF NotInTheList
<1>3. CASE Listed(c) = {}
  <2>1. level = c.level /\ Documented(c) = AnyLevel
    BY <1>3 DEF Required, Documented
  <2>2. role \in Admits(AnyLevel)
    BY DEF Admits, AnyLevel
  <2>3. Unlisted(c, role) <=> role \notin Admits(level)
    BY <1>3, <2>1 DEF Unlisted
  <2>4. Refused(c, role) <=> Unlisted(c, role) \/ NotInTheList(c, role)
    BY <2>1, <2>2 DEF Refused
  <2>5. QED
    BY <1>1, <1>2, <2>3, <2>4
<1>4. CASE Listed(c) # {}
  <2>1. Documented(c) = level /\ ~ Unlisted(c, role)
    BY <1>4 DEF Documented, Unlisted
  <2>2. Refused(c, role) <=> role \notin Admits(level) \/ NotInTheList(c, role)
    BY <2>1 DEF Refused
  <2>3. QED
    BY <1>1, <1>2, <2>2
<1>5. QED
  BY <1>3, <1>4

(* They depend on the settings alone. *)
LEMMA SameRefusals ==
    ASSUME UNCHANGED permissions
    PROVE  \A c, role : Refused(c, role)' <=> Refused(c, role)
<1>1. \A c : Listed(c)' = Listed(c)
  BY DEF Listed
<1>2. \A c : Required(c)' = Required(c)
  BY <1>1 DEF Required
<1>3. QED
  BY <1>1, <1>2 DEF Refused, Documented, Unlisted, NotInTheList

-----------------------------------------------------------------------------
(* The event loop and its handlers. *)

LoopTypeOK ==
    /\ handlers \in [Slots -> Handler \cup {None}]
    /\ loop \in Slots \cup {None}
    /\ ops \in 0 .. MaxOps /\ edits \in 0 .. MaxEdits
    /\ cancelled \in BOOLEAN

\* Who runs was started by a bot that has begun to run, and before it is
\* routed it has listened to nothing.
RunningInv ==
    \A s \in Slots : Running(s) =>
        /\ cron # "none"
        /\ handlers[s].pc = "route" => handlers[s].ran = <<>>

\* What was found out about one handler.
Meant(h) ==
    h.op = "message" /\ h.pc # "route" =>
        /\ clash \/ (h.cmd = NoCommand <=> h.meant = {})
        /\ h.cmd # NoCommand =>
             /\ clash \/ h.cmd \in h.meant
             /\ \A c \in h.meant : c.name = h.word => h.cmd = c
             /\ h.pc = "denied" <=> Refused(h.cmd, h.role)

InOrder(h) ==
    LET all == h.ran \o h.left IN
    /\ Len(all) = Cardinality(h.heard) /\ ToSet(all) = h.heard
    /\ \A i, j \in DOMAIN all : i < j => all[i].order <= all[j].order

HandlersInv == \A s \in Slots : Running(s) => Meant(handlers[s]) /\ InOrder(handlers[s])

LoopInv ==
    /\ RouterInv
    /\ BusInv
    /\ LoopTypeOK
    /\ RunningInv
    /\ HandlersInv

(* The conjuncts of LoopInv that a step disturbs are those of one slot. *)
LEMMA OneHandler ==
    ASSUME LoopInv, RouterInv', BusInv', UNCHANGED <<routerVars, edits, cancelled>>,
           NEW s \in Slots, NEW h \in Handler \cup {None},
           handlers' = [handlers EXCEPT ![s] = h],
           loop' \in Slots \cup {None}, ops' \in 0 .. MaxOps,
           cron # "none", cron' # "none",
           h # None => /\ h.pc = "route" => h.ran = <<>>
                       /\ Meant(h) /\ InOrder(h)
    PROVE  LoopInv'
<1>1. /\ handlers \in [Slots -> Handler \cup {None}]
      /\ edits \in 0 .. MaxEdits /\ cancelled \in BOOLEAN
  BY DEF LoopInv, LoopTypeOK
<1>2. handlers'[s] = h /\ \A x \in Slots \ {s} : handlers'[x] = handlers[x]
  BY <1>1
<1>3. LoopTypeOK'
  BY <1>1 DEF LoopTypeOK
<1>4. RunningInv'
  BY <1>2 DEF LoopInv, RunningInv, Running
<1>5. ASSUME NEW x \in Slots, handlers'[x] # None
      PROVE  Meant(handlers[x])' /\ InOrder(handlers[x])'
  <2>1. Meant(handlers'[x]) /\ InOrder(handlers'[x])
    BY <1>2, <1>5 DEF LoopInv, HandlersInv, Running
  <2>2. UNCHANGED <<clash, permissions>>
    BY DEF routerVars
  <2>3. Meant(handlers[x])'
    <3>1. \A c, role : Refused(c, role)' <=> Refused(c, role)
      BY <2>2, SameRefusals
    <3>2. QED
      BY <2>1, <2>2, <3>1 DEF Meant
  <2>4. InOrder(handlers[x])'
    BY <2>1 DEF InOrder
  <2>5. QED
    BY <2>3, <2>4
<1>6. HandlersInv'
  BY <1>5 DEF HandlersInv, Running
<1>7. QED
  BY <1>3, <1>4, <1>6 DEF LoopInv

LEMMA SilentInOrder ==
    ASSUME NEW h, h.ran = <<>>, h.left = <<>>, h.heard = {}
    PROVE  InOrder(h)
<1>1. h.ran \o h.left = <<>>
  OBVIOUS
<1>2. Len(<<>>) = 0 /\ ToSet(<<>>) = {} /\ DOMAIN <<>> = {}
  BY DEF ToSet
<1>3. QED
  BY <1>1, <1>2, FS_EmptySet DEF InOrder

LEMMA FreshHandler ==
    ASSUME NEW op \in {"message", "guild"}, NEW pc \in {"route", "listen"},
           NEW word \in Words, NEW role \in Roles
    PROVE  LET h == Fresh(op, pc, word, role) IN
           /\ h \in Handler
           /\ h.op = op /\ h.pc = pc /\ h.ran = <<>> /\ h.left = <<>> /\ h.heard = {}
<1>1. <<>> \in Seq(Listeners)
  OBVIOUS
<1>2. QED
  BY <1>1 DEF Fresh, Handler, CommandOr

(* A handler that now listens to an event. *)
LEMMA HeardHandler ==
    ASSUME BusInv, NEW h \in Handler, h.ran = <<>>, NEW t \in EventTypes
    PROVE  LET g == Heard(h, t) IN
           /\ g \in Handler /\ g.pc = "listen" /\ g.ran = <<>>
           /\ g.op = h.op /\ g.cmd = h.cmd /\ g.meant = h.meant
           /\ InOrder(g)
<1> DEFINE s == Sorted(listeners[t])
           g == Heard(h, t)
<1>1. /\ s \in Seq(Listeners) /\ ToSet(s) = ToSet(listeners[t])
      /\ Len(s) = Cardinality(ToSet(listeners[t]))
      /\ \A i, j \in DOMAIN s : i < j => s[i].order <= s[j].order
  BY HeardInOrder
<1> HIDE DEF s
<1>2. g = [h EXCEPT !.pc = "listen", !.left = s, !.heard = ToSet(listeners[t])]
  BY DEF Heard, s
<1>3. ToSet(listeners[t]) \subseteq Listeners
  <2>1. listeners[t] \in Seq(Listeners)
    BY DEF BusInv, BusTypeOK
  <2>2. QED
    BY <2>1 DEF ToSet
<1> HIDE DEF g
<1>4. /\ g \in Handler /\ g.pc = "listen" /\ g.ran = <<>> /\ g.left = s
      /\ g.heard = ToSet(listeners[t])
      /\ g.op = h.op /\ g.cmd = h.cmd /\ g.meant = h.meant
  BY <1>1, <1>2, <1>3 DEF Handler
<1>5. g.ran \o g.left = s
  BY <1>1, <1>4
<1>6. InOrder(g)
  BY <1>1, <1>4, <1>5 DEF InOrder
<1>7. QED
  BY <1>4, <1>6 DEF g

(* A handler that only goes from one place to another. *)
LEMMA MovedHandler ==
    ASSUME NEW h \in Handler, Meant(h), InOrder(h),
           NEW pc \in {"run", "hung"}, h.pc \notin {"route", "denied"}
    PROVE  LET g == [h EXCEPT !.pc = pc] IN
           g \in Handler /\ g.pc = pc /\ Meant(g) /\ InOrder(g)
<1> DEFINE g == [h EXCEPT !.pc = pc]
<1>1. /\ g \in Handler /\ g.pc = pc /\ g.op = h.op /\ g.cmd = h.cmd
      /\ g.meant = h.meant /\ g.word = h.word /\ g.role = h.role
      /\ g.ran = h.ran /\ g.left = h.left /\ g.heard = h.heard
  BY DEF Handler
<1> HIDE DEF g
<1>2. InOrder(g)
  BY <1>1 DEF InOrder
<1>3. Meant(g)
  BY <1>1 DEF Meant
<1>4. QED
  BY <1>1, <1>2, <1>3 DEF g

(* A handler that has called the next listener. *)
LEMMA ListenedHandler ==
    ASSUME NEW h \in Handler, Meant(h), InOrder(h), h.pc = "listen", h.left # <<>>
    PROVE  LET g == [h EXCEPT !.left = Tail(h.left), !.ran = Append(h.ran, Head(h.left))] IN
           g \in Handler /\ g.pc = "listen" /\ Meant(g) /\ InOrder(g)
<1> DEFINE l == Head(h.left)
           rest == Tail(h.left)
           g == [h EXCEPT !.left = rest, !.ran = Append(h.ran, l)]
<1>1. h.left \in Seq(Listeners) /\ h.ran \in Seq(Listeners)
  BY DEF Handler
<1>2. l \in Listeners /\ rest \in Seq(Listeners) /\ h.left = <<l>> \o rest
  BY <1>1
<1> HIDE DEF l, rest
<1>3. Append(h.ran, l) \in Seq(Listeners)
      /\ Append(h.ran, l) \o rest = h.ran \o h.left
  <2>1. <<l>> \in Seq(Listeners) /\ Append(h.ran, l) = h.ran \o <<l>>
    BY <1>1, <1>2, AppendIsConcat
  <2>2. \A a, b, c \in Seq(Listeners) : (a \o b) \o c = a \o (b \o c)
    BY ConcatAssociative
  <2>3. (h.ran \o <<l>>) \o rest = h.ran \o (<<l>> \o rest)
    BY <1>1, <1>2, <2>1, <2>2
  <2>4. Append(h.ran, l) \in Seq(Listeners)
    BY <1>1, <1>2, AppendProperties
  <2>5. QED
    BY <1>2, <2>1, <2>3, <2>4
<1>4. /\ g \in Handler /\ g.pc = h.pc /\ g.op = h.op /\ g.cmd = h.cmd
      /\ g.meant = h.meant /\ g.word = h.word /\ g.role = h.role
      /\ g.ran = Append(h.ran, l) /\ g.left = rest /\ g.heard = h.heard
  BY <1>2, <1>3 DEF Handler
<1> HIDE DEF g
<1>5. InOrder(g)
  BY <1>3, <1>4 DEF InOrder
<1>6. Meant(g)
  BY <1>4 DEF Meant
<1>7. QED
  BY <1>4, <1>5, <1>6 DEF g, l, rest

(* What Resolve finds for a word, and what the word may mean. *)
LEMMA FoundIsMeant ==
    ASSUME RouterInv, NEW word \in Words
    PROVE  LET cmd == Resolve(word)
               meant == {c \in Registered : Answers(c, word)} IN
           /\ cmd \in CommandOr /\ meant \subseteq Commands
           /\ clash \/ (cmd = NoCommand <=> meant = {})
           /\ cmd # NoCommand =>
                /\ clash \/ cmd \in meant
                /\ \A c \in meant : c.name = word => cmd = c
<1> DEFINE cmd == Resolve(word)
           meant == {c \in Registered : Answers(c, word)}
<1>1. /\ commands \in [Words -> CommandOr]
      /\ aliases \in [Words -> Words \cup {NoCommand}]
      /\ NoCommand \notin Words /\ NoCommand \notin Commands
  BY RouterAssumption DEF RouterInv, RouterTypeOK
<1>2. /\ commands[word] # NoCommand => cmd = commands[word]
      /\ commands[word] = NoCommand /\ aliases[word] # NoCommand
           => cmd = commands[aliases[word]] /\ aliases[word] \in Words
      /\ commands[word] = NoCommand /\ aliases[word] = NoCommand => cmd = NoCommand
  BY <1>1 DEF Resolve
<1>3. \A c \in meant : \E w \in Words :
        c = commands[w] /\ c \in Commands /\ c.name = w /\ Answers(c, word)
  BY <1>1 DEF Registered, CommandOr, RouterInv, NamesInv
<1>4. \A w \in Words : commands[w] # NoCommand /\ Answers(commands[w], word)
                         => commands[w] \in meant
  BY DEF Registered
<1> HIDE DEF cmd, meant
<1>5. cmd \in CommandOr
  BY <1>1, <1>2 DEF CommandOr
<1>6. meant \subseteq Commands
  BY <1>3
<1>7. ASSUME cmd # NoCommand, ~ clash
      PROVE  cmd \in meant
  <2>1. CASE commands[word] # NoCommand
    <3>1. commands[word].name = word
      BY <2>1 DEF RouterInv, NamesInv
    <3>2. QED
      BY <1>2, <1>4, <2>1, <3>1 DEF Answers
  <2>2. CASE commands[word] = NoCommand
    <3>1. aliases[word] # NoCommand /\ cmd = commands[aliases[word]]
          /\ aliases[word] \in Words
      BY <1>2, <1>7, <2>2
    <3>2. word \in ToSet(commands[aliases[word]].aliases)
      BY <1>7, <3>1 DEF RouterInv, NamesInv
    <3>3. QED
      BY <1>4, <1>7, <3>1, <3>2 DEF Answers
  <2>3. QED
    BY <2>1, <2>2
<1>8. ASSUME NEW c \in meant, c.name = word
      PROVE  cmd = c
  BY <1>1, <1>2, <1>3, <1>8
<1>9. ASSUME ~ clash, NEW c \in meant
      PROVE  cmd # NoCommand
  <2>1. PICK w \in Words :
          c = commands[w] /\ c \in Commands /\ c.name = w /\ Answers(c, word)
    BY <1>3
  <2>2. c # NoCommand
    BY <1>1, <2>1
  <2>3. CASE word = w
    BY <1>2, <2>1, <2>2, <2>3
  <2>4. CASE word \in ToSet(c.aliases)
    <3>1. aliases[word] = w
      BY <1>9, <2>1, <2>2, <2>4 DEF RouterInv, NamesInv
    <3>2. QED
      BY <1>1, <1>2, <2>1, <2>2, <3>1
  <2>5. QED
    BY <2>1, <2>3, <2>4 DEF Answers
<1>10. clash \/ (cmd = NoCommand <=> meant = {})
  BY <1>7, <1>9
<1>11. QED
  BY <1>5, <1>6, <1>7, <1>8, <1>10 DEF cmd, meant

LEMMA MessageTaken ==
    ASSUME LoopInv, RouterInv', BusInv', UNCHANGED <<routerVars, edits, cancelled, cron>>,
           NEW s \in Slots, TakeMessage(s) \/ TakeGuildEvent(s)
    PROVE  LoopInv'
<1>1. BusInv /\ Chatter \in Words /\ {"message", "guild"} \subseteq EventTypes
      /\ "" \in Roles /\ cron # "none" /\ ops + 1 \in 0 .. MaxOps
  <2>1. BusInv /\ ops \in 0 .. MaxOps /\ MaxOps \in Nat
    BY LoopAssumption DEF LoopInv, LoopTypeOK
  <2>2. cron # "none" /\ ops < MaxOps
    BY DEF TakeMessage, TakeGuildEvent, Take
  <2>3. Chatter \in Words /\ {"message", "guild"} \subseteq EventTypes
    BY ServicesAssumption
  <2>4. QED
    BY <2>1, <2>2, <2>3 DEF Roles
<1>2. CASE TakeMessage(s)
  <2>1. PICK word \in Words, role \in Roles :
          Take(s, Fresh("message", "route", word, role))
    BY <1>1, <1>2 DEF TakeMessage
  <2> DEFINE h == Fresh("message", "route", word, role)
  <2>2. h \in Handler /\ h.op = "message" /\ h.pc = "route"
        /\ h.ran = <<>> /\ h.left = <<>> /\ h.heard = {}
    BY FreshHandler
  <2>3. handlers' = [handlers EXCEPT ![s] = h] /\ loop' = s /\ ops' = ops + 1
    BY <2>1 DEF Take
  <2> HIDE DEF h
  <2>4. InOrder(h) /\ Meant(h)
    BY <2>2, SilentInOrder DEF Meant
  <2>5. QED
    BY <1>1, <2>2, <2>3, <2>4, OneHandler
<1>3. CASE TakeGuildEvent(s)
  <2> DEFINE f == Fresh("guild", "listen", Chatter, "")
             h == Heard(f, "guild")
  <2>1. f \in Handler /\ f.op = "guild" /\ f.ran = <<>>
    BY <1>1, FreshHandler
  <2>2. handlers' = [handlers EXCEPT ![s] = h] /\ loop' = s /\ ops' = ops + 1
    BY <1>3 DEF TakeGuildEvent, Take
  <2> HIDE DEF f
  <2>3. h \in Handler /\ h.pc = "listen" /\ h.op = "guild" /\ InOrder(h)
    BY <1>1, <2>1, HeardHandler
  <2> HIDE DEF h
  <2>4. Meant(h)
    BY <2>3 DEF Meant
  <2>5. QED
    BY <1>1, <2>2, <2>3, <2>4, OneHandler
<1>4. QED
  BY <1>2, <1>3

LEMMA MessageRouted ==
    ASSUME LoopInv, RouterInv', BusInv', UNCHANGED <<routerVars, edits, cancelled, cron>>,
           NEW s \in Slots, Route(s)
    PROVE  LoopInv'
<1> DEFINE h == handlers[s]
           cmd == Resolve(h.word)
           meant == {c \in Registered : Answers(c, h.word)}
           after == [h EXCEPT !.cmd = cmd, !.meant = meant]
<1>1. /\ h # None /\ h.op = "message" /\ h.pc = "route"
      /\ loop' = loop /\ ops' = ops
      /\ \/ /\ cmd = NoCommand
            /\ handlers' = [handlers EXCEPT ![s] = Heard(after, "message")]
         \/ /\ cmd # NoCommand /\ ~ Allowed(Required(cmd), h.role)
            /\ handlers' = [handlers EXCEPT ![s] = [after EXCEPT !.pc = "denied"]]
         \/ /\ cmd # NoCommand /\ Allowed(Required(cmd), h.role)
            /\ handlers' = [handlers EXCEPT ![s] = [after EXCEPT !.pc = "tell"]]
  BY DEF Route, At, Running
<1>2. /\ h \in Handler /\ h.ran = <<>> /\ cron # "none" /\ InOrder(h)
      /\ loop \in Slots \cup {None} /\ ops \in 0 .. MaxOps
      /\ RouterInv /\ BusInv /\ "message" \in EventTypes
  BY <1>1, ServicesAssumption
    DEF LoopInv, LoopTypeOK, RunningInv, HandlersInv, Running
<1>3. h.word \in Words /\ h.role \in Roles
  BY <1>2 DEF Handler
<1> HIDE DEF h
<1>4. /\ cmd \in CommandOr /\ meant \subseteq Commands
      /\ clash \/ (cmd = NoCommand <=> meant = {})
      /\ cmd # NoCommand =>
           /\ clash \/ cmd \in meant
           /\ \A c \in meant : c.name = h.word => cmd = c
  BY <1>2, <1>3, FoundIsMeant
<1>5. cmd # NoCommand => (Allowed(Required(cmd), h.role) <=> ~ Refused(cmd, h.role))
  <2>1. cmd # NoCommand => cmd \in Commands
    BY <1>4 DEF CommandOr
  <2>2. QED
    BY <1>2, <1>3, <2>1, RefusedAreNotAllowed DEF RouterInv
<1> HIDE DEF cmd, meant
<1>6. /\ after \in Handler /\ after.op = "message" /\ after.word = h.word
      /\ after.role = h.role /\ after.cmd = cmd /\ after.meant = meant
      /\ after.ran = <<>> /\ after.left = h.left /\ after.heard = h.heard
  BY <1>1, <1>2, <1>4 DEF Handler
<1> HIDE DEF after
<1>7. CASE /\ cmd = NoCommand
           /\ handlers' = [handlers EXCEPT ![s] = Heard(after, "message")]
  <2> DEFINE g == Heard(after, "message")
  <2>1. /\ g \in Handler /\ g.pc = "listen" /\ g.op = "message"
        /\ g.cmd = cmd /\ g.meant = meant /\ InOrder(g)
    BY <1>2, <1>6, HeardHandler
  <2> HIDE DEF g
  <2>2. Meant(g)
    BY <1>4, <1>7, <2>1 DEF Meant
  <2>3. handlers' = [handlers EXCEPT ![s] = g]
    BY <1>7 DEF g
  <2>4. QED
    BY <1>1, <1>2, <2>1, <2>2, <2>3, OneHandler
<1>8. ASSUME NEW pc \in {"denied", "tell"}, cmd # NoCommand,
             pc = "denied" <=> ~ Allowed(Required(cmd), h.role),
             handlers' = [handlers EXCEPT ![s] = [after EXCEPT !.pc = pc]]
      PROVE  LoopInv'
  <2> DEFINE g == [after EXCEPT !.pc = pc]
  <2>1. /\ g \in Handler /\ g.pc = pc /\ g.op = "message" /\ g.word = h.word
        /\ g.role = h.role /\ g.cmd = cmd /\ g.meant = meant
        /\ g.ran = h.ran /\ g.left = h.left /\ g.heard = h.heard
    BY <1>2, <1>6 DEF Handler
  <2> HIDE DEF g
  <2>2. InOrder(g)
    BY <1>2, <2>1 DEF InOrder
  <2>3. Meant(g)
    BY <1>4, <1>5, <1>8, <2>1 DEF Meant
  <2>4. handlers' = [handlers EXCEPT ![s] = g]
    BY <1>8 DEF g
  <2>5. QED
    BY <1>1, <1>2, <2>1, <2>2, <2>3, <2>4, OneHandler
<1>9. QED
  BY <1>1, <1>7, <1>8

LEMMA HandlerGoesOn ==
    ASSUME LoopInv, RouterInv', BusInv', UNCHANGED <<routerVars, edits, cancelled, cron>>,
           NEW s \in Slots, RunCommand(s) \/ Listen(s) \/ Return(s) \/ Hang(s)
    PROVE  LoopInv'
<1> DEFINE h == handlers[s]
<1>1. /\ h # None /\ h.pc \notin {"route"}
      /\ ops' = ops /\ loop' \in {loop, None}
  BY DEF RunCommand, Listen, Return, Hang, At, Running, Goto, Finish
<1>2. /\ h \in Handler /\ cron # "none" /\ InOrder(h) /\ Meant(h)
      /\ loop' \in Slots \cup {None} /\ ops \in 0 .. MaxOps
      /\ handlers \in [Slots -> Handler \cup {None}]
  BY <1>1 DEF LoopInv, LoopTypeOK, RunningInv, HandlersInv, Running
<1>3. CASE RunCommand(s) \/ Hang(s)
  <2>1. PICK pc \in {"run", "hung"} :
          handlers' = [handlers EXCEPT ![s].pc = pc] /\ h.pc # "denied"
    BY <1>3 DEF RunCommand, Hang, Goto, At
  <2> DEFINE g == [h EXCEPT !.pc = pc]
  <2>2. handlers' = [handlers EXCEPT ![s] = g]
    BY <1>2, <2>1
  <2>3. g \in Handler /\ g.pc = pc /\ Meant(g) /\ InOrder(g)
    BY <1>1, <1>2, <2>1, MovedHandler
  <2> HIDE DEF g
  <2>4. QED
    BY <1>1, <1>2, <2>2, <2>3, OneHandler
<1>4. CASE Listen(s)
  <2> DEFINE g == [h EXCEPT !.left = Tail(h.left), !.ran = Append(h.ran, Head(h.left))]
  <2>1. handlers' = [handlers EXCEPT ![s] = g] /\ h.pc = "listen" /\ h.left # <<>>
    BY <1>2, <1>4 DEF Listen
  <2> HIDE DEF h
  <2>2. g \in Handler /\ g.pc = "listen" /\ Meant(g) /\ InOrder(g)
    BY <1>2, <2>1, ListenedHandler
  <2> HIDE DEF g
  <2>3. QED
    BY <1>1, <1>2, <2>1, <2>2, OneHandler
<1>5. CASE Return(s)
  <2>1. handlers' = [handlers EXCEPT ![s] = None]
    BY <1>5 DEF Return, Finish
  <2>2. QED
    BY <1>1, <1>2, <2>1, OneHandler
<1>6. QED
  BY <1>3, <1>4, <1>5

(* Steps that leave all handlers as they are. *)
LEMMA SameHandlers ==
    ASSUME LoopInv, RouterInv', BusInv', handlers' = handlers,
           loop' \in {loop, None}, ops' = ops, edits' \in 0 .. MaxEdits,
           cancelled' \in BOOLEAN, cron # "none" => cron' # "none",
           UNCHANGED routerVars \/ cron = "none"
    PROVE  LoopInv'
<1>1. LoopTypeOK' /\ RunningInv'
  BY DEF LoopInv, LoopTypeOK, RunningInv, Running
<1>2. ASSUME NEW x \in Slots, handlers'[x] # None
      PROVE  Meant(handlers[x])' /\ InOrder(handlers[x])'
  <2>1. Meant(handlers[x]) /\ InOrder(handlers[x]) /\ cron # "none"
    BY <1>2 DEF LoopInv, HandlersInv, RunningInv, Running
  <2>2. UNCHANGED <<clash, permissions, handlers>>
    BY <2>1 DEF routerVars
  <2>3. Meant(handlers[x])'
    <3>1. \A c, role : Refused(c, role)' <=> Refused(c, role)
      BY <2>2, SameRefusals
    <3>2. QED
      BY <2>1, <2>2, <3>1 DEF Meant
  <2>4. InOrder(handlers[x])'
    BY <2>1 DEF InOrder
  <2>5. QED
    BY <2>3, <2>4
<1>3. HandlersInv'
  BY <1>2 DEF HandlersInv, Running
<1>4. QED
  BY <1>1, <1>3 DEF LoopInv

LEMMA LoopInvStep ==
    ASSUME LoopInv, [Next]_vars
    PROVE  LoopInv'
<1>1. /\ RouterInv' /\ BusInv' /\ (cron # "none" => cron' # "none")
      /\ cancelled \in BOOLEAN /\ cancelled' \in BOOLEAN
      /\ edits \in 0 .. MaxEdits /\ MaxEdits \in Nat \ {0}
  BY RouterInvStep, BusInvStep, CronStays, LoopFrame, ServicesAssumption
    DEF LoopInv, LoopTypeOK
<1>2. CASE LoopStep
  <2>1. UNCHANGED <<routerVars, edits, cron>>
    BY <1>2, LoopStepFrame
  <2>2. cancelled' = cancelled
    BY <1>2 DEF LoopStep, HandlerStep, TakeMessage, TakeGuildEvent, Route, RunCommand,
      Listen, Return, Hang, Abandon, OtherThanLoop, shutdownVars
  <2>3. CASE Abandon
    BY <1>1, <2>1, <2>2, <2>3, SameHandlers DEF Abandon
  <2>4. QED
    BY <1>1, <1>2, <2>1, <2>2, <2>3, MessageTaken, MessageRouted, HandlerGoesOn
      DEF LoopStep, HandlerStep
<1>3. CASE Edit
  <2>1. edits' \in 0 .. MaxEdits
    BY <1>1, <1>3 DEF Edit, EditsHere
  <2>2. UNCHANGED loopVars /\ (UNCHANGED routerVars \/ cron = "none")
    BY <1>3 DEF Edit
  <2>3. QED
    BY <1>1, <2>1, <2>2, SameHandlers DEF loopVars
<1>4. CASE CloseServices \/ UNCHANGED <<loopVars, routerVars, busVars, edits>>
  <2>1. UNCHANGED <<loopVars, routerVars, edits>>
    BY <1>4 DEF CloseServices, shutdownVars
  <2>2. QED
    BY <1>1, <2>1, SameHandlers DEF loopVars
<1>5. QED
  BY <1>2, <1>3, <1>4, LoopFrame

LEMMA LoopInitInv == Init => LoopInv
<1> SUFFICES ASSUME Init
             PROVE  LoopInv
  OBVIOUS
<1>1. handlers = [s \in Slots |-> None] /\ loop = None /\ ops = 0
      /\ cancelled = FALSE /\ edits = 0
  BY DEF Init
<1>2. LoopTypeOK
  <2>1. MaxOps \in Nat /\ MaxEdits \in Nat
    BY LoopAssumption, ServicesAssumption
  <2>2. handlers \in [Slots -> Handler \cup {None}] /\ loop \in Slots \cup {None}
    BY <1>1
  <2>3. ops \in 0 .. MaxOps /\ edits \in 0 .. MaxEdits
    BY <1>1, <2>1
  <2>4. QED
    BY <1>1, <2>2, <2>3 DEF LoopTypeOK
<1>3. RunningInv /\ HandlersInv
  BY <1>1 DEF RunningInv, HandlersInv, Running
<1>4. QED
  BY <1>2, <1>3, RouterInitInv, BusInitInv DEF LoopInv

LEMMA LoopInvHolds == Spec => []LoopInv
<1>1. LoopInv /\ [Next]_vars => LoopInv'
  BY LoopInvStep
<1>2. QED
  BY <1>1, LoopInitInv, PTL DEF Spec

(* However listeners and commands are registered and messages come in       *)
(* between, a message runs the command it names, or gives an alias of, if   *)
(* there is one and its level admits the author's role, and only then.      *)
THEOREM MessagesRunTheirCommand == Spec => []RunsWhatIsMeant
<1>1. LoopInv => RunsWhatIsMeant
  BY DEF LoopInv, HandlersInv, Meant, Refused, RunsWhatIsMeant
<1>2. QED
  BY <1>1, LoopInvHolds, PTL

(* Every listener that is subscribed when an event comes is called once, in *)
(* the order of the listeners' Order, whoever subscribes or leaves while    *)
(* the others are called.                                                   *)
THEOREM ListenersAreCalledInOrder == Spec => []ListenersInOrder
<1>1. LoopInv => ListenersInOrder
  BY DEF LoopInv, HandlersInv, InOrder, ListenersInOrder
<1>2. QED
  BY <1>1, LoopInvHolds, PTL

-----------------------------------------------------------------------------
(* The waits of the adapter. *)

LEMMA DoublingSteps ==
    /\ Doubled[0] = InitialWait
    /\ \A n \in 1 .. MaxSessions : Doubled[n] = 2 * Doubled[n - 1]
    /\ \A n \in 0 .. MaxSessions : Doubled[n] \in Nat
<1> DEFINE E(h) == [n \in 0 .. MaxSessions |->
                        IF n = 0 THEN InitialWait ELSE 2 * h[n - 1]]
           twice == [x \in Nat |-> 2 * x]
           step == [n \in 1 .. MaxSessions |-> twice]
<1>1. InitialWait \in Nat /\ MaxSessions \in Nat
  BY ReconnectAssumption
<1>2. step \in [1 .. MaxSessions -> [Nat -> Nat]]
  OBVIOUS
<1>3. \A n \in 1 .. MaxSessions : \A x \in Nat : step[n][x] = 2 * x
  OBVIOUS
<1> HIDE DEF step
<1>4. PICK f \in [0 .. MaxSessions -> Nat] :
        f[0] = InitialWait /\ \A k \in 1 .. MaxSessions : f[k] = step[k][f[k - 1]]
  <2> DEFINE Led(W, v, n, s) ==
               \E f \in [0 .. n -> W] :
                 f[0] = v /\ \A k \in 1 .. n : f[k] = s[k][f[k - 1]]
  <2>1. ASSUME NEW W, NEW v \in W, NEW n \in Nat, NEW s \in [1 .. n -> [W -> W]]
        PROVE  Led(W, v, n, s)
    BY Steps
  <2>2. Led(Nat, InitialWait, MaxSessions, step)
    <3> HIDE DEF Led
    <3>1. QED
      BY <1>1, <1>2, <2>1, Zenon
  <2>3. QED
    BY <2>2
<1>5. \A k \in 1 .. MaxSessions : f[k] = 2 * f[k - 1]
  <2>1. \A k \in 1 .. MaxSessions : k - 1 \in 0 .. MaxSessions
    BY <1>1
  <2>2. QED
    BY <1>3, <1>4, <2>1
<1>6. \A k \in 0 .. MaxSessions : k = 0 \/ k \in 1 .. MaxSessions
  BY <1>1
<1>7. f = E(f)
  BY <1>4, <1>5, <1>6
<1>8. Doubled = E(Doubled)
  <2>1. \E h : h = E(h)
    BY <1>7
  <2>2. QED
    BY <2>1, Zenon DEF Doubled
<1>9. /\ Doubled[0] = InitialWait
      /\ \A n \in 1 .. MaxSessions : Doubled[n] = 2 * Doubled[n - 1]
  <2>1. 0 \in 0 .. MaxSessions
        /\ \A n \in 1 .. MaxSessions : n \in 0 .. MaxSessions /\ n # 0
    BY <1>1
  <2>2. QED
    BY <1>8, <2>1
<1>10. \A n \in 0 .. MaxSessions : Doubled[n] \in Nat
  <2> DEFINE T == {n \in 0 .. MaxSessions : Doubled[n] \in Nat}
  <2>1. 0 \in T
    BY <1>1, <1>9
  <2>2. \A n \in 1 .. MaxSessions : n - 1 \in T => n \in T
    BY <1>1, <1>9
  <2>3. 0 .. MaxSessions \subseteq T
    <3> HIDE DEF T
    <3>1. QED
      BY <1>1, <2>1, <2>2, UpTo
  <2>4. QED
    BY <2>3
<1>11. QED
  BY <1>9, <1>10

LEMMA MinOfTwo ==
    ASSUME NEW a \in Nat, NEW b \in Nat
    PROVE  Min({a, b}) = IF a <= b THEN a ELSE b
<1>1. \A x \in {a, b} : (\A y \in {a, b} : x <= y) => x = IF a <= b THEN a ELSE b
  OBVIOUS
<1>2. \E x \in {a, b} : \A y \in {a, b} : x <= y
  OBVIOUS
<1>3. QED
  BY <1>1, <1>2 DEF Min

\* The wait after n failures, if no more come.
WaitAfter(n) == Min({Doubled[n], MaxWait})

SessionInv ==
    /\ ReconnectTypeOK
    /\ failures <= ended
    /\ session \in {"top", "opening", "asking", "waiting"}
         => backoffCur = WaitAfter(failures)
    /\ session = "lost" => failures > 0 /\ backoffCur = WaitAfter(failures - 1)
    /\ session = "up" => failures = 0 /\ backoffCur = InitialWait
    /\ session = "waiting" => failures > 0 /\ wait = WaitAfter(failures - 1)

LEMMA WaitsAreTyped ==
    ASSUME NEW n \in 0 .. MaxSessions
    PROVE  /\ WaitAfter(n) \in InitialWait .. MaxWait
           /\ WaitAfter(0) = InitialWait
           /\ n < MaxSessions =>
                WaitAfter(n + 1) = Min({2 * WaitAfter(n), MaxWait})
<1>1. /\ InitialWait \in Nat \ {0} /\ MaxWait \in Nat /\ InitialWait <= MaxWait
      /\ MaxSessions \in Nat
  BY ReconnectAssumption
<1>2. \A m \in 0 .. MaxSessions :
        WaitAfter(m) = IF Doubled[m] <= MaxWait THEN Doubled[m] ELSE MaxWait
  BY <1>1, DoublingSteps, MinOfTwo DEF WaitAfter
<1>3. \A m \in 0 .. MaxSessions : InitialWait <= Doubled[m]
  <2> DEFINE T == {m \in 0 .. MaxSessions : InitialWait <= Doubled[m]}
  <2>1. 0 \in T
    BY <1>1, DoublingSteps
  <2>2. ASSUME NEW m \in 1 .. MaxSessions, m - 1 \in T
        PROVE  m \in T
    <3>1. Doubled[m] = 2 * Doubled[m - 1] /\ Doubled[m - 1] \in Nat
      BY <2>2, DoublingSteps
    <3>2. InitialWait <= Doubled[m]
      BY <1>1, <2>2, <3>1
    <3>3. QED
      BY <1>1, <3>2
  <2>3. 0 .. MaxSessions \subseteq T
    <3> HIDE DEF T
    <3>1. QED
      BY <1>1, <2>1, <2>2, UpTo
  <2>4. QED
    BY <2>3
<1>4. Doubled[n] \in Nat /\ InitialWait <= Doubled[n]
  BY <1>3, DoublingSteps
<1>5. WaitAfter(n) \in InitialWait .. MaxWait
  BY <1>1, <1>2, <1>4
<1>6. WaitAfter(0) = InitialWait
  <2>1. 0 \in 0 .. MaxSessions
    BY <1>1
  <2>2. QED
    BY <1>1, <1>2, <2>1, DoublingSteps
<1>7. ASSUME n < MaxSessions
      PROVE  WaitAfter(n + 1) = Min({2 * WaitAfter(n), MaxWait})
  <2>1. n + 1 \in 1 .. MaxSessions /\ (n + 1) - 1 = n /\ n + 1 \in 0 .. MaxSessions
    BY <1>1, <1>7
  <2>2. Doubled[n + 1] = 2 * Doubled[n]
    BY <2>1, DoublingSteps
  <2>3. 2 * WaitAfter(n) \in Nat
    BY <1>1, <1>5
  <2>4. Min({2 * WaitAfter(n), MaxWait})
          = IF 2 * WaitAfter(n) <= MaxWait THEN 2 * WaitAfter(n) ELSE MaxWait
    BY <1>1, <2>3, MinOfTwo
  <2>5. WaitAfter(n) = IF Doubled[n] <= MaxWait THEN Doubled[n] ELSE MaxWait
    BY <1>2
  <2>6. WaitAfter(n + 1)
          = IF 2 * Doubled[n] <= MaxWait THEN 2 * Doubled[n] ELSE MaxWait
    BY <1>2, <2>1, <2>2
  <2>7. QED
    BY <1>1, <1>4, <2>4, <2>5, <2>6
<1>8. QED
  BY <1>5, <1>6, <1>7

(* What is no step of the adapter leaves it alone. *)
LEMMA SessionFrame ==
    ASSUME [Next]_vars
    PROVE  SessionStep \/ StopAdapter \/ UNCHANGED sessionVars
<1>1. CASE UNCHANGED vars
  BY <1>1 DEF vars
<1>2. CASE LoopStep
  <2>1. UNCHANGED OtherThanLoop
    BY <1>2 DEF LoopStep, HandlerStep, TakeMessage, TakeGuildEvent, Route,
      RunCommand, Listen, Return, Hang, Abandon
  <2>2. QED
    BY <2>1 DEF OtherThanLoop
<1>3. CASE Edit \/ Cache \/ Time
  BY <1>3 DEF Edit, Cache, Time
<1>4. CASE Stream \/ \E t \in Tellers : Publish(t)
  BY <1>4 DEF Stream, Publish, OtherThanLoop
<1>5. CASE Schedule \/ Serve \/ Restart \/ Session
  BY <1>5 DEF Schedule, Serve, Restart, Session
<1>6. CASE Shutdown
  BY <1>6 DEF Shutdown, Signal, StopScheduler, StopSession, Cancel, CloseServices
<1>7. QED
  BY <1>1, <1>2, <1>3, <1>4, <1>5, <1>6 DEF Next

LEMMA SessionInvStep ==
    ASSUME SessionInv, [Next]_vars
    PROVE  SessionInv'
<1>1. /\ ended \in 0 .. MaxSessions /\ failures \in 0 .. MaxSessions
      /\ failures <= ended /\ MaxSessions \in Nat
      /\ backoffCur \in InitialWait .. MaxWait /\ wait \in 0 .. MaxWait
      /\ InitialWait \in Nat \ {0} /\ MaxWait \in Nat /\ InitialWait <= MaxWait
      /\ adapterStopped \in BOOLEAN
  BY ReconnectAssumption DEF SessionInv, ReconnectTypeOK
<1>2. /\ \A n \in 0 .. MaxSessions : WaitAfter(n) \in InitialWait .. MaxWait
      /\ WaitAfter(0) = InitialWait
      /\ \A n \in 0 .. MaxSessions : n < MaxSessions =>
           WaitAfter(n + 1) = Min({2 * WaitAfter(n), MaxWait})
  BY <1>1, WaitsAreTyped
<1>3. CASE UNCHANGED sessionVars
  BY <1>3 DEF sessionVars, SessionInv, ReconnectTypeOK
<1>4. CASE TryAgain \/ Waited \/ AskGateway \/ StopAdapter
  <2>1. UNCHANGED <<backoffCur, wait, ended, failures>> /\ adapterStopped' \in BOOLEAN
    BY <1>1, <1>4 DEF TryAgain, Waited, AskGateway, StopAdapter
  <2>2. \/ session' = session
        \/ session = "top" /\ session' \in {"opening", "stopped"}
        \/ session = "waiting" /\ session' \in {"asking", "stopped"}
        \/ session = "asking" /\ session' = "top"
    BY <1>4 DEF TryAgain, Waited, AskGateway, StopAdapter
  <2>3. QED
    BY <2>1, <2>2 DEF SessionInv, ReconnectTypeOK
<1>5. CASE Ready
  <2>1. /\ session' = "up" /\ backoffCur' = InitialWait /\ failures' = 0
        /\ UNCHANGED <<wait, ended, adapterStopped>>
    BY <1>5 DEF Ready
  <2>2. 0 <= ended /\ 0 \in 0 .. MaxSessions /\ InitialWait \in InitialWait .. MaxWait
    BY <1>1
  <2>3. QED
    BY <1>1, <2>1, <2>2 DEF SessionInv, ReconnectTypeOK
<1>6. CASE SessionEnded
  <2>1. /\ session \in {"opening", "up"} /\ ended < MaxSessions
        /\ session' \in {"lost", "returned"}
        /\ ended' = ended + 1 /\ failures' = failures + 1
        /\ UNCHANGED <<backoffCur, wait, adapterStopped>>
    BY <1>6 DEF SessionEnded
  <2>2. /\ ended + 1 \in 0 .. MaxSessions /\ failures + 1 \in 0 .. MaxSessions
        /\ failures + 1 <= ended + 1 /\ failures + 1 > 0 /\ (failures + 1) - 1 = failures
    BY <1>1, <2>1
  <2>3. backoffCur = WaitAfter(failures)
    BY <1>2, <2>1 DEF SessionInv
  <2>4. QED
    BY <1>1, <2>1, <2>2, <2>3 DEF SessionInv, ReconnectTypeOK
<1>7. CASE BackOff
  <2>1. /\ session = "lost" /\ session' = "waiting" /\ wait' = backoffCur
        /\ backoffCur' = Min({2 * backoffCur, MaxWait})
        /\ UNCHANGED <<ended, failures, adapterStopped>>
    BY <1>7 DEF BackOff
  <2>2. failures > 0 /\ backoffCur = WaitAfter(failures - 1)
    BY <2>1 DEF SessionInv
  <2>3. /\ failures - 1 \in 0 .. MaxSessions /\ failures - 1 < MaxSessions
        /\ (failures - 1) + 1 = failures
    BY <1>1, <2>2
  <2>4. backoffCur' = WaitAfter(failures)
    BY <1>2, <2>1, <2>2, <2>3
  <2>5. backoffCur' \in InitialWait .. MaxWait /\ wait' \in 0 .. MaxWait
    BY <1>1, <1>2, <2>1, <2>4
  <2>6. QED
    BY <1>1, <2>1, <2>2, <2>4, <2>5 DEF SessionInv, ReconnectTypeOK
<1>8. QED
  BY <1>3, <1>4, <1>5, <1>6, <1>7, SessionFrame DEF SessionStep

LEMMA SessionInvHolds == Spec => []SessionInv
<1>1. Init => SessionInv
  <2> SUFFICES ASSUME Init
               PROVE  SessionInv
    OBVIOUS
  <2>1. ReconnectInit
    BY DEF Init
  <2>2. 0 \in 0 .. MaxSessions /\ 0 \in 0 .. MaxWait /\ 0 <= 0
        /\ InitialWait \in InitialWait .. MaxWait
    BY ReconnectAssumption
  <2>3. WaitAfter(0) = InitialWait
    BY <2>2, WaitsAreTyped
  <2>4. ReconnectTypeOK
    BY <2>1, <2>2 DEF ReconnectInit, ReconnectTypeOK
  <2>5. QED
    BY <2>1, <2>2, <2>3, <2>4 DEF ReconnectInit, SessionInv
<1>2. SessionInv /\ [Next]_vars => SessionInv'
  BY SessionInvStep
<1>3. QED
  BY <1>1, <1>2, PTL DEF Spec

(* The n-th wait since the last Ready is the first one doubled n - 1 times, *)
(* or the maximum: the safety half of Reconnected.                          *)
THEOREM WaitsDouble == Spec => []WaitsAsStated
<1>1. SessionInv => WaitsAsStated
  BY DEF SessionInv, WaitAfter, WaitsAsStated
<1>2. QED
  BY <1>1, SessionInvHolds, PTL

-----------------------------------------------------------------------------
(* The types of all parts. *)

ClockInv == clock \in 0 .. MaxTime

LEMMA ClockInvHolds == Spec => []ClockInv
<1>1. Init => ClockInv
  <2>1. 0 \in 0 .. MaxTime
    BY ClockAssumption
  <2>2. QED
    BY <2>1 DEF Init, ClockInv
<1>2. ClockInv /\ [Next]_vars => ClockInv'
  <2>1. ClockTicks /\ clock \in 0 .. MaxTime => clock' \in 0 .. MaxTime
    BY ClockAssumption DEF ClockTicks
  <2>2. CacheStep => UNCHANGED clock
    BY DEF CacheStep, Set, Discard, CleanUp, GetRead, GetLook, GetDelete
  <2>3. QED
    BY <2>1, <2>2, CacheFrame DEF CacheNext, ClockInv
<1>3. QED
  BY <1>1, <1>2, PTL DEF Spec

(* The state of the loop and of every part keeps its types. *)
THEOREM TypeCorrect == Spec => []TypeOK
<1>1. RouterInv => RouterTypeOK
  BY DEF RouterInv
<1>2. BusInv => BusTypeOK
  BY DEF BusInv
<1>3. LoopInv => RouterTypeOK /\ BusTypeOK /\ LoopTypeOK
  BY <1>1, <1>2 DEF LoopInv
<1>4. StreamInv => StreamTypeOK
  BY DEF StreamInv
<1>5. PanelInv => PanelTypeOK
  BY DEF PanelInv
<1>6. CacheInv => CacheTypeOK
  BY DEF CacheInv
<1>7. SessionInv => ReconnectTypeOK
  BY DEF SessionInv
<1>8. ASSUME LoopTypeOK, ClockInv,
             RouterTypeOK, BusTypeOK, StreamTypeOK, SchedulerTypeOK,
             PanelTypeOK, CacheTypeOK, ReconnectTypeOK
      PROVE  TypeOK
  BY <1>8, Zenon DEF TypeOK, LoopTypeOK, ClockInv
<1>9. QED
  BY <1>3, <1>4, <1>5, <1>6, <1>7, <1>8, LoopInvHolds, StreamInvHolds,
    StoppedInvHolds, PanelInvHolds, CacheInvHolds, SessionInvHolds,
    ClockInvHolds, PTL

=============================================================================
