----------------------------- MODULE QueueProofs -----------------------------
(***************************************************************************)
(* What Without leaves of a list: exactly the elements that are not        *)
(* dropped, in their order.  The proof is an induction over the list.  The *)
(* library's induction theorems take an operator, which the provers cannot *)
(* instantiate; InductionOnNat takes a set and follows from WFMin, which   *)
(* takes sets as well.  Then what proofs about lists of events need: their *)
(* parts, the kinds of events in them, the last event of a kind, and the   *)
(* lots that their trades add up to.                                       *)
(***************************************************************************)
EXTENDS Queues, SequencesExt, WellFoundedInduction, SequenceTheorems, TLAPS

(* Less-than on the naturals, as a set of pairs *)
Lower == {p \in Nat \X Nat : p[1] < p[2]}

LEMMA LowerIsWellFounded == IsWellFoundedOn(Lower, Nat)
<1>1. OpToRel(<, Nat) = Lower
  BY DEF OpToRel, Lower
<1> QED BY <1>1, NatLessThanWellFounded

LEMMA LeastExists ==
  ASSUME NEW T \in SUBSET Nat, T # {}
  PROVE  \E n \in T : \A m \in T : ~(m < n)
<1>1. PICK n \in T : \A m \in T : ~ (<<m, n>> \in Lower)
  BY WFMin, LowerIsWellFounded
<1>2. \A m, k \in Nat : m < k => <<m, k>> \in Lower
  BY DEF Lower
<1> QED BY <1>1, <1>2

(* Induction, over the set of the numbers for which something holds. *)
LEMMA InductionOnNat ==
  ASSUME NEW T \in SUBSET Nat, 0 \in T, \A n \in T : n + 1 \in T
  PROVE  T = Nat
<1>1. SUFFICES ASSUME Nat \ T # {} PROVE FALSE
  OBVIOUS
<1>2. PICK n \in Nat \ T : \A m \in Nat \ T : ~(m < n)
  BY <1>1, LeastExists
<1>3. n - 1 \in Nat /\ n - 1 \in T
  BY <1>2
<1> QED BY <1>2, <1>3

-----------------------------------------------------------------------------
(* f is the function in Without. *)
Kept(f, q, D) ==
  f = [i \in 0 .. Len(q) |->
         IF i = 0 THEN <<>> ELSE IF q[i] \in D THEN f[i - 1] ELSE Append(f[i - 1], q[i])]

LEMMA WithoutIsKept ==
  ASSUME NEW q, NEW D
  PROVE  Without(q, D) = (CHOOSE f : Kept(f, q, D))[Len(q)]
BY DEF Without, Kept

(* Its first n steps *)
Steps(f, q, D, n) ==
  /\ f[0] = <<>>
  /\ \A i \in 1 .. n : f[i] = IF q[i] \in D THEN f[i - 1] ELSE Append(f[i - 1], q[i])

(* The recursion has a solution. *)
LEMMA StepsExist ==
  ASSUME NEW S, NEW q \in Seq(S), NEW D
  PROVE  \E f \in [0 .. Len(q) -> Seq(S)] : Steps(f, q, D, Len(q))
<1> DEFINE T == {n \in Nat : n <= Len(q) => \E f \in [0 .. n -> Seq(S)] : Steps(f, q, D, n)}
<1>1. 0 \in T
  <2> DEFINE f == [i \in 0 .. 0 |-> <<>>]
  <2>1. f \in [0 .. 0 -> Seq(S)]
    OBVIOUS
  <2>2. Steps(f, q, D, 0)
    BY DEF Steps
  <2> QED BY <2>1, <2>2
<1>2. ASSUME NEW n \in T PROVE n + 1 \in T
  <2> SUFFICES ASSUME n + 1 <= Len(q)
               PROVE  \E f \in [0 .. n + 1 -> Seq(S)] : Steps(f, q, D, n + 1)
    OBVIOUS
  <2>1. PICK f \in [0 .. n -> Seq(S)] : Steps(f, q, D, n)
    OBVIOUS
  <2> DEFINE next == IF q[n + 1] \in D THEN f[n] ELSE Append(f[n], q[n + 1])
             g == [i \in 0 .. n + 1 |-> IF i = n + 1 THEN next ELSE f[i]]
  <2>2. q[n + 1] \in S /\ f[n] \in Seq(S)
    OBVIOUS
  <2>3. next \in Seq(S)
    BY <2>2
  <2> HIDE DEF next
  <2>4. g \in [0 .. n + 1 -> Seq(S)]
    BY <2>3
  <2>5. /\ g[n + 1] = next /\ \A i \in 0 .. n : g[i] = f[i]
    OBVIOUS
  <2> HIDE DEF g
  <2>6. \A i \in 1 .. n + 1 : g[i] = IF q[i] \in D THEN g[i - 1] ELSE Append(g[i - 1], q[i])
    <3> SUFFICES ASSUME NEW i \in 1 .. n + 1
                 PROVE  g[i] = IF q[i] \in D THEN g[i - 1] ELSE Append(g[i - 1], q[i])
      OBVIOUS
    <3>0. i - 1 \in 0 .. n /\ g[i - 1] = f[i - 1]
      BY <2>5
    <3>1. CASE i = n + 1
      BY <2>5, <3>0, <3>1 DEF next
    <3>2. CASE i # n + 1
      <4>1. n \in Nat
        OBVIOUS
      <4>2. i \in 1 .. n
        BY <3>2, <4>1
      <4>3. g[i] = f[i]
        BY <2>5, <4>1, <4>2
      <4>4. f[i] = IF q[i] \in D THEN f[i - 1] ELSE Append(f[i - 1], q[i])
        BY <2>1, <4>2 DEF Steps
      <4> QED BY <3>0, <4>3, <4>4
    <3> QED BY <3>1, <3>2
  <2>7. g[0] = <<>>
    <3>1. n \in Nat
      OBVIOUS
    <3> QED BY <2>1, <2>5, <3>1, SMTT(20) DEF Steps
  <2> QED BY <2>4, <2>6, <2>7 DEF Steps
<1> HIDE DEF T
<1>3. T = Nat
  BY <1>1, <1>2, InductionOnNat DEF T
<1> QED BY <1>3 DEF T

-----------------------------------------------------------------------------
(* r is the first n elements of q without those in D: nothing that is dropped, an image
   of q in its order, and all that is not dropped. *)
Selected(r, q, D, n) ==
  /\ \A k \in 1 .. Len(r) : r[k] \notin D
  /\ \E h \in [1 .. Len(r) -> 1 .. n] :
       /\ \A k \in 1 .. Len(r) : r[k] = q[h[k]]
       /\ \A j, k \in 1 .. Len(r) : j < k => h[j] < h[k]
  /\ \A i \in 1 .. n : q[i] \notin D => \E k \in 1 .. Len(r) : r[k] = q[i]

(* By induction over the steps *)
LEMMA StepsSelect ==
  ASSUME NEW S, NEW q \in Seq(S), NEW D, NEW f \in [0 .. Len(q) -> Seq(S)],
         Steps(f, q, D, Len(q))
  PROVE  Selected(f[Len(q)], q, D, Len(q))
<1> DEFINE T == {n \in Nat : n <= Len(q) => Selected(f[n], q, D, n)}
<1>1. 0 \in T
  <2>1. f[0] = <<>>
    BY DEF Steps
  <2>2. Len(f[0]) = 0 /\ 1 .. 0 = {}
    BY <2>1
  <2>3. [k \in {} |-> 0] \in [{} -> {}]
    OBVIOUS
  <2> QED BY <2>2, <2>3 DEF Selected
<1>2. ASSUME NEW n \in T PROVE n + 1 \in T
  <2> SUFFICES ASSUME n + 1 <= Len(q) PROVE Selected(f[n + 1], q, D, n + 1)
    OBVIOUS
  <2> DEFINE r == f[n]
             e == q[n + 1]
  <2>1. /\ n \in Nat /\ n + 1 \in 1 .. Len(q) /\ r \in Seq(S) /\ e \in S
        /\ Selected(r, q, D, n) /\ Len(r) \in Nat
    OBVIOUS
  <2>2. f[n + 1] = IF e \in D THEN r ELSE Append(r, e)
    BY <2>1 DEF Steps
  <2>3. PICK h \in [1 .. Len(r) -> 1 .. n] :
          /\ \A k \in 1 .. Len(r) : r[k] = q[h[k]]
          /\ \A j, k \in 1 .. Len(r) : j < k => h[j] < h[k]
    BY <2>1 DEF Selected
  <2>4. \A i \in 1 .. n + 1 : i \in 1 .. n \/ i = n + 1
    BY <2>1
  <2> HIDE DEF r, e
  <2>5. CASE e \in D
    <3>1. h \in [1 .. Len(r) -> 1 .. n + 1]
      BY <2>1
    <3>2. \A i \in 1 .. n + 1 : q[i] \notin D => \E k \in 1 .. Len(r) : r[k] = q[i]
      BY <2>1, <2>4, <2>5 DEF e, Selected
    <3>3. \A k \in 1 .. Len(r) : r[k] \notin D
      BY <2>1 DEF Selected
    <3>4. Selected(r, q, D, n + 1)
      BY <2>3, <3>1, <3>2, <3>3 DEF Selected
    <3> QED BY <2>2, <2>5, <3>4
  <2>6. CASE e \notin D
    <3> DEFINE a == Append(r, e)
               m == Len(r) + 1
               g == [k \in 1 .. m |-> IF k = m THEN n + 1 ELSE h[k]]
    <3>1. /\ Len(a) = m /\ a[m] = e /\ m \in Nat \ {0}
          /\ \A k \in 1 .. Len(r) : a[k] = r[k]
      BY <2>1
    <3>2. \A k \in 1 .. m : k \in 1 .. Len(r) \/ k = m
      BY <2>1
    <3>3. g \in [1 .. m -> 1 .. n + 1]
      BY <2>1, <3>2
    <3>4. g[m] = n + 1 /\ \A k \in 1 .. Len(r) : g[k] = h[k] /\ g[k] \in 1 .. n
      BY <2>1
    <3> HIDE DEF a, m, g
    <3>5. \A k \in 1 .. m : a[k] = q[g[k]]
      BY <2>3, <3>1, <3>2, <3>4 DEF e
    <3>6. \A j, k \in 1 .. m : j < k => g[j] < g[k]
      <4> SUFFICES ASSUME NEW j \in 1 .. m, NEW k \in 1 .. m, j < k PROVE g[j] < g[k]
        OBVIOUS
      <4>1. j \in 1 .. Len(r)
        BY <2>1 DEF m
      <4>2. CASE k = m
        BY <2>1, <3>4, <4>1, <4>2
      <4>3. CASE k \in 1 .. Len(r)
        BY <2>3, <3>4, <4>1, <4>3
      <4> QED BY <3>2, <4>2, <4>3
    <3>7. \A k \in 1 .. m : a[k] \notin D
      BY <2>1, <2>6, <3>1, <3>2 DEF Selected
    <3>8. \A i \in 1 .. n + 1 : q[i] \notin D => \E k \in 1 .. m : a[k] = q[i]
      <4> SUFFICES ASSUME NEW i \in 1 .. n + 1, q[i] \notin D
                   PROVE  \E k \in 1 .. m : a[k] = q[i]
        OBVIOUS
      <4>1. CASE i = n + 1
        BY <3>1, <4>1 DEF e
      <4>2. CASE i \in 1 .. n
        <5>1. PICK k \in 1 .. Len(r) : r[k] = q[i]
          BY <2>1, <4>2 DEF Selected
        <5>2. k \in 1 .. m
          BY <2>1 DEF m
        <5> QED BY <3>1, <5>1, <5>2
      <4> QED BY <2>4, <4>1, <4>2
    <3>9. Selected(a, q, D, n + 1)
      BY <3>1, <3>3, <3>5, <3>6, <3>7, <3>8 DEF Selected
    <3> QED BY <2>2, <2>6, <3>9 DEF a
  <2> QED BY <2>5, <2>6
<1> HIDE DEF T
<1>3. T = Nat
  BY <1>1, <1>2, InductionOnNat DEF T
<1> QED BY <1>3 DEF T

(* Without is the end of these steps. *)
LEMMA WithoutSteps ==
  ASSUME NEW S, NEW q \in Seq(S), NEW D
  PROVE  \E f \in [0 .. Len(q) -> Seq(S)] :
           Steps(f, q, D, Len(q)) /\ Without(q, D) = f[Len(q)]
<1>1. PICK f \in [0 .. Len(q) -> Seq(S)] : Steps(f, q, D, Len(q))
  BY StepsExist
<1>2. Kept(f, q, D)
  <2> DEFINE g == [i \in 0 .. Len(q) |-> IF i = 0 THEN <<>>
        ELSE IF q[i] \in D THEN f[i - 1] ELSE Append(f[i - 1], q[i])]
  <2>1. ASSUME NEW i \in 0 .. Len(q) PROVE f[i] = g[i]
    <3>1. i = 0 \/ i \in 1 .. Len(q)
      OBVIOUS
    <3> QED BY <1>1, <3>1 DEF Steps
  <2>2. f = g
    BY <2>1
  <2> QED BY <2>2 DEF Kept
<1> DEFINE c == CHOOSE c : Kept(c, q, D)
<1>3. Kept(c, q, D)
  BY <1>2
<1> HIDE DEF c
<1>4. c[Len(q)] = f[Len(q)]
  <2> DEFINE T == {n \in Nat : n <= Len(q) => c[n] = f[n]}
  <2>1. 0 \in T
    BY <1>2, <1>3 DEF Kept
  <2>2. ASSUME NEW n \in T PROVE n + 1 \in T
    <3> SUFFICES ASSUME n + 1 <= Len(q) PROVE c[n + 1] = f[n + 1]
      OBVIOUS
    <3>1. n + 1 \in 0 .. Len(q) /\ n + 1 # 0 /\ (n + 1) - 1 = n /\ c[n] = f[n]
      OBVIOUS
    <3>2. \A i \in 0 .. Len(q) : i # 0 =>
            c[i] = IF q[i] \in D THEN c[i - 1] ELSE Append(c[i - 1], q[i])
      BY <1>3 DEF Kept
    <3>3. \A i \in 0 .. Len(q) : i # 0 =>
            f[i] = IF q[i] \in D THEN f[i - 1] ELSE Append(f[i - 1], q[i])
      BY <1>2 DEF Kept
    <3> QED BY <3>1, <3>2, <3>3
  <2> HIDE DEF T
  <2>3. T = Nat
    BY <2>1, <2>2, InductionOnNat DEF T
  <2> QED BY <2>3 DEF T
<1>5. Without(q, D) = f[Len(q)]
  BY <1>4, WithoutIsKept DEF c
<1> QED BY <1>1, <1>5

(* Without drops what it has to and nothing else, and keeps the order. *)
THEOREM WithoutSelects ==
  ASSUME NEW S, NEW q \in Seq(S), NEW D
  PROVE  Without(q, D) \in Seq(S) /\ Selected(Without(q, D), q, D, Len(q))
<1>1. PICK f \in [0 .. Len(q) -> Seq(S)] :
        Steps(f, q, D, Len(q)) /\ Without(q, D) = f[Len(q)]
  BY WithoutSteps
<1>2. Selected(f[Len(q)], q, D, Len(q)) /\ f[Len(q)] \in Seq(S)
  BY <1>1, StepsSelect
<1> QED BY <1>1, <1>2
-----------------------------------------------------------------------------
(* Elements of a list, and lists without repetition *)
In(x, q) == \E i \in 1 .. Len(q) : q[i] = x
Once(q)  == \A i, j \in 1 .. Len(q) : q[i] = q[j] => i = j

LEMMA InAppend ==
  ASSUME NEW S, NEW q \in Seq(S), NEW e \in S
  PROVE  /\ Append(q, e) \in Seq(S)
         /\ \A x : In(x, Append(q, e)) <=> In(x, q) \/ x = e
<1>1. /\ Len(q) \in Nat /\ Len(Append(q, e)) = Len(q) + 1
      /\ \A i \in 1 .. Len(q) : Append(q, e)[i] = q[i]
      /\ Append(q, e)[Len(q) + 1] = e
  OBVIOUS
<1>2. \A i : i \in 1 .. Len(q) + 1 <=> i \in 1 .. Len(q) \/ i = Len(q) + 1
  BY <1>1
<1> QED BY <1>1, <1>2 DEF In

LEMMA InTail ==
  ASSUME NEW S, NEW q \in Seq(S), q # <<>>
  PROVE  /\ Tail(q) \in Seq(S) /\ Head(q) \in S
         /\ \A x : In(x, q) <=> x = Head(q) \/ In(x, Tail(q))
<1>1. /\ Len(q) \in Nat \ {0} /\ Len(Tail(q)) = Len(q) - 1
      /\ \A i \in 1 .. Len(q) - 1 : i + 1 \in 1 .. Len(q) /\ Tail(q)[i] = q[i + 1]
      /\ Head(q) = q[1] /\ 1 \in 1 .. Len(q) /\ Head(q) \in S /\ Tail(q) \in Seq(S)
  OBVIOUS
<1>2. \A i \in 1 .. Len(q) : i = 1 \/ (i - 1 \in 1 .. Len(q) - 1 /\ Tail(q)[i - 1] = q[i])
  <2> TAKE i \in 1 .. Len(q)
  <2>1. i = 1 \/ (i - 1 \in 1 .. Len(q) - 1 /\ (i - 1) + 1 = i)
    BY <1>1
  <2> QED BY <1>1, <2>1
<1> QED BY <1>1, <1>2 DEF In

LEMMA InWithout ==
  ASSUME NEW S, NEW q \in Seq(S), NEW D
  PROVE  /\ Without(q, D) \in Seq(S)
         /\ \A x : In(x, Without(q, D)) <=> In(x, q) /\ x \notin D
<1> DEFINE w == Without(q, D)
<1>1. w \in Seq(S) /\ Selected(w, q, D, Len(q))
  BY WithoutSelects
<1> HIDE DEF w
<1>2. PICK h \in [1 .. Len(w) -> 1 .. Len(q)] : \A k \in 1 .. Len(w) : w[k] = q[h[k]]
  BY <1>1 DEF Selected
<1>3. \A x : In(x, w) => In(x, q) /\ x \notin D
  BY <1>1, <1>2 DEF In, Selected
<1>4. \A x : In(x, q) /\ x \notin D => In(x, w)
  BY <1>1 DEF In, Selected
<1> QED BY <1>1, <1>3, <1>4 DEF w

LEMMA OnceAppend ==
  ASSUME NEW S, NEW q \in Seq(S), NEW e \in S, Once(q), ~In(e, q)
  PROVE  Once(Append(q, e))
<1>1. /\ Len(q) \in Nat /\ Len(Append(q, e)) = Len(q) + 1
      /\ \A i \in 1 .. Len(q) : Append(q, e)[i] = q[i]
      /\ Append(q, e)[Len(q) + 1] = e
  OBVIOUS
<1>2. \A i : i \in 1 .. Len(q) + 1 <=> i \in 1 .. Len(q) \/ i = Len(q) + 1
  BY <1>1
<1> QED BY <1>1, <1>2 DEF Once, In

LEMMA OnceTail ==
  ASSUME NEW S, NEW q \in Seq(S), q # <<>>, Once(q)
  PROVE  Once(Tail(q)) /\ ~In(Head(q), Tail(q))
<1>1. /\ Len(q) \in Nat \ {0} /\ Len(Tail(q)) = Len(q) - 1
      /\ \A i \in 1 .. Len(q) - 1 : i + 1 \in 1 .. Len(q) /\ Tail(q)[i] = q[i + 1]
      /\ Head(q) = q[1] /\ 1 \in 1 .. Len(q)
  OBVIOUS
<1>2. \A i, j \in 1 .. Len(q) - 1 : i + 1 # 1 /\ (i + 1 = j + 1 => i = j)
  BY <1>1
<1>3. Once(Tail(q))
  BY <1>1, <1>2 DEF Once
<1>4. ~In(Head(q), Tail(q))
  BY <1>1, <1>2 DEF Once, In
<1> QED BY <1>3, <1>4

LEMMA OnceWithout ==
  ASSUME NEW S, NEW q \in Seq(S), NEW D, Once(q)
  PROVE  Once(Without(q, D))
<1> DEFINE w == Without(q, D)
<1>1. w \in Seq(S) /\ Selected(w, q, D, Len(q))
  BY WithoutSelects
<1> HIDE DEF w
<1>2. PICK h \in [1 .. Len(w) -> 1 .. Len(q)] :
        /\ \A k \in 1 .. Len(w) : w[k] = q[h[k]]
        /\ \A j, k \in 1 .. Len(w) : j < k => h[j] < h[k]
  BY <1>1 DEF Selected
<1>3. \A j, k \in 1 .. Len(w) : j = k \/ j < k \/ k < j
  BY <1>1
<1>4. \A j, k \in 1 .. Len(w) : h[j] = h[k] => j = k
  BY <1>2, <1>3
<1> QED BY <1>2, <1>4 DEF Once, w
-----------------------------------------------------------------------------
(* Induction over lists, by the set of those for which something holds. *)
LEMMA InductionOnLists ==
  ASSUME NEW S, NEW T \in SUBSET Seq(S), <<>> \in T,
         \A q \in T : \A e \in S : Append(q, e) \in T
  PROVE  T = Seq(S)
<1> DEFINE N == {n \in Nat : \A q \in Seq(S) : Len(q) = n => q \in T}
<1>1. 0 \in N
  <2>1. \A q \in Seq(S) : Len(q) = 0 => q = <<>>
    BY EmptySeq
  <2> QED BY <2>1
<1>2. ASSUME NEW n \in N PROVE n + 1 \in N
  <2> SUFFICES ASSUME NEW q \in Seq(S), Len(q) = n + 1 PROVE q \in T
    OBVIOUS
  <2>1. q # <<>>
    OBVIOUS
  <2>2. PICK r \in Seq(S), e \in S : q = Append(r, e)
    BY <2>1, SequenceEmptyOrAppend
  <2>3. Len(r) = n
    BY <2>2
  <2> QED BY <2>2, <2>3
<1> HIDE DEF N
<1>3. N = Nat
  BY <1>1, <1>2, InductionOnNat DEF N
<1>4. \A q \in Seq(S) : Len(q) \in Nat
  OBVIOUS
<1> QED BY <1>3, <1>4 DEF N

(* Every recursion over the first n numbers has a solution, and one only.  The step is
   given as a function, that is as a set. *)
Recursion(V, base, n, G) == base \in V /\ n \in Nat /\ G \in [(1 .. n) \X V -> V]

LEMMA RecursionExists ==
  ASSUME NEW V, NEW base, NEW n, NEW G, Recursion(V, base, n, G)
  PROVE  \E f \in [0 .. n -> V] :
           f[0] = base /\ \A i \in 1 .. n : f[i] = G[<<i, f[i - 1]>>]
<1>0. base \in V /\ n \in Nat /\ G \in [(1 .. n) \X V -> V]
  BY DEF Recursion
<1> DEFINE Solves(f, m) == /\ f \in [0 .. m -> V] /\ f[0] = base
                           /\ \A i \in 1 .. m : f[i] = G[<<i, f[i - 1]>>]
           T == {m \in Nat : m <= n => \E f : Solves(f, m)}
<1>1. 0 \in T
  <2>1. Solves([i \in 0 .. 0 |-> base], 0)
    BY <1>0
  <2> QED BY <2>1
<1>2. ASSUME NEW m \in T PROVE m + 1 \in T
  <2> SUFFICES ASSUME m + 1 <= n PROVE \E f : Solves(f, m + 1)
    BY <1>0
  <2>1. PICK f : Solves(f, m)
    BY <1>0
  <2> DEFINE next == G[<<m + 1, f[m]>>]
             g == [i \in 0 .. m + 1 |-> IF i = m + 1 THEN next ELSE f[i]]
  <2>2. m \in Nat /\ f[m] \in V /\ m + 1 \in 1 .. n
    BY <1>0, <2>1
  <2>3. next \in V
    BY <1>0, <2>2
  <2> HIDE DEF next
  <2>4. g \in [0 .. m + 1 -> V]
    BY <2>1, <2>2, <2>3
  <2>5. g[m + 1] = next /\ \A i \in 0 .. m : g[i] = f[i]
    BY <2>2
  <2> HIDE DEF g
  <2>6. ASSUME NEW i \in 1 .. m + 1 PROVE g[i] = G[<<i, g[i - 1]>>]
    <3>1. i - 1 \in 0 .. m /\ g[i - 1] = f[i - 1]
      BY <2>2, <2>5
    <3>2. CASE i = m + 1
      BY <2>2, <2>5, <3>1, <3>2 DEF next
    <3>3. CASE i # m + 1
      <4>1. i \in 1 .. m /\ i \in 0 .. m
        BY <2>2, <3>3
      <4> QED BY <2>1, <2>5, <3>1, <4>1
    <3> QED BY <3>2, <3>3
  <2>7. g[0] = base
    BY <2>1, <2>2, <2>5
  <2> QED BY <2>4, <2>6, <2>7
<1> HIDE DEF T, Solves
<1>3. T = Nat
  BY <1>1, <1>2, InductionOnNat DEF T
<1> QED BY <1>0, <1>3 DEF T, Solves

SameSteps(f, g, n) ==
  n \in Nat /\ f[0] = g[0] /\ \A i \in 1 .. n : f[i - 1] = g[i - 1] => f[i] = g[i]

LEMMA RecursionIsUnique ==
  ASSUME NEW n, NEW f, NEW g, SameSteps(f, g, n)
  PROVE  /\ \A i \in 0 .. n : f[i] = g[i]
         /\ f[n] = g[n]
<1> DEFINE T == {m \in Nat : m <= n => f[m] = g[m]}
<1>1. 0 \in T
  BY DEF SameSteps
<1>2. ASSUME NEW m \in T PROVE m + 1 \in T
  <2> SUFFICES ASSUME m + 1 <= n PROVE f[m + 1] = g[m + 1]
    BY DEF SameSteps
  <2>1. m + 1 \in 1 .. n /\ (m + 1) - 1 = m /\ f[m] = g[m]
    BY DEF SameSteps
  <2> QED BY <2>1 DEF SameSteps
<1> HIDE DEF T
<1>3. T = Nat
  BY <1>1, <1>2, InductionOnNat DEF T
<1> QED BY <1>3 DEF T, SameSteps

(* Flattening a list of lists *)
LEMMA FlattenSteps ==
  ASSUME NEW S, NEW q \in Seq(Seq(S))
  PROVE  \E f \in [0 .. Len(q) -> Seq(S)] :
           /\ f[0] = <<>>
           /\ \A i \in 1 .. Len(q) : f[i] = f[i - 1] \o q[i]
           /\ FlattenSeq(q) = f[Len(q)]
<1> DEFINE n == Len(q)
           G == [p \in (1 .. n) \X Seq(S) |-> p[2] \o q[p[1]]]
<1>0. n \in Nat /\ \A i \in 1 .. n : q[i] \in Seq(S)
  OBVIOUS
<1>1. G \in [(1 .. n) \X Seq(S) -> Seq(S)]
  <2>1. \A p \in (1 .. n) \X Seq(S) : p[2] \o q[p[1]] \in Seq(S)
    BY <1>0, ConcatProperties
  <2> QED BY <2>1
<1>a. \A i \in 1 .. n, s \in Seq(S) : G[<<i, s>>] = s \o q[i]
  OBVIOUS
<1>b. <<>> \in Seq(S)
  OBVIOUS
<1> HIDE DEF G, n
<1>2. PICK f \in [0 .. n -> Seq(S)] :
        f[0] = <<>> /\ \A i \in 1 .. n : f[i] = G[<<i, f[i - 1]>>]
  <2>1. Recursion(Seq(S), <<>>, n, G)
    BY <1>0, <1>1, <1>b DEF Recursion
  <2> QED BY <2>1, RecursionExists
<1>3. \A i \in 1 .. n : f[i - 1] \in Seq(S) /\ f[i] = f[i - 1] \o q[i]
  <2> SUFFICES ASSUME NEW i \in 1 .. n
               PROVE  f[i - 1] \in Seq(S) /\ f[i] = f[i - 1] \o q[i]
    OBVIOUS
  <2>1. i - 1 \in 0 .. n
    BY <1>0
  <2>2. f[i - 1] \in Seq(S)
    BY <2>1
  <2> QED BY <1>2, <1>a, <2>2
<1>4. CASE n = 0
  <2>1. q = <<>> /\ FlattenSeq(q) = q
    BY <1>4, EmptySeq DEF n, FlattenSeq
  <2> QED BY <1>2, <1>3, <1>4, <2>1 DEF n
<1>5. CASE n # 0
  <2> DEFINE Is(h) == h = [i \in 1 .. n |-> IF i = 1 THEN q[i] ELSE h[i - 1] \o q[i]]
             h == CHOOSE h : Is(h)
             g == [i \in 1 .. n |-> f[i]]
  <2>1. FlattenSeq(q) = h[n]
    BY <1>5 DEF FlattenSeq, n
  <2>2. \A i \in 1 .. n : g[i] = IF i = 1 THEN q[i] ELSE g[i - 1] \o q[i]
    <3> SUFFICES ASSUME NEW i \in 1 .. n
                 PROVE  g[i] = IF i = 1 THEN q[i] ELSE g[i - 1] \o q[i]
      OBVIOUS
    <3>1. CASE i = 1
      <4>1. f[1] = f[0] \o q[1] /\ q[1] \in Seq(S) /\ f[0] = <<>>
        <5>1. 1 \in 1 .. n /\ 1 - 1 = 0
          BY <3>1
        <5> QED BY <1>0, <1>2, <1>3, <5>1
      <4> QED BY <3>1, <4>1, ConcatEmptySeq
    <3>2. CASE i # 1
      <4>1. i - 1 \in 1 .. n
        BY <1>0, <3>2
      <4> QED BY <1>3, <3>2, <4>1
    <3> QED BY <3>1, <3>2
  <2>3. Is(g)
    BY <2>2
  <2>4. Is(h)
    BY <2>3
  <2> HIDE DEF h
  <2>5. \A i \in 1 .. n : h[i] = IF i = 1 THEN q[i] ELSE h[i - 1] \o q[i]
    BY <2>4
  <2> DEFINE k == [i \in 0 .. n |-> IF i = 0 THEN <<>> ELSE h[i]]
  <2>6. k[0] = f[0] /\ \A i \in 1 .. n : k[i] = h[i]
    BY <1>0, <1>2
  <2> HIDE DEF k, Is, g
  <2>7. ASSUME NEW i \in 1 .. n, k[i - 1] = f[i - 1] PROVE k[i] = f[i]
    <3>1. CASE i = 1
      <4>1. f[1] = f[0] \o q[1] /\ q[1] \in Seq(S) /\ f[0] = <<>>
        <5>1. 1 \in 1 .. n /\ 1 - 1 = 0
          BY <3>1
        <5> QED BY <1>0, <1>2, <1>3, <5>1
      <4>2. f[1] = q[1]
        BY <4>1, ConcatEmptySeq
      <4> QED BY <2>5, <2>6, <3>1, <4>2
    <3>2. CASE i # 1
      <4>1. i - 1 \in 1 .. n
        BY <1>0, <3>2
      <4>2. k[i] = h[i - 1] \o q[i] /\ h[i - 1] = k[i - 1]
        BY <2>5, <2>6, <3>2, <4>1
      <4>3. f[i] = f[i - 1] \o q[i]
        BY <1>3
      <4> QED BY <2>7, <4>2, <4>3
    <3> QED BY <3>1, <3>2
  <2>8. k[n] = f[n]
    <3>1. SameSteps(k, f, n)
      BY <1>0, <2>6, <2>7 DEF SameSteps
    <3> QED BY <3>1, RecursionIsUnique
  <2>9. n \in 0 .. n /\ n \in 1 .. n
    BY <1>0, <1>5
  <2>10. FlattenSeq(q) = f[n]
    BY <2>1, <2>6, <2>8, <2>9
  <2> QED BY <1>2, <1>3, <2>10 DEF n
<1> QED BY <1>4, <1>5

LEMMA FlattenAppend ==
  ASSUME NEW S, NEW q \in Seq(Seq(S)), NEW r \in Seq(S)
  PROVE  /\ FlattenSeq(q) \in Seq(S)
         /\ FlattenSeq(Append(q, r)) = FlattenSeq(q) \o r
<1> DEFINE a == Append(q, r)
           n == Len(q)
<1>0. /\ n \in Nat /\ a \in Seq(Seq(S)) /\ Len(a) = n + 1 /\ a[n + 1] = r
      /\ \A i \in 1 .. n : a[i] = q[i]
  BY AppendProperties
<1>1. PICK f \in [0 .. n -> Seq(S)] :
           /\ f[0] = <<>>
           /\ \A i \in 1 .. n : f[i] = f[i - 1] \o q[i]
           /\ FlattenSeq(q) = f[n]
  BY FlattenSteps
<1> HIDE DEF a
<1>2. PICK g \in [0 .. n + 1 -> Seq(S)] :
           /\ g[0] = <<>>
           /\ \A i \in 1 .. n + 1 : g[i] = g[i - 1] \o a[i]
           /\ FlattenSeq(a) = g[n + 1]
  <2>1. \E g \in [0 .. Len(a) -> Seq(S)] :
           /\ g[0] = <<>>
           /\ \A i \in 1 .. Len(a) : g[i] = g[i - 1] \o a[i]
           /\ FlattenSeq(a) = g[Len(a)]
    BY <1>0, FlattenSteps
  <2> QED BY <1>0, <2>1
<1> HIDE DEF n
<1>3. ASSUME NEW i \in 1 .. n, f[i - 1] = g[i - 1] PROVE f[i] = g[i]
  <2>1. i \in 1 .. n + 1
    BY <1>0
  <2>2. f[i] = f[i - 1] \o q[i] /\ g[i] = g[i - 1] \o a[i] /\ a[i] = q[i]
    BY <1>0, <1>1, <1>2, <2>1
  <2> QED BY <1>3, <2>2
<1>4. f[n] = g[n]
  <2>0. SameSteps(f, g, n)
    BY <1>0, <1>1, <1>2, <1>3 DEF SameSteps
  <2> QED BY <2>0, RecursionIsUnique
<1>5. n + 1 \in 1 .. n + 1 /\ (n + 1) - 1 = n /\ n \in 0 .. n
  BY <1>0
<1>6. g[n + 1] = g[n] \o a[n + 1]
  BY <1>2, <1>5
<1> QED BY <1>0, <1>1, <1>2, <1>4, <1>5, <1>6 DEF a

(* Without, one element more. *)
LEMMA WithoutAppend ==
  ASSUME NEW S, NEW q \in Seq(S), NEW D, NEW e \in S
  PROVE  /\ Without(q, D) \in Seq(S)
         /\ Without(Append(q, e), D) =
              IF e \in D THEN Without(q, D) ELSE Append(Without(q, D), e)
<1> DEFINE a == Append(q, e)
           n == Len(q)
<1>0. /\ n \in Nat /\ a \in Seq(S) /\ Len(a) = n + 1 /\ a[n + 1] = e
      /\ \A i \in 1 .. n : a[i] = q[i]
  BY AppendProperties
<1>1. PICK f \in [0 .. n -> Seq(S)] : Steps(f, q, D, n) /\ Without(q, D) = f[n]
  BY WithoutSteps
<1> HIDE DEF a
<1>2. PICK g \in [0 .. n + 1 -> Seq(S)] : Steps(g, a, D, n + 1) /\ Without(a, D) = g[n + 1]
  <2>1. \E g \in [0 .. Len(a) -> Seq(S)] : Steps(g, a, D, Len(a)) /\ Without(a, D) = g[Len(a)]
    BY <1>0, WithoutSteps
  <2> QED BY <1>0, <2>1
<1> HIDE DEF n
<1>3. ASSUME NEW i \in 1 .. n, f[i - 1] = g[i - 1] PROVE f[i] = g[i]
  <2>1. i \in 1 .. n + 1
    BY <1>0
  <2>2. /\ f[i] = IF q[i] \in D THEN f[i - 1] ELSE Append(f[i - 1], q[i])
        /\ g[i] = IF a[i] \in D THEN g[i - 1] ELSE Append(g[i - 1], a[i])
        /\ a[i] = q[i]
    BY <1>0, <1>1, <1>2, <2>1 DEF Steps
  <2> QED BY <1>3, <2>2
<1>4. f[n] = g[n]
  <2>1. SameSteps(f, g, n)
    BY <1>0, <1>1, <1>2, <1>3 DEF SameSteps, Steps
  <2> QED BY <2>1, RecursionIsUnique
<1>5. n + 1 \in 1 .. n + 1 /\ (n + 1) - 1 = n /\ n \in 0 .. n
  BY <1>0
<1>6. g[n + 1] = IF a[n + 1] \in D THEN g[n] ELSE Append(g[n], a[n + 1])
  BY <1>2, <1>5 DEF Steps
<1> QED BY <1>0, <1>1, <1>2, <1>4, <1>5, <1>6 DEF a

LEMMA WithoutNothing == ASSUME NEW D PROVE Without(<<>>, D) = <<>>
<1>1. PICK f \in [0 .. 0 -> Seq({})] : Steps(f, <<>>, D, 0) /\ Without(<<>>, D) = f[0]
  <2>1. <<>> \in Seq({}) /\ Len(<<>>) = 0
    BY EmptySeq
  <2> DEFINE e == <<>>
  <2>2. e \in Seq({}) /\ Len(e) = 0
    BY <2>1
  <2> HIDE DEF e
  <2>3. \E f \in [0 .. Len(e) -> Seq({})] : Steps(f, e, D, Len(e)) /\ Without(e, D) = f[Len(e)]
    BY <2>2, WithoutSteps
  <2>4. \E f \in [0 .. 0 -> Seq({})] : Steps(f, e, D, 0) /\ Without(e, D) = f[0]
    BY <2>2, <2>3
  <2> QED BY <2>4 DEF e
<1> QED BY <1>1 DEF Steps
-----------------------------------------------------------------------------
(* Lists whose elements are of many kinds, so that the set they are from has no name *)
IsList(q) == \E S : q \in Seq(S)

LEMMA ListIndices ==
  ASSUME NEW q, IsList(q)
  PROVE  Len(q) \in Nat /\ (Len(q) = 0 => q = <<>>) /\ (q # <<>> => Len(q) \in Nat \ {0})
<1>1. PICK S : q \in Seq(S)
  BY DEF IsList
<1> QED BY <1>1, EmptySeq

LEMMA CommonSet ==
  ASSUME NEW q, NEW r, IsList(q), IsList(r)
  PROVE  \E S : q \in Seq(S) /\ r \in Seq(S)
<1>1. PICK S : q \in Seq(S)
  BY DEF IsList
<1>2. PICK T : r \in Seq(T)
  BY DEF IsList
<1>3. q \in Seq(S \cup T) /\ r \in Seq(S \cup T)
  BY <1>1, <1>2, SeqMonotonic
<1> QED BY <1>3

LEMMA ListAppend ==
  ASSUME NEW q, NEW e, IsList(q)
  PROVE  /\ IsList(Append(q, e)) /\ Append(q, e) = q \o <<e>>
         /\ Len(Append(q, e)) = Len(q) + 1
         /\ \A i \in 1 .. Len(q) : Append(q, e)[i] = q[i]
         /\ Append(q, e)[Len(q) + 1] = e
<1>1. PICK S : q \in Seq(S)
  BY DEF IsList
<1>2. q \in Seq(S \cup {e}) /\ e \in S \cup {e}
  BY <1>1, SeqMonotonic
<1> QED BY <1>2, AppendProperties DEF IsList

LEMMA ListTail ==
  ASSUME NEW q, IsList(q), q # <<>>
  PROVE  /\ IsList(Tail(q)) /\ Len(Tail(q)) = Len(q) - 1
         /\ \A i \in 1 .. Len(q) - 1 : Tail(q)[i] = q[i + 1]
         /\ Head(q) = q[1] /\ q = <<Head(q)>> \o Tail(q)
<1>1. PICK S : q \in Seq(S)
  BY DEF IsList
<1>2. /\ Head(q) \in S /\ Tail(q) \in Seq(S) /\ Len(Tail(q)) = Len(q) - 1
      /\ \A i \in 1 .. Len(Tail(q)) : Tail(q)[i] = q[i + 1]
  BY <1>1, HeadTailProperties
<1>3. q = <<Head(q)>> \o Tail(q)
  BY <1>1
<1> QED BY <1>1, <1>2, <1>3 DEF IsList

LEMMA ListConcat ==
  ASSUME NEW q, NEW r, IsList(q), IsList(r)
  PROVE  /\ IsList(q \o r) /\ Len(q \o r) = Len(q) + Len(r)
         /\ \A i \in 1 .. Len(q) : (q \o r)[i] = q[i]
         /\ \A i \in 1 .. Len(r) : (q \o r)[Len(q) + i] = r[i]
         /\ \A i \in 1 .. Len(q \o r) : \/ i \in 1 .. Len(q)
                                       \/ i - Len(q) \in 1 .. Len(r)
<1>1. PICK S : q \in Seq(S) /\ r \in Seq(S)
  BY CommonSet
<1> DEFINE c == q \o r
<1>2. /\ c \in Seq(S) /\ Len(c) = Len(q) + Len(r)
      /\ \A i \in 1 .. Len(q) + Len(r) : c[i] = IF i <= Len(q) THEN q[i] ELSE r[i - Len(q)]
  BY <1>1, ConcatProperties
<1>3. Len(q) \in Nat /\ Len(r) \in Nat
  BY <1>1
<1> HIDE DEF c
<1>4. \A i \in 1 .. Len(q) : c[i] = q[i]
  BY <1>2, <1>3
<1>5. \A i \in 1 .. Len(r) : c[Len(q) + i] = r[i]
  <2> SUFFICES ASSUME NEW i \in 1 .. Len(r) PROVE c[Len(q) + i] = r[i]
    OBVIOUS
  <2>1. /\ Len(q) + i \in 1 .. Len(q) + Len(r) /\ ~(Len(q) + i <= Len(q))
        /\ (Len(q) + i) - Len(q) = i
    BY <1>3
  <2> QED BY <1>2, <2>1
<1>6. \A i \in 1 .. Len(c) : i \in 1 .. Len(q) \/ i - Len(q) \in 1 .. Len(r)
  BY <1>2, <1>3
<1>7. IsList(c)
  BY <1>2 DEF IsList
<1> QED BY <1>2, <1>4, <1>5, <1>6, <1>7 DEF c

LEMMA ListWithout ==
  ASSUME NEW q, NEW D, IsList(q)
  PROVE  IsList(Without(q, D)) /\ Selected(Without(q, D), q, D, Len(q))
<1>1. PICK S : q \in Seq(S)
  BY DEF IsList
<1> QED BY <1>1, WithoutSelects DEF IsList

LEMMA LiteralLists ==
  /\ IsList(<<>>) /\ Len(<<>>) = 0
  /\ \A a : IsList(<<a>>) /\ Len(<<a>>) = 1 /\ <<a>>[1] = a
  /\ \A q : IsList(q) => q \o <<>> = q /\ <<>> \o q = q
  /\ \A a, b, c : <<a, b>> = <<a>> \o <<b>> /\ <<a, b, c>> = <<a, b>> \o <<c>>
<1>1. IsList(<<>>) /\ Len(<<>>) = 0
  <2>1. <<>> \in Seq({}) /\ Len(<<>>) = 0
    BY EmptySeq
  <2> QED BY <2>1, Zenon DEF IsList
<1>2. ASSUME NEW a PROVE IsList(<<a>>) /\ Len(<<a>>) = 1 /\ <<a>>[1] = a
  <2>1. <<a>> \in Seq({a})
    OBVIOUS
  <2> QED BY <2>1 DEF IsList
<1>3. ASSUME NEW q, IsList(q) PROVE q \o <<>> = q /\ <<>> \o q = q
  <2>1. PICK S : q \in Seq(S)
    BY <1>3 DEF IsList
  <2> QED BY <2>1, ConcatEmptySeq
<1>4. ASSUME NEW a, NEW b, NEW c PROVE <<a, b>> = <<a>> \o <<b>> /\ <<a, b, c>> = <<a, b>> \o <<c>>
  <2> DEFINE S == {a, b, c}
  <2>1. /\ <<a>> \in Seq(S) /\ <<b>> \in Seq(S) /\ <<c>> \in Seq(S) /\ <<a, b>> \in Seq(S)
        /\ <<a, b, c>> \in Seq(S)
    OBVIOUS
  <2>2. Append(<<a>>, b) = <<a>> \o <<b>> /\ Append(<<a, b>>, c) = <<a, b>> \o <<c>>
    <3> DEFINE x == <<a>>
               y == <<a, b>>
    <3>1. IsList(x) /\ IsList(y)
      BY <2>1 DEF IsList
    <3> HIDE DEF x, y
    <3>2. Append(x, b) = x \o <<b>> /\ Append(y, c) = y \o <<c>>
      BY <3>1, ListAppend
    <3> QED BY <3>2 DEF x, y
  <2>3. Append(<<a>>, b) = <<a, b>>
    <3> DEFINE x == <<a>>
               y == <<a, b>>
               z == Append(x, b)
    <3>1. x \in Seq(S) /\ y \in Seq(S) /\ Len(x) = 1 /\ Len(y) = 2 /\ b \in S
      BY <2>1
    <3>2. x[1] = y[1] /\ y[2] = b
      OBVIOUS
    <3> HIDE DEF x, y, S
    <3>3. z \in Seq(S) /\ Len(z) = 1 + 1 /\ z[1 + 1] = b /\ \A i \in 1 .. 1 : z[i] = x[i]
      <4>1. IsList(x) /\ z \in Seq(S)
        BY <3>1 DEF IsList
      <4>2. /\ Len(z) = Len(x) + 1 /\ z[Len(x) + 1] = b
            /\ \A i \in 1 .. Len(x) : z[i] = x[i]
        BY <4>1, ListAppend
      <4> QED BY <3>1, <4>1, <4>2
    <3>4. \A i \in 1 .. 2 : i = 1 \/ i = 2
      OBVIOUS
    <3> HIDE DEF z
    <3>5. z = y
      BY <3>1, <3>2, <3>3, <3>4, SeqEqual
    <3> QED BY <3>5 DEF x, y, z
  <2>4. Append(<<a, b>>, c) = <<a, b, c>>
    <3> DEFINE x == <<a, b>>
               y == <<a, b, c>>
               z == Append(x, c)
    <3>1. x \in Seq(S) /\ y \in Seq(S) /\ Len(x) = 2 /\ Len(y) = 3 /\ c \in S
      BY <2>1
    <3>2. x[1] = y[1] /\ x[2] = y[2] /\ y[3] = c
      OBVIOUS
    <3> HIDE DEF x, y, S
    <3>3. z \in Seq(S) /\ Len(z) = 2 + 1 /\ z[2 + 1] = c /\ \A i \in 1 .. 2 : z[i] = x[i]
      <4>1. IsList(x) /\ z \in Seq(S)
        BY <3>1 DEF IsList
      <4>2. /\ Len(z) = Len(x) + 1 /\ z[Len(x) + 1] = c
            /\ \A i \in 1 .. Len(x) : z[i] = x[i]
        BY <4>1, ListAppend
      <4> QED BY <3>1, <4>1, <4>2
    <3>4. \A i \in 1 .. 3 : i = 1 \/ i = 2 \/ i = 3
      OBVIOUS
    <3> HIDE DEF z
    <3>5. z = y
      BY <3>1, <3>2, <3>3, <3>4, SeqEqual
    <3> QED BY <3>5 DEF x, y, z
  <2> QED BY <2>2, <2>3, <2>4
<1> QED BY <1>1, <1>2, <1>3, <1>4

(* As a predicate, so that no prover goes on to associate what it has associated *)
Associates(q, r, s) == (q \o r) \o s = q \o (r \o s)

LEMMA ListAssociates ==
  ASSUME NEW q, NEW r, NEW s, IsList(q), IsList(r), IsList(s)
  PROVE  Associates(q, r, s)
<1>1. PICK S : q \in Seq(S) /\ r \in Seq(S)
  BY CommonSet
<1>2. PICK T : s \in Seq(T)
  BY DEF IsList
<1>3. q \in Seq(S \cup T) /\ r \in Seq(S \cup T) /\ s \in Seq(S \cup T)
  BY <1>1, <1>2, SeqMonotonic
<1> QED BY <1>3, ConcatAssociative DEF Associates

LEMMA ListAssociative ==
  ASSUME NEW q, NEW r, NEW s, IsList(q), IsList(r), IsList(s)
  PROVE  (q \o r) \o s = q \o (r \o s)
BY ListAssociates DEF Associates

(* The first element of a list of two parts *)
LEMMA ListTakes ==
  ASSUME NEW q, NEW r, IsList(q), IsList(r), q # <<>>
  PROVE  q \o r # <<>> /\ Head(q \o r) = Head(q) /\ Tail(q \o r) = Tail(q) \o r
<1>1. PICK S : q \in Seq(S) /\ r \in Seq(S)
  BY CommonSet
<1> DEFINE c == q \o r
           d == Tail(q) \o r
<1>2. /\ c \in Seq(S) /\ Len(c) = Len(q) + Len(r)
      /\ \A i \in 1 .. Len(q) + Len(r) : c[i] = IF i <= Len(q) THEN q[i] ELSE r[i - Len(q)]
  BY <1>1, ConcatProperties
<1>3. Len(q) \in Nat \ {0} /\ Len(r) \in Nat
  BY <1>1, EmptySeq
<1>4. /\ Tail(q) \in Seq(S) /\ Len(Tail(q)) = Len(q) - 1 /\ Head(q) = q[1]
      /\ \A i \in 1 .. Len(q) - 1 : Tail(q)[i] = q[i + 1]
  BY <1>1, ListTail, HeadTailProperties
<1>5. /\ d \in Seq(S) /\ Len(d) = (Len(q) - 1) + Len(r)
      /\ \A i \in 1 .. (Len(q) - 1) + Len(r) :
           d[i] = IF i <= Len(q) - 1 THEN Tail(q)[i] ELSE r[i - (Len(q) - 1)]
  BY <1>1, <1>4, ConcatProperties
<1> HIDE DEF c, d
<1>6. c # <<>>
  BY <1>2, <1>3, EmptySeq
<1>7. /\ Tail(c) \in Seq(S) /\ Len(Tail(c)) = Len(c) - 1 /\ Head(c) = c[1]
      /\ \A i \in 1 .. Len(c) - 1 : Tail(c)[i] = c[i + 1]
  BY <1>2, <1>6, ListTail, HeadTailProperties DEF IsList
<1>8. Head(c) = Head(q)
  BY <1>2, <1>3, <1>4, <1>7
<1>9. Tail(c) = d
  <2>1. Len(Tail(c)) = Len(d)
    BY <1>2, <1>3, <1>5, <1>7
  <2>2. ASSUME NEW i \in 1 .. Len(d) PROVE Tail(c)[i] = d[i]
    <3>1. i \in 1 .. Len(c) - 1 /\ i + 1 \in 1 .. Len(q) + Len(r) /\ i \in Nat
      BY <1>2, <1>3, <1>5
    <3>2. Tail(c)[i] = IF i + 1 <= Len(q) THEN q[i + 1] ELSE r[(i + 1) - Len(q)]
      BY <1>2, <1>7, <3>1
    <3>3. CASE i + 1 <= Len(q)
      <4>1. i \in 1 .. Len(q) - 1 /\ i <= Len(q) - 1
        BY <1>3, <3>1, <3>3
      <4> QED BY <1>4, <1>5, <3>2, <3>3, <4>1
    <3>4. CASE ~(i + 1 <= Len(q))
      <4>1. ~(i <= Len(q) - 1) /\ (i + 1) - Len(q) = i - (Len(q) - 1)
        BY <1>3, <3>1, <3>4
      <4> QED BY <1>5, <3>2, <3>4, <4>1
    <3> QED BY <3>3, <3>4
  <2> QED BY <1>5, <1>7, <2>1, <2>2, SeqEqual
<1> QED BY <1>6, <1>8, <1>9 DEF c, d

(* Discarding from two parts *)
LEMMA ListWithoutConcat ==
  ASSUME NEW q, NEW r, NEW D, IsList(q), IsList(r)
  PROVE  Without(q \o r, D) = Without(q, D) \o Without(r, D)
<1>1. PICK S : q \in Seq(S) /\ r \in Seq(S)
  BY CommonSet
<1> DEFINE w == Without(q, D)
           Splits(t) == Without(q \o t, D) = w \o Without(t, D)
           T == {t \in Seq(S) : Splits(t)}
<1>2. w \in Seq(S) /\ IsList(w)
  BY <1>1, WithoutSelects DEF IsList
<1>3. <<>> \in T
  <2>1. Splits(<<>>)
    <3>1. q \o <<>> = q /\ w \o <<>> = w
      BY <1>2, LiteralLists
    <3> QED BY <3>1, WithoutNothing
  <2> QED BY <2>1
<1>4. ASSUME NEW t \in T, NEW e \in S PROVE Append(t, e) \in T
  <2>1. Splits(t) /\ t \in Seq(S)
    OBVIOUS
  <2> DEFINE v == Without(t, D)
             a == Append(t, e)
  <2>2. v \in Seq(S) /\ Without(a, D) = IF e \in D THEN v ELSE Append(v, e)
    BY <2>1, WithoutAppend
  <2>3. q \o a = Append(q \o t, e) /\ q \o t \in Seq(S)
    <3>1. IsList(q) /\ IsList(t) /\ IsList(<<e>>) /\ IsList(q \o t) /\ q \o t \in Seq(S)
      BY <1>1, <2>1, LiteralLists, ConcatProperties DEF IsList
    <3> HIDE DEF T, Splits
    <3>2. (q \o t) \o <<e>> = q \o (t \o <<e>>)
      BY <3>1, ListAssociative
    <3> QED BY <3>1, <3>2, ListAppend
  <2>4. Without(q \o a, D)
          = IF e \in D THEN Without(q \o t, D) ELSE Append(Without(q \o t, D), e)
    <3> DEFINE u == q \o t
    <3>1. u \in Seq(S) /\ q \o a = Append(u, e)
      BY <2>3
    <3> HIDE DEF u, a, T, Splits
    <3>2. Without(Append(u, e), D) = IF e \in D THEN Without(u, D) ELSE Append(Without(u, D), e)
      BY <3>1, WithoutAppend
    <3> QED BY <3>1, <3>2 DEF u
  <2>5. Append(w \o v, e) = w \o Append(v, e)
    <3>1. IsList(w) /\ IsList(v) /\ IsList(<<e>>) /\ IsList(w \o v)
      BY <1>2, <2>2, LiteralLists, ListConcat DEF IsList
    <3> HIDE DEF w, v, T, Splits
    <3>2. (w \o v) \o <<e>> = w \o (v \o <<e>>)
      BY <3>1, ListAssociative, SMTT(20)
    <3> QED BY <3>1, <3>2, ListAppend
  <2>6. Splits(a)
    <3> HIDE DEF w, v, a, T
    <3> QED BY <2>1, <2>2, <2>4, <2>5 DEF v
  <2>7. a \in Seq(S)
    BY <2>1
  <2> QED BY <2>6, <2>7
<1> HIDE DEF T, Splits
<1>5. T = Seq(S)
  BY <1>3, <1>4, InductionOnLists DEF T
<1>6. Splits(r)
  BY <1>1, <1>5 DEF T
<1> QED BY <1>6 DEF Splits

-----------------------------------------------------------------------------
(* The lots an event will tell a strategy instance of *)
LotsOf(e) == IF e.event = "InstanceTrade" THEN e.volume ELSE 0

(* A list whose trades have whole lots *)
Whole(q) == IsList(q) /\ \A i \in 1 .. Len(q) : LotsOf(q[i]) \in Int

-----------------------------------------------------------------------------
(* The sum in LotsIn *)
LotsInSteps(f, q) ==
  /\ f \in [0 .. Len(q) -> Int]
  /\ f[0] = 0
  /\ \A i \in 1 .. Len(q) : f[i] = f[i - 1] + LotsOf(q[i])

LEMMA LotsAreSteps ==
  ASSUME NEW q, Whole(q)
  PROVE  \E f : LotsInSteps(f, q) /\ LotsIn(q) = f[Len(q)]
<1> DEFINE n == Len(q)
           G == [p \in (1 .. n) \X Int |-> p[2] + LotsOf(q[p[1]])]
           Is(f) == f = [i \in 0 .. n |-> IF i = 0 THEN 0 ELSE f[i - 1] + LotsOf(q[i])]
           h == CHOOSE f : Is(f)
<1>0. n \in Nat /\ \A i \in 1 .. n : LotsOf(q[i]) \in Int
  BY ListIndices DEF Whole
<1>1. LotsIn(q) = h[n]
  BY DEF LotsIn, LotsOf
<1>2. G \in [(1 .. n) \X Int -> Int]
  BY <1>0
<1>3. \A i \in 1 .. n, x \in Int : G[<<i, x>>] = x + LotsOf(q[i])
  OBVIOUS
<1> HIDE DEF G, n, h
<1>4. PICK f \in [0 .. n -> Int] : f[0] = 0 /\ \A i \in 1 .. n : f[i] = G[<<i, f[i - 1]>>]
  <2>1. Recursion(Int, 0, n, G)
    BY <1>0, <1>2 DEF Recursion
  <2> QED BY <2>1, RecursionExists
<1>5. \A i \in 1 .. n : f[i] = f[i - 1] + LotsOf(q[i])
  <2> SUFFICES ASSUME NEW i \in 1 .. n PROVE f[i] = f[i - 1] + LotsOf(q[i])
    OBVIOUS
  <2>1. i - 1 \in 0 .. n
    BY <1>0
  <2>2. f[i - 1] \in Int
    BY <2>1
  <2> QED BY <1>3, <1>4, <2>2
<1>6. \A i \in 0 .. n : f[i] = IF i = 0 THEN 0 ELSE f[i - 1] + LotsOf(q[i])
  <2> SUFFICES ASSUME NEW i \in 0 .. n
               PROVE  f[i] = IF i = 0 THEN 0 ELSE f[i - 1] + LotsOf(q[i])
    OBVIOUS
  <2>1. i = 0 \/ i \in 1 .. n
    BY <1>0
  <2> QED BY <1>4, <1>5, <2>1
<1>7. Is(f)
  BY <1>6
<1>8. Is(h)
  BY <1>7 DEF h
<1>9. \A i \in 0 .. n : h[i] = IF i = 0 THEN 0 ELSE h[i - 1] + LotsOf(q[i])
  BY <1>8
<1> HIDE DEF Is
<1>10. SameSteps(f, h, n)
  <2>1. \A i \in 1 .. n : i \in 0 .. n /\ i # 0
    BY <1>0
  <2>2. 0 \in 0 .. n
    BY <1>0
  <2> QED BY <1>0, <1>4, <1>5, <1>9, <2>1, <2>2 DEF SameSteps
<1>11. f[n] = h[n]
  BY <1>10, RecursionIsUnique
<1> QED BY <1>1, <1>4, <1>5, <1>11 DEF LotsInSteps, n

LEMMA LotsOfNothing == Whole(<<>>) /\ LotsIn(<<>>) = 0
<1> DEFINE e == <<>>
<1>0. IsList(e) /\ Len(e) = 0
  BY LiteralLists
<1> HIDE DEF e
<1>1. Whole(e)
  BY <1>0 DEF Whole
<1>2. PICK f : LotsInSteps(f, e) /\ LotsIn(e) = f[Len(e)]
  BY <1>1, LotsAreSteps
<1>3. LotsIn(e) = 0
  BY <1>0, <1>2 DEF LotsInSteps
<1> QED BY <1>1, <1>3 DEF e

LEMMA LotsAppend ==
  ASSUME NEW q, Whole(q), NEW e, LotsOf(e) \in Int
  PROVE  /\ Whole(Append(q, e)) /\ LotsIn(q) \in Int
         /\ LotsIn(Append(q, e)) = LotsIn(q) + LotsOf(e)
<1> DEFINE a == Append(q, e)
           n == Len(q)
<1>1. /\ n \in Nat /\ IsList(a) /\ Len(a) = n + 1 /\ a[n + 1] = e
      /\ \A i \in 1 .. n : a[i] = q[i]
  BY ListAppend, ListIndices DEF Whole
<1>2. \A i \in 1 .. n + 1 : i \in 1 .. n \/ i = n + 1
  BY <1>1
<1>3. Whole(a)
  BY <1>1, <1>2 DEF Whole
<1>5. PICK f : LotsInSteps(f, q) /\ LotsIn(q) = f[n]
  BY LotsAreSteps
<1>6. PICK g : LotsInSteps(g, a) /\ LotsIn(a) = g[n + 1]
  <2>1. \E g : LotsInSteps(g, a) /\ LotsIn(a) = g[Len(a)]
    BY <1>3, LotsAreSteps
  <2> QED BY <1>1, <2>1
<1> HIDE DEF a, n
<1>7. ASSUME NEW i \in 1 .. n, f[i - 1] = g[i - 1] PROVE f[i] = g[i]
  <2>1. i \in 1 .. n + 1
    BY <1>1
  <2>2. f[i] = f[i - 1] + LotsOf(q[i]) /\ g[i] = g[i - 1] + LotsOf(a[i]) /\ a[i] = q[i]
    BY <1>1, <1>5, <1>6, <2>1 DEF LotsInSteps, n
  <2> QED BY <1>7, <2>2
<1>8. f[n] = g[n]
  <2>1. SameSteps(f, g, n)
    BY <1>1, <1>5, <1>6, <1>7 DEF SameSteps, LotsInSteps
  <2> QED BY <2>1, RecursionIsUnique
<1>9. g[n + 1] = g[n] + LotsOf(e)
  <2>1. n + 1 \in 1 .. n + 1 /\ (n + 1) - 1 = n
    BY <1>1
  <2> QED BY <1>1, <1>6, <2>1 DEF LotsInSteps
<1>10. f[n] \in Int
  BY <1>1, <1>5 DEF LotsInSteps, n
<1> QED BY <1>3, <1>5, <1>6, <1>8, <1>9, <1>10 DEF a

LEMMA LotsConcat ==
  ASSUME NEW q, NEW r, Whole(q), Whole(r)
  PROVE  /\ Whole(q \o r) /\ LotsIn(q) \in Int /\ LotsIn(r) \in Int
         /\ LotsIn(q \o r) = LotsIn(q) + LotsIn(r)
<1>1. PICK S0 : r \in Seq(S0)
  BY DEF Whole, IsList
<1> DEFINE S == {e \in S0 : LotsOf(e) \in Int}
           Adds(t) == Whole(q \o t) /\ Whole(t) /\ LotsIn(q \o t) = LotsIn(q) + LotsIn(t)
           T == {t \in Seq(S) : Adds(t)}
<1>2. r \in Seq(S)
  <2>1. \A i \in 1 .. Len(r) : r[i] \in S
    BY <1>1 DEF Whole
  <2> QED BY <1>1, <2>1
<1>3. LotsIn(q) \in Int
  <2>1. LotsOf([event |-> "none"]) = 0
    BY DEF LotsOf
  <2> QED BY <2>1, LotsAppend
<1>4. <<>> \in T
  <2>1. q \o <<>> = q
    BY LiteralLists DEF Whole
  <2>2. Adds(<<>>)
    BY <1>3, <2>1, LotsOfNothing
  <2> QED BY <2>2
<1>5. ASSUME NEW t \in T, NEW e \in S PROVE Append(t, e) \in T
  <2>1. Adds(t) /\ t \in Seq(S) /\ LotsOf(e) \in Int
    OBVIOUS
  <2>2. q \o Append(t, e) = Append(q \o t, e)
    <3>1. IsList(q) /\ IsList(t) /\ IsList(<<e>>) /\ IsList(q \o t)
      BY <2>1, LiteralLists DEF Whole
    <3> HIDE DEF S, T, Adds
    <3>2. (q \o t) \o <<e>> = q \o (t \o <<e>>)
      BY <3>1, ListAssociative
    <3> QED BY <3>1, <3>2, ListAppend
  <2>3. /\ Whole(Append(t, e)) /\ LotsIn(t) \in Int
        /\ LotsIn(Append(t, e)) = LotsIn(t) + LotsOf(e)
    BY <2>1, LotsAppend
  <2>4. /\ Whole(Append(q \o t, e))
        /\ LotsIn(Append(q \o t, e)) = LotsIn(q \o t) + LotsOf(e)
    BY <2>1, LotsAppend
  <2>5. Adds(Append(t, e))
    BY <1>3, <2>1, <2>2, <2>3, <2>4
  <2>6. Append(t, e) \in Seq(S)
    BY <2>1
  <2> QED BY <2>5, <2>6
<1> HIDE DEF T, Adds, S
<1>6. T = Seq(S)
  BY <1>4, <1>5, InductionOnLists DEF T
<1>7. Adds(r)
  BY <1>2, <1>6 DEF T
<1>8. LotsIn(r) \in Int
  <2>1. LotsOf([event |-> "none"]) = 0
    BY DEF LotsOf
  <2> QED BY <2>1, LotsAppend
<1> QED BY <1>3, <1>7, <1>8 DEF Adds

LEMMA LotsOfOne ==
  ASSUME NEW e, LotsOf(e) \in Int
  PROVE  Whole(<<e>>) /\ LotsIn(<<e>>) = LotsOf(e)
<1> DEFINE n == <<>>
<1>1. Append(n, e) = <<e>> /\ Whole(n) /\ LotsIn(n) = 0
  BY LotsOfNothing
<1> HIDE DEF n
<1>2. Whole(Append(n, e)) /\ LotsIn(Append(n, e)) = LotsIn(n) + LotsOf(e)
  BY <1>1, LotsAppend
<1> QED BY <1>1, <1>2

LEMMA LotsTail ==
  ASSUME NEW q, Whole(q), q # <<>>
  PROVE  /\ Whole(Tail(q)) /\ LotsOf(Head(q)) \in Int /\ LotsIn(q) \in Int
         /\ LotsIn(Tail(q)) = LotsIn(q) - LotsOf(Head(q))
<1> DEFINE t == Tail(q)
           e == Head(q)
<1>1. /\ IsList(t) /\ Len(t) = Len(q) - 1 /\ \A i \in 1 .. Len(q) - 1 : t[i] = q[i + 1]
      /\ e = q[1] /\ q = <<e>> \o t /\ Len(q) \in Nat \ {0}
  BY ListTail, ListIndices DEF Whole
<1> HIDE DEF t, e
<1>2. LotsOf(e) \in Int
  BY <1>1 DEF Whole
<1>3. Whole(t)
  <2>1. \A i \in 1 .. Len(q) - 1 : i + 1 \in 1 .. Len(q)
    BY <1>1
  <2> QED BY <1>1, <2>1 DEF Whole
<1>4. LotsIn(q) = LotsIn(<<e>>) + LotsIn(t) /\ LotsIn(t) \in Int
  BY <1>1, <1>2, <1>3, LotsOfOne, LotsConcat
<1> QED BY <1>2, <1>3, <1>4, LotsOfOne DEF t, e

LEMMA LotsWithout ==
  ASSUME NEW q, NEW D, Whole(q), \A e \in D : LotsOf(e) = 0
  PROVE  Whole(Without(q, D)) /\ LotsIn(Without(q, D)) = LotsIn(q)
<1>1. PICK S0 : q \in Seq(S0)
  BY DEF Whole, IsList
<1> DEFINE S == {e \in S0 : LotsOf(e) \in Int}
           Keeps(t) == Whole(t) /\ Whole(Without(t, D)) /\ LotsIn(Without(t, D)) = LotsIn(t)
           T == {t \in Seq(S) : Keeps(t)}
<1>2. q \in Seq(S)
  <2>1. \A i \in 1 .. Len(q) : q[i] \in S
    BY <1>1 DEF Whole
  <2> QED BY <1>1, <2>1
<1>3. <<>> \in T
  BY LotsOfNothing, WithoutNothing
<1>4. ASSUME NEW t \in T, NEW e \in S PROVE Append(t, e) \in T
  <2>1. Keeps(t) /\ t \in Seq(S) /\ LotsOf(e) \in Int
    OBVIOUS
  <2>2. Without(Append(t, e), D) = IF e \in D THEN Without(t, D) ELSE Append(Without(t, D), e)
    <3> HIDE DEF S, T, Keeps
    <3> QED BY <2>1, WithoutAppend
  <2>3. /\ Whole(Append(t, e)) /\ LotsIn(t) \in Int
        /\ LotsIn(Append(t, e)) = LotsIn(t) + LotsOf(e)
    BY <2>1, LotsAppend
  <2>4. /\ Whole(Append(Without(t, D), e))
        /\ LotsIn(Append(Without(t, D), e)) = LotsIn(Without(t, D)) + LotsOf(e)
    BY <2>1, LotsAppend
  <2>5. Keeps(Append(t, e))
    <3>1. CASE e \in D
      BY <2>1, <2>2, <2>3, <3>1
    <3>2. CASE e \notin D
      BY <2>1, <2>2, <2>3, <2>4, <3>2
    <3> QED BY <3>1, <3>2
  <2>6. Append(t, e) \in Seq(S)
    BY <2>1
  <2> QED BY <2>5, <2>6
<1> HIDE DEF T, Keeps, S
<1>5. T = Seq(S)
  BY <1>3, <1>4, InductionOnLists DEF T
<1> QED BY <1>2, <1>5 DEF T, Keeps

(* The events of a list are of kinds in K. *)
Kinds(q, K) == \A i \in 1 .. Len(q) : q[i].event \in K

LEMMA KindsConcat ==
  ASSUME NEW q, NEW r, NEW K, IsList(q), IsList(r), Kinds(q, K), Kinds(r, K)
  PROVE  IsList(q \o r) /\ Kinds(q \o r, K)
<1> DEFINE c == q \o r
<1>1. /\ IsList(c) /\ \A i \in 1 .. Len(q) : c[i] = q[i]
      /\ \A i \in 1 .. Len(r) : c[Len(q) + i] = r[i]
      /\ \A i \in 1 .. Len(c) : i \in 1 .. Len(q) \/ i - Len(q) \in 1 .. Len(r)
  BY ListConcat
<1>2. Len(q) \in Nat
  BY ListIndices
<1> HIDE DEF c
<1>3. ASSUME NEW i \in 1 .. Len(c) PROVE c[i].event \in K
  <2>1. CASE i \in 1 .. Len(q)
    BY <1>1, <2>1 DEF Kinds
  <2>2. CASE i - Len(q) \in 1 .. Len(r)
    <3>1. Len(q) + (i - Len(q)) = i
      BY <1>2
    <3>2. c[i] = r[i - Len(q)]
      BY <1>1, <2>2, <3>1
    <3> QED BY <2>2, <3>2 DEF Kinds
  <2> QED BY <1>1, <2>1, <2>2
<1> QED BY <1>1, <1>3 DEF c, Kinds

LEMMA KindsTail ==
  ASSUME NEW q, NEW K, IsList(q), Kinds(q, K), q # <<>>
  PROVE  IsList(Tail(q)) /\ Kinds(Tail(q), K) /\ Head(q).event \in K
<1>1. /\ IsList(Tail(q)) /\ Len(Tail(q)) = Len(q) - 1 /\ Head(q) = q[1]
      /\ \A i \in 1 .. Len(q) - 1 : Tail(q)[i] = q[i + 1]
      /\ Len(q) \in Nat \ {0}
  BY ListTail, ListIndices
<1>2. 1 \in 1 .. Len(q) /\ \A i \in 1 .. Len(q) - 1 : i + 1 \in 1 .. Len(q)
  BY <1>1
<1> QED BY <1>1, <1>2 DEF Kinds

LEMMA KindsWithout ==
  ASSUME NEW q, NEW K, NEW D, IsList(q), Kinds(q, K)
  PROVE  IsList(Without(q, D)) /\ Kinds(Without(q, D), K)
<1> DEFINE w == Without(q, D)
<1>1. IsList(w) /\ Selected(w, q, D, Len(q))
  BY ListWithout
<1> HIDE DEF w
<1>2. PICK h \in [1 .. Len(w) -> 1 .. Len(q)] : \A k \in 1 .. Len(w) : w[k] = q[h[k]]
  BY <1>1 DEF Selected
<1> QED BY <1>1, <1>2 DEF w, Kinds

LEMMA KindsOfOne ==
  ASSUME NEW e
  PROVE  /\ IsList(<<e>>) /\ Kinds(<<e>>, {e.event})
         /\ \A K : e.event \in K => Kinds(<<e>>, K)
<1>1. IsList(<<e>>) /\ Len(<<e>>) = 1 /\ <<e>>[1] = e
  BY LiteralLists
<1>2. \A i \in 1 .. 1 : i = 1
  OBVIOUS
<1> QED BY <1>1, <1>2 DEF Kinds

LEMMA KindsOfNothing == ASSUME NEW K PROVE IsList(<<>>) /\ Kinds(<<>>, K)
<1> DEFINE n == <<>>
<1>1. IsList(n) /\ Len(n) = 0
  BY LiteralLists
<1> HIDE DEF n
<1>2. Kinds(n, K)
  BY <1>1 DEF Kinds
<1> QED BY <1>1, <1>2 DEF n

LEMMA KindsSubset ==
  ASSUME NEW q, NEW K, NEW L, Kinds(q, K), K \subseteq L
  PROVE  Kinds(q, L)
BY DEF Kinds

LEMMA LotsOfOthers ==
  ASSUME NEW q, NEW K, IsList(q), Kinds(q, K), "InstanceTrade" \notin K
  PROVE  Whole(q) /\ LotsIn(q) = 0
<1>1. \A i \in 1 .. Len(q) : LotsOf(q[i]) = 0
  BY DEF Kinds, LotsOf
<1>2. Whole(q)
  BY <1>1 DEF Whole
<1>3. PICK f : LotsInSteps(f, q) /\ LotsIn(q) = f[Len(q)]
  BY <1>2, LotsAreSteps
<1> DEFINE n == Len(q)
           z == [i \in 0 .. n |-> 0]
<1>4. n \in Nat
  BY ListIndices
<1>5. z[0] = 0 /\ z[n] = 0 /\ \A i \in 1 .. n : z[i] = 0 /\ z[i - 1] = 0
  BY <1>4
<1> HIDE DEF z, n
<1>6. SameSteps(f, z, n)
  <2>1. \A i \in 1 .. n : f[i] = f[i - 1] + 0
    BY <1>1, <1>3 DEF LotsInSteps, n
  <2> QED BY <1>3, <1>4, <1>5, <2>1 DEF SameSteps, LotsInSteps
<1>7. f[n] = z[n]
  BY <1>6, RecursionIsUnique
<1> QED BY <1>2, <1>3, <1>5, <1>7 DEF n

-----------------------------------------------------------------------------
(* The last entry of a kind in a list *)
NoneOf(q, k) == \E K : Kinds(q, K) /\ k \notin K

LEMMA NoneOfSome ==
  ASSUME NEW q, NEW k, NEW K, Kinds(q, K), k \notin K
  PROVE  NoneOf(q, k)
BY DEF NoneOf

LEMMA NoneOfNothing == ASSUME NEW k PROVE IsList(<<>>) /\ NoneOf(<<>>, k)
<1> DEFINE K == {}
           n == <<>>
<1>1. IsList(n) /\ Kinds(n, K) /\ k \notin K
  BY KindsOfNothing
<1> HIDE DEF n, K
<1> QED BY <1>1, NoneOfSome DEF n

LEMMA NoneOfOne ==
  ASSUME NEW e, NEW k, e.event # k
  PROVE  IsList(<<e>>) /\ NoneOf(<<e>>, k)
<1> DEFINE K == {e.event}
           n == <<e>>
<1>1. IsList(n) /\ Kinds(n, K) /\ k \notin K
  BY KindsOfOne
<1> HIDE DEF n, K
<1> QED BY <1>1, NoneOfSome DEF n

LEMMA NoneOfConcat ==
  ASSUME NEW q, NEW r, NEW k, IsList(q), IsList(r), NoneOf(q, k), NoneOf(r, k)
  PROVE  IsList(q \o r) /\ NoneOf(q \o r, k)
<1>1. PICK K : Kinds(q, K) /\ k \notin K
  BY DEF NoneOf
<1>2. PICK L : Kinds(r, L) /\ k \notin L
  BY DEF NoneOf
<1> DEFINE M == K \cup L
<1>3. K \subseteq M /\ L \subseteq M /\ k \notin M
  BY <1>1, <1>2
<1> HIDE DEF M
<1>4. Kinds(q, M) /\ Kinds(r, M)
  BY <1>1, <1>2, <1>3, KindsSubset
<1>5. IsList(q \o r) /\ Kinds(q \o r, M)
  BY <1>4, KindsConcat
<1> QED BY <1>3, <1>5, NoneOfSome

LEMMA NoneOfTail ==
  ASSUME NEW q, NEW k, IsList(q), NoneOf(q, k), q # <<>>
  PROVE  IsList(Tail(q)) /\ NoneOf(Tail(q), k) /\ Head(q).event # k
BY KindsTail DEF NoneOf

LEMMA NoneOfWithout ==
  ASSUME NEW q, NEW k, NEW D, IsList(q), NoneOf(q, k)
  PROVE  IsList(Without(q, D)) /\ NoneOf(Without(q, D), k)
BY KindsWithout DEF NoneOf

(* e is the last k of q. *)
LastOf(q, k, e) ==
  \E a, b : /\ IsList(a) /\ IsList(b) /\ NoneOf(b, k) /\ e.event = k
            /\ q = (a \o <<e>>) \o b

LEMMA LastOfOne ==
  ASSUME NEW e, NEW k, e.event = k
  PROVE  LastOf(<<e>>, k, e)
<1> DEFINE n == <<>>
           x == <<e>>
<1>1. IsList(n) /\ NoneOf(n, k) /\ IsList(x)
  BY NoneOfNothing, LiteralLists
<1>2. n \o x = x /\ x \o n = x
  BY <1>1, LiteralLists
<1> HIDE DEF n
<1>3. (n \o x) \o n = x
  BY <1>2
<1> QED BY <1>1, <1>3 DEF LastOf

LEMMA LastOfConcat ==
  ASSUME NEW q, NEW r, NEW k, NEW e, IsList(q), IsList(r)
  PROVE  /\ LastOf(q, k, e) /\ NoneOf(r, k) => LastOf(q \o r, k, e)
         /\ LastOf(r, k, e) => LastOf(q \o r, k, e)
<1> DEFINE x == <<e>>
<1>0. IsList(x)
  BY LiteralLists
<1>1. ASSUME LastOf(q, k, e), NoneOf(r, k) PROVE LastOf(q \o r, k, e)
  <2>1. PICK a, b : /\ IsList(a) /\ IsList(b) /\ NoneOf(b, k) /\ e.event = k
                    /\ q = (a \o x) \o b
    BY <1>1 DEF LastOf
  <2> HIDE DEF x
  <2>2. IsList(b \o r) /\ NoneOf(b \o r, k)
    BY <1>1, <2>1, NoneOfConcat
  <2>3. IsList(a \o x)
    BY <1>0, <2>1, ListConcat
  <2>4. q \o r = (a \o x) \o (b \o r)
    BY <2>1, <2>3, ListAssociative
  <2> DEFINE c == b \o r
  <2>5. IsList(c) /\ NoneOf(c, k) /\ q \o r = (a \o x) \o c
    BY <2>2, <2>4
  <2> HIDE DEF c
  <2> QED BY <2>1, <2>5 DEF LastOf, x
<1>2. ASSUME LastOf(r, k, e) PROVE LastOf(q \o r, k, e)
  <2>1. PICK a, b : /\ IsList(a) /\ IsList(b) /\ NoneOf(b, k) /\ e.event = k
                    /\ r = (a \o x) \o b
    BY <1>2 DEF LastOf
  <2> HIDE DEF x
  <2>2. IsList(a \o x) /\ IsList(q \o a)
    BY <1>0, <2>1, ListConcat
  <2>3. q \o r = (q \o (a \o x)) \o b
    BY <2>1, <2>2, ListAssociative
  <2>4. q \o (a \o x) = (q \o a) \o x
    <3>1. IsList(q) /\ IsList(a) /\ IsList(x)
      BY <1>0, <2>1
    <3>2. (q \o a) \o x = q \o (a \o x)
      BY <3>1, ListAssociative
    <3> QED BY <3>2, Zenon
  <2> DEFINE c == q \o a
  <2>5. IsList(c) /\ q \o r = (c \o x) \o b
    BY <2>2, <2>3, <2>4
  <2> HIDE DEF c
  <2> QED BY <2>1, <2>5 DEF LastOf, x
<1> QED BY <1>1, <1>2

LEMMA LastOfIsThere ==
  ASSUME NEW q, NEW k, NEW e, LastOf(q, k, e)
  PROVE  IsList(q) /\ q # <<>> /\ ~NoneOf(q, k)
<1> DEFINE x == <<e>>
<1>1. PICK a, b : /\ IsList(a) /\ IsList(b) /\ NoneOf(b, k) /\ e.event = k
                  /\ q = (a \o x) \o b
  BY DEF LastOf
<1>2. IsList(x) /\ Len(x) = 1 /\ x[1] = e
  BY LiteralLists
<1> HIDE DEF x
<1> DEFINE c == a \o x
<1>3. /\ IsList(c) /\ Len(c) = Len(a) + 1 /\ c[Len(a) + 1] = e /\ Len(a) \in Nat
  <2>0. IsList(a) /\ IsList(x)
    BY <1>1, <1>2
  <2>1. /\ IsList(c) /\ Len(c) = Len(a) + Len(x)
        /\ \A i \in 1 .. Len(x) : c[Len(a) + i] = x[i]
    BY <2>0, ListConcat
  <2>2. Len(a) \in Nat
    BY <1>1, ListIndices
  <2> QED BY <1>2, <2>1, <2>2
<1>4. /\ IsList(q) /\ Len(q) = Len(c) + Len(b) /\ \A i \in 1 .. Len(c) : q[i] = c[i]
      /\ Len(b) \in Nat
  BY <1>1, <1>3, ListConcat, ListIndices
<1>5. Len(a) + 1 \in 1 .. Len(q) /\ q[Len(a) + 1] = e
  BY <1>3, <1>4
<1>6. Len(q) # 0
  BY <1>5
<1>7. q # <<>>
  BY <1>6, LiteralLists
<1>8. ~NoneOf(q, k)
  BY <1>1, <1>5 DEF NoneOf, Kinds
<1> QED BY <1>4, <1>7, <1>8

LEMMA LastOfTail ==
  ASSUME NEW q, NEW k, NEW e, LastOf(q, k, e)
  PROVE  \/ Head(q) = e /\ NoneOf(Tail(q), k)
         \/ LastOf(Tail(q), k, e)
<1> DEFINE x == <<e>>
<1>1. PICK a, b : /\ IsList(a) /\ IsList(b) /\ NoneOf(b, k) /\ e.event = k
                  /\ q = (a \o x) \o b
  BY DEF LastOf
<1>2. IsList(x) /\ x # <<>> /\ Head(x) = e /\ Tail(x) = <<>>
  <2>1. IsList(x) /\ Len(x) = 1 /\ x[1] = e
    BY LiteralLists
  <2>2. x # <<>> /\ Head(x) = e /\ Tail(x) = <<>>
    OBVIOUS
  <2> QED BY <2>1, <2>2
<1> HIDE DEF x
<1>3. CASE a = <<>>
  <2>1. q = x \o b
    BY <1>1, <1>2, <1>3, LiteralLists
  <2>2. Head(q) = e /\ Tail(q) = <<>> \o b
    <3>1. Head(x \o b) = Head(x) /\ Tail(x \o b) = Tail(x) \o b
      BY <1>1, <1>2, ListTakes
    <3> QED BY <1>2, <2>1, <3>1
  <2>3. <<>> \o b = b
    BY <1>1, LiteralLists
  <2> QED BY <1>1, <2>2, <2>3
<1>4. CASE a # <<>>
  <2> DEFINE t == Tail(a)
             c == a \o x
  <2>1. IsList(c) /\ c # <<>> /\ Tail(c) = t \o x /\ IsList(t)
    BY <1>1, <1>2, <1>4, ListTakes, ListConcat, ListTail
  <2>2. Tail(q) = Tail(c) \o b
    <3> HIDE DEF c
    <3>1. q = c \o b
      BY <1>1 DEF c
    <3> QED BY <1>1, <2>1, <3>1, ListTakes
  <2> HIDE DEF t, c
  <2>3. Tail(q) = (t \o x) \o b
    BY <2>1, <2>2
  <2> QED BY <1>1, <2>1, <2>3 DEF LastOf, x
<1> QED BY <1>3, <1>4

LEMMA LastOfWithout ==
  ASSUME NEW q, NEW k, NEW e, NEW D, LastOf(q, k, e), e \notin D
  PROVE  LastOf(Without(q, D), k, e)
<1> DEFINE x == <<e>>
<1>1. PICK a, b : /\ IsList(a) /\ IsList(b) /\ NoneOf(b, k) /\ e.event = k
                  /\ q = (a \o x) \o b
  BY DEF LastOf
<1>2. IsList(x)
  BY LiteralLists
<1>3. Without(x, D) = x
  <2> DEFINE n == <<>>
             S == {e}
  <2>1. n \in Seq(S) /\ Append(n, e) = x /\ e \in S /\ Without(n, D) = n
    BY WithoutNothing
  <2> HIDE DEF n, S, x
  <2>2. Without(Append(n, e), D) = IF e \in D THEN Without(n, D) ELSE Append(Without(n, D), e)
    <3>1. n \in Seq(S) /\ e \in S
      BY <2>1
    <3> QED BY <3>1, WithoutAppend
  <2> QED BY <2>1, <2>2
<1> HIDE DEF x
<1> DEFINE v == Without(a, D)
           w == Without(b, D)
           c == a \o x
<1>4. IsList(v) /\ IsList(w) /\ NoneOf(w, k) /\ IsList(c)
  BY <1>1, <1>2, NoneOfWithout, ListWithout, ListConcat
<1>5. Without(c, D) = v \o x
  BY <1>1, <1>2, <1>3, ListWithoutConcat
<1>6. Without(q, D) = Without(c, D) \o w
  <2>1. q = c \o b
    BY <1>1
  <2> HIDE DEF c
  <2> QED BY <1>1, <1>4, <2>1, ListWithoutConcat
<1> HIDE DEF v, w, c
<1>7. Without(q, D) = (v \o x) \o w
  BY <1>5, <1>6
<1> QED BY <1>1, <1>4, <1>7 DEF LastOf, x

(* After the k entries of q have been handled, the last one handled is e; it was e0
   before. *)
Final(q, k, e0, e) == (NoneOf(q, k) /\ e = e0) \/ LastOf(q, k, e)

LEMMA FinalConcat ==
  ASSUME NEW q, NEW r, NEW k, NEW e0, NEW e, IsList(q), IsList(r)
  PROVE  /\ Final(q, k, e0, e) /\ NoneOf(r, k) => Final(q \o r, k, e0, e)
         /\ LastOf(r, k, e) => Final(q \o r, k, e0, e)
BY NoneOfConcat, LastOfConcat DEF Final

LEMMA FinalTail ==
  ASSUME NEW q, NEW k, NEW e0, NEW e, IsList(q), q # <<>>, Final(q, k, e0, e)
  PROVE  /\ Head(q).event # k => Final(Tail(q), k, e0, e)
         /\ Head(q).event = k => Final(Tail(q), k, Head(q), e)
<1>1. CASE NoneOf(q, k) /\ e = e0
  BY <1>1, NoneOfTail DEF Final
<1>2. CASE LastOf(q, k, e)
  <2>1. e.event = k
    BY <1>2 DEF LastOf
  <2> QED BY <1>2, <2>1, LastOfTail DEF Final
<1> QED BY <1>1, <1>2 DEF Final

LEMMA FinalWithout ==
  ASSUME NEW q, NEW k, NEW e0, NEW e, NEW D, IsList(q), Final(q, k, e0, e),
         \A d \in D : d.event # k
  PROVE  Final(Without(q, D), k, e0, e)
<1>1. CASE NoneOf(q, k) /\ e = e0
  BY <1>1, NoneOfWithout DEF Final
<1>2. CASE LastOf(q, k, e)
  <2>1. e.event = k
    BY <1>2 DEF LastOf
  <2>2. e \notin D
    BY <2>1
  <2> QED BY <1>2, <2>2, LastOfWithout DEF Final
<1> QED BY <1>1, <1>2 DEF Final

-----------------------------------------------------------------------------
(* Without for two sets that have the same elements of the list *)
LEMMA WithoutAlike ==
  ASSUME NEW S, NEW q \in Seq(S), NEW D, NEW F,
         \A i \in 1 .. Len(q) : q[i] \in D <=> q[i] \in F
  PROVE  Without(q, D) = Without(q, F)
<1> DEFINE Alike(r) == \A i \in 1 .. Len(r) : r[i] \in D <=> r[i] \in F
           T == {r \in Seq(S) : Alike(r) => Without(r, D) = Without(r, F)}
<1>1. T \in SUBSET Seq(S)
  OBVIOUS
<1>2. <<>> \in T
  <2> DEFINE e == <<>>
  <2>1. Without(e, D) = Without(e, F)
    BY WithoutNothing
  <2>2. e \in Seq(S)
    OBVIOUS
  <2> HIDE DEF e
  <2>3. e \in T
    BY <2>1, <2>2
  <2> QED BY <2>3 DEF e
<1>3. ASSUME NEW r \in T, NEW e \in S PROVE Append(r, e) \in T
  <2> DEFINE a == Append(r, e)
  <2>0. IsList(r) /\ r \in Seq(S)
    BY DEF IsList
  <2>1. /\ a \in Seq(S) /\ Len(a) = Len(r) + 1 /\ Len(r) \in Nat
        /\ (\A i \in 1 .. Len(r) : a[i] = r[i]) /\ a[Len(r) + 1] = e
    BY <2>0, ListAppend
  <2>2. /\ Without(a, D) = IF e \in D THEN Without(r, D) ELSE Append(Without(r, D), e)
        /\ Without(a, F) = IF e \in F THEN Without(r, F) ELSE Append(Without(r, F), e)
    BY <2>0, WithoutAppend
  <2> HIDE DEF a
  <2>3. ASSUME Alike(a) PROVE Without(a, D) = Without(a, F)
    <3>1. Alike(r)
      <4> SUFFICES ASSUME NEW i \in 1 .. Len(r) PROVE r[i] \in D <=> r[i] \in F
        OBVIOUS
      <4>1. i \in 1 .. Len(a) /\ a[i] = r[i]
        BY <2>1
      <4> QED BY <2>3, <4>1
    <3>2. e \in D <=> e \in F
      <4>1. Len(a) \in 1 .. Len(a) /\ a[Len(a)] = e
        BY <2>1
      <4> QED BY <2>3, <4>1
    <3>3. Without(r, D) = Without(r, F)
      BY <3>1
    <3> QED BY <2>2, <3>2, <3>3
  <2> QED BY <2>1, <2>3 DEF a
<1> HIDE DEF T
<1>4. T = Seq(S)
  BY <1>1, <1>2, <1>3, InductionOnLists
<1>5. q \in T
  BY <1>4
<1> QED BY <1>5 DEF T

LEMMA WithoutNone ==
  ASSUME NEW S, NEW q \in Seq(S), NEW D, \A i \in 1 .. Len(q) : q[i] \notin D
  PROVE  Without(q, D) = q
<1> DEFINE T == {r \in Seq(S) : Without(r, {}) = r}
<1>1. <<>> \in T
  <2> DEFINE e == <<>>
  <2>1. Without(e, {}) = e
    BY WithoutNothing
  <2>2. e \in Seq(S)
    OBVIOUS
  <2> HIDE DEF e
  <2>3. e \in T
    BY <2>1, <2>2
  <2> QED BY <2>3 DEF e
<1>2. ASSUME NEW r \in T, NEW e \in S PROVE Append(r, e) \in T
  <2>1. r \in Seq(S) /\ Without(r, {}) = r
    OBVIOUS
  <2>2. Append(r, e) \in Seq(S)
    BY <2>1
  <2> DEFINE F == {}
  <2>4. e \notin F
    OBVIOUS
  <2> HIDE DEF F
  <2>5. Without(Append(r, e), F) = Append(Without(r, F), e)
    BY <2>1, <2>4, WithoutAppend
  <2>3. Without(Append(r, e), {}) = Append(Without(r, {}), e)
    BY <2>5 DEF F
  <2> QED BY <2>1, <2>2, <2>3
<1>3. T \in SUBSET Seq(S)
  OBVIOUS
<1> HIDE DEF T
<1>4. T = Seq(S)
  BY <1>1, <1>2, <1>3, InductionOnLists
<1>5. Without(q, {}) = q
  <2>1. q \in T
    BY <1>4
  <2> QED BY <2>1 DEF T
<1>6. Without(q, D) = Without(q, {})
  BY WithoutAlike
<1> QED BY <1>5, <1>6

-----------------------------------------------------------------------------
(* A list's head, and what follows *)
Parts(c, h, d) == IsList(d) /\ c = <<h>> \o d

LEMMA Scripts ==
  ASSUME NEW c, NEW h, NEW d, Parts(c, h, d)
  PROVE  /\ c # <<>>
         /\ \A x : c = <<x>> => h = x /\ d = <<>>
         /\ \A x, y : c = <<x, y>> => h = x /\ d = <<y>>
         /\ \A x, y, z : c = <<x, y, z>> => h = x /\ d = <<y, z>>
<1> DEFINE m == <<h>>
<1>1. IsList(m) /\ m # <<>> /\ Head(m) = h /\ Tail(m) = <<>>
  BY LiteralLists DEF Parts
<1>2. <<>> \o d = d
  BY LiteralLists DEF Parts
<1> HIDE DEF m
<1>0. IsList(d)
  BY DEF Parts
<1>3. m \o d # <<>> /\ Head(m \o d) = Head(m) /\ Tail(m \o d) = Tail(m) \o d
  BY <1>0, <1>1, ListTakes
<1>4. c # <<>> /\ Head(c) = h /\ Tail(c) = d
  BY <1>1, <1>2, <1>3 DEF m, Parts
<1>5. ASSUME NEW x, c = <<x>> PROVE h = x /\ d = <<>>
  BY <1>4, <1>5
<1>6. ASSUME NEW x, NEW y, c = <<x, y>> PROVE h = x /\ d = <<y>>
  BY <1>4, <1>6
<1>7. ASSUME NEW x, NEW y, NEW z, c = <<x, y, z>> PROVE h = x /\ d = <<y, z>>
  BY <1>4, <1>7
<1> QED BY <1>4, <1>5, <1>6, <1>7

-----------------------------------------------------------------------------
(* Lists written out *)
LEMMA Written ==
  ASSUME NEW a, NEW b, NEW c
  PROVE  /\ IsList(<<a>>) /\ IsList(<<a, b>>) /\ IsList(<<a, b, c>>)
         /\ <<a>> \o <<b>> = <<a, b>> /\ <<a>> \o <<b, c>> = <<a, b, c>>
         /\ <<a, b>> \o <<c>> = <<a, b, c>>
<1> DEFINE x == <<a>>
           y == <<b>>
           z == <<c>>
           xy == <<a, b>>
           yz == <<b, c>>
           xyz == <<a, b, c>>
<1>1. /\ IsList(x) /\ IsList(y) /\ IsList(z) /\ xy = x \o y /\ yz = y \o z /\ xyz = xy \o z
  <2>1. IsList(x) /\ IsList(y) /\ IsList(z)
    BY LiteralLists
  <2>2. xy = x \o y
    BY LiteralLists
  <2>3. yz = y \o z
    BY LiteralLists
  <2>4. xyz = xy \o z
    BY LiteralLists
  <2> QED BY <2>1, <2>2, <2>3, <2>4
<1> HIDE DEF x, y, z, xy, yz, xyz
<1>2. IsList(xy) /\ IsList(yz) /\ IsList(xyz)
  BY <1>1, ListConcat
<1>3. xyz = x \o yz
  BY <1>1, ListAssociative
<1> QED BY <1>1, <1>2, <1>3 DEF x, y, z, xy, yz, xyz

LEMMA ThreeOfAKind ==
  ASSUME NEW a, NEW b, NEW c
  PROVE  <<a, b, c>> = (<<a>> \o <<b>>) \o <<c>>
<1>1. <<a, b>> = <<a>> \o <<b>>
  BY LiteralLists
<1>2. <<a, b, c>> = <<a, b>> \o <<c>>
  BY LiteralLists
<1> QED BY <1>1, <1>2, Zenon

FirstInFront(u, v, m, z, s) ==
  (((u \o v) \o m) \o z) \o s = u \o (((v \o m) \o z) \o s)

LEMMA FirstOfFive ==
  ASSUME NEW u, NEW v, NEW m, NEW z, NEW s,
         IsList(u), IsList(v), IsList(m), IsList(z), IsList(s)
  PROVE  FirstInFront(u, v, m, z, s)
<1>1. (u \o v) \o m = u \o (v \o m) /\ IsList(v \o m)
  <2>1. Associates(u, v, m)
    BY ONLY IsList(u), IsList(v), IsList(m), ListAssociates
  <2>2. IsList(v \o m)
    BY ONLY IsList(v), IsList(m), ListConcat
  <2> QED BY <2>1, <2>2 DEF Associates
<1> DEFINE a == v \o m
<1>2. IsList(a)
  BY <1>1
<1>3. (u \o v) \o m = u \o a
  BY <1>1
<1> HIDE DEF a
<1>4. (u \o a) \o z = u \o (a \o z) /\ IsList(a \o z)
  <2>1. Associates(u, a, z)
    BY ONLY IsList(u), <1>2, IsList(z), ListAssociates
  <2>2. IsList(a \o z)
    BY ONLY <1>2, IsList(z), ListConcat
  <2> QED BY <2>1, <2>2 DEF Associates
<1> DEFINE b == a \o z
<1>5. IsList(b) /\ (u \o a) \o z = u \o b
  BY <1>4
<1> HIDE DEF b
<1>6. (u \o b) \o s = u \o (b \o s)
  <2>1. IsList(b)
    BY <1>5
  <2>2. Associates(u, b, s)
    BY ONLY IsList(u), <2>1, IsList(s), ListAssociates
  <2> QED BY <2>2 DEF Associates
<1>7. (((u \o v) \o m) \o z) \o s = u \o (b \o s)
  BY <1>3, <1>5, <1>6
<1> QED BY <1>7 DEF a, b, FirstInFront
=============================================================================
