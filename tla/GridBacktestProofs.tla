-------------------------- MODULE GridBacktestProofs --------------------------
(***************************************************************************)
(* The grids in a backtest, for every width and number of levels, prices,  *)
(* trends and candles.                                                     *)
(***************************************************************************)
EXTENDS GridBacktest, QueueProofs

-----------------------------------------------------------------------------
(* The prices of the grid *)

(* What \div means for a divisor above zero. *)
LEMMA Division ==
  ASSUME NEW d \in Nat, NEW w \in Nat \ {0}
  PROVE  /\ d \div w \in Nat
         /\ (d \div w) * w <= d
         /\ d < (d \div w) * w + w
<1>1. /\ d \div w \in Int
      /\ d = w * (d \div w) + (d % w)
      /\ d % w \in 0 .. (w - 1)
  BY SMT
<1> QED BY <1>1, SMT

LEMMA LevelIsInteger ==
  ASSUME NEW price \in Int, NEW trend \in Int
  PROVE  get_level_number(price, trend) \in Int
<1>1. CASE price > trend
  <2>1. (price - trend) \div LevelWidth \in Nat
    BY <1>1, WidthIsPositive, Division
  <2> QED BY <1>1, <2>1 DEF get_level_number
<1>2. CASE ~(price > trend)
  <2>1. (trend - price) \div LevelWidth \in Nat
    BY <1>2, WidthIsPositive, Division
  <2> QED BY <1>2, <2>1 DEF get_level_number
<1> QED BY <1>1, <1>2

(* GridLevels::get_level_number: a price above the trend is in the level whose lower
   border is get_price_from_level_number of it, any other price in the level whose
   upper border is. *)
THEOREM PriceIsInItsLevel ==
  ASSUME NEW price \in Int, NEW trend \in Int
  PROVE  LET l == get_level_number(price, trend)
             Border(n) == get_price_from_level_number(n, trend)
         IN IF price > trend THEN Border(l) <= price /\ price < Border(l + 1)
                             ELSE Border(l - 1) < price /\ price <= Border(l)
<1> DEFINE l == get_level_number(price, trend)
<1>1. CASE price > trend
  <2> DEFINE q == (price - trend) \div LevelWidth
  <2>1. /\ q \in Nat /\ LevelWidth \in Nat
        /\ q * LevelWidth <= price - trend
        /\ price - trend < q * LevelWidth + LevelWidth
    BY <1>1, WidthIsPositive, Division
  <2>2. l = q
    BY <1>1 DEF get_level_number
  <2>3. (q + 1) * LevelWidth = q * LevelWidth + LevelWidth
    BY <2>1
  <2>4. q * LevelWidth \in Int
    BY <2>1
  <2> HIDE DEF q
  <2> QED BY <1>1, <2>1, <2>2, <2>3, <2>4 DEF get_price_from_level_number
<1>2. CASE ~(price > trend)
  <2> DEFINE q == (trend - price) \div LevelWidth
  <2>1. /\ q \in Nat /\ LevelWidth \in Nat
        /\ q * LevelWidth <= trend - price
        /\ trend - price < q * LevelWidth + LevelWidth
    BY <1>2, WidthIsPositive, Division
  <2>2. l = -q
    BY <1>2 DEF get_level_number
  <2>3. /\ (-q) * LevelWidth = -(q * LevelWidth)
        /\ (-q - 1) * LevelWidth = -(q * LevelWidth) - LevelWidth
    BY <2>1
  <2>4. q * LevelWidth \in Int
    BY <2>1
  <2> HIDE DEF q
  <2> QED BY <1>2, <2>1, <2>2, <2>3, <2>4 DEF get_price_from_level_number
<1> QED BY <1>1, <1>2

(* DynamicGridWithBan::calc_tp_sl_prices: the take profit of an entry is on its gaining
   side, whatever the trend has become since the order was sent. *)
THEOREM TakeProfitGains ==
  ASSUME NEW price \in Int, NEW trend \in Int, NEW side \in {-1, 1}
  PROVE  (calc_tp_price(price, side, trend) - price) * side > 0
<1> DEFINE l == get_level_number(price, trend)
           Border(n) == trend + n * LevelWidth
<1>1. l \in Int /\ LevelWidth \in Nat /\ LevelWidth > 0
  BY LevelIsInteger, WidthIsPositive
<1>2. Border(l - 1) < price /\ price < Border(l + 1)
  <2>1. /\ Border(l - 1) = Border(l) - LevelWidth
        /\ Border(l + 1) = Border(l) + LevelWidth
        /\ Border(l) \in Int
    BY <1>1
  <2>2. IF price > trend THEN Border(l) <= price /\ price < Border(l + 1)
                         ELSE Border(l - 1) < price /\ price <= Border(l)
    BY PriceIsInItsLevel DEF get_price_from_level_number
  <2> HIDE DEF l, Border
  <2> QED BY <1>1, <2>1, <2>2
<1>3. Border(l - 1) \in Int /\ Border(l + 1) \in Int
  BY <1>1
<1>4. calc_tp_price(price, side, trend) = Border(l + side)
  BY DEF calc_tp_price, get_price_from_level_number
<1>5. CASE side = 1
  <2>1. calc_tp_price(price, side, trend) = Border(l + 1)
    BY <1>4, <1>5
  <2> HIDE DEF l, Border
  <2> QED BY <1>2, <1>3, <1>5, <2>1
<1>6. CASE side = -1
  <2>1. calc_tp_price(price, side, trend) = Border(l - 1)
    BY <1>1, <1>4, <1>6
  <2> HIDE DEF l, Border
  <2> QED BY <1>2, <1>3, <1>6, <2>1
<1> QED BY <1>5, <1>6

(* The stop loss is on the losing side, more than all the levels of one side away. *)
THEOREM StopLossLoses ==
  ASSUME NEW price \in Int, NEW side \in {-1, 1}
  PROVE  (price - calc_sl_price(price, side)) * side > LevelsPerSide * LevelWidth
<1>1. /\ LevelWidth \in Nat /\ LevelWidth > 0 /\ LevelsPerSide \in Nat
      /\ LevelsPerSide * LevelWidth \in Int
      /\ (LevelsPerSide + 1) * LevelWidth = LevelsPerSide * LevelWidth + LevelWidth
  BY WidthIsPositive, SidesHaveLevels
<1> DEFINE reach == (LevelsPerSide + 1) * LevelWidth
<1>2. reach \in Int /\ reach > LevelsPerSide * LevelWidth
  BY <1>1
<1>3. calc_sl_price(price, side) = price - side * reach
  BY <1>1 DEF calc_sl_price
<1> HIDE DEF reach
<1>4. CASE side = 1
  BY <1>2, <1>3, <1>4
<1>5. CASE side = -1
  BY <1>2, <1>3, <1>5
<1> QED BY <1>4, <1>5

-----------------------------------------------------------------------------
(* More of lists: what is left of a list of one element, and behind its first *)

LEMMA WithoutOne ==
  ASSUME NEW e, NEW D
  PROVE  Without(<<e>>, D) = IF e \in D THEN <<>> ELSE <<e>>
<1> DEFINE n == <<>>
<1>1. n \in Seq({e}) /\ Append(n, e) = <<e>>
  OBVIOUS
<1>2. Without(n, D) = n
  BY WithoutNothing
<1>3. /\ Without(Append(n, e), D) = IF e \in D THEN Without(n, D) ELSE Append(Without(n, D), e)
  <2> HIDE DEF n
  <2>1. n \in Seq({e}) /\ e \in {e}
    BY <1>1
  <2> QED BY <2>1, WithoutAppend
<1> HIDE DEF n
<1> QED BY <1>1, <1>2, <1>3 DEF n

LEMMA WithoutFirst ==
  ASSUME NEW a, NEW r, NEW D, IsList(r)
  PROVE  Without(<<a>> \o r, D) = IF a \in D THEN Without(r, D) ELSE <<a>> \o Without(r, D)
<1> DEFINE x == <<a>>
           w == Without(r, D)
           n == <<>>
<1>1. IsList(x) /\ IsList(w) /\ n \o w = w
  BY LiteralLists, ListWithout
<1>2. Without(x, D) = IF a \in D THEN n ELSE x
  BY WithoutOne
<1> HIDE DEF x, n
<1>3. Without(x \o r, D) = Without(x, D) \o w
  BY <1>1, ListWithoutConcat
<1> HIDE DEF w
<1> QED BY <1>1, <1>2, <1>3 DEF w, x

LEMMA WithoutHead ==
  ASSUME NEW q, NEW D, IsList(q), q # <<>>
  PROVE  /\ IsList(Without(Tail(q), D)) /\ IsList(Tail(q))
         /\ Head(q) \in D => Without(q, D) = Without(Tail(q), D)
         /\ Head(q) \notin D => Without(q, D) = <<Head(q)>> \o Without(Tail(q), D)
<1> DEFINE h == Head(q)
           t == Tail(q)
<1>1. IsList(t) /\ q = <<h>> \o t /\ IsList(Without(t, D))
  BY ListTail, ListWithout
<1> HIDE DEF t, h
<1>2. Without(q, D) = IF h \in D THEN Without(t, D) ELSE <<h>> \o Without(t, D)
  BY <1>1, WithoutFirst
<1> QED BY <1>1, <1>2 DEF t, h

(* Two lists with the same elements to start with *)
LEMMA ListCancel ==
  ASSUME NEW a, NEW b, NEW q, NEW r, IsList(q), IsList(r), <<a>> \o q = <<b>> \o r
  PROVE  a = b /\ q = r
<1> DEFINE x == <<a>>
           y == <<b>>
<1>1. IsList(x) /\ IsList(y) /\ x # <<>> /\ y # <<>> /\ Head(x) = a /\ Head(y) = b
  BY LiteralLists
<1>2. Tail(x) = <<>> /\ Tail(y) = <<>>
  OBVIOUS
<1>3. <<>> \o q = q /\ <<>> \o r = r
  BY LiteralLists
<1>4. x \o q = y \o r
  OBVIOUS
<1> HIDE DEF x, y
<1>5. /\ Head(x \o q) = a /\ Tail(x \o q) = Tail(x) \o q
      /\ Head(y \o r) = b /\ Tail(y \o r) = Tail(y) \o r
  BY <1>1, ListTakes
<1> QED BY <1>2, <1>3, <1>4, <1>5

(* Discarding what would be dropped anyway *)
LEMMA WithoutTwice ==
  ASSUME NEW q, NEW D, NEW E, IsList(q), \A i \in 1 .. Len(q) : q[i] \in E => q[i] \in D
  PROVE  Without(Without(q, E), D) = Without(q, D)
<1>0. PICK S : q \in Seq(S)
  BY DEF IsList
<1> DEFINE Inside(r) == \A i \in 1 .. Len(r) : r[i] \in E => r[i] \in D
           T == {r \in Seq(S) : Inside(r) => Without(Without(r, E), D) = Without(r, D)}
<1>1. T \in SUBSET Seq(S)
  OBVIOUS
<1>2. <<>> \in T
  <2> DEFINE e == <<>>
  <2>1. Without(e, D) = e /\ Without(e, E) = e
    BY WithoutNothing
  <2>2. e \in Seq(S)
    OBVIOUS
  <2> HIDE DEF e
  <2>3. e \in T
    BY <2>1, <2>2
  <2> QED BY <2>3 DEF e
<1>3. ASSUME NEW r \in T, NEW e \in S PROVE Append(r, e) \in T
  <2> DEFINE a == Append(r, e)
  <2>0. IsList(r) /\ r \in Seq(S)
    BY DEF IsList
  <2>1. /\ a \in Seq(S) /\ Len(a) = Len(r) + 1 /\ Len(r) \in Nat
        /\ (\A i \in 1 .. Len(r) : a[i] = r[i]) /\ a[Len(r) + 1] = e
    BY <2>0, ListAppend
  <2> DEFINE w == Without(r, E)
  <2>2. /\ Without(a, D) = IF e \in D THEN Without(r, D) ELSE Append(Without(r, D), e)
        /\ Without(a, E) = IF e \in E THEN w ELSE Append(w, e)
        /\ w \in Seq(S)
    BY <2>0, WithoutAppend
  <2> HIDE DEF a, w
  <2>3. ASSUME Inside(a) PROVE Without(Without(a, E), D) = Without(a, D)
    <3>1. Inside(r)
      <4> SUFFICES ASSUME NEW i \in 1 .. Len(r) PROVE r[i] \in E => r[i] \in D
        OBVIOUS
      <4>1. i \in 1 .. Len(a) /\ a[i] = r[i]
        BY <2>1
      <4> QED BY <2>3, <4>1
    <3>2. e \in E => e \in D
      <4>1. Len(r) + 1 \in 1 .. Len(a)
        BY <2>1
      <4> QED BY <2>1, <2>3, <4>1
    <3>3. Without(w, D) = Without(r, D)
      BY <3>1 DEF w
    <3>4. CASE e \in E
      BY <2>2, <3>2, <3>3, <3>4
    <3>5. CASE e \notin E
      <4>1. Without(a, E) = Append(w, e)
        BY <2>2, <3>5
      <4>2. Without(Append(w, e), D) = IF e \in D THEN Without(w, D) ELSE Append(Without(w, D), e)
        <5>1. w \in Seq(S) /\ e \in S
          BY <2>2
        <5> QED BY <5>1, WithoutAppend
      <4> QED BY <2>2, <3>3, <4>1, <4>2
    <3> QED BY <3>4, <3>5
  <2> QED BY <2>1, <2>3 DEF a
<1> HIDE DEF T
<1>4. T = Seq(S)
  BY <1>1, <1>2, <1>3, InductionOnLists
<1> QED BY <1>0, <1>4 DEF T

-----------------------------------------------------------------------------
(* What a list holds *)

LEMMA ToSetIs ==
  ASSUME NEW q, IsList(q)
  PROVE  ToSet(q) = {q[i] : i \in 1 .. Len(q)}
<1>1. DOMAIN q = 1 .. Len(q)
  BY DEF IsList
<1> QED BY <1>1 DEF ToSet

LEMMA ToSetNothing == ToSet(<<>>) = {}
<1> DEFINE n == <<>>
<1>1. IsList(n) /\ Len(n) = 0
  BY LiteralLists
<1> HIDE DEF n
<1>2. ToSet(n) = {}
  BY <1>1, ToSetIs
<1> QED BY <1>2 DEF n

LEMMA ToSetAppend ==
  ASSUME NEW q, NEW e, IsList(q)
  PROVE  ToSet(Append(q, e)) = ToSet(q) \cup {e}
<1> DEFINE a == Append(q, e)
<1>1. /\ IsList(a) /\ Len(a) = Len(q) + 1 /\ Len(q) \in Nat
      /\ (\A i \in 1 .. Len(q) : a[i] = q[i]) /\ a[Len(q) + 1] = e
  BY ListAppend, ListIndices
<1> HIDE DEF a
<1>2. ToSet(q) = {q[i] : i \in 1 .. Len(q)} /\ ToSet(a) = {a[i] : i \in 1 .. Len(a)}
  BY <1>1, ToSetIs
<1>3. ASSUME NEW x PROVE x \in ToSet(a) <=> x \in ToSet(q) \/ x = e
  BY <1>1, <1>2
<1> QED BY <1>3 DEF a

LEMMA ToSetConcat ==
  ASSUME NEW q, NEW r, IsList(q), IsList(r)
  PROVE  ToSet(q \o r) = ToSet(q) \cup ToSet(r)
<1> DEFINE a == q \o r
<1>1. /\ IsList(a) /\ Len(a) = Len(q) + Len(r)
      /\ \A i \in 1 .. Len(q) : a[i] = q[i]
      /\ \A i \in 1 .. Len(r) : a[Len(q) + i] = r[i]
      /\ \A i \in 1 .. Len(a) : i \in 1 .. Len(q) \/ i - Len(q) \in 1 .. Len(r)
      /\ Len(q) \in Nat /\ Len(r) \in Nat
  BY ListConcat, ListIndices
<1> HIDE DEF a
<1>2. /\ ToSet(q) = {q[i] : i \in 1 .. Len(q)} /\ ToSet(r) = {r[i] : i \in 1 .. Len(r)}
      /\ ToSet(a) = {a[i] : i \in 1 .. Len(a)}
  BY <1>1, ToSetIs
<1>3. ASSUME NEW x \in ToSet(a) PROVE x \in ToSet(q) \cup ToSet(r)
  <2>1. PICK i \in 1 .. Len(a) : x = a[i]
    BY <1>2
  <2>2. CASE i \in 1 .. Len(q)
    BY <1>1, <1>2, <2>1, <2>2
  <2>3. CASE i - Len(q) \in 1 .. Len(r)
    <3>1. a[Len(q) + (i - Len(q))] = r[i - Len(q)] /\ Len(q) + (i - Len(q)) = i
      BY <1>1, <2>3
    <3> QED BY <1>2, <2>1, <2>3, <3>1
  <2> QED BY <1>1, <2>2, <2>3
<1>4. ASSUME NEW x \in ToSet(q) PROVE x \in ToSet(a)
  BY <1>1, <1>2
<1>5. ASSUME NEW x \in ToSet(r) PROVE x \in ToSet(a)
  <2>1. PICK i \in 1 .. Len(r) : x = r[i]
    BY <1>2
  <2>2. Len(q) + i \in 1 .. Len(a) /\ a[Len(q) + i] = r[i]
    BY <1>1
  <2> QED BY <1>2, <2>1, <2>2
<1> QED BY <1>3, <1>4, <1>5 DEF a

LEMMA ToSetWithout ==
  ASSUME NEW q, NEW D, IsList(q)
  PROVE  IsList(Without(q, D)) /\ ToSet(Without(q, D)) = ToSet(q) \ D
<1> DEFINE w == Without(q, D)
<1>1. PICK S : q \in Seq(S)
  BY DEF IsList
<1>2. IsList(w)
  BY ListWithout
<1>3. \A x : In(x, w) <=> In(x, q) /\ x \notin D
  BY <1>1, InWithout
<1> HIDE DEF w
<1>4. ToSet(q) = {q[i] : i \in 1 .. Len(q)} /\ ToSet(w) = {w[i] : i \in 1 .. Len(w)}
  BY <1>2, ToSetIs
<1>5. \A x : (In(x, q) <=> x \in ToSet(q)) /\ (In(x, w) <=> x \in ToSet(w))
  BY <1>4 DEF In
<1> QED BY <1>2, <1>3, <1>5 DEF w

LEMMA ToSetFirst ==
  ASSUME NEW q, IsList(q), q # <<>>
  PROVE  ToSet(q) = {Head(q)} \cup ToSet(Tail(q)) /\ IsList(Tail(q))
<1> DEFINE h == Head(q)
           t == Tail(q)
           x == <<h>>
<1>1. IsList(t) /\ q = x \o t
  BY ListTail
<1>2. IsList(x) /\ Len(x) = 1 /\ x[1] = h
  BY LiteralLists
<1> HIDE DEF x, t, h
<1>3. ToSet(x) = {h}
  BY <1>2, ToSetIs
<1>4. ToSet(x \o t) = ToSet(x) \cup ToSet(t)
  BY <1>1, <1>2, ToSetConcat
<1> QED BY <1>1, <1>3, <1>4 DEF h, t

(* An element that is not yet in a list without repetitions *)
LEMMA OnceLonger ==
  ASSUME NEW q, NEW e, IsList(q), Once(q), e \notin ToSet(q)
  PROVE  Once(Append(q, e))
<1> DEFINE a == Append(q, e)
<1>1. /\ IsList(a) /\ Len(a) = Len(q) + 1 /\ Len(q) \in Nat
      /\ (\A i \in 1 .. Len(q) : a[i] = q[i]) /\ a[Len(q) + 1] = e
  BY ListAppend, ListIndices
<1>2. \A i \in 1 .. Len(q) : q[i] # e
  BY ToSetIs
<1> HIDE DEF a
<1>3. \A i, j \in 1 .. Len(a) : a[i] = a[j] => i = j
  BY <1>1, <1>2 DEF Once
<1> QED BY <1>3 DEF Once, a

LEMMA OnceConcat ==
  ASSUME NEW q, NEW r, IsList(q), IsList(r), Once(q), Once(r), ToSet(q) \cap ToSet(r) = {}
  PROVE  Once(q \o r)
<1> DEFINE a == q \o r
<1>1. /\ IsList(a) /\ Len(a) = Len(q) + Len(r)
      /\ \A i \in 1 .. Len(q) : a[i] = q[i]
      /\ \A i \in 1 .. Len(r) : a[Len(q) + i] = r[i]
      /\ Len(q) \in Nat /\ Len(r) \in Nat
  BY ListConcat, ListIndices
<1>2. \A i \in 1 .. Len(q), j \in 1 .. Len(r) : q[i] # r[j]
  BY ToSetIs
<1> HIDE DEF a
<1>3. ASSUME NEW i \in 1 .. Len(a), NEW j \in 1 .. Len(a), a[i] = a[j] PROVE i = j
  <2>0. i \in Nat /\ j \in Nat
    BY <1>1
  <2>1. CASE i <= Len(q) /\ j <= Len(q)
    <3>1. i \in 1 .. Len(q) /\ j \in 1 .. Len(q)
      BY <2>0, <2>1, <1>1
    <3> QED BY <1>1, <1>3, <3>1 DEF Once
  <2>2. CASE i <= Len(q) /\ j > Len(q)
    <3>1. i \in 1 .. Len(q) /\ j - Len(q) \in 1 .. Len(r) /\ Len(q) + (j - Len(q)) = j
      BY <2>0, <2>2, <1>1
    <3>2. a[i] = q[i] /\ a[j] = r[j - Len(q)]
      BY <1>1, <3>1
    <3>3. q[i] # r[j - Len(q)]
      BY <1>2, <3>1
    <3> QED BY <1>3, <3>2, <3>3
  <2>3. CASE i > Len(q) /\ j <= Len(q)
    <3>1. j \in 1 .. Len(q) /\ i - Len(q) \in 1 .. Len(r) /\ Len(q) + (i - Len(q)) = i
      BY <2>0, <2>3, <1>1
    <3>2. a[j] = q[j] /\ a[i] = r[i - Len(q)]
      BY <1>1, <3>1
    <3>3. q[j] # r[i - Len(q)]
      BY <1>2, <3>1
    <3> QED BY <1>3, <3>2, <3>3
  <2>4. CASE i > Len(q) /\ j > Len(q)
    <3>1. /\ i - Len(q) \in 1 .. Len(r) /\ Len(q) + (i - Len(q)) = i
          /\ j - Len(q) \in 1 .. Len(r) /\ Len(q) + (j - Len(q)) = j
      BY <2>0, <2>4, <1>1
    <3>2. r[i - Len(q)] = r[j - Len(q)]
      BY <1>1, <1>3, <3>1
    <3>3. i - Len(q) = j - Len(q)
      BY <3>1, <3>2 DEF Once
    <3> QED BY <2>0, <1>1, <3>3
  <2> QED BY <2>0, <1>1, <2>1, <2>2, <2>3, <2>4
<1> QED BY <1>3 DEF Once, a

-----------------------------------------------------------------------------
(* The walk over a list of conditional orders *)

(* The list q is split into what is kept of it and what is taken out. *)
Split(q, kept, fired) ==
  /\ IsList(kept) /\ IsList(fired) /\ Once(kept) /\ Once(fired)
  /\ ToSet(q) = ToSet(kept) \cup ToSet(fired)
  /\ ToSet(kept) \cap ToSet(fired) = {}

WalkStep(w, o, reached) ==
  IF ~w.skip /\ o \in reached
  THEN [w EXCEPT !.fired = Append(@, o), !.skip = TRUE]
  ELSE [w EXCEPT !.kept = Append(@, o), !.skip = FALSE]

IsWalk(f, q, reached) ==
  f = [i \in 0 .. Len(q) |->
         IF i = 0 THEN [kept |-> <<>>, fired |-> <<>>, skip |-> FALSE]
         ELSE IF ~f[i - 1].skip /\ q[i] \in reached
         THEN [f[i - 1] EXCEPT !.fired = Append(@, q[i]), !.skip = TRUE]
         ELSE [f[i - 1] EXCEPT !.kept = Append(@, q[i]), !.skip = FALSE]]

LEMMA WalkIs ==
  ASSUME NEW q, NEW reached
  PROVE  Walk(q, reached) = (CHOOSE f : IsWalk(f, q, reached))[Len(q)]
BY DEF Walk, IsWalk

Walks(S) == [kept : Seq(S), fired : Seq(S), skip : BOOLEAN]

LEMMA WalkStepType ==
  ASSUME NEW S, NEW w \in Walks(S), NEW o \in S, NEW reached
  PROVE  WalkStep(w, o, reached) \in Walks(S)
<1>1. w.kept \in Seq(S) /\ w.fired \in Seq(S)
  BY DEF Walks
<1>2. Append(w.kept, o) \in Seq(S) /\ Append(w.fired, o) \in Seq(S)
  BY <1>1
<1> DEFINE k == Append(w.kept, o)
           f == Append(w.fired, o)
<1>3. /\ WalkStep(w, o, reached) =
           IF ~w.skip /\ o \in reached
           THEN [w EXCEPT !.fired = f, !.skip = TRUE]
           ELSE [w EXCEPT !.kept = k, !.skip = FALSE]
  BY DEF WalkStep
<1> HIDE DEF k, f
<1> QED BY <1>2, <1>3 DEF Walks, k, f

LEMMA WalkSteps ==
  ASSUME NEW S, NEW q \in Seq(S), NEW reached
  PROVE  \E f \in [0 .. Len(q) -> Walks(S)] :
           /\ f[0] = [kept |-> <<>>, fired |-> <<>>, skip |-> FALSE]
           /\ \A i \in 1 .. Len(q) : f[i] = WalkStep(f[i - 1], q[i], reached)
           /\ Walk(q, reached) = f[Len(q)]
<1> DEFINE n == Len(q)
           base == [kept |-> <<>>, fired |-> <<>>, skip |-> FALSE]
           G == [p \in (1 .. n) \X Walks(S) |-> WalkStep(p[2], q[p[1]], reached)]
<1>1. n \in Nat /\ base \in Walks(S)
  BY DEF Walks
<1>2. G \in [(1 .. n) \X Walks(S) -> Walks(S)]
  <2> SUFFICES ASSUME NEW p \in (1 .. n) \X Walks(S)
               PROVE  WalkStep(p[2], q[p[1]], reached) \in Walks(S)
    OBVIOUS
  <2>1. q[p[1]] \in S /\ p[2] \in Walks(S)
    OBVIOUS
  <2> QED BY <2>1, WalkStepType
<1>3. \A i \in 1 .. n : \A w \in Walks(S) : G[<<i, w>>] = WalkStep(w, q[i], reached)
  OBVIOUS
<1> HIDE DEF G, base, n
<1> DEFINE V == Walks(S)
<1>4. PICK f \in [0 .. n -> V] : f[0] = base /\ \A i \in 1 .. n : f[i] = G[<<i, f[i - 1]>>]
  <2>1. Recursion(V, base, n, G)
    BY <1>1, <1>2 DEF Recursion
  <2> HIDE DEF V
  <2> QED BY <2>1, RecursionExists
<1>5. \A i \in 1 .. n : f[i] = WalkStep(f[i - 1], q[i], reached)
  <2> SUFFICES ASSUME NEW i \in 1 .. n PROVE f[i] = WalkStep(f[i - 1], q[i], reached)
    OBVIOUS
  <2>1. i - 1 \in 0 .. n
    BY <1>1
  <2>2. f[i - 1] \in Walks(S)
    BY <1>4, <2>1
  <2> QED BY <1>3, <1>4, <2>2
<1>6. IsWalk(f, q, reached)
  <2> DEFINE g == [i \in 0 .. n |-> IF i = 0 THEN base ELSE WalkStep(f[i - 1], q[i], reached)]
  <2>1. g = [i \in 0 .. Len(q) |->
         IF i = 0 THEN [kept |-> <<>>, fired |-> <<>>, skip |-> FALSE]
         ELSE IF ~f[i - 1].skip /\ q[i] \in reached
         THEN [f[i - 1] EXCEPT !.fired = Append(@, q[i]), !.skip = TRUE]
         ELSE [f[i - 1] EXCEPT !.kept = Append(@, q[i]), !.skip = FALSE]]
    BY DEF WalkStep, base, n
  <2>2. f = g
    <3>1. \A i \in 0 .. n : f[i] = g[i]
      <4> SUFFICES ASSUME NEW i \in 0 .. n PROVE f[i] = g[i]
        OBVIOUS
      <4>1. CASE i = 0
        BY <1>4, <4>1
      <4>2. CASE i # 0
        <5>1. i \in 1 .. n
          BY <1>1, <4>2
        <5> QED BY <1>5, <4>2, <5>1
      <4> QED BY <4>1, <4>2
    <3> QED BY <1>4, <3>1
  <2> HIDE DEF g
  <2> QED BY <2>1, <2>2 DEF IsWalk
<1> DEFINE h == CHOOSE h : IsWalk(h, q, reached)
<1>7. IsWalk(h, q, reached) /\ Walk(q, reached) = h[n]
  BY <1>6, WalkIs DEF n
<1> HIDE DEF h
<1>8. /\ h[0] = base
      /\ \A i \in 1 .. n : h[i] = WalkStep(h[i - 1], q[i], reached)
  <2>1. h = [i \in 0 .. n |-> IF i = 0 THEN base ELSE WalkStep(h[i - 1], q[i], reached)]
    BY <1>7 DEF IsWalk, WalkStep, base, n
  <2>2. ASSUME NEW i \in 0 .. n
        PROVE  h[i] = IF i = 0 THEN base ELSE WalkStep(h[i - 1], q[i], reached)
    BY <2>1
  <2>3. 0 \in 0 .. n /\ \A i \in 1 .. n : i \in 0 .. n /\ i # 0
    BY <1>1
  <2> QED BY <2>2, <2>3
<1>9. \A i \in 0 .. n : h[i] = f[i]
  <2> DEFINE T == {i \in Nat : i <= n => h[i] = f[i]}
  <2>1. 0 \in T
    BY <1>4, <1>8
  <2>2. ASSUME NEW i \in T PROVE i + 1 \in T
    <3> SUFFICES ASSUME i + 1 <= n PROVE h[i + 1] = f[i + 1]
      OBVIOUS
    <3>1. i + 1 \in 1 .. n /\ (i + 1) - 1 = i /\ h[i] = f[i]
      BY <1>1
    <3>2. h[i + 1] = WalkStep(h[i], q[i + 1], reached)
      BY <1>8, <3>1
    <3>3. f[i + 1] = WalkStep(f[i], q[i + 1], reached)
      BY <1>5, <3>1
    <3> QED BY <3>1, <3>2, <3>3
  <2> HIDE DEF T
  <2>3. T = Nat
    BY <2>1, <2>2, InductionOnNat DEF T
  <2> QED BY <2>3 DEF T
<1>10. Walk(q, reached) = f[n]
  BY <1>1, <1>7, <1>9
<1> QED BY <1>4, <1>5, <1>10 DEF n, base

LEMMA WalkSplits ==
  ASSUME NEW q, NEW reached, IsList(q), Once(q)
  PROVE  /\ Split(q, Walk(q, reached).kept, Walk(q, reached).fired)
         /\ ToSet(Walk(q, reached).fired) \subseteq reached
         /\ Walk(q, reached).skip \in BOOLEAN
<1>0. PICK S : q \in Seq(S)
  BY DEF IsList
<1> DEFINE n == Len(q)
<1>1. PICK f \in [0 .. n -> Walks(S)] :
        /\ f[0] = [kept |-> <<>>, fired |-> <<>>, skip |-> FALSE]
        /\ \A i \in 1 .. n : f[i] = WalkStep(f[i - 1], q[i], reached)
        /\ Walk(q, reached) = f[n]
  BY <1>0, WalkSteps
<1> DEFINE First(i) == {q[j] : j \in 1 .. i}
           P(i) == /\ IsList(f[i].kept) /\ IsList(f[i].fired)
                   /\ Once(f[i].kept) /\ Once(f[i].fired)
                   /\ First(i) = ToSet(f[i].kept) \cup ToSet(f[i].fired)
                   /\ ToSet(f[i].kept) \cap ToSet(f[i].fired) = {}
                   /\ ToSet(f[i].fired) \subseteq reached
           T == {i \in Nat : i <= n => P(i)}
<1>2. n \in Nat
  BY ListIndices
<1>3. 0 \in T
  <2> DEFINE e == <<>>
  <2>1. IsList(e) /\ Once(e) /\ ToSet(e) = {}
    BY LiteralLists, ToSetNothing DEF Once
  <2>2. f[0].kept = e /\ f[0].fired = e
    BY <1>1
  <2>3. First(0) = {}
    OBVIOUS
  <2> HIDE DEF e
  <2>4. P(0)
    BY <2>1, <2>2, <2>3
  <2> QED BY <2>4
<1>4. ASSUME NEW i \in T PROVE i + 1 \in T
  <2> SUFFICES ASSUME i + 1 <= n PROVE P(i + 1)
    OBVIOUS
  <2> DEFINE w == f[i]
             o == q[i + 1]
             k == Append(w.kept, o)
             r == Append(w.fired, o)
  <2>1. i \in Nat /\ i + 1 \in 1 .. n /\ (i + 1) - 1 = i /\ i \in 0 .. n /\ P(i)
    BY <1>2
  <2>2. w \in Walks(S) /\ f[i + 1] = WalkStep(w, o, reached)
    BY <1>1, <2>1
  <2>3. First(i + 1) = First(i) \cup {o}
    BY <2>1
  <2>4. o \notin First(i)
    <3> SUFFICES ASSUME NEW j \in 1 .. i, q[j] = o PROVE FALSE
      OBVIOUS
    <3>1. j \in 1 .. n
      BY <2>1
    <3>2. j = i + 1
      BY <2>1, <3>1 DEF Once
    <3> QED BY <2>1, <3>2
  <2>5. f[i + 1] = IF ~w.skip /\ o \in reached
                   THEN [w EXCEPT !.fired = r, !.skip = TRUE]
                   ELSE [w EXCEPT !.kept = k, !.skip = FALSE]
    BY <2>2 DEF WalkStep
  <2>6. /\ IsList(k) /\ ToSet(k) = ToSet(w.kept) \cup {o}
        /\ IsList(r) /\ ToSet(r) = ToSet(w.fired) \cup {o}
        /\ Once(k) /\ Once(r)
    <3>1. IsList(w.kept) /\ IsList(w.fired) /\ Once(w.kept) /\ Once(w.fired)
      BY <2>1
    <3>2. o \notin ToSet(w.kept) /\ o \notin ToSet(w.fired)
      BY <2>1, <2>4
    <3> HIDE DEF w, o
    <3> QED BY <3>1, <3>2, ListAppend, ToSetAppend, OnceLonger
  <2>7. P(i)
    BY <2>1
  <2>8. CASE ~w.skip /\ o \in reached
    <3>1. f[i + 1].kept = w.kept /\ f[i + 1].fired = r
      <4> HIDE DEF r, k
      <4> QED BY <2>2, <2>5, <2>8 DEF Walks
    <3> HIDE DEF First, r, o, k
    <3> QED BY <2>3, <2>4, <2>6, <2>7, <2>8, <3>1
  <2>9. CASE ~(~w.skip /\ o \in reached)
    <3>1. f[i + 1].kept = k /\ f[i + 1].fired = w.fired
      <4> HIDE DEF r, k
      <4> QED BY <2>2, <2>5, <2>9 DEF Walks
    <3> HIDE DEF First, r, o, k
    <3> QED BY <2>3, <2>4, <2>6, <2>7, <3>1
  <2> QED BY <2>8, <2>9
<1> HIDE DEF T
<1>5. T = Nat
  BY <1>3, <1>4, InductionOnNat DEF T
<1>6. P(n)
  BY <1>2, <1>5 DEF T
<1>7. First(n) = ToSet(q)
  BY ToSetIs
<1>8. f[n].skip \in BOOLEAN
  BY <1>1, <1>2 DEF Walks
<1> HIDE DEF First
<1> QED BY <1>1, <1>6, <1>7, <1>8 DEF Split

LEMMA WalkType ==
  ASSUME NEW S, NEW q \in Seq(S), NEW reached
  PROVE  Walk(q, reached) \in Walks(S)
<1>1. PICK f \in [0 .. Len(q) -> Walks(S)] : Walk(q, reached) = f[Len(q)]
  BY WalkSteps
<1>2. Len(q) \in 0 .. Len(q)
  OBVIOUS
<1> QED BY <1>1, <1>2

ScanStep(w, reached) ==
  IF ~w.again THEN w
  ELSE LET walk == Walk(w.kept, reached)
       IN [kept |-> walk.kept, fired |-> w.fired \o walk.fired, again |-> walk.skip]

IsScan(f, q, reached) ==
  f = [i \in 0 .. Len(q) |->
         IF i = 0 THEN [kept |-> q, fired |-> <<>>, again |-> TRUE]
         ELSE IF ~f[i - 1].again THEN f[i - 1]
         ELSE LET walk == Walk(f[i - 1].kept, reached)
              IN [kept |-> walk.kept, fired |-> f[i - 1].fired \o walk.fired,
                  again |-> walk.skip]]

LEMMA ScanIs ==
  ASSUME NEW q, NEW reached
  PROVE  Scan(q, reached) = (CHOOSE f : IsScan(f, q, reached))[Len(q)]
BY DEF Scan, IsScan

Scans(S) == [kept : Seq(S), fired : Seq(S), again : BOOLEAN]

LEMMA ScanStepType ==
  ASSUME NEW S, NEW w \in Scans(S), NEW reached
  PROVE  ScanStep(w, reached) \in Scans(S)
<1> DEFINE walk == Walk(w.kept, reached)
           r    == w.fired \o walk.fired
<1>1. w.kept \in Seq(S) /\ w.fired \in Seq(S)
  BY DEF Scans
<1>2. walk \in Walks(S)
  BY <1>1, WalkType
<1> HIDE DEF walk
<1>3. walk.kept \in Seq(S) /\ walk.fired \in Seq(S) /\ walk.skip \in BOOLEAN
  BY <1>2 DEF Walks
<1>4. r \in Seq(S)
  BY <1>1, <1>3
<1> HIDE DEF r
<1>5. [kept |-> walk.kept, fired |-> r, again |-> walk.skip] \in Scans(S)
  BY <1>3, <1>4 DEF Scans
<1>6. ScanStep(w, reached) = IF ~w.again THEN w
                             ELSE [kept |-> walk.kept, fired |-> r, again |-> walk.skip]
  BY DEF ScanStep, walk, r
<1> QED BY <1>5, <1>6

LEMMA ScanSteps ==
  ASSUME NEW S, NEW q \in Seq(S), NEW reached
  PROVE  \E f \in [0 .. Len(q) -> Scans(S)] :
           /\ f[0] = [kept |-> q, fired |-> <<>>, again |-> TRUE]
           /\ \A i \in 1 .. Len(q) : f[i] = ScanStep(f[i - 1], reached)
           /\ Scan(q, reached) = f[Len(q)]
<1> DEFINE n == Len(q)
           V == Scans(S)
           base == [kept |-> q, fired |-> <<>>, again |-> TRUE]
           G == [p \in (1 .. n) \X V |-> ScanStep(p[2], reached)]
<1>1. n \in Nat /\ base \in V
  BY DEF Scans
<1>2. G \in [(1 .. n) \X V -> V]
  BY ScanStepType
<1>3. \A i \in 1 .. n : \A w \in V : G[<<i, w>>] = ScanStep(w, reached)
  OBVIOUS
<1> HIDE DEF G, base, n, V
<1>4. PICK f \in [0 .. n -> V] : f[0] = base /\ \A i \in 1 .. n : f[i] = G[<<i, f[i - 1]>>]
  <2>1. Recursion(V, base, n, G)
    BY <1>1, <1>2 DEF Recursion
  <2> QED BY <2>1, RecursionExists
<1>5. \A i \in 1 .. n : f[i] = ScanStep(f[i - 1], reached)
  <2> SUFFICES ASSUME NEW i \in 1 .. n PROVE f[i] = ScanStep(f[i - 1], reached)
    OBVIOUS
  <2>1. i - 1 \in 0 .. n
    BY <1>1
  <2>2. f[i - 1] \in V
    BY <1>4, <2>1
  <2> QED BY <1>3, <1>4, <2>2
<1>6. IsScan(f, q, reached)
  <2> DEFINE g == [i \in 0 .. n |-> IF i = 0 THEN base ELSE ScanStep(f[i - 1], reached)]
  <2>1. g = [i \in 0 .. Len(q) |->
         IF i = 0 THEN [kept |-> q, fired |-> <<>>, again |-> TRUE]
         ELSE IF ~f[i - 1].again THEN f[i - 1]
         ELSE LET walk == Walk(f[i - 1].kept, reached)
              IN [kept |-> walk.kept, fired |-> f[i - 1].fired \o walk.fired,
                  again |-> walk.skip]]
    BY DEF ScanStep, base, n
  <2>2. f = g
    <3>1. \A i \in 0 .. n : f[i] = g[i]
      <4> SUFFICES ASSUME NEW i \in 0 .. n PROVE f[i] = g[i]
        OBVIOUS
      <4>1. CASE i = 0
        BY <1>4, <4>1
      <4>2. CASE i # 0
        <5>1. i \in 1 .. n
          BY <1>1, <4>2
        <5> QED BY <1>5, <4>2, <5>1
      <4> QED BY <4>1, <4>2
    <3> QED BY <1>4, <3>1
  <2> HIDE DEF g
  <2> QED BY <2>1, <2>2 DEF IsScan
<1> DEFINE h == CHOOSE h : IsScan(h, q, reached)
<1>7. IsScan(h, q, reached) /\ Scan(q, reached) = h[n]
  BY <1>6, ScanIs DEF n
<1> HIDE DEF h
<1>8. /\ h[0] = base
      /\ \A i \in 1 .. n : h[i] = ScanStep(h[i - 1], reached)
  <2>1. h = [i \in 0 .. n |-> IF i = 0 THEN base ELSE ScanStep(h[i - 1], reached)]
    BY <1>7 DEF IsScan, ScanStep, base, n
  <2>2. ASSUME NEW i \in 0 .. n
        PROVE  h[i] = IF i = 0 THEN base ELSE ScanStep(h[i - 1], reached)
    BY <2>1
  <2>3. 0 \in 0 .. n /\ \A i \in 1 .. n : i \in 0 .. n /\ i # 0
    BY <1>1
  <2> QED BY <2>2, <2>3
<1>9. \A i \in 0 .. n : h[i] = f[i]
  <2> DEFINE T == {i \in Nat : i <= n => h[i] = f[i]}
  <2>1. 0 \in T
    BY <1>4, <1>8
  <2>2. ASSUME NEW i \in T PROVE i + 1 \in T
    <3> SUFFICES ASSUME i + 1 <= n PROVE h[i + 1] = f[i + 1]
      OBVIOUS
    <3>1. i + 1 \in 1 .. n /\ (i + 1) - 1 = i /\ h[i] = f[i]
      BY <1>1
    <3>2. h[i + 1] = ScanStep(h[i], reached)
      BY <1>8, <3>1
    <3>3. f[i + 1] = ScanStep(f[i], reached)
      BY <1>5, <3>1
    <3> QED BY <3>1, <3>2, <3>3
  <2> HIDE DEF T
  <2>3. T = Nat
    BY <2>1, <2>2, InductionOnNat DEF T
  <2> QED BY <2>3 DEF T
<1>10. Scan(q, reached) = f[n]
  BY <1>1, <1>7, <1>9
<1> QED BY <1>4, <1>5, <1>10 DEF n, base, V

(* The whole scan: what is executed is reached, and everything else stays. *)
LEMMA ScanSplits ==
  ASSUME NEW q, NEW reached, IsList(q), Once(q)
  PROVE  /\ Split(q, Scan(q, reached).kept, Scan(q, reached).fired)
         /\ ToSet(Scan(q, reached).fired) \subseteq reached
<1>0. PICK S : q \in Seq(S)
  BY DEF IsList
<1> DEFINE n == Len(q)
<1>1. PICK f \in [0 .. n -> Scans(S)] :
        /\ f[0] = [kept |-> q, fired |-> <<>>, again |-> TRUE]
        /\ \A i \in 1 .. n : f[i] = ScanStep(f[i - 1], reached)
        /\ Scan(q, reached) = f[n]
  BY <1>0, ScanSteps
<1> DEFINE P(i) == Split(q, f[i].kept, f[i].fired) /\ ToSet(f[i].fired) \subseteq reached
           T == {i \in Nat : i <= n => P(i)}
<1>2. n \in Nat
  BY ListIndices
<1>3. 0 \in T
  <2> DEFINE e == <<>>
  <2>1. IsList(e) /\ Once(e) /\ ToSet(e) = {}
    BY LiteralLists, ToSetNothing DEF Once
  <2>2. f[0].kept = q /\ f[0].fired = e
    BY <1>1
  <2> HIDE DEF e
  <2>3. P(0)
    BY <2>1, <2>2 DEF Split
  <2> QED BY <2>3
<1>4. ASSUME NEW i \in T PROVE i + 1 \in T
  <2> SUFFICES ASSUME i + 1 <= n PROVE P(i + 1)
    OBVIOUS
  <2> DEFINE w == f[i]
             walk == Walk(w.kept, reached)
             r == w.fired \o walk.fired
  <2>1. i \in Nat /\ i + 1 \in 1 .. n /\ (i + 1) - 1 = i /\ i \in 0 .. n /\ P(i)
    BY <1>2
  <2>2. f[i + 1] = ScanStep(w, reached)
    BY <1>1, <2>1
  <2>3. CASE ~w.again
    <3>1. f[i + 1] = w
      BY <2>2, <2>3 DEF ScanStep
    <3> QED BY <2>1, <3>1
  <2>4. CASE w.again
    <3>1. f[i + 1].kept = walk.kept /\ f[i + 1].fired = r
      <4>1. ScanStep(w, reached) = [kept |-> walk.kept, fired |-> r, again |-> walk.skip]
        <5> HIDE DEF w
        <5> QED BY <2>4 DEF ScanStep, w
      <4> HIDE DEF w, r, walk
      <4> QED BY <2>2, <4>1
    <3>2. Split(q, w.kept, w.fired) /\ ToSet(w.fired) \subseteq reached
      BY <2>1
    <3>3. IsList(w.kept) /\ Once(w.kept)
      BY <3>2 DEF Split
    <3>4. Split(w.kept, walk.kept, walk.fired) /\ ToSet(walk.fired) \subseteq reached
      BY <3>3, WalkSplits
    <3>5. IsList(w.fired) /\ IsList(walk.fired) /\ Once(w.fired) /\ Once(walk.fired)
      BY <3>2, <3>4 DEF Split
    <3>6. ToSet(w.fired) \cap ToSet(walk.fired) = {}
      BY <3>2, <3>4 DEF Split
    <3> HIDE DEF walk, w
    <3>7. IsList(r) /\ Once(r) /\ ToSet(r) = ToSet(w.fired) \cup ToSet(walk.fired)
      BY <3>5, <3>6, ListConcat, OnceConcat, ToSetConcat
    <3> HIDE DEF r
    <3>8. Split(q, walk.kept, r)
      BY <3>2, <3>4, <3>7 DEF Split
    <3> QED BY <3>1, <3>2, <3>4, <3>7, <3>8
  <2> QED BY <2>3, <2>4
<1> HIDE DEF T
<1>5. T = Nat
  BY <1>3, <1>4, InductionOnNat DEF T
<1>6. P(n)
  BY <1>2, <1>5 DEF T
<1> QED BY <1>1, <1>6

-----------------------------------------------------------------------------
(* The events of a grid *)

Events ==
  [event : {"OrderResponse"}, guid : Orders]
    \cup [event : {"Trade"}, guid : Fillable, volume : {-1, 1}, price : Int]
    \cup [event : {"ConditionalUpdated"}, guid : Conditionals, active : BOOLEAN]
    \cup [event : {"Updated"}, guid : Fillable]
    \cup [event : {"Candle"}, close : Int]

UpdatedEvent(g) == [event |-> "Updated", guid |-> g]
CandleEvent(p)  == [event |-> "Candle", close |-> p]

(* What a list of events says of one order, and what of that is the gateway's *)
NotAbout(g) == {e \in Events : e.event = "Candle" \/ e.guid # g}
NotNews(g)  == {e \in Events : e.event \in {"Candle", "Updated"} \/ e.guid # g}
About(q, g) == Without(q, NotAbout(g))
News(q, g)  == Without(q, NotNews(g))

LEMMA EventsHeld ==
  /\ \A g \in Orders : OrderResponseEvent(g) \in Events
  /\ \A g \in Fillable : \A v \in {-1, 1}, p \in Int : TradeEvent(g, v, p) \in Events
  /\ \A g \in Conditionals : \A b \in BOOLEAN : ConditionalUpdatedEvent(g, b) \in Events
  /\ \A g \in Fillable : UpdatedEvent(g) \in Events
  /\ \A p \in Int : CandleEvent(p) \in Events
<1>1. \A g \in Orders : OrderResponseEvent(g) \in Events
  BY DEF OrderResponseEvent, Events
<1>2. \A g \in Fillable : \A v \in {-1, 1}, p \in Int : TradeEvent(g, v, p) \in Events
  BY DEF TradeEvent, Events
<1>3. \A g \in Conditionals : \A b \in BOOLEAN : ConditionalUpdatedEvent(g, b) \in Events
  BY DEF ConditionalUpdatedEvent, Events
<1>4. \A g \in Fillable : UpdatedEvent(g) \in Events
  BY DEF UpdatedEvent, Events
<1>5. \A p \in Int : CandleEvent(p) \in Events
  BY DEF CandleEvent, Events
<1> QED BY <1>1, <1>2, <1>3, <1>4, <1>5

(* An event is one of these. *)
LEMMA EventForms ==
  ASSUME NEW e \in Events
  PROVE  \/ e.event = "OrderResponse" /\ e.guid \in Orders /\ e = OrderResponseEvent(e.guid)
         \/ /\ e.event = "Trade" /\ e.guid \in Fillable /\ e.volume \in {-1, 1} /\ e.price \in Int
            /\ e = TradeEvent(e.guid, e.volume, e.price)
         \/ /\ e.event = "ConditionalUpdated" /\ e.guid \in Conditionals /\ e.active \in BOOLEAN
            /\ e = ConditionalUpdatedEvent(e.guid, e.active)
         \/ e.event = "Updated" /\ e.guid \in Fillable /\ e = UpdatedEvent(e.guid)
         \/ e.event = "Candle" /\ e.close \in Int /\ e = CandleEvent(e.close)
<1>1. CASE e \in [event : {"OrderResponse"}, guid : Orders]
  BY <1>1 DEF OrderResponseEvent
<1>2. CASE e \in [event : {"Trade"}, guid : Fillable, volume : {-1, 1}, price : Int]
  BY <1>2 DEF TradeEvent
<1>3. CASE e \in [event : {"ConditionalUpdated"}, guid : Conditionals, active : BOOLEAN]
  BY <1>3 DEF ConditionalUpdatedEvent
<1>4. CASE e \in [event : {"Updated"}, guid : Fillable]
  BY <1>4 DEF UpdatedEvent
<1>5. CASE e \in [event : {"Candle"}, close : Int]
  BY <1>5 DEF CandleEvent
<1> QED BY <1>1, <1>2, <1>3, <1>4, <1>5 DEF Events

LEMMA EventFields ==
  /\ \A g : OrderResponseEvent(g).event = "OrderResponse" /\ OrderResponseEvent(g).guid = g
  /\ \A g, v, p : /\ TradeEvent(g, v, p).event = "Trade" /\ TradeEvent(g, v, p).guid = g
                  /\ TradeEvent(g, v, p).volume = v /\ TradeEvent(g, v, p).price = p
  /\ \A g, b : /\ ConditionalUpdatedEvent(g, b).event = "ConditionalUpdated"
               /\ ConditionalUpdatedEvent(g, b).guid = g
               /\ ConditionalUpdatedEvent(g, b).active = b
  /\ \A g : UpdatedEvent(g).event = "Updated" /\ UpdatedEvent(g).guid = g
  /\ \A p : CandleEvent(p).event = "Candle" /\ CandleEvent(p).close = p
BY DEF OrderResponseEvent, TradeEvent, ConditionalUpdatedEvent, UpdatedEvent, CandleEvent

(* What one event says *)
LEMMA OneEvent ==
  ASSUME NEW e \in Events, NEW g
  PROVE  /\ About(<<e>>, g) = IF e.event = "Candle" \/ e.guid # g THEN <<>> ELSE <<e>>
         /\ News(<<e>>, g) = IF e.event \in {"Candle", "Updated"} \/ e.guid # g
                             THEN <<>> ELSE <<e>>
<1> DEFINE x == <<e>>
           n == <<>>
<1>1. Without(x, NotAbout(g)) = IF e \in NotAbout(g) THEN n ELSE x
  BY WithoutOne
<1>2. Without(x, NotNews(g)) = IF e \in NotNews(g) THEN n ELSE x
  BY WithoutOne
<1> HIDE DEF x, n
<1>3. e \in NotAbout(g) <=> e.event = "Candle" \/ e.guid # g
  BY DEF NotAbout
<1>4. e \in NotNews(g) <=> e.event \in {"Candle", "Updated"} \/ e.guid # g
  BY DEF NotNews
<1>5. /\ About(x, g) = IF e.event = "Candle" \/ e.guid # g THEN n ELSE x
      /\ News(x, g) = IF e.event \in {"Candle", "Updated"} \/ e.guid # g THEN n ELSE x
  BY <1>1, <1>2, <1>3, <1>4 DEF About, News
<1> QED BY <1>5 DEF x, n

LEMMA SaysNothing == \A g : About(<<>>, g) = <<>> /\ News(<<>>, g) = <<>>
BY WithoutNothing DEF About, News

LEMMA SaysList ==
  ASSUME NEW q, NEW g, IsList(q)
  PROVE  IsList(About(q, g)) /\ IsList(News(q, g))
BY ListWithout DEF About, News

LEMMA SaysConcat ==
  ASSUME NEW q, NEW r, NEW g, IsList(q), IsList(r)
  PROVE  About(q \o r, g) = About(q, g) \o About(r, g) /\ News(q \o r, g) = News(q, g) \o News(r, g)
BY ListWithoutConcat DEF About, News

(* What a list says of an order that none of its events is about *)
LEMMA SaysOfOthers ==
  ASSUME NEW q, NEW g, IsList(q), ToSet(q) \subseteq Events
  PROVE  /\ (\A e \in ToSet(q) : e.event = "Candle" \/ e.guid # g) => About(q, g) = <<>>
         /\ (\A e \in ToSet(q) : e.event \in {"Candle", "Updated"} \/ e.guid # g) => News(q, g) = <<>>
<1>1. ASSUME NEW w, IsList(w), ToSet(w) = {} PROVE w = <<>>
  <2>1. Len(w) \in Nat /\ (Len(w) = 0 => w = <<>>)
    BY <1>1, ListIndices
  <2>2. ASSUME Len(w) # 0 PROVE FALSE
    <3>1. w[1] \in {w[i] : i \in 1 .. Len(w)}
      BY <2>1, <2>2
    <3> QED BY <1>1, <3>1, ToSetIs
  <2> QED BY <2>1, <2>2
<1>2. /\ IsList(About(q, g)) /\ ToSet(About(q, g)) = ToSet(q) \ NotAbout(g)
      /\ IsList(News(q, g)) /\ ToSet(News(q, g)) = ToSet(q) \ NotNews(g)
  BY ToSetWithout DEF About, News
<1>3. ASSUME \A e \in ToSet(q) : e.event = "Candle" \/ e.guid # g PROVE About(q, g) = <<>>
  <2>1. ToSet(About(q, g)) = {}
    BY <1>2, <1>3 DEF NotAbout
  <2> QED BY <1>1, <1>2, <2>1
<1>4. ASSUME \A e \in ToSet(q) : e.event \in {"Candle", "Updated"} \/ e.guid # g
      PROVE  News(q, g) = <<>>
  <2>1. ToSet(News(q, g)) = {}
    BY <1>2, <1>4 DEF NotNews
  <2> QED BY <1>1, <1>2, <2>1
<1> QED BY <1>3, <1>4

(* A list says nothing of an order only if none of its events is about it. *)
LEMMA SaysOfNone ==
  ASSUME NEW q, NEW g, IsList(q), ToSet(q) \subseteq Events
  PROVE  /\ About(q, g) = <<>> => \A e \in ToSet(q) : e.event = "Candle" \/ e.guid # g
         /\ News(q, g) = <<>> => \A e \in ToSet(q) : e.event \in {"Candle", "Updated"} \/ e.guid # g
<1>1. /\ IsList(About(q, g)) /\ ToSet(About(q, g)) = ToSet(q) \ NotAbout(g)
      /\ IsList(News(q, g)) /\ ToSet(News(q, g)) = ToSet(q) \ NotNews(g)
  BY ToSetWithout DEF About, News
<1> DEFINE n == <<>>
<1>2. ToSet(n) = {}
  BY ToSetNothing
<1> HIDE DEF n
<1>3. About(q, g) = n => \A e \in ToSet(q) : e.event = "Candle" \/ e.guid # g
  BY <1>1, <1>2 DEF NotAbout
<1>4. News(q, g) = n => \A e \in ToSet(q) : e.event \in {"Candle", "Updated"} \/ e.guid # g
  BY <1>1, <1>2 DEF NotNews
<1> QED BY <1>3, <1>4 DEF n

-----------------------------------------------------------------------------
(* What the execution of conditional orders pushes and moves *)

(* The gateway of a grid: it has neither TP/SL nor trailing stop. *)
Book(pos, price, tps, sls, events) ==
  [m_pos_volume |-> pos, m_last_price |-> price, m_tpsl |-> None, m_trailing_stop |-> None,
   m_stop_losses |-> sls, m_take_profits |-> tps, events |-> events]

ExitOrders(guids) == [guid : guids, side : {-1, 1}, volume : {1}, trigger : Int]

ExitTrade(o)  == TradeEvent(o.guid, o.side, o.trigger)
ExitGone(o)   == ConditionalUpdatedEvent(o.guid, FALSE)
ExitEvents(o) == <<ExitTrade(o)>> \o <<ExitGone(o)>>

LEMMA ExitEventsAre ==
  ASSUME NEW o \in ExitOrders(Conditionals)
  PROVE  /\ ExitTrade(o) \in Events /\ ExitGone(o) \in Events
         /\ IsList(ExitEvents(o)) /\ ToSet(ExitEvents(o)) = {ExitTrade(o), ExitGone(o)}
         /\ News(ExitEvents(o), o.guid) = ExitEvents(o)
         /\ \A g : g # o.guid => About(ExitEvents(o), g) = <<>> /\ News(ExitEvents(o), g) = <<>>
         /\ ExitEvents(o) \in Seq(Events)
<1> DEFINE t == ExitTrade(o)
           c == ExitGone(o)
           x == <<t>>
           y == <<c>>
           n == <<>>
<1>1. o.guid \in Conditionals /\ o.guid \in Fillable /\ o.side \in {-1, 1} /\ o.trigger \in Int
  BY DEF ExitOrders, Fillable
<1>2. /\ t \in Events /\ c \in Events /\ t.event = "Trade" /\ c.event = "ConditionalUpdated"
      /\ t.guid = o.guid /\ c.guid = o.guid
  <2>1. t \in Events
    BY <1>1, EventsHeld DEF ExitTrade
  <2>2. c \in Events
    BY <1>1, EventsHeld DEF ExitGone
  <2>3. /\ t.event = "Trade" /\ c.event = "ConditionalUpdated"
        /\ t.guid = o.guid /\ c.guid = o.guid
    BY DEF ExitTrade, ExitGone, TradeEvent, ConditionalUpdatedEvent
  <2> HIDE DEF t, c
  <2> QED BY <2>1, <2>2, <2>3
<1>3. IsList(x) /\ IsList(y) /\ x \in Seq(Events) /\ y \in Seq(Events)
  BY <1>2, LiteralLists
<1>4. ToSet(x) = {t} /\ ToSet(y) = {c}
  <2>1. Len(x) = 1 /\ x[1] = t /\ Len(y) = 1 /\ y[1] = c
    OBVIOUS
  <2> HIDE DEF x, y
  <2> QED BY <1>3, <2>1, ToSetIs
<1>5. \A g : /\ About(x, g) = IF g # o.guid THEN n ELSE x
             /\ News(x, g) = IF g # o.guid THEN n ELSE x
             /\ About(y, g) = IF g # o.guid THEN n ELSE y
             /\ News(y, g) = IF g # o.guid THEN n ELSE y
  BY <1>2, OneEvent
<1>6. n \o n = n
  BY LiteralLists
<1>7. ExitEvents(o) = x \o y
  BY DEF ExitEvents
<1> HIDE DEF x, y, n, t, c
<1>8. IsList(x \o y) /\ ToSet(x \o y) = {t, c} /\ x \o y \in Seq(Events)
  BY <1>3, <1>4, ListConcat, ToSetConcat
<1>9. ASSUME NEW g
      PROVE  /\ About(x \o y, g) = About(x, g) \o About(y, g)
             /\ News(x \o y, g) = News(x, g) \o News(y, g)
  BY <1>3, SaysConcat
<1>10. News(x \o y, o.guid) = x \o y
  BY <1>5, <1>9
<1>11. \A g : g # o.guid => About(x \o y, g) = n /\ News(x \o y, g) = n
  BY <1>5, <1>6, <1>9
<1> QED BY <1>2, <1>7, <1>8, <1>10, <1>11 DEF n, t, c

ExecuteStep(w, o) ==
  [Pushed(w, <<TradeEvent(o.guid, o.volume * o.side, o.trigger),
               ConditionalUpdatedEvent(o.guid, FALSE)>>)
   EXCEPT !.m_pos_volume = @ + o.volume * o.side]

LEMMA PushedAtBook ==
  ASSUME NEW pos, NEW price, NEW tps, NEW sls, NEW ev, NEW l
  PROVE  Pushed(Book(pos, price, tps, sls, ev), l) = Book(pos, price, tps, sls, ev \o l)
<1> DEFINE gw == Book(pos, price, tps, sls, ev)
           c == ev \o l
<1>1. gw.events = ev
  BY DEF Book
<1>2. Pushed(gw, l) = [gw EXCEPT !.events = c]
  <2> HIDE DEF gw
  <2> QED BY <1>1, Zenon DEF Pushed
<1> HIDE DEF c
<1>3. [gw EXCEPT !.events = c] = Book(pos, price, tps, sls, c)
  BY DEF Book
<1> QED BY <1>2, <1>3 DEF c

LEMMA ExecuteStepIs ==
  ASSUME NEW pos \in Int, NEW price, NEW tps, NEW sls, NEW ev, NEW o \in ExitOrders(Conditionals)
  PROVE  ExecuteStep(Book(pos, price, tps, sls, ev), o)
           = Book(pos + o.side, price, tps, sls, ev \o ExitEvents(o))
<1> DEFINE x == <<TradeEvent(o.guid, o.volume * o.side, o.trigger),
                  ConditionalUpdatedEvent(o.guid, FALSE)>>
           b == Book(pos, price, tps, sls, ev)
           c == ev \o x
           g == Book(pos, price, tps, sls, c)
<1>1. o.volume = 1 /\ o.side \in Int /\ o.volume * o.side = o.side
  BY DEF ExitOrders
<1>2. x = ExitEvents(o)
  BY <1>1, LiteralLists DEF ExitEvents, ExitTrade, ExitGone
<1>3. Pushed(b, x) = g
  BY PushedAtBook
<1>4. ExecuteStep(b, o) = [Pushed(b, x) EXCEPT !.m_pos_volume = @ + o.volume * o.side]
  BY DEF ExecuteStep
<1> DEFINE m == pos + o.side
<1>5. [g EXCEPT !.m_pos_volume = m] = Book(m, price, tps, sls, c)
  <2> HIDE DEF m, c
  <2> QED BY DEF Book
<1>6. g.m_pos_volume = pos
  BY DEF Book
<1> HIDE DEF b, x, c, g
<1>7. ExecuteStep(b, o) = Book(m, price, tps, sls, c)
  BY <1>1, <1>3, <1>4, <1>5, <1>6
<1> QED BY <1>2, <1>7 DEF b, c

IsExecution(f, gw, q) ==
  f = [i \in 0 .. Len(q) |->
         IF i = 0 THEN gw
         ELSE LET o == q[i]
              IN [Pushed(f[i - 1],
                         <<TradeEvent(o.guid, o.volume * o.side, o.trigger),
                           ConditionalUpdatedEvent(o.guid, FALSE)>>)
                  EXCEPT !.m_pos_volume = @ + o.volume * o.side]]

LEMMA ExecuteIs ==
  ASSUME NEW gw, NEW q
  PROVE  Execute(gw, q) = (CHOOSE f : IsExecution(f, gw, q))[Len(q)]
BY DEF Execute, IsExecution

(* The position p[i] and the events e[i] after the first i orders *)
Moves(p, q, pos) ==
  /\ p[0] = pos /\ \A i \in 0 .. Len(q) : p[i] \in Int
  /\ \A i \in 1 .. Len(q) : p[i] = p[i - 1] + q[i].side

Executing(p, e, q, pos, ev) ==
  /\ Moves(p, q, pos)
  /\ e[0] = ev /\ \A i \in 1 .. Len(q) : e[i] = e[i - 1] \o ExitEvents(q[i])

LEMMA ExecuteSteps ==
  ASSUME NEW q, IsList(q), ToSet(q) \subseteq ExitOrders(Conditionals),
         NEW pos \in Int, NEW price, NEW tps, NEW sls, NEW ev, IsList(ev)
  PROVE  \E p, e :
           /\ Executing(p, e, q, pos, ev)
           /\ Execute(Book(pos, price, tps, sls, ev), q)
                = Book(p[Len(q)], price, tps, sls, e[Len(q)])
<1>0. PICK S : ev \in Seq(S)
  BY DEF IsList
<1> DEFINE n == Len(q)
           E == S \cup Events
           B == Book(pos, price, tps, sls, ev)
           V == {Book(w[1], price, tps, sls, w[2]) : w \in Int \X Seq(E)}
           G == [w \in (1 .. n) \X V |-> ExecuteStep(w[2], q[w[1]])]
<1>1. n \in Nat /\ \A i \in 1 .. n : q[i] \in ExitOrders(Conditionals)
  BY ListIndices, ToSetIs
<1>2. ev \in Seq(E)
  BY <1>0
<1>3. B \in V
  <2> DEFINE u == <<pos, ev>>
  <2>1. u \in Int \X Seq(E) /\ u[1] = pos /\ u[2] = ev
    BY <1>2
  <2> HIDE DEF u, E
  <2> QED BY <2>1
<1>4. ASSUME NEW v \in V, NEW i \in 1 .. n PROVE ExecuteStep(v, q[i]) \in V
  <2>1. PICK w \in Int \X Seq(E) : v = Book(w[1], price, tps, sls, w[2])
    OBVIOUS
  <2> DEFINE o == q[i]
             x == ExitEvents(o)
  <2>2. o \in ExitOrders(Conditionals) /\ w[1] \in Int /\ w[2] \in Seq(E)
    BY <1>1
  <2>3. w[1] + o.side \in Int
    BY <2>2 DEF ExitOrders
  <2>4. x \in Seq(E)
    BY <2>2, ExitEventsAre
  <2>5. ExecuteStep(v, o) = Book(w[1] + o.side, price, tps, sls, w[2] \o x)
    BY <2>1, <2>2, ExecuteStepIs
  <2> HIDE DEF x, E, o
  <2>6. w[2] \o x \in Seq(E)
    BY <2>2, <2>4
  <2> DEFINE u == <<w[1] + o.side, w[2] \o x>>
  <2>7. u \in Int \X Seq(E) /\ u[1] = w[1] + o.side /\ u[2] = w[2] \o x
    BY <2>3, <2>6
  <2> HIDE DEF u
  <2> QED BY <2>5, <2>7 DEF o
<1>5. G \in [(1 .. n) \X V -> V]
  <2> HIDE DEF V
  <2> QED BY <1>4
<1>6. \A i \in 1 .. n : \A v \in V : G[<<i, v>>] = ExecuteStep(v, q[i])
  <2> HIDE DEF V
  <2> QED OBVIOUS
<1> HIDE DEF G, n, V, B, E
<1>7. PICK f \in [0 .. n -> V] : f[0] = B /\ \A i \in 1 .. n : f[i] = G[<<i, f[i - 1]>>]
  <2>1. Recursion(V, B, n, G)
    BY <1>1, <1>3, <1>5 DEF Recursion
  <2> QED BY <2>1, RecursionExists
<1>8. \A i \in 1 .. n : f[i] = ExecuteStep(f[i - 1], q[i])
  <2> SUFFICES ASSUME NEW i \in 1 .. n PROVE f[i] = ExecuteStep(f[i - 1], q[i])
    OBVIOUS
  <2>1. i - 1 \in 0 .. n
    BY <1>1
  <2>2. f[i - 1] \in V
    BY <1>7, <2>1
  <2> QED BY <1>6, <1>7, <2>2
<1>9. IsExecution(f, B, q)
  <2> DEFINE g == [i \in 0 .. n |-> IF i = 0 THEN B ELSE ExecuteStep(f[i - 1], q[i])]
  <2>1. g = [i \in 0 .. Len(q) |->
         IF i = 0 THEN B
         ELSE LET o == q[i]
              IN [Pushed(f[i - 1],
                         <<TradeEvent(o.guid, o.volume * o.side, o.trigger),
                           ConditionalUpdatedEvent(o.guid, FALSE)>>)
                  EXCEPT !.m_pos_volume = @ + o.volume * o.side]]
    BY DEF ExecuteStep, n
  <2>2. f = g
    <3>1. \A i \in 0 .. n : f[i] = g[i]
      <4> SUFFICES ASSUME NEW i \in 0 .. n PROVE f[i] = g[i]
        OBVIOUS
      <4>1. CASE i = 0
        BY <1>7, <4>1
      <4>2. CASE i # 0
        <5>1. i \in 1 .. n
          BY <1>1, <4>2
        <5> QED BY <1>8, <4>2, <5>1
      <4> QED BY <4>1, <4>2
    <3> QED BY <1>7, <3>1
  <2> HIDE DEF g
  <2> QED BY <2>1, <2>2 DEF IsExecution
<1> DEFINE h == CHOOSE h : IsExecution(h, B, q)
<1>10. IsExecution(h, B, q) /\ Execute(B, q) = h[n]
  BY <1>9, ExecuteIs DEF n
<1> HIDE DEF h
<1>11. /\ h[0] = B
       /\ \A i \in 1 .. n : h[i] = ExecuteStep(h[i - 1], q[i])
  <2>1. h = [i \in 0 .. n |-> IF i = 0 THEN B ELSE ExecuteStep(h[i - 1], q[i])]
    BY <1>10 DEF IsExecution, ExecuteStep, n
  <2>2. ASSUME NEW i \in 0 .. n
        PROVE  h[i] = IF i = 0 THEN B ELSE ExecuteStep(h[i - 1], q[i])
    BY <2>1
  <2>3. 0 \in 0 .. n /\ \A i \in 1 .. n : i \in 0 .. n /\ i # 0
    BY <1>1
  <2> QED BY <2>2, <2>3
<1> DEFINE p == [i \in 0 .. n |-> f[i].m_pos_volume]
           e == [i \in 0 .. n |-> f[i].events]
           P(i) == h[i] = f[i] /\ p[i] \in Int /\ f[i] = Book(p[i], price, tps, sls, e[i])
           T == {i \in Nat : i <= n => P(i)}
<1>12. p[0] = pos /\ e[0] = ev
  <2>1. 0 \in 0 .. n
    BY <1>1
  <2>2. p[0] = f[0].m_pos_volume /\ e[0] = f[0].events
    BY <2>1
  <2> HIDE DEF p, e
  <2> QED BY <2>2, <1>7 DEF B, Book
<1>13. 0 \in T
  <2> HIDE DEF p, e
  <2> QED BY <1>7, <1>11, <1>12 DEF B
<1>14. ASSUME NEW i \in Nat, i + 1 <= n, P(i)
       PROVE  /\ P(i + 1) /\ p[i + 1] = p[i] + q[i + 1].side
              /\ e[i + 1] = e[i] \o ExitEvents(q[i + 1])
  <2>1. i + 1 \in 1 .. n /\ i + 1 \in 0 .. n /\ (i + 1) - 1 = i
    <3> HIDE DEF p, e
    <3> QED BY <1>1, <1>14
  <2> DEFINE o == q[i + 1]
             x == ExitEvents(o)
  <2>2. o \in ExitOrders(Conditionals) /\ o.side \in Int
    BY <1>1, <2>1 DEF ExitOrders
  <2>3. h[i + 1] = f[i + 1] /\ f[i + 1] = ExecuteStep(f[i], o)
    BY <1>8, <1>11, <1>14, <2>1
  <2>4. ExecuteStep(f[i], o) = Book(p[i] + o.side, price, tps, sls, e[i] \o x)
    <3> HIDE DEF p, e, x, o
    <3> QED BY <1>14, <2>2, ExecuteStepIs DEF x
  <2>5. p[i + 1] = f[i + 1].m_pos_volume /\ e[i + 1] = f[i + 1].events
    BY <2>1
  <2> HIDE DEF p, e, x, o
  <2>6. p[i + 1] = p[i] + o.side /\ e[i + 1] = e[i] \o x
    BY <2>3, <2>4, <2>5 DEF Book
  <2>7. P(i + 1)
    BY <1>14, <2>2, <2>3, <2>4, <2>6
  <2> QED BY <2>6, <2>7 DEF o, x
<1>15. ASSUME NEW i \in T PROVE i + 1 \in T
  <2> HIDE DEF p, e
  <2>1. i \in Nat /\ i + 1 \in Nat /\ (i + 1 <= n => i <= n)
    BY <1>1
  <2>2. ASSUME i + 1 <= n PROVE P(i + 1)
    BY <1>14, <2>1, <2>2
  <2> QED BY <2>1, <2>2
<1> HIDE DEF T, p, e
<1>16. T = Nat
  BY <1>13, <1>15, InductionOnNat DEF T
<1>17. \A i \in 0 .. n : P(i)
  BY <1>1, <1>16 DEF T
<1>18. \A i \in 1 .. n : p[i] = p[i - 1] + q[i].side /\ e[i] = e[i - 1] \o ExitEvents(q[i])
  <2> SUFFICES ASSUME NEW i \in 1 .. n
               PROVE  p[i] = p[i - 1] + q[i].side /\ e[i] = e[i - 1] \o ExitEvents(q[i])
    OBVIOUS
  <2>1. i - 1 \in Nat /\ i - 1 \in 0 .. n /\ (i - 1) + 1 = i /\ (i - 1) + 1 <= n
    BY <1>1
  <2>2. P(i - 1)
    BY <1>17, <2>1
  <2>3. /\ p[(i - 1) + 1] = p[i - 1] + q[(i - 1) + 1].side
        /\ e[(i - 1) + 1] = e[i - 1] \o ExitEvents(q[(i - 1) + 1])
    BY <1>14, <2>1, <2>2
  <2> QED BY <2>1, <2>3
<1>19. Execute(B, q) = Book(p[n], price, tps, sls, e[n])
  BY <1>1, <1>10, <1>17
<1>20. Executing(p, e, q, pos, ev)
  BY <1>12, <1>17, <1>18 DEF Executing, Moves, n
<1> QED BY <1>19, <1>20 DEF n, B

(* The orders of a list have guids of their own. *)
Orderly(q, guids) ==
  /\ IsList(q) /\ Once(q) /\ ToSet(q) \subseteq ExitOrders(guids)
  /\ \A o, p \in ToSet(q) : o.guid = p.guid => o = p

(* The events of an execution: of each order that was executed two, in the order of the
   execution, and of no other order any. *)
Executed(fired, events) ==
  /\ IsList(events) /\ ToSet(events) \subseteq Events
  /\ \A e \in ToSet(events) : \E o \in fired : e \in {ExitTrade(o), ExitGone(o)}
  /\ \A o \in fired : News(events, o.guid) = ExitEvents(o)
  /\ \A g : (\A o \in fired : o.guid # g) => About(events, g) = <<>> /\ News(events, g) = <<>>

LEMMA ExecuteEvents ==
  ASSUME NEW q, Orderly(q, Conditionals),
         NEW pos \in Int, NEW price, NEW tps, NEW sls, NEW ev, IsList(ev)
  PROVE  \E p, events :
           /\ Moves(p, q, pos) /\ Executed(ToSet(q), events)
           /\ Execute(Book(pos, price, tps, sls, ev), q)
                = Book(p[Len(q)], price, tps, sls, ev \o events)
<1> DEFINE n == Len(q)
           First(i) == {q[j] : j \in 1 .. i}
<1>1. /\ n \in Nat /\ ToSet(q) = First(n) /\ IsList(q)
      /\ \A i \in 1 .. n : q[i] \in ExitOrders(Conditionals)
  BY ListIndices, ToSetIs DEF Orderly
<1>2. PICK p, e :
        /\ Executing(p, e, q, pos, ev)
        /\ Execute(Book(pos, price, tps, sls, ev), q)
             = Book(p[Len(q)], price, tps, sls, e[Len(q)])
  <2>1. IsList(q) /\ ToSet(q) \subseteq ExitOrders(Conditionals)
    BY DEF Orderly
  <2> QED BY <2>1, ExecuteSteps
<1>9. /\ Moves(p, q, pos) /\ e[0] = ev
      /\ \A i \in 1 .. n : e[i] = e[i - 1] \o ExitEvents(q[i])
  BY <1>2 DEF Executing
<1> DEFINE P(i) == \E x : Executed(First(i), x) /\ e[i] = ev \o x
           T == {i \in Nat : i <= n => P(i)}
<1>3. 0 \in T
  <2> DEFINE x == <<>>
  <2>1. IsList(x) /\ ToSet(x) = {} /\ ev \o x = ev
    BY LiteralLists, ToSetNothing
  <2>2. \A g : About(x, g) = x /\ News(x, g) = x
    BY SaysNothing
  <2>3. First(0) = {}
    OBVIOUS
  <2>4. Executed({}, x)
    <3> DEFINE y == x
    <3>1. \A g : About(y, g) = x /\ News(y, g) = x
      BY <2>2
    <3>2. IsList(y) /\ ToSet(y) = {}
      BY <2>1
    <3> HIDE DEF y
    <3>3. Executed({}, y)
      BY <3>1, <3>2 DEF Executed
    <3> QED BY <3>3 DEF y
  <2> HIDE DEF x, First
  <2>5. P(0)
    BY <1>9, <2>1, <2>3, <2>4
  <2> QED BY <2>5
<1>4. ASSUME NEW i \in Nat, i + 1 <= n, P(i) PROVE P(i + 1)
  <2> DEFINE o == q[i + 1]
             y == ExitEvents(o)
  <2>1. i \in Nat /\ i + 1 \in 1 .. n /\ (i + 1) - 1 = i /\ i <= n
    <3> HIDE DEF P
    <3> QED BY <1>1, <1>4
  <2>2. PICK x : Executed(First(i), x) /\ e[i] = ev \o x
    BY <1>4
  <2>3. e[i + 1] = e[i] \o y /\ o \in ExitOrders(Conditionals)
    BY <1>1, <1>9, <2>1
  <2>4. First(i + 1) = First(i) \cup {o}
    BY <2>1
  <2>5. ASSUME NEW p2 \in First(i) PROVE p2.guid # o.guid
    <3>1. PICK j \in 1 .. i : p2 = q[j]
      OBVIOUS
    <3>2. j \in 1 .. n /\ j # i + 1
      BY <2>1
    <3>3. q[j] # o
      BY <2>1, <3>2 DEF Orderly, Once
    <3>4. q[j] \in ToSet(q) /\ o \in ToSet(q)
      BY <1>1, <2>1, <3>2
    <3> HIDE DEF o
    <3> QED BY <3>1, <3>3, <3>4 DEF Orderly
  <2>6. IsList(x) /\ IsList(y) /\ ToSet(x) \subseteq Events
    BY <2>2, <2>3, ExitEventsAre DEF Executed
  <2> DEFINE z == x \o y
             t == ExitTrade(o)
             c == ExitGone(o)
             m == <<>>
  <2>7. /\ t \in Events /\ c \in Events /\ ToSet(y) = {t, c} /\ News(y, o.guid) = y
        /\ \A g : g # o.guid => About(y, g) = m /\ News(y, g) = m
    BY <2>3, ExitEventsAre
  <2>8. /\ m \o y = y /\ \A w : IsList(w) => w \o m = w
    BY <2>6, LiteralLists
  <2>9. /\ \A r \in First(i) : News(x, r.guid) = ExitEvents(r)
        /\ \A g : (\A r \in First(i) : r.guid # g) => About(x, g) = m /\ News(x, g) = m
        /\ \A u \in ToSet(x) : \E r \in First(i) : u \in {ExitTrade(r), ExitGone(r)}
    BY <2>2 DEF Executed
  <2> HIDE DEF z, y, m, t, c, o, First
  <2>10. IsList(z) /\ ToSet(z) = ToSet(x) \cup {t, c}
    BY <2>6, <2>7, ListConcat, ToSetConcat DEF z
  <2>11. ASSUME NEW g PROVE About(z, g) = About(x, g) \o About(y, g) /\ News(z, g) = News(x, g) \o News(y, g)
    BY <2>6, SaysConcat DEF z
  <2>12. \A r \in First(i + 1) : News(z, r.guid) = ExitEvents(r)
    <3> SUFFICES ASSUME NEW r \in First(i + 1) PROVE News(z, r.guid) = ExitEvents(r)
      OBVIOUS
    <3>1. CASE r = o
      <4>1. News(x, o.guid) = m
        BY <2>5, <2>9
      <4>2. News(z, o.guid) = y
        BY <2>7, <2>8, <2>11, <4>1
      <4> QED BY <3>1, <4>2 DEF y
    <3>2. CASE r \in First(i)
      <4>1. News(x, r.guid) = ExitEvents(r) /\ r.guid # o.guid
        BY <2>5, <2>9, <3>2
      <4>2. IsList(News(x, r.guid)) /\ News(y, r.guid) = m
        BY <2>6, <2>7, <4>1, SaysList
      <4> QED BY <2>8, <2>11, <4>1, <4>2
    <3> QED BY <2>4, <3>1, <3>2
  <2>13. ASSUME NEW g, \A r \in First(i + 1) : r.guid # g
         PROVE  About(z, g) = m /\ News(z, g) = m
    <3>1. g # o.guid /\ \A r \in First(i) : r.guid # g
      BY <2>4, <2>13
    <3>2. About(x, g) = m /\ News(x, g) = m /\ About(y, g) = m /\ News(y, g) = m
      BY <2>7, <2>9, <3>1
    <3>3. m \o m = m
      BY <2>8, LiteralLists DEF m
    <3> QED BY <2>11, <3>2, <3>3
  <2>14. \A u \in ToSet(z) : \E r \in First(i + 1) : u \in {ExitTrade(r), ExitGone(r)}
    <3> SUFFICES ASSUME NEW u \in ToSet(z)
                 PROVE  \E r \in First(i + 1) : u \in {ExitTrade(r), ExitGone(r)}
      OBVIOUS
    <3>1. CASE u \in ToSet(x)
      BY <2>4, <2>9, <3>1
    <3>2. CASE u \in {t, c}
      BY <2>4, <3>2 DEF t, c
    <3> QED BY <2>10, <3>1, <3>2
  <2>15. Executed(First(i + 1), z)
    BY <2>6, <2>7, <2>10, <2>12, <2>13, <2>14 DEF Executed, m
  <2>16. e[i + 1] = ev \o z
    <3>1. (ev \o x) \o y = ev \o (x \o y)
      BY <2>6, ListAssociative
    <3> QED BY <2>2, <2>3, <3>1 DEF z, y, o
  <2> QED BY <2>15, <2>16
<1> HIDE DEF P
<1>5. ASSUME NEW i \in T PROVE i + 1 \in T
  BY <1>1, <1>4
<1> HIDE DEF T
<1>6. P(n)
  <2>1. T = Nat
    BY <1>3, <1>5, InductionOnNat DEF T
  <2>2. n \in T
    BY <1>1, <2>1
  <2> HIDE DEF n
  <2> QED BY <1>1, <2>2 DEF T
<1>7. PICK x : Executed(First(n), x) /\ e[n] = ev \o x
  BY <1>6 DEF P
<1> HIDE DEF First
<1>8. /\ Executed(ToSet(q), x)
      /\ Execute(Book(pos, price, tps, sls, ev), q) = Book(p[n], price, tps, sls, ev \o x)
  BY <1>1, <1>2, <1>7
<1> QED BY <1>9, <1>8 DEF n

-----------------------------------------------------------------------------
(* What the levels hold together *)

IsLots(f, h) ==
  f = [l \in (1 - LevelsPerSide) - 1 .. LevelsPerSide - 1 |->
         IF l < 1 - LevelsPerSide THEN 0 ELSE f[l - 1] + h[l]]

LEMMA LotsAre ==
  ASSUME NEW h
  PROVE  Independent!Lots(h) = (CHOOSE f : IsLots(f, h))[LevelsPerSide - 1]
BY DEF Independent!Lots, IsLots

(* f[l] is what the levels up to l hold. *)
SumsOf(f, h) ==
  /\ f[-LevelsPerSide] = 0
  /\ \A l \in Levels : f[l - 1] \in Int /\ f[l] = f[l - 1] + h[l]
  /\ Independent!Lots(h) = f[LevelsPerSide - 1]

LEMMA LotsSteps ==
  ASSUME NEW h \in [Levels -> Int]
  PROVE  \E f : SumsOf(f, h)
<1> DEFINE n == 2 * LevelsPerSide - 1
           D == (1 - LevelsPerSide) - 1 .. LevelsPerSide - 1
           G == [w \in (1 .. n) \X Int |-> w[2] + h[w[1] - LevelsPerSide]]
<1>1. LevelsPerSide \in Nat /\ LevelsPerSide > 0 /\ n \in Nat
  BY SidesHaveLevels
<1>2. \A i \in 1 .. n : i - LevelsPerSide \in Levels
  BY <1>1 DEF Levels
<1>3. /\ G \in [(1 .. n) \X Int -> Int]
      /\ \A i \in 1 .. n : \A v \in Int : G[<<i, v>>] = v + h[i - LevelsPerSide]
  <2>1. \A w \in (1 .. n) \X Int : w[2] + h[w[1] - LevelsPerSide] \in Int
    <3> SUFFICES ASSUME NEW w \in (1 .. n) \X Int
                 PROVE  w[2] + h[w[1] - LevelsPerSide] \in Int
      OBVIOUS
    <3>1. w[1] \in 1 .. n /\ w[2] \in Int
      OBVIOUS
    <3>2. h[w[1] - LevelsPerSide] \in Int
      BY <1>2, <3>1
    <3> QED BY <3>1, <3>2
  <2> QED BY <2>1
<1> HIDE DEF G
<1>4. PICK g \in [0 .. n -> Int] : g[0] = 0 /\ \A i \in 1 .. n : g[i] = G[<<i, g[i - 1]>>]
  <2> DEFINE V == Int
             base == 0
             k == n
  <2>1. Recursion(V, base, k, G)
    BY <1>1, <1>3 DEF Recursion
  <2> HIDE DEF V, base, k
  <2>2. \E g \in [0 .. k -> V] : g[0] = base /\ \A i \in 1 .. k : g[i] = G[<<i, g[i - 1]>>]
    BY <2>1, RecursionExists
  <2> QED BY <2>2 DEF V, base, k
<1>5. ASSUME NEW i \in 1 .. n PROVE g[i] = g[i - 1] + h[i - LevelsPerSide] /\ g[i - 1] \in Int
  <2>1. i - 1 \in 0 .. n
    BY <1>1
  <2>2. g[i - 1] \in Int
    BY <1>4, <2>1
  <2> QED BY <1>3, <1>4, <2>2
<1> DEFINE f == [l \in D |-> g[l + LevelsPerSide]]
<1>6. \A l \in D : /\ l + LevelsPerSide \in 0 .. n /\ f[l] = g[l + LevelsPerSide]
                   /\ (l < 1 - LevelsPerSide => l + LevelsPerSide = 0)
                   /\ (~(l < 1 - LevelsPerSide) => /\ l + LevelsPerSide \in 1 .. n /\ l - 1 \in D /\ l \in Levels
                                                  /\ (l + LevelsPerSide) - 1 = (l - 1) + LevelsPerSide
                                                  /\ (l + LevelsPerSide) - LevelsPerSide = l)
  BY <1>1 DEF Levels
<1> HIDE DEF n
<1>7. ASSUME NEW l \in D PROVE f[l] = IF l < 1 - LevelsPerSide THEN 0 ELSE f[l - 1] + h[l]
  <2>1. CASE l < 1 - LevelsPerSide
    <3>1. f[l] = g[0]
      <4> HIDE DEF f, D
      <4> QED BY <1>6, <2>1
    <3> QED BY <1>4, <2>1, <3>1
  <2>2. CASE ~(l < 1 - LevelsPerSide)
    <3> DEFINE i == l + LevelsPerSide
    <3>1. i \in 1 .. n /\ l - 1 \in D /\ i - 1 = (l - 1) + LevelsPerSide /\ i - LevelsPerSide = l
      BY <1>6, <2>2
    <3>2. f[l] = g[i] /\ f[l - 1] = g[(l - 1) + LevelsPerSide]
      BY <1>6, <3>1
    <3>3. g[i] = g[i - 1] + h[i - LevelsPerSide]
      BY <1>5, <3>1
    <3> HIDE DEF f, D, i
    <3>4. f[l] = f[l - 1] + h[l]
      BY <3>1, <3>2, <3>3
    <3> QED BY <2>2, <3>4
  <2> QED BY <2>1, <2>2
<1>8. IsLots(f, h)
  <2> DEFINE r == [l \in D |-> IF l < 1 - LevelsPerSide THEN 0 ELSE f[l - 1] + h[l]]
  <2>1. \A l \in D : f[l] = r[l]
    BY <1>7
  <2>2. DOMAIN f = D
    OBVIOUS
  <2>3. f = r
    BY <2>1
  <2> HIDE DEF f
  <2> QED BY <2>3 DEF IsLots
<1> DEFINE s == CHOOSE s : IsLots(s, h)
<1>9. IsLots(s, h) /\ Independent!Lots(h) = s[LevelsPerSide - 1]
  BY <1>8, LotsAre
<1> HIDE DEF s, f
<1>10. ASSUME NEW l \in D PROVE s[l] = IF l < 1 - LevelsPerSide THEN 0 ELSE s[l - 1] + h[l]
  <2>1. s = [m \in D |-> IF m < 1 - LevelsPerSide THEN 0 ELSE s[m - 1] + h[m]]
    BY <1>9 DEF IsLots
  <2> QED BY <2>1
<1> DEFINE P(i) == s[i - LevelsPerSide] = g[i]
           T == {i \in Nat : i <= n => P(i)}
<1>11. 0 \in T
  <2>1. 0 - LevelsPerSide \in D /\ 0 - LevelsPerSide < 1 - LevelsPerSide
    BY <1>1
  <2>2. s[0 - LevelsPerSide] = 0
    BY <1>10, <2>1
  <2> QED BY <1>4, <2>2
<1>12. ASSUME NEW i \in Nat, i + 1 <= n, P(i) PROVE P(i + 1)
  <2> DEFINE l == (i + 1) - LevelsPerSide
  <2>1. l \in D /\ ~(l < 1 - LevelsPerSide) /\ l - 1 = i - LevelsPerSide /\ i + 1 \in 1 .. n
        /\ (i + 1) - 1 = i
    BY <1>1, <1>12 DEF n
  <2>2. s[l] = s[l - 1] + h[l]
    <3> HIDE DEF l, D
    <3> QED BY <1>10, <2>1
  <2>3. g[i + 1] = g[(i + 1) - 1] + h[(i + 1) - LevelsPerSide]
    BY <1>5, <2>1
  <2> HIDE DEF D
  <2> QED BY <1>12, <2>1, <2>2, <2>3
<1> HIDE DEF P, D
<1>13. ASSUME NEW i \in T PROVE i + 1 \in T
  BY <1>1, <1>12
<1> HIDE DEF T
<1>14. T = Nat
  BY <1>11, <1>13, InductionOnNat DEF T
<1>15. \A i \in 0 .. n : s[i - LevelsPerSide] = g[i]
  <2> SUFFICES ASSUME NEW i \in 0 .. n PROVE P(i)
    BY DEF P
  <2>1. i \in Nat /\ i <= n
    BY <1>1
  <2>2. i \in T
    BY <1>14, <2>1
  <2> HIDE DEF n
  <2> QED BY <2>1, <2>2 DEF T
<1>16. s[-LevelsPerSide] = 0
  <2>1. s[0 - LevelsPerSide] = g[0] /\ 0 - LevelsPerSide = -LevelsPerSide
    BY <1>1, <1>15
  <2> QED BY <1>4, <2>1
<1>17. ASSUME NEW l \in Levels PROVE s[l - 1] \in Int /\ s[l] = s[l - 1] + h[l]
  <2>1. l \in D /\ ~(l < 1 - LevelsPerSide)
    BY <1>1 DEF Levels, D
  <2> DEFINE i == l + LevelsPerSide
  <2>2. i \in 1 .. n /\ i - 1 = (l - 1) + LevelsPerSide
    BY <1>6, <2>1
  <2>3. i - 1 \in 0 .. n /\ (i - 1) - LevelsPerSide = l - 1
    BY <1>1, <2>2 DEF Levels
  <2>4. s[l - 1] = g[i - 1] /\ g[i - 1] \in Int
    <3> HIDE DEF i
    <3>1. s[(i - 1) - LevelsPerSide] = g[i - 1]
      BY <1>15, <2>3
    <3> QED BY <1>5, <2>2, <2>3, <3>1
  <2>5. s[l] = s[l - 1] + h[l]
    BY <1>10, <2>1
  <2> QED BY <2>4, <2>5
<1>18. SumsOf(s, h)
  BY <1>9, <1>16, <1>17 DEF SumsOf
<1> QED BY <1>18

LEMMA LotsOfNone ==
  ASSUME NEW h \in [Levels -> Int], \A l \in Levels : h[l] = 0
  PROVE  Independent!Lots(h) = 0
<1>1. PICK f : SumsOf(f, h)
  BY LotsSteps
<1>2. LevelsPerSide \in Nat /\ LevelsPerSide > 0
  BY SidesHaveLevels
<1> DEFINE n == 2 * LevelsPerSide - 1
           P(i) == f[i - LevelsPerSide] = 0
           T == {i \in Nat : i <= n => P(i)}
<1>3. 0 \in T
  <2>1. 0 - LevelsPerSide = -LevelsPerSide
    BY <1>2
  <2> QED BY <1>1, <2>1 DEF SumsOf
<1>4. ASSUME NEW i \in Nat, i + 1 <= n, P(i) PROVE P(i + 1)
  <2> DEFINE l == (i + 1) - LevelsPerSide
  <2>1. l \in Levels /\ l - 1 = i - LevelsPerSide
    BY <1>2, <1>4 DEF Levels
  <2>2. f[l] = f[l - 1] + h[l]
    <3> HIDE DEF l
    <3> QED BY <1>1, <2>1 DEF SumsOf
  <2> HIDE DEF l
  <2>3. f[l] = 0
    BY <1>4, <2>1, <2>2
  <2> QED BY <2>3 DEF l
<1> HIDE DEF P
<1>5. ASSUME NEW i \in T PROVE i + 1 \in T
  BY <1>2, <1>4
<1> HIDE DEF T
<1>6. n \in T /\ n \in Nat /\ n - LevelsPerSide = LevelsPerSide - 1
  <2>1. T = Nat
    BY <1>3, <1>5, InductionOnNat DEF T
  <2> QED BY <1>2, <2>1
<1>7. P(n)
  <2> HIDE DEF n
  <2> QED BY <1>6 DEF T
<1> QED BY <1>1, <1>6, <1>7 DEF SumsOf, P

(* One level changes. *)
LEMMA LotsChange ==
  ASSUME NEW h \in [Levels -> Int], NEW k \in [Levels -> Int], NEW c \in Levels,
         \A l \in Levels \ {c} : k[l] = h[l]
  PROVE  /\ Independent!Lots(h) \in Int /\ Independent!Lots(k) \in Int
         /\ Independent!Lots(k) = Independent!Lots(h) + k[c] - h[c]
<1>1. PICK f : SumsOf(f, h)
  BY LotsSteps
<1>2. PICK g : SumsOf(g, k)
  BY LotsSteps
<1>3. LevelsPerSide \in Nat /\ LevelsPerSide > 0
  BY SidesHaveLevels
<1> DEFINE n == 2 * LevelsPerSide - 1
           P(i) == LET l == i - LevelsPerSide
                   IN /\ f[l] \in Int /\ g[l] \in Int
                      /\ g[l] = f[l] + (IF l < c THEN 0 ELSE k[c] - h[c])
           T == {i \in Nat : i <= n => P(i)}
<1>4. c \in Int /\ k[c] \in Int /\ h[c] \in Int
  BY DEF Levels
<1>5. 0 \in T
  <2>1. 0 - LevelsPerSide = -LevelsPerSide /\ -LevelsPerSide < c
    BY <1>3 DEF Levels
  <2>2. f[-LevelsPerSide] = 0 /\ g[-LevelsPerSide] = 0
    BY <1>1, <1>2 DEF SumsOf
  <2> QED BY <2>1, <2>2
<1>6. ASSUME NEW i \in Nat, i + 1 <= n, P(i) PROVE P(i + 1)
  <2> DEFINE l == (i + 1) - LevelsPerSide
  <2>1. l \in Levels /\ l - 1 = i - LevelsPerSide /\ l \in Int
    BY <1>3, <1>6 DEF Levels
  <2>2. f[l] = f[l - 1] + h[l] /\ g[l] = g[l - 1] + k[l] /\ h[l] \in Int /\ k[l] \in Int
    <3> HIDE DEF l
    <3> QED BY <1>1, <1>2, <2>1 DEF SumsOf
  <2>3. /\ f[l - 1] \in Int /\ g[l - 1] \in Int
        /\ g[l - 1] = f[l - 1] + (IF l - 1 < c THEN 0 ELSE k[c] - h[c])
    BY <1>6, <2>1
  <2> HIDE DEF l
  <2>4. /\ f[l] \in Int /\ g[l] \in Int
        /\ g[l] = f[l] + (IF l < c THEN 0 ELSE k[c] - h[c])
    <3>1. CASE l < c
      <4>1. k[l] = h[l] /\ l - 1 < c
        BY <1>4, <2>1, <3>1
      <4> QED BY <2>2, <2>3, <3>1, <4>1
    <3>2. CASE l = c
      BY <1>4, <2>1, <2>2, <2>3, <3>2
    <3>3. CASE l > c
      <4>1. k[l] = h[l] /\ ~(l - 1 < c) /\ ~(l < c)
        BY <1>4, <2>1, <3>3
      <4> QED BY <1>4, <2>2, <2>3, <4>1
    <3> QED BY <1>4, <2>1, <3>1, <3>2, <3>3
  <2> QED BY <2>4 DEF l
<1> HIDE DEF P
<1>7. ASSUME NEW i \in T PROVE i + 1 \in T
  BY <1>3, <1>6
<1> HIDE DEF T
<1>8. n \in T /\ n \in Nat /\ n - LevelsPerSide = LevelsPerSide - 1
  <2>1. T = Nat
    BY <1>5, <1>7, InductionOnNat DEF T
  <2> QED BY <1>3, <2>1
<1>9. P(n)
  <2> HIDE DEF n
  <2> QED BY <1>8 DEF T
<1>10. ~(LevelsPerSide - 1 < c)
  BY <1>3, <1>4 DEF Levels
<1>11. Independent!Lots(h) = f[LevelsPerSide - 1] /\ Independent!Lots(k) = g[LevelsPerSide - 1]
  BY <1>1, <1>2 DEF SumsOf
<1>12. /\ f[LevelsPerSide - 1] \in Int /\ g[LevelsPerSide - 1] \in Int
       /\ g[LevelsPerSide - 1] = f[LevelsPerSide - 1] + (k[c] - h[c])
  <2> HIDE DEF n
  <2> QED BY <1>8, <1>9, <1>10 DEF P
<1> QED BY <1>4, <1>11, <1>12

(* What the levels hold, h, after orders of theirs were executed; v: the level of each order *)
LotsLeft(h, v, fired) ==
  [l \in Levels |-> IF \E o \in fired : v[o.guid] = l THEN 0 ELSE h[l]]

OneOfEach(q, h, v) ==
  /\ \A i \in 1 .. Len(q) : /\ v[q[i].guid] \in Levels
                            /\ h[v[q[i].guid]] = -q[i].side /\ q[i].side \in Int
  /\ \A i, j \in 1 .. Len(q) : v[q[i].guid] = v[q[j].guid] => i = j

(* Orders of different levels are executed, each against the lot of its level. *)
LEMMA ExecutionsCloseLots ==
  ASSUME NEW q, IsList(q), NEW p, NEW pos, NEW h \in [Levels -> Int], Moves(p, q, pos),
         NEW v, OneOfEach(q, h, v)
  PROVE  p[Len(q)] = pos + Independent!Lots(LotsLeft(h, v, ToSet(q))) - Independent!Lots(h)
<1> DEFINE n == Len(q)
           H(i) == [l \in Levels |-> IF \E j \in 1 .. i : v[q[j].guid] = l THEN 0 ELSE h[l]]
           P(i) == /\ Independent!Lots(H(i)) \in Int
                   /\ p[i] = pos + Independent!Lots(H(i)) - Independent!Lots(h)
           T == {i \in Nat : i <= n => P(i)}
<1>1. n \in Nat /\ ToSet(q) = {q[i] : i \in 1 .. n}
  BY ListIndices, ToSetIs
<1>2. /\ p[0] = pos /\ \A i \in 0 .. n : p[i] \in Int
      /\ \A i \in 1 .. n : p[i] = p[i - 1] + q[i].side
  BY DEF Moves
<1>3. \A i \in Nat : H(i) \in [Levels -> Int]
  OBVIOUS
<1>10. Independent!Lots(h) \in Int /\ pos \in Int
  <2>1. 0 \in Levels
    BY SidesHaveLevels DEF Levels
  <2>2. 0 \in 0 .. n
    BY <1>1
  <2> QED BY <1>2, <2>1, <2>2, LotsChange
<1>4. 0 \in T
  <2>1. H(0) = h
    OBVIOUS
  <2> HIDE DEF H
  <2> QED BY <1>2, <1>10, <2>1
<1>5. ASSUME NEW i \in Nat, i + 1 <= n, P(i) PROVE P(i + 1)
  <2> DEFINE c == v[q[i + 1].guid]
             a == H(i)
             b == H(i + 1)
  <2>1. i + 1 \in 1 .. n /\ (i + 1) - 1 = i
    BY <1>1, <1>5
  <2>2. c \in Levels /\ h[c] = -q[i + 1].side /\ q[i + 1].side \in Int
    BY <2>1 DEF OneOfEach
  <2>3. a[c] = h[c]
    <3>1. \A j \in 1 .. i : v[q[j].guid] # c
      <4> SUFFICES ASSUME NEW j \in 1 .. i, v[q[j].guid] = c PROVE FALSE
        OBVIOUS
      <4>1. j \in 1 .. n /\ j # i + 1
        BY <1>1, <2>1
      <4> QED BY <2>1, <4>1 DEF OneOfEach
    <3> QED BY <2>2, <3>1
  <2>4. b[c] = 0
    <3>1. i + 1 \in 1 .. i + 1
      OBVIOUS
    <3> QED BY <2>2, <3>1
  <2>5. \A l \in Levels \ {c} : b[l] = a[l]
    <3> SUFFICES ASSUME NEW l \in Levels \ {c} PROVE b[l] = a[l]
      OBVIOUS
    <3>1. (\E j \in 1 .. i + 1 : v[q[j].guid] = l) <=> \E j \in 1 .. i : v[q[j].guid] = l
      <4>1. \A j \in 1 .. i + 1 : j = i + 1 \/ j \in 1 .. i
        OBVIOUS
      <4>2. \A j \in 1 .. i : j \in 1 .. i + 1
        OBVIOUS
      <4> QED BY <4>1, <4>2
    <3> QED BY <3>1
  <2>6. a \in [Levels -> Int] /\ b \in [Levels -> Int]
    BY <1>3
  <2> HIDE DEF a, b, c, H
  <2>7. /\ Independent!Lots(b) = Independent!Lots(a) + b[c] - a[c]
        /\ Independent!Lots(a) \in Int /\ Independent!Lots(b) \in Int
    BY <2>2, <2>5, <2>6, LotsChange
  <2>8. p[i + 1] = p[i] + q[i + 1].side
    BY <1>2, <2>1
  <2>9. p[i] = pos + Independent!Lots(a) - Independent!Lots(h)
    BY <1>5 DEF a
  <2>10. Independent!Lots(b) \in Int /\ p[i + 1] = pos + Independent!Lots(b) - Independent!Lots(h)
    <3> DEFINE side == q[i + 1].side
               m == Independent!Lots(a)
    <3>1. b[c] - a[c] = side /\ side \in Int
      BY <2>2, <2>3, <2>4
    <3>2. b[c] \in Int /\ a[c] \in Int
      BY <2>2, <2>6
    <3>3. Independent!Lots(b) = m + side /\ m \in Int
      BY <2>7, <3>1, <3>2
    <3> HIDE DEF side, m
    <3>4. p[i + 1] = p[i] + side
      BY <2>8 DEF side
    <3> QED BY <1>10, <2>7, <2>9, <3>1, <3>3, <3>4 DEF m
  <2> QED BY <2>10 DEF b
<1> HIDE DEF P
<1>6. ASSUME NEW i \in T PROVE i + 1 \in T
  BY <1>1, <1>5
<1> HIDE DEF T
<1>7. n \in T
  <2>1. T = Nat
    BY <1>4, <1>6, InductionOnNat DEF T
  <2> QED BY <1>1, <2>1
<1>8. P(n)
  <2> HIDE DEF n
  <2> QED BY <1>1, <1>7 DEF T
<1>9. H(n) = LotsLeft(h, v, ToSet(q))
  <2>1. \A l : (\E j \in 1 .. n : v[q[j].guid] = l) <=> \E o \in ToSet(q) : v[o.guid] = l
    BY <1>1
  <2> QED BY <2>1 DEF LotsLeft
<1> HIDE DEF H
<1> QED BY <1>8, <1>9, <1>10 DEF P

-----------------------------------------------------------------------------
(* What a price sets off at the gateway *)

AtGateway(gw) == ToSet(gw.m_take_profits) \cup ToSet(gw.m_stop_losses)

IsBook(gw) ==
  /\ gw = Book(gw.m_pos_volume, gw.m_last_price, gw.m_take_profits, gw.m_stop_losses, gw.events)
  /\ gw.m_pos_volume \in Int /\ gw.m_last_price \in Int /\ IsList(gw.events)
  /\ Orderly(gw.m_take_profits, TakeProfits) /\ Orderly(gw.m_stop_losses, StopLosses)

Reached(o, price) ==
  IF o.guid \in StopLosses THEN StopLossReached(o, price) ELSE TakeProfitReached(o, price)

(* From gw to gw2 the orders of the list fired are executed, all of them reached. *)
Triggers(gw, gw2, fired) ==
  /\ IsBook(gw2) /\ gw2.m_last_price = gw.m_last_price
  /\ Orderly(fired, Conditionals) /\ ToSet(fired) \subseteq AtGateway(gw)
  /\ AtGateway(gw2) = AtGateway(gw) \ ToSet(fired)
  /\ \A o \in ToSet(fired) : Reached(o, gw.m_last_price)
  /\ \E events : Executed(ToSet(fired), events) /\ gw2.events = gw.events \o events
  /\ \E p : Moves(p, fired, gw.m_pos_volume) /\ gw2.m_pos_volume = p[Len(fired)]

LEMMA BookFields ==
  ASSUME NEW pos, NEW price, NEW tps, NEW sls, NEW ev
  PROVE  LET b == Book(pos, price, tps, sls, ev)
         IN /\ b.m_pos_volume = pos /\ b.m_last_price = price /\ b.events = ev
            /\ b.m_take_profits = tps /\ b.m_stop_losses = sls
            /\ b.m_tpsl = None /\ b.m_trailing_stop = None
BY DEF Book

LEMMA BookIs ==
  ASSUME NEW pos \in Int, NEW price \in Int, NEW tps, NEW sls, NEW ev, IsList(ev),
         Orderly(tps, TakeProfits), Orderly(sls, StopLosses)
  PROVE  IsBook(Book(pos, price, tps, sls, ev))
<1> DEFINE b == Book(pos, price, tps, sls, ev)
<1>1. /\ b.m_pos_volume = pos /\ b.m_last_price = price /\ b.events = ev
      /\ b.m_take_profits = tps /\ b.m_stop_losses = sls
  BY BookFields
<1>2. b = Book(b.m_pos_volume, b.m_last_price, b.m_take_profits, b.m_stop_losses, b.events)
  BY <1>1
<1> HIDE DEF b
<1> QED BY <1>1, <1>2 DEF IsBook, b

LEMMA SplitIsOrderly ==
  ASSUME NEW q, NEW kept, NEW fired, NEW guids, Orderly(q, guids), Split(q, kept, fired)
  PROVE  Orderly(kept, guids) /\ Orderly(fired, guids)
BY DEF Orderly, Split

LEMMA OrderlyConcat ==
  ASSUME NEW q, NEW r, Orderly(q, StopLosses), Orderly(r, TakeProfits)
  PROVE  Orderly(q \o r, Conditionals) /\ ToSet(q \o r) = ToSet(q) \cup ToSet(r)
<1>1. /\ IsList(q) /\ IsList(r) /\ Once(q) /\ Once(r)
      /\ ToSet(q) \subseteq ExitOrders(StopLosses) /\ ToSet(r) \subseteq ExitOrders(TakeProfits)
  BY DEF Orderly
<1>2. /\ \A o \in ToSet(q) : o.guid \in StopLosses /\ o \in ExitOrders(Conditionals)
      /\ \A o \in ToSet(r) : o.guid \in TakeProfits /\ o \in ExitOrders(Conditionals)
  BY <1>1 DEF ExitOrders, Conditionals
<1>3. \A o \in ToSet(q), p \in ToSet(r) : o.guid # p.guid
  BY <1>2, GuidsAreUnique
<1>4. ToSet(q) \cap ToSet(r) = {}
  BY <1>3
<1> DEFINE c == q \o r
<1>5. IsList(c) /\ Once(c) /\ ToSet(c) = ToSet(q) \cup ToSet(r)
  BY <1>1, <1>4, ListConcat, OnceConcat, ToSetConcat
<1> HIDE DEF c
<1>6. \A o, p \in ToSet(c) : o.guid = p.guid => o = p
  BY <1>3, <1>5 DEF Orderly
<1>7. ToSet(c) \subseteq ExitOrders(Conditionals)
  BY <1>2, <1>5
<1>8. Orderly(c, Conditionals)
  BY <1>5, <1>6, <1>7 DEF Orderly
<1> QED BY <1>5, <1>8 DEF c

LEMMA Triggering ==
  ASSUME NEW gw, IsBook(gw)
  PROVE  \E fired : Triggers(gw, try_trigger_conditionals(gw), fired)
<1> DEFINE pos == gw.m_pos_volume
           price == gw.m_last_price
           tps == gw.m_take_profits
           sls == gw.m_stop_losses
           ev == gw.events
           R == {o \in ToSet(sls) : StopLossReached(o, price)}
           Q == {o \in ToSet(tps) : TakeProfitReached(o, price)}
           s == Scan(sls, R)
           t == Scan(tps, Q)
           fired == s.fired \o t.fired
           sk == s.kept
           tk == t.kept
           b == Book(pos, price, tk, sk, ev)
<1>1. /\ gw = Book(pos, price, tps, sls, ev) /\ pos \in Int /\ price \in Int /\ IsList(ev)
      /\ Orderly(tps, TakeProfits) /\ Orderly(sls, StopLosses)
  BY DEF IsBook
<1>2. try_trigger_conditionals(gw) =
        Execute([gw EXCEPT !.m_stop_losses = s.kept, !.m_take_profits = t.kept], s.fired \o t.fired)
  BY DEF try_trigger_conditionals
<1>3. IsList(tps) /\ Once(tps) /\ IsList(sls) /\ Once(sls)
  BY <1>1 DEF Orderly
<1> HIDE DEF R, Q
<1>4. /\ Split(sls, sk, s.fired) /\ ToSet(s.fired) \subseteq R
      /\ Split(tps, tk, t.fired) /\ ToSet(t.fired) \subseteq Q
  BY <1>3, ScanSplits
<1> HIDE DEF s, t, pos, price, tps, sls, ev
<1>5. /\ Orderly(sk, StopLosses) /\ Orderly(s.fired, StopLosses)
      /\ Orderly(tk, TakeProfits) /\ Orderly(t.fired, TakeProfits)
  BY <1>1, <1>4, SplitIsOrderly
<1>6. Orderly(fired, Conditionals) /\ ToSet(fired) = ToSet(s.fired) \cup ToSet(t.fired)
  BY <1>5, OrderlyConcat
<1>7. [gw EXCEPT !.m_stop_losses = sk, !.m_take_profits = tk] = b
  <2> HIDE DEF sk, tk
  <2> DEFINE c == Book(pos, price, tps, sk, ev)
  <2>1. [Book(pos, price, tps, sls, ev) EXCEPT !.m_stop_losses = sk] = c
    BY DEF Book
  <2>2. [c EXCEPT !.m_take_profits = tk] = b
    BY DEF Book
  <2>3. [gw EXCEPT !.m_stop_losses = sk, !.m_take_profits = tk]
          = [[gw EXCEPT !.m_stop_losses = sk] EXCEPT !.m_take_profits = tk]
    OBVIOUS
  <2> HIDE DEF b, c
  <2> QED BY <1>1, <2>1, <2>2, <2>3
<1> HIDE DEF fired, sk, tk
<1>8. PICK p, events :
        /\ Moves(p, fired, pos) /\ Executed(ToSet(fired), events)
        /\ Execute(b, fired) = Book(p[Len(fired)], price, tk, sk, ev \o events)
  <2>1. pos \in Int /\ IsList(ev) /\ Orderly(fired, Conditionals)
    BY <1>1, <1>6
  <2> QED BY <2>1, ExecuteEvents
<1> DEFINE all == ev \o events
           m == p[Len(fired)]
           g == Book(m, price, tk, sk, all)
<1>9. try_trigger_conditionals(gw) = g
  BY <1>2, <1>7, <1>8 DEF fired, sk, tk
<1>10. IsList(all)
  BY <1>1, <1>8, ListConcat DEF Executed
<1>11. m \in Int
  <2>1. Len(fired) \in Nat
    BY <1>6, ListIndices DEF Orderly
  <2>2. Len(fired) \in 0 .. Len(fired)
    BY <2>1
  <2> QED BY <1>8, <2>2 DEF Moves
<1> HIDE DEF m, all
<1>12. IsBook(g)
  BY <1>1, <1>5, <1>10, <1>11, BookIs DEF sk, tk
<1>13. /\ g.m_pos_volume = m /\ g.m_last_price = price /\ g.events = all
       /\ g.m_take_profits = tk /\ g.m_stop_losses = sk
  BY BookFields
<1> HIDE DEF g, b
<1>14. AtGateway(gw) = ToSet(tps) \cup ToSet(sls) /\ AtGateway(g) = ToSet(tk) \cup ToSet(sk)
  BY <1>13 DEF AtGateway, tps, sls
<1>15. /\ ToSet(tps) = ToSet(tk) \cup ToSet(t.fired) /\ ToSet(tk) \cap ToSet(t.fired) = {}
       /\ ToSet(sls) = ToSet(sk) \cup ToSet(s.fired) /\ ToSet(sk) \cap ToSet(s.fired) = {}
  BY <1>4 DEF Split, sk, tk
<1>16. /\ \A o \in ToSet(tps) : o.guid \in TakeProfits
       /\ \A o \in ToSet(sls) : o.guid \in StopLosses
       /\ ToSet(tps) \cap ToSet(sls) = {}
  <2>1. /\ \A o \in ToSet(tps) : o.guid \in TakeProfits
        /\ \A o \in ToSet(sls) : o.guid \in StopLosses
    BY <1>1 DEF Orderly, ExitOrders
  <2> QED BY <2>1, GuidsAreUnique
<1>17. /\ ToSet(fired) \subseteq AtGateway(gw)
       /\ AtGateway(g) = AtGateway(gw) \ ToSet(fired)
  BY <1>6, <1>14, <1>15, <1>16
<1>18. ASSUME NEW o \in ToSet(fired) PROVE Reached(o, gw.m_last_price)
  <2>1. CASE o \in ToSet(s.fired)
    <3>1. StopLossReached(o, price) /\ o.guid \in StopLosses
      BY <1>4, <1>15, <1>16, <2>1 DEF R
    <3> QED BY <3>1 DEF Reached, price
  <2>2. CASE o \in ToSet(t.fired)
    <3>1. TakeProfitReached(o, price) /\ o.guid \in TakeProfits
      BY <1>4, <1>15, <1>16, <2>2 DEF Q
    <3> QED BY <3>1, GuidsAreUnique DEF Reached, price
  <2> QED BY <1>6, <2>1, <2>2
<1>19. g.events = gw.events \o events /\ g.m_last_price = gw.m_last_price
  BY <1>13 DEF all, ev, price
<1>20. Moves(p, fired, gw.m_pos_volume) /\ g.m_pos_volume = p[Len(fired)]
  BY <1>8, <1>13 DEF m, pos
<1>21. Triggers(gw, g, fired)
  BY <1>6, <1>8, <1>12, <1>17, <1>18, <1>19, <1>20 DEF Triggers
<1> QED BY <1>9, <1>21

-----------------------------------------------------------------------------
(* The inductive invariant *)

Strategy == {"DynamicGridAdx", "StaticGrid"}
Limits   == [min_price : Int, max_price : Int]

LevelRecords ==
  [mo : Orders, side : {-1, 1}, price : Int, tp : TakeProfits \cup {None},
   sl : StopLosses \cup {None}]

Types ==
  /\ created \subseteq Fillable /\ rejected = {} /\ cancelRequested \subseteq Conditionals
  /\ target \in [Fillable -> Nat] /\ filled \in [Fillable -> Nat]
  /\ suspendedVolume \in [Conditionals -> Nat]
  /\ IsList(queue) /\ ToSet(queue) \subseteq Events
  /\ IsBook(gateway) /\ gateway.events = <<>>
  /\ strategy \in Strategy /\ m_last_trend_value \in Int
  /\ interval \in [previous : Limits \cup {None}, next : Limits, age : Int, outOfBounds : BOOLEAN]
  /\ m_orders_by_levels \in [Levels -> LevelRecords \cup {None}]
  /\ watchedFor \in [Fillable -> Levels]

LevelOf(g) == m_orders_by_levels[watchedFor[g]]

(* The order manager has the orders of the levels. *)
Known ==
  /\ m_orders = {o \in Orders : LevelOf(o) # None /\ LevelOf(o).mo = o}
  /\ m_conditionals =
       {c \in Conditionals : LevelOf(c) # None /\ c \in {LevelOf(c).tp, LevelOf(c).sl}}
  /\ subscribed = m_orders \cup m_conditionals
  /\ subscribed \subseteq created

(* A level is bought below the centre and sold above it, and both of its exits are sent
   at once. *)
LevelsMade ==
  \A l \in Levels :
    LET o == m_orders_by_levels[l]
    IN o # None =>
         /\ l # 0 /\ o.side = -Sign(l) /\ watchedFor[o.mo] = l
         /\ o.tp = None <=> o.sl = None
         /\ o.tp # None => watchedFor[o.tp] = l /\ watchedFor[o.sl] = l
         /\ strategy = "StaticGrid" => interval.previous # None

(* In turn the loop handles the events of exits, the candles, the updates that close
   levels, the events of entries and of orders that were cancelled, the updates that open
   levels, and again the events of exits. *)
Kind(e, conds) ==
  IF e.event = "Candle" THEN "candle"
  ELSE IF e.guid \in Orders THEN IF e.event = "Updated" THEN "entered" ELSE "entry"
  ELSE IF e.event = "Updated" THEN "closing"
  ELSE IF e.guid \in conds THEN "exit" ELSE "cancelled"

Follow(kind) ==
  IF kind = "exit" THEN {"exit", "candle", "closing"}
  ELSE IF kind = "candle" THEN {"candle", "closing", "entry"}
  ELSE IF kind = "closing" THEN {"closing", "entry", "cancelled"}
  ELSE IF kind = "entry" THEN {"entry", "cancelled", "entered"}
  ELSE IF kind = "cancelled" THEN {"cancelled", "entered"}
  ELSE {"entered", "exit"}

InTurn(q, conds) ==
  \A i, j \in 1 .. Len(q) : i < j => Kind(q[j], conds) \in Follow(Kind(q[i], conds))

(* An order of a level from the request on: acknowledged, traded, and its callback told.
   a: what the queue says of it *)
TradesOf(g) == {TradeEvent(g, v, p) : v \in {-1, 1}, p \in Int}

EntryState(g, tp, volume, fill, done, a) ==
  /\ volume = 1
  /\ \/ /\ tp = None /\ fill = 0 /\ g \notin done
        /\ \E t \in TradesOf(g) : a = <<t>> \/ a = <<OrderResponseEvent(g)>> \o <<t>>
     \/ tp = None /\ fill = 1 /\ a = <<UpdatedEvent(g)>>
     \/ tp # None /\ fill = 1 /\ a = <<>>

EntriesInTurn ==
  \A o \in m_orders :
    EntryState(o, LevelOf(o).tp, target[o], filled[o], traded, About(queue, o))

(* An exit is sent, and when it is executed it is traded and gone. *)
Sent(g)       == <<ConditionalUpdatedEvent(g, TRUE)>>
Gone(g)       == <<ConditionalUpdatedEvent(g, FALSE)>>
Executions(g) == {<<t>> \o Gone(g) : t \in TradesOf(g)}

(* An exit rests until it is reached; then it is traded and its callback told.  n: what
   the queue has of the gateway about it; at: the guids at the gateway; events: of the
   queue, which has the update of its trade *)
ExitState(c, volume, fill, suspended, n, at, events) ==
  /\ volume = 1
  /\ \/ fill = 0 /\ suspended = 0 /\ c \in at /\ n = Sent(c)
     \/ fill = 0 /\ suspended = 0 /\ c \notin at /\ \E x \in Executions(c) : n = Sent(c) \o x
     \/ fill = 0 /\ suspended = 1 /\ c \in at /\ n = <<>>
     \/ fill = 0 /\ suspended = 1 /\ c \notin at /\ n \in Executions(c)
     \/ /\ fill = 1 /\ suspended = 0 /\ c \notin at
        /\ UpdatedEvent(c) \in events /\ (n = <<>> \/ n = Gone(c))

GuidsAt(gw) == {o.guid : o \in AtGateway(gw)}

ExitsInTurn ==
  \A c \in m_conditionals :
    /\ c \notin cancelRequested
    /\ ExitState(c, target[c], filled[c], suspendedVolume[c], News(queue, c),
                 GuidsAt(gateway), ToSet(queue))

(* Of an order that was cancelled the queue has at most the gateway's word of it. *)
NothingElse ==
  /\ GuidsAt(gateway) \subseteq m_conditionals
  /\ \A e \in ToSet(queue) :
       \/ e.event = "Candle"
       \/ e.guid \in subscribed
       \/ e.guid \in created \cap Conditionals /\ e = ConditionalUpdatedEvent(e.guid, FALSE)
  /\ \A g \in Fillable \ created :
       filled[g] = 0 /\ target[g] = 0 /\ g \notin traded /\ g \notin cancelRequested
  /\ \A c \in Conditionals \ created : suspendedVolume[c] = 0

IInv ==
  /\ Types /\ Known /\ LevelsMade
  /\ InTurn(queue, m_conditionals)
  /\ EntriesInTurn /\ ExitsInTurn /\ NothingElse
  /\ NoGridErrors

(* The prices: an order that has not been traded was sent at the last price; what rests is
   away from the price of the entry, as is the price at which an exit was executed. *)
Gain(level, price) == (price - level.price) * level.side

Away(c, price) ==
  IF c \in TakeProfits THEN Gain(LevelOf(c), price) > 0
  ELSE Gain(LevelOf(c), price) < -(LevelsPerSide * LevelWidth)

EntryPrices ==
  \A l \in Levels :
    m_orders_by_levels[l] # None /\ m_orders_by_levels[l].tp = None =>
      m_orders_by_levels[l].price = gateway.m_last_price

ExitSides == \A o \in AtGateway(gateway) : o.side = -LevelOf(o.guid).side

ExitsAway ==
  \A o \in AtGateway(gateway) :
    strategy = "DynamicGridAdx" \/ o.guid \in TakeProfits => Away(o.guid, o.trigger)

ExecutedAway ==
  strategy = "DynamicGridAdx" =>
    \A c \in m_conditionals \ GuidsAt(gateway) : Away(c, gateway.m_last_price)

Prices == EntryPrices /\ ExitSides /\ ExitsAway /\ ExecutedAway

Held == [l \in Levels |-> HeldBy(l)]

PositionIsHeld ==
  strategy = "DynamicGridAdx" => gateway.m_pos_volume = Independent!Lots(Held)

-----------------------------------------------------------------------------
(* Events in turn *)

LEMMA InTurnTail ==
  ASSUME NEW q, NEW conds, IsList(q), q # <<>>, InTurn(q, conds)
  PROVE  /\ InTurn(Tail(q), conds)
         /\ \A e \in ToSet(Tail(q)) : Kind(e, conds) \in Follow(Kind(Head(q), conds))
<1> DEFINE t == Tail(q)
<1>1. /\ IsList(t) /\ Len(t) = Len(q) - 1 /\ Len(q) \in Nat \ {0}
      /\ (\A i \in 1 .. Len(q) - 1 : t[i] = q[i + 1]) /\ Head(q) = q[1]
  BY ListTail, ListIndices
<1>2. ToSet(t) = {t[i] : i \in 1 .. Len(t)}
  BY <1>1, ToSetIs
<1> HIDE DEF t
<1>3. ASSUME NEW i \in 1 .. Len(t), NEW j \in 1 .. Len(t), i < j
      PROVE  Kind(t[j], conds) \in Follow(Kind(t[i], conds))
  <2>1. i + 1 \in 1 .. Len(q) /\ j + 1 \in 1 .. Len(q) /\ i + 1 < j + 1
    BY <1>1, <1>3
  <2>2. t[i] = q[i + 1] /\ t[j] = q[j + 1]
    BY <1>1
  <2> QED BY <2>1, <2>2 DEF InTurn
<1>4. ASSUME NEW i \in 1 .. Len(t) PROVE Kind(t[i], conds) \in Follow(Kind(q[1], conds))
  <2>1. 1 \in 1 .. Len(q) /\ i + 1 \in 1 .. Len(q) /\ 1 < i + 1 /\ t[i] = q[i + 1]
    BY <1>1
  <2> QED BY <2>1 DEF InTurn
<1>5. \A e \in ToSet(t) : Kind(e, conds) \in Follow(Kind(q[1], conds))
  BY <1>2, <1>4
<1>6. InTurn(t, conds)
  BY <1>3 DEF InTurn
<1> QED BY <1>1, <1>5, <1>6 DEF t

LEMMA InTurnConcat ==
  ASSUME NEW q, NEW r, NEW conds, IsList(q), IsList(r), InTurn(q, conds), InTurn(r, conds),
         \A a \in ToSet(q), b \in ToSet(r) : Kind(b, conds) \in Follow(Kind(a, conds))
  PROVE  InTurn(q \o r, conds)
<1> DEFINE a == q \o r
<1>1. /\ IsList(a) /\ Len(a) = Len(q) + Len(r)
      /\ \A i \in 1 .. Len(q) : a[i] = q[i]
      /\ \A i \in 1 .. Len(r) : a[Len(q) + i] = r[i]
      /\ Len(q) \in Nat /\ Len(r) \in Nat
  BY ListConcat, ListIndices
<1>2. /\ \A i \in 1 .. Len(q) : q[i] \in ToSet(q)
      /\ \A i \in 1 .. Len(r) : r[i] \in ToSet(r)
  BY ToSetIs
<1> HIDE DEF a
<1>3. ASSUME NEW i \in 1 .. Len(a), NEW j \in 1 .. Len(a), i < j
      PROVE  Kind(a[j], conds) \in Follow(Kind(a[i], conds))
  <2>0. i \in Nat /\ j \in Nat
    BY <1>1
  <2>1. CASE j <= Len(q)
    <3>1. i \in 1 .. Len(q) /\ j \in 1 .. Len(q)
      BY <1>1, <1>3, <2>0, <2>1
    <3>2. a[i] = q[i] /\ a[j] = q[j]
      BY <1>1, <3>1
    <3>3. Kind(q[j], conds) \in Follow(Kind(q[i], conds))
      BY <1>3, <3>1 DEF InTurn
    <3> QED BY <3>2, <3>3
  <2>2. CASE i <= Len(q) /\ j > Len(q)
    <3>1. i \in 1 .. Len(q) /\ j - Len(q) \in 1 .. Len(r) /\ Len(q) + (j - Len(q)) = j
      BY <1>1, <1>3, <2>0, <2>2
    <3>2. a[i] = q[i] /\ a[j] = r[j - Len(q)]
      BY <1>1, <3>1
    <3>3. a[i] \in ToSet(q) /\ a[j] \in ToSet(r)
      BY <1>2, <3>1, <3>2
    <3> QED BY <3>3
  <2>3. CASE i > Len(q)
    <3>1. /\ i - Len(q) \in 1 .. Len(r) /\ Len(q) + (i - Len(q)) = i
          /\ j - Len(q) \in 1 .. Len(r) /\ Len(q) + (j - Len(q)) = j
          /\ i - Len(q) < j - Len(q)
      BY <1>1, <1>3, <2>0, <2>3
    <3>2. a[i] = r[i - Len(q)] /\ a[j] = r[j - Len(q)]
      BY <1>1, <3>1
    <3>3. Kind(r[j - Len(q)], conds) \in Follow(Kind(r[i - Len(q)], conds))
      BY <3>1 DEF InTurn
    <3> QED BY <3>2, <3>3
  <2> QED BY <1>1, <2>0, <2>1, <2>2, <2>3
<1> QED BY <1>3 DEF InTurn, a

(* Events of one kind that may follow itself *)
LEMMA InTurnOfOne ==
  ASSUME NEW q, NEW conds, NEW k, IsList(q), \A e \in ToSet(q) : Kind(e, conds) = k, k \in Follow(k)
  PROVE  InTurn(q, conds)
<1>1. \A i \in 1 .. Len(q) : Kind(q[i], conds) = k
  BY ToSetIs
<1> QED BY <1>1 DEF InTurn

LEMMA InTurnWithout ==
  ASSUME NEW q, NEW conds, NEW D, IsList(q), InTurn(q, conds)
  PROVE  InTurn(Without(q, D), conds)
<1> DEFINE w == Without(q, D)
<1>1. IsList(w) /\ Selected(w, q, D, Len(q)) /\ Len(w) \in Nat /\ Len(q) \in Nat
  BY ListWithout, ListIndices
<1> HIDE DEF w
<1>2. PICK h \in [1 .. Len(w) -> 1 .. Len(q)] :
        /\ \A k \in 1 .. Len(w) : w[k] = q[h[k]]
        /\ \A j, k \in 1 .. Len(w) : j < k => h[j] < h[k]
  BY <1>1 DEF Selected
<1>3. ASSUME NEW i \in 1 .. Len(w), NEW j \in 1 .. Len(w), i < j
      PROVE  Kind(w[j], conds) \in Follow(Kind(w[i], conds))
  <2>1. h[i] \in 1 .. Len(q) /\ h[j] \in 1 .. Len(q) /\ h[i] < h[j]
    BY <1>2, <1>3
  <2>2. w[i] = q[h[i]] /\ w[j] = q[h[j]]
    BY <1>2
  <2>3. Kind(q[h[j]], conds) \in Follow(Kind(q[h[i]], conds))
    BY <2>1 DEF InTurn
  <2> QED BY <2>2, <2>3
<1> QED BY <1>3 DEF InTurn, w

LEMMA InTurnSameKinds ==
  ASSUME NEW q, NEW conds, NEW others, IsList(q), InTurn(q, conds),
         \A e \in ToSet(q) : Kind(e, conds) = Kind(e, others)
  PROVE  InTurn(q, others)
<1>1. \A i \in 1 .. Len(q) : Kind(q[i], conds) = Kind(q[i], others)
  BY ToSetIs
<1> QED BY <1>1 DEF InTurn

(* What the head of the queue says, and what is left *)
LEMMA QueueHead ==
  ASSUME NEW q, NEW conds, IsList(q), q # <<>>, ToSet(q) \subseteq Events, InTurn(q, conds)
  PROVE  /\ Head(q) \in Events /\ IsList(Tail(q)) /\ ToSet(Tail(q)) \subseteq Events
         /\ ToSet(q) = {Head(q)} \cup ToSet(Tail(q))
         /\ InTurn(Tail(q), conds)
         /\ \A e \in ToSet(Tail(q)) : Kind(e, conds) \in Follow(Kind(Head(q), conds))
         /\ \A g : /\ IsList(About(Tail(q), g)) /\ IsList(News(Tail(q), g))
                   /\ About(q, g) = IF Head(q).event = "Candle" \/ Head(q).guid # g
                                    THEN About(Tail(q), g) ELSE <<Head(q)>> \o About(Tail(q), g)
                   /\ News(q, g) = IF Head(q).event \in {"Candle", "Updated"} \/ Head(q).guid # g
                                   THEN News(Tail(q), g) ELSE <<Head(q)>> \o News(Tail(q), g)
<1> DEFINE h == Head(q)
           t == Tail(q)
<1>1. ToSet(q) = {h} \cup ToSet(t) /\ IsList(t)
  BY ToSetFirst
<1>2. InTurn(t, conds) /\ \A e \in ToSet(t) : Kind(e, conds) \in Follow(Kind(h, conds))
  BY InTurnTail
<1>3. \A D : /\ h \in D => Without(q, D) = Without(t, D)
             /\ h \notin D => Without(q, D) = <<h>> \o Without(t, D)
  BY WithoutHead
<1>4. \A g : IsList(About(t, g)) /\ IsList(News(t, g))
  BY <1>1, SaysList
<1> HIDE DEF h, t
<1>5. h \in Events
  BY <1>1
<1>6. ASSUME NEW g
      PROVE  /\ About(q, g) = IF h.event = "Candle" \/ h.guid # g THEN About(t, g)
                                                                 ELSE <<h>> \o About(t, g)
             /\ News(q, g) = IF h.event \in {"Candle", "Updated"} \/ h.guid # g
                             THEN News(t, g) ELSE <<h>> \o News(t, g)
  <2>1. /\ h \in NotAbout(g) <=> h.event = "Candle" \/ h.guid # g
        /\ h \in NotNews(g) <=> h.event \in {"Candle", "Updated"} \/ h.guid # g
    BY <1>5 DEF NotAbout, NotNews
  <2> QED BY <1>3, <2>1 DEF About, News
<1> QED BY <1>1, <1>2, <1>4, <1>5, <1>6 DEF h, t

-----------------------------------------------------------------------------
(* How the gateway reacts: to a price with the executions it sets off, to the exits of a
   level with those two orders and all they set off *)

Guids(orders) == {o.guid : o \in orders}

(* Executed orders take the lots of their levels out of the position. *)
ClosesLots(pos, pos2, fired) ==
  \A h \in [Levels -> Int], v \in [Fillable -> Levels] :
    /\ \A o \in fired : h[v[o.guid]] = -o.side
    /\ \A o, p \in fired : v[o.guid] = v[p.guid] => o = p
    => pos2 = pos + Independent!Lots(LotsLeft(h, v, fired)) - Independent!Lots(h)

NewsOf(o, added, fired) ==
  (IF o \in added THEN Sent(o.guid) ELSE <<>>) \o (IF o \in fired THEN ExitEvents(o) ELSE <<>>)

Reacts(gw, gw2, added, fired) ==
  /\ IsBook(gw2) /\ gw2.m_last_price = gw.m_last_price
  /\ fired \subseteq AtGateway(gw) \cup added
  /\ AtGateway(gw2) = (AtGateway(gw) \cup added) \ fired
  /\ \A o \in fired : Reached(o, gw.m_last_price)
  /\ ToSet(gw2.events) \subseteq Events
  /\ \A e \in ToSet(gw2.events) :
       e.event \in {"Trade", "ConditionalUpdated"} /\ e.guid \in Guids(added \cup fired)
  /\ \A o \in added \cup fired : News(gw2.events, o.guid) = NewsOf(o, added, fired)
  /\ ClosesLots(gw.m_pos_volume, gw2.m_pos_volume, fired)

LEMMA BookOrders ==
  ASSUME NEW gw, IsBook(gw)
  PROVE  /\ AtGateway(gw) \subseteq ExitOrders(Conditionals)
         /\ \A o, p \in AtGateway(gw) : o.guid = p.guid => o = p
         /\ \A o \in AtGateway(gw) : /\ o \in ToSet(gw.m_take_profits) => o.guid \in TakeProfits
                                     /\ o \in ToSet(gw.m_stop_losses) => o.guid \in StopLosses
<1> DEFINE A == ToSet(gw.m_take_profits)
           B == ToSet(gw.m_stop_losses)
<1>1. /\ A \subseteq ExitOrders(TakeProfits) /\ B \subseteq ExitOrders(StopLosses)
      /\ \A o, p \in A : o.guid = p.guid => o = p
      /\ \A o, p \in B : o.guid = p.guid => o = p
      /\ AtGateway(gw) = A \cup B
  BY DEF IsBook, Orderly, AtGateway
<1> HIDE DEF A, B
<1>2. /\ \A o \in A : o.guid \in TakeProfits /\ o \in ExitOrders(Conditionals)
      /\ \A o \in B : o.guid \in StopLosses /\ o \in ExitOrders(Conditionals)
  BY <1>1 DEF ExitOrders, Conditionals
<1>3. \A o \in A, p \in B : o.guid # p.guid
  BY <1>2, GuidsAreUnique
<1> QED BY <1>1, <1>2, <1>3 DEF A, B

LEMMA MovesCloseLots ==
  ASSUME NEW fired, Orderly(fired, Conditionals), NEW p, NEW pos, Moves(p, fired, pos)
  PROVE  ClosesLots(pos, p[Len(fired)], ToSet(fired))
<1> SUFFICES ASSUME NEW h \in [Levels -> Int], NEW v \in [Fillable -> Levels],
                    \A o \in ToSet(fired) : h[v[o.guid]] = -o.side,
                    \A o, q \in ToSet(fired) : v[o.guid] = v[q.guid] => o = q
             PROVE  p[Len(fired)] =
                      pos + Independent!Lots(LotsLeft(h, v, ToSet(fired))) - Independent!Lots(h)
  BY DEF ClosesLots
<1>1. IsList(fired) /\ ToSet(fired) \subseteq ExitOrders(Conditionals) /\ Once(fired)
  BY DEF Orderly
<1>2. \A i \in 1 .. Len(fired) : fired[i] \in ToSet(fired)
  BY <1>1, ToSetIs
<1>3. \A i \in 1 .. Len(fired) : /\ v[fired[i].guid] \in Levels
                                 /\ h[v[fired[i].guid]] = -fired[i].side
                                 /\ fired[i].side \in Int
  <2> SUFFICES ASSUME NEW i \in 1 .. Len(fired)
               PROVE  /\ v[fired[i].guid] \in Levels
                      /\ h[v[fired[i].guid]] = -fired[i].side
                      /\ fired[i].side \in Int
    OBVIOUS
  <2>1. fired[i] \in ExitOrders(Conditionals) /\ fired[i] \in ToSet(fired)
    BY <1>1, <1>2
  <2>2. fired[i].guid \in Fillable /\ fired[i].side \in Int
    BY <2>1 DEF ExitOrders, Fillable
  <2> QED BY <2>1, <2>2
<1>4. \A i, j \in 1 .. Len(fired) : v[fired[i].guid] = v[fired[j].guid] => i = j
  BY <1>1, <1>2 DEF Once
<1>5. OneOfEach(fired, h, v)
  BY <1>3, <1>4 DEF OneOfEach
<1> QED BY <1>1, <1>5, ExecutionsCloseLots

LEMMA LotsAreClosedTwice ==
  ASSUME NEW a, NEW b, NEW c, a \in Int, NEW f, NEW g,
         f \cup g \subseteq ExitOrders(Conditionals), f \cap g = {},
         ClosesLots(a, b, f), ClosesLots(b, c, g)
  PROVE  ClosesLots(a, c, f \cup g)
<1> SUFFICES ASSUME NEW h \in [Levels -> Int], NEW v \in [Fillable -> Levels],
                    \A o \in f \cup g : h[v[o.guid]] = -o.side,
                    \A o, q \in f \cup g : v[o.guid] = v[q.guid] => o = q
             PROVE  c = a + Independent!Lots(LotsLeft(h, v, f \cup g)) - Independent!Lots(h)
  BY DEF ClosesLots
<1> DEFINE i == LotsLeft(h, v, f)
           j == LotsLeft(i, v, g)
           k == LotsLeft(h, v, f \cup g)
<1>1. i \in [Levels -> Int] /\ k \in [Levels -> Int]
  BY DEF LotsLeft
<1>2. b = a + Independent!Lots(i) - Independent!Lots(h)
  <2> HIDE DEF i
  <2> QED BY DEF ClosesLots, i
<1>3. \A o \in g : i[v[o.guid]] = -o.side
  <2> SUFFICES ASSUME NEW o \in g PROVE i[v[o.guid]] = -o.side
    OBVIOUS
  <2>1. o.guid \in Fillable
    BY DEF ExitOrders, Fillable
  <2>2. v[o.guid] \in Levels /\ ~\E q \in f : v[q.guid] = v[o.guid]
    BY <2>1
  <2> QED BY <2>2 DEF LotsLeft
<1>4. c = b + Independent!Lots(j) - Independent!Lots(i)
  <2>1. i \in [Levels -> Int] /\ \A o \in g : i[v[o.guid]] = -o.side
    BY <1>1, <1>3
  <2>2. \A o, q \in g : v[o.guid] = v[q.guid] => o = q
    OBVIOUS
  <2> HIDE DEF i
  <2> QED BY <2>1, <2>2 DEF ClosesLots
<1>5. j = k
  BY DEF LotsLeft
<1>6. Independent!Lots(h) \in Int /\ Independent!Lots(i) \in Int /\ Independent!Lots(k) \in Int
  <2>1. 0 \in Levels
    BY SidesHaveLevels DEF Levels
  <2> HIDE DEF i, k
  <2> QED BY <1>1, <2>1, LotsChange
<1> HIDE DEF i, j, k
<1>7. c = a + Independent!Lots(k) - Independent!Lots(h)
  BY <1>2, <1>4, <1>5, <1>6
<1> QED BY <1>7 DEF k

(* Without TP/SL and trailing stop a price has the conditional orders left. *)
LEMMA OnNewPrice ==
  ASSUME NEW gw, IsBook(gw), NEW price \in Int
  PROVE  LET g == Book(gw.m_pos_volume, price, gw.m_take_profits, gw.m_stop_losses, gw.events)
         IN IsBook(g) /\ AtGateway(g) = AtGateway(gw)
            /\ on_new_price(gw, price) = try_trigger_conditionals(g)
<1> DEFINE pos == gw.m_pos_volume
           tps == gw.m_take_profits
           sls == gw.m_stop_losses
           ev == gw.events
           old == gw.m_last_price
           g == Book(pos, price, tps, sls, ev)
<1>1. /\ gw = Book(pos, old, tps, sls, ev) /\ pos \in Int /\ IsList(ev)
      /\ Orderly(tps, TakeProfits) /\ Orderly(sls, StopLosses)
  BY DEF IsBook
<1>2. /\ g.m_tpsl = None /\ g.m_trailing_stop = None
      /\ g.m_take_profits = tps /\ g.m_stop_losses = sls
  BY BookFields
<1>3. AtGateway(g) = AtGateway(gw)
  BY <1>2 DEF AtGateway
<1> HIDE DEF pos, tps, sls, ev, old
<1>4. [Book(pos, old, tps, sls, ev) EXCEPT !.m_last_price = price] = g
  BY DEF Book
<1>5. IsBook(g)
  BY <1>1, BookIs
<1> HIDE DEF g
<1>6. [gw EXCEPT !.m_last_price = price] = g
  BY <1>1, <1>4
<1>7. try_trade_tpsl(g) = g
  BY <1>2, Zenon DEF try_trade_tpsl
<1>8. try_trade_trailing_stop(g) = g
  BY <1>2, Zenon DEF try_trade_trailing_stop
<1>9. on_new_price(gw, price) = try_trigger_conditionals(g)
  BY <1>6, <1>7, <1>8 DEF on_new_price
<1> QED BY <1>3, <1>5, <1>9 DEF g, pos, tps, sls, ev

LEMMA PriceReacts ==
  ASSUME NEW gw, IsBook(gw), gw.events = <<>>, NEW price \in Int
  PROVE  LET g == Book(gw.m_pos_volume, price, gw.m_take_profits, gw.m_stop_losses, gw.events)
         IN /\ g.m_last_price = price /\ g.m_pos_volume = gw.m_pos_volume
            /\ AtGateway(g) = AtGateway(gw) /\ IsBook(g)
            /\ \E fired : Reacts(g, on_new_price(gw, price), {}, fired)
<1> DEFINE g == Book(gw.m_pos_volume, price, gw.m_take_profits, gw.m_stop_losses, gw.events)
           r == on_new_price(gw, price)
<1>1. g.m_last_price = price /\ g.m_pos_volume = gw.m_pos_volume /\ g.events = <<>>
  BY BookFields
<1>2. IsBook(g) /\ AtGateway(g) = AtGateway(gw) /\ r = try_trigger_conditionals(g)
  BY OnNewPrice
<1> HIDE DEF g, r
<1>3. PICK q : Triggers(g, r, q)
  BY <1>2, Triggering
<1> DEFINE fired == ToSet(q)
           n == <<>>
<1>4. /\ IsBook(r) /\ r.m_last_price = g.m_last_price
      /\ Orderly(q, Conditionals) /\ fired \subseteq AtGateway(g)
      /\ AtGateway(r) = AtGateway(g) \ fired
      /\ \A o \in fired : Reached(o, g.m_last_price)
  BY <1>3 DEF Triggers
<1>5. PICK events : Executed(fired, events) /\ r.events = g.events \o events
  BY <1>3 DEF Triggers
<1>6. PICK p : Moves(p, q, g.m_pos_volume) /\ r.m_pos_volume = p[Len(q)]
  BY <1>3 DEF Triggers
<1>7. ClosesLots(g.m_pos_volume, r.m_pos_volume, fired)
  BY <1>4, <1>6, MovesCloseLots
<1>8. r.events = events
  <2>1. IsList(events)
    BY <1>5 DEF Executed
  <2>2. n \o events = events
    BY <2>1, LiteralLists
  <2> HIDE DEF n
  <2>3. g.events = n
    BY <1>1 DEF n
  <2> QED BY <1>5, <2>2, <2>3
<1> HIDE DEF fired
<1>9. /\ ToSet(events) \subseteq Events
      /\ \A e \in ToSet(events) : \E o \in fired : e \in {ExitTrade(o), ExitGone(o)}
      /\ \A o \in fired : News(events, o.guid) = ExitEvents(o)
  BY <1>5 DEF Executed
<1>10. \A e \in ToSet(events) :
         e.event \in {"Trade", "ConditionalUpdated"} /\ e.guid \in Guids({} \cup fired)
  <2> SUFFICES ASSUME NEW e \in ToSet(events)
               PROVE  e.event \in {"Trade", "ConditionalUpdated"} /\ e.guid \in Guids({} \cup fired)
    OBVIOUS
  <2>1. PICK o \in fired : e \in {ExitTrade(o), ExitGone(o)}
    BY <1>9
  <2>2. e.event \in {"Trade", "ConditionalUpdated"} /\ e.guid = o.guid
    BY <2>1 DEF ExitTrade, ExitGone, TradeEvent, ConditionalUpdatedEvent
  <2> QED BY <2>2 DEF Guids
<1>11. \A o \in {} \cup fired : News(events, o.guid) = NewsOf(o, {}, fired)
  <2> SUFFICES ASSUME NEW o \in fired PROVE News(events, o.guid) = NewsOf(o, {}, fired)
    OBVIOUS
  <2> DEFINE x == ExitEvents(o)
  <2>1. IsList(x)
    BY <1>4, ExitEventsAre DEF Orderly, fired
  <2>2. n \o x = x
    BY <2>1, LiteralLists
  <2> HIDE DEF x, n
  <2>3. NewsOf(o, {}, fired) = n \o x
    BY DEF NewsOf, n, x
  <2> QED BY <1>9, <2>2, <2>3 DEF x
<1>12. Reacts(g, r, {}, fired)
  BY <1>4, <1>7, <1>8, <1>9, <1>10, <1>11 DEF Reacts
<1> QED BY <1>1, <1>2, <1>12 DEF g, r

(* A list of orders and one more *)
LEMMA OrderlyLonger ==
  ASSUME NEW q, NEW guids, Orderly(q, guids), NEW o \in ExitOrders(guids), o.guid \notin Guids(ToSet(q))
  PROVE  Orderly(Append(q, o), guids) /\ ToSet(Append(q, o)) = ToSet(q) \cup {o}
<1>1. /\ IsList(q) /\ Once(q) /\ ToSet(q) \subseteq ExitOrders(guids)
      /\ \A a, b \in ToSet(q) : a.guid = b.guid => a = b
  BY DEF Orderly
<1>2. \A a \in ToSet(q) : a.guid # o.guid
  BY DEF Guids
<1> DEFINE r == Append(q, o)
<1>3. IsList(r) /\ Once(r) /\ ToSet(r) = ToSet(q) \cup {o}
  BY <1>1, <1>2, ListAppend, OnceLonger, ToSetAppend
<1> HIDE DEF r
<1>4. Orderly(r, guids)
  BY <1>1, <1>2, <1>3 DEF Orderly
<1> QED BY <1>3, <1>4 DEF r

LEMMA PushTakeProfit ==
  ASSUME NEW gw, IsBook(gw), NEW o \in ExitOrders(TakeProfits), o.guid \notin Guids(AtGateway(gw))
  PROVE  \E g : /\ IsBook(g) /\ push_take_profit_request(gw, o) = try_trigger_conditionals(g)
                /\ AtGateway(g) = AtGateway(gw) \cup {o}
                /\ g.m_pos_volume = gw.m_pos_volume /\ g.m_last_price = gw.m_last_price
                /\ g.events = gw.events \o <<ConditionalUpdatedEvent(o.guid, TRUE)>>
<1> DEFINE pos == gw.m_pos_volume
           tps == gw.m_take_profits
           sls == gw.m_stop_losses
           ev == gw.events
           price == gw.m_last_price
           x == <<ConditionalUpdatedEvent(o.guid, TRUE)>>
           c == ev \o x
           a == Append(tps, o)
           g == Book(pos, price, a, sls, c)
<1>1. /\ gw = Book(pos, price, tps, sls, ev) /\ pos \in Int /\ price \in Int /\ IsList(ev)
      /\ Orderly(tps, TakeProfits) /\ Orderly(sls, StopLosses)
  BY DEF IsBook
<1>2. o.guid \notin Guids(ToSet(tps)) /\ AtGateway(gw) = ToSet(tps) \cup ToSet(sls)
  BY DEF AtGateway, Guids
<1>3. push_take_profit_request(gw, o) =
        try_trigger_conditionals([Pushed(gw, x) EXCEPT !.m_take_profits = Append(@, o)])
  BY DEF push_take_profit_request
<1> HIDE DEF pos, tps, sls, ev, price
<1>4. Orderly(a, TakeProfits) /\ ToSet(a) = ToSet(tps) \cup {o}
  BY <1>1, <1>2, OrderlyLonger
<1>5. IsList(c)
  BY <1>1, LiteralLists, ListConcat
<1>6. Pushed(gw, x) = Book(pos, price, tps, sls, c)
  BY <1>1, PushedAtBook
<1>7. [Book(pos, price, tps, sls, c) EXCEPT !.m_take_profits = Append(@, o)] = g
  <2> DEFINE b == Book(pos, price, tps, sls, c)
  <2>1. b.m_take_profits = tps
    BY BookFields
  <2>2. [b EXCEPT !.m_take_profits = a] = g
    <3> HIDE DEF a, c
    <3> QED BY DEF Book
  <2>3. [b EXCEPT !.m_take_profits = Append(@, o)] = [b EXCEPT !.m_take_profits = a]
    <3> HIDE DEF b
    <3> QED BY <2>1
  <2> QED BY <2>2, <2>3
<1> HIDE DEF a, c, x
<1>8. IsBook(g)
  BY <1>1, <1>4, <1>5, BookIs
<1>9. /\ g.m_pos_volume = pos /\ g.m_last_price = price /\ g.events = c
      /\ g.m_take_profits = a /\ g.m_stop_losses = sls
  BY BookFields
<1>10. AtGateway(g) = AtGateway(gw) \cup {o}
  BY <1>2, <1>4, <1>9 DEF AtGateway
<1> HIDE DEF g
<1>11. push_take_profit_request(gw, o) = try_trigger_conditionals(g)
  BY <1>3, <1>6, <1>7
<1> QED BY <1>8, <1>9, <1>10, <1>11 DEF pos, price, c, ev, x

LEMMA PushStopLoss ==
  ASSUME NEW gw, IsBook(gw), NEW o \in ExitOrders(StopLosses), o.guid \notin Guids(AtGateway(gw))
  PROVE  \E g : /\ IsBook(g) /\ push_stop_loss_request(gw, o) = try_trigger_conditionals(g)
                /\ AtGateway(g) = AtGateway(gw) \cup {o}
                /\ g.m_pos_volume = gw.m_pos_volume /\ g.m_last_price = gw.m_last_price
                /\ g.events = gw.events \o <<ConditionalUpdatedEvent(o.guid, TRUE)>>
<1> DEFINE pos == gw.m_pos_volume
           tps == gw.m_take_profits
           sls == gw.m_stop_losses
           ev == gw.events
           price == gw.m_last_price
           x == <<ConditionalUpdatedEvent(o.guid, TRUE)>>
           c == ev \o x
           a == Append(sls, o)
           g == Book(pos, price, tps, a, c)
<1>1. /\ gw = Book(pos, price, tps, sls, ev) /\ pos \in Int /\ price \in Int /\ IsList(ev)
      /\ Orderly(tps, TakeProfits) /\ Orderly(sls, StopLosses)
  BY DEF IsBook
<1>2. o.guid \notin Guids(ToSet(sls)) /\ AtGateway(gw) = ToSet(tps) \cup ToSet(sls)
  BY DEF AtGateway, Guids
<1>3. push_stop_loss_request(gw, o) =
        try_trigger_conditionals([Pushed(gw, x) EXCEPT !.m_stop_losses = Append(@, o)])
  BY DEF push_stop_loss_request
<1> HIDE DEF pos, tps, sls, ev, price
<1>4. Orderly(a, StopLosses) /\ ToSet(a) = ToSet(sls) \cup {o}
  BY <1>1, <1>2, OrderlyLonger
<1>5. IsList(c)
  BY <1>1, LiteralLists, ListConcat
<1>6. Pushed(gw, x) = Book(pos, price, tps, sls, c)
  BY <1>1, PushedAtBook
<1>7. [Book(pos, price, tps, sls, c) EXCEPT !.m_stop_losses = Append(@, o)] = g
  <2> DEFINE b == Book(pos, price, tps, sls, c)
  <2>1. b.m_stop_losses = sls
    BY BookFields
  <2>2. [b EXCEPT !.m_stop_losses = a] = g
    <3> HIDE DEF a, c
    <3> QED BY DEF Book
  <2>3. [b EXCEPT !.m_stop_losses = Append(@, o)] = [b EXCEPT !.m_stop_losses = a]
    <3> HIDE DEF b
    <3> QED BY <2>1
  <2> QED BY <2>2, <2>3
<1> HIDE DEF a, c, x
<1>8. IsBook(g)
  BY <1>1, <1>4, <1>5, BookIs
<1>9. /\ g.m_pos_volume = pos /\ g.m_last_price = price /\ g.events = c
      /\ g.m_take_profits = tps /\ g.m_stop_losses = a
  BY BookFields
<1>10. AtGateway(g) = AtGateway(gw) \cup {o}
  BY <1>2, <1>4, <1>9 DEF AtGateway
<1> HIDE DEF g
<1>11. push_stop_loss_request(gw, o) = try_trigger_conditionals(g)
  BY <1>3, <1>6, <1>7
<1> QED BY <1>8, <1>9, <1>10, <1>11 DEF pos, price, c, ev, x

(* The request of one exit, and what it sets off *)
ReactsWith(gw, gw2, added, fired, x) ==
  /\ IsBook(gw2) /\ gw2.m_last_price = gw.m_last_price
  /\ fired \subseteq AtGateway(gw) \cup added
  /\ AtGateway(gw2) = (AtGateway(gw) \cup added) \ fired
  /\ \A o \in fired : Reached(o, gw.m_last_price)
  /\ IsList(x) /\ ToSet(x) \subseteq Events /\ gw2.events = gw.events \o x
  /\ \A e \in ToSet(x) :
       e.event \in {"Trade", "ConditionalUpdated"} /\ e.guid \in Guids(added \cup fired)
  /\ \A o \in added \cup fired : News(x, o.guid) = NewsOf(o, added, fired)
  /\ ClosesLots(gw.m_pos_volume, gw2.m_pos_volume, fired)

LEMMA NewsOfIs ==
  ASSUME NEW o \in ExitOrders(Conditionals), NEW added, NEW fired
  PROVE  /\ IsList(Sent(o.guid)) /\ IsList(NewsOf(o, added, fired))
         /\ o \in added /\ o \in fired => NewsOf(o, added, fired) = Sent(o.guid) \o ExitEvents(o)
         /\ o \in added /\ o \notin fired => NewsOf(o, added, fired) = Sent(o.guid)
         /\ o \notin added /\ o \in fired => NewsOf(o, added, fired) = ExitEvents(o)
         /\ o \notin added /\ o \notin fired => NewsOf(o, added, fired) = <<>>
<1> DEFINE active == Sent(o.guid)
           x == ExitEvents(o)
           n == <<>>
<1>1. IsList(active) /\ IsList(x) /\ IsList(n)
  BY ExitEventsAre, LiteralLists DEF Sent
<1>2. n \o x = x /\ active \o n = active /\ n \o n = n
  BY <1>1, LiteralLists
<1>3. IsList(active \o x)
  BY <1>1, ListConcat
<1>4. NewsOf(o, added, fired) = (IF o \in added THEN active ELSE n) \o (IF o \in fired THEN x ELSE n)
  BY DEF NewsOf
<1> HIDE DEF active, x, n
<1>5. /\ o \in added /\ o \in fired => NewsOf(o, added, fired) = active \o x
      /\ o \in added /\ o \notin fired => NewsOf(o, added, fired) = active
      /\ o \notin added /\ o \in fired => NewsOf(o, added, fired) = x
      /\ o \notin added /\ o \notin fired => NewsOf(o, added, fired) = n
  BY <1>2, <1>4
<1>6. IsList(NewsOf(o, added, fired))
  BY <1>1, <1>3, <1>5
<1> QED BY <1>1, <1>5, <1>6 DEF active, x, n

LEMMA PushReacts ==
  ASSUME NEW gw, IsBook(gw), NEW g, IsBook(g), NEW o \in ExitOrders(Conditionals),
         o.guid \notin Guids(AtGateway(gw)),
         AtGateway(g) = AtGateway(gw) \cup {o},
         g.m_pos_volume = gw.m_pos_volume, g.m_last_price = gw.m_last_price,
         g.events = gw.events \o Sent(o.guid)
  PROVE  \E fired, x : ReactsWith(gw, try_trigger_conditionals(g), {o}, fired, x)
<1> DEFINE r == try_trigger_conditionals(g)
           n == <<>>
           a == ConditionalUpdatedEvent(o.guid, TRUE)
           c == Sent(o.guid)
           ev == gw.events
<1>1. PICK q : Triggers(g, r, q)
  BY Triggering
<1> HIDE DEF r
<1> DEFINE fired == ToSet(q)
<1>2. /\ IsBook(r) /\ r.m_last_price = g.m_last_price
      /\ Orderly(q, Conditionals) /\ fired \subseteq AtGateway(g)
      /\ AtGateway(r) = AtGateway(g) \ fired
      /\ \A p \in fired : Reached(p, g.m_last_price)
  BY <1>1 DEF Triggers
<1>3. PICK events : Executed(fired, events) /\ r.events = g.events \o events
  BY <1>1 DEF Triggers
<1>4. PICK p : Moves(p, q, g.m_pos_volume) /\ r.m_pos_volume = p[Len(q)]
  BY <1>1 DEF Triggers
<1>5. ClosesLots(g.m_pos_volume, r.m_pos_volume, fired)
  BY <1>2, <1>4, MovesCloseLots
<1>6. fired \subseteq ExitOrders(Conditionals)
  BY <1>2 DEF Orderly
<1> HIDE DEF fired
<1> DEFINE x == c \o events
<1>7. IsList(c) /\ IsList(events) /\ IsList(ev) /\ g.events = ev \o c
  BY <1>3, LiteralLists DEF Executed, IsBook, Sent
<1>8. o.guid \in Conditionals /\ a \in Events /\ a.event = "ConditionalUpdated" /\ a.guid = o.guid
  <2>1. o.guid \in Conditionals
    BY DEF ExitOrders
  <2>2. a \in Events
    BY <2>1, EventsHeld
  <2>3. a.event = "ConditionalUpdated" /\ a.guid = o.guid
    BY DEF ConditionalUpdatedEvent
  <2> HIDE DEF a
  <2> QED BY <2>1, <2>2, <2>3
<1>9. ToSet(c) = {a}
  <2>1. Len(c) = 1 /\ c[1] = a
    BY DEF Sent
  <2> HIDE DEF c, a
  <2> QED BY <1>7, <2>1, ToSetIs
<1>10. \A h : News(c, h) = IF h = o.guid THEN c ELSE n
  BY <1>8, OneEvent DEF Sent
<1> HIDE DEF a, c, ev, n
<1>11. r.events = ev \o x
  <2>1. (ev \o c) \o events = ev \o (c \o events)
    BY <1>7, ListAssociative
  <2> QED BY <1>3, <1>7, <2>1
<1>12. /\ ToSet(events) \subseteq Events
       /\ \A e \in ToSet(events) : \E p1 \in fired : e \in {ExitTrade(p1), ExitGone(p1)}
       /\ \A p1 \in fired : News(events, p1.guid) = ExitEvents(p1)
       /\ \A h : (\A p1 \in fired : p1.guid # h) => News(events, h) = <<>>
  BY <1>3 DEF Executed
<1>13. IsList(x) /\ ToSet(x) = {a} \cup ToSet(events)
  BY <1>7, <1>9, ListConcat, ToSetConcat
<1>14. \A h : News(x, h) = News(c, h) \o News(events, h)
  BY <1>7, SaysConcat
<1> HIDE DEF x
<1>15. \A e \in ToSet(x) :
         e.event \in {"Trade", "ConditionalUpdated"} /\ e.guid \in Guids({o} \cup fired)
  <2> SUFFICES ASSUME NEW e \in ToSet(x)
               PROVE  e.event \in {"Trade", "ConditionalUpdated"} /\ e.guid \in Guids({o} \cup fired)
    OBVIOUS
  <2>1. CASE e = a
    BY <1>8, <2>1 DEF Guids
  <2>2. CASE e \in ToSet(events)
    <3>1. PICK o1 \in fired : e \in {ExitTrade(o1), ExitGone(o1)}
      BY <1>12, <2>2
    <3>2. e.event \in {"Trade", "ConditionalUpdated"} /\ e.guid = o1.guid
      BY <3>1 DEF ExitTrade, ExitGone, TradeEvent, ConditionalUpdatedEvent
    <3> QED BY <3>2 DEF Guids
  <2> QED BY <1>13, <2>1, <2>2
<1>16. \A p1, p2 \in AtGateway(g) : p1.guid = p2.guid => p1 = p2
  BY BookOrders
<1>17. ASSUME NEW p1 \in {o} \cup fired PROVE News(x, p1.guid) = NewsOf(p1, {o}, fired)
  <2>1. p1 \in AtGateway(g) /\ p1 \in ExitOrders(Conditionals)
    BY <1>2, <1>6
  <2>2. /\ p1 = o /\ p1 \in fired => NewsOf(p1, {o}, fired) = c \o ExitEvents(p1)
        /\ p1 = o /\ p1 \notin fired => NewsOf(p1, {o}, fired) = c
        /\ p1 # o /\ p1 \in fired => NewsOf(p1, {o}, fired) = ExitEvents(p1)
    BY <2>1, NewsOfIs DEF c
  <2>3. p1.guid = o.guid <=> p1 = o
    BY <1>16, <2>1
  <2>4. p1 \notin fired => News(events, p1.guid) = n
    <3>1. ASSUME p1 \notin fired PROVE \A p2 \in fired : p2.guid # p1.guid
      BY <1>2, <1>16, <2>1, <3>1
    <3> QED BY <1>12, <3>1 DEF n
  <2>5. n \o ExitEvents(p1) = ExitEvents(p1) /\ c \o n = c
    <3>1. IsList(ExitEvents(p1))
      BY <2>1, ExitEventsAre
    <3> QED BY <1>7, <3>1, LiteralLists DEF n
  <2> QED BY <1>10, <1>12, <1>14, <2>2, <2>3, <2>4, <2>5
<1>18. ReactsWith(gw, r, {o}, fired, x)
  BY <1>2, <1>5, <1>11, <1>12, <1>13, <1>8, <1>15, <1>17 DEF ReactsWith, ev
<1> QED BY <1>18 DEF r

(* Both exits of a level are sent, the take profit first. *)
LEMMA OpenReacts ==
  ASSUME NEW gw, IsBook(gw), gw.events = <<>>,
         NEW TP \in ExitOrders(TakeProfits), NEW SL \in ExitOrders(StopLosses),
         TP.guid \notin Guids(AtGateway(gw)), SL.guid \notin Guids(AtGateway(gw))
  PROVE  \E fired : Reacts(gw, push_stop_loss_request(push_take_profit_request(gw, TP), SL),
                           {TP, SL}, fired)
<1> DEFINE m == push_take_profit_request(gw, TP)
           r == push_stop_loss_request(m, SL)
           n == <<>>
<1>1. /\ TP \in ExitOrders(Conditionals) /\ SL \in ExitOrders(Conditionals)
      /\ TP.guid \in TakeProfits /\ SL.guid \in StopLosses /\ TP.guid # SL.guid /\ TP # SL
  <2>1. TP.guid \in TakeProfits /\ SL.guid \in StopLosses
    BY DEF ExitOrders
  <2>2. TP \in ExitOrders(Conditionals) /\ SL \in ExitOrders(Conditionals)
    BY DEF ExitOrders, Conditionals
  <2> QED BY <2>1, <2>2, GuidsAreUnique
<1>2. PICK f, x : ReactsWith(gw, m, {TP}, f, x)
  <2>1. PICK g : /\ IsBook(g) /\ m = try_trigger_conditionals(g)
                 /\ AtGateway(g) = AtGateway(gw) \cup {TP}
                 /\ g.m_pos_volume = gw.m_pos_volume /\ g.m_last_price = gw.m_last_price
                 /\ g.events = gw.events \o Sent(TP.guid)
    BY PushTakeProfit DEF Sent
  <2> HIDE DEF m
  <2> QED BY <1>1, <2>1, PushReacts
<1> HIDE DEF m
<1>3. /\ IsBook(m) /\ m.m_last_price = gw.m_last_price
      /\ f \subseteq AtGateway(gw) \cup {TP} /\ AtGateway(m) = (AtGateway(gw) \cup {TP}) \ f
      /\ \A o \in f : Reached(o, gw.m_last_price)
      /\ IsList(x) /\ ToSet(x) \subseteq Events /\ m.events = gw.events \o x
      /\ \A e \in ToSet(x) :
           e.event \in {"Trade", "ConditionalUpdated"} /\ e.guid \in Guids({TP} \cup f)
      /\ \A o \in {TP} \cup f : News(x, o.guid) = NewsOf(o, {TP}, f)
      /\ ClosesLots(gw.m_pos_volume, m.m_pos_volume, f)
  BY <1>2 DEF ReactsWith
<1>4. SL.guid \notin Guids(AtGateway(m))
  BY <1>1, <1>3 DEF Guids
<1>5. PICK h, y : ReactsWith(m, r, {SL}, h, y)
  <2>1. PICK g : /\ IsBook(g) /\ r = try_trigger_conditionals(g)
                 /\ AtGateway(g) = AtGateway(m) \cup {SL}
                 /\ g.m_pos_volume = m.m_pos_volume /\ g.m_last_price = m.m_last_price
                 /\ g.events = m.events \o Sent(SL.guid)
    BY <1>3, <1>4, PushStopLoss DEF Sent
  <2> HIDE DEF r
  <2> QED BY <1>1, <1>3, <1>4, <2>1, PushReacts
<1> HIDE DEF r
<1>6. /\ IsBook(r) /\ r.m_last_price = m.m_last_price
      /\ h \subseteq AtGateway(m) \cup {SL} /\ AtGateway(r) = (AtGateway(m) \cup {SL}) \ h
      /\ \A o \in h : Reached(o, m.m_last_price)
      /\ IsList(y) /\ ToSet(y) \subseteq Events /\ r.events = m.events \o y
      /\ \A e \in ToSet(y) :
           e.event \in {"Trade", "ConditionalUpdated"} /\ e.guid \in Guids({SL} \cup h)
      /\ \A o \in {SL} \cup h : News(y, o.guid) = NewsOf(o, {SL}, h)
      /\ ClosesLots(m.m_pos_volume, r.m_pos_volume, h)
  BY <1>5 DEF ReactsWith
<1> DEFINE S == AtGateway(gw) \cup {TP, SL}
<1>7. S \subseteq ExitOrders(Conditionals) /\ \A a, b \in S : a.guid = b.guid => a = b
  <2>1. AtGateway(gw) \subseteq ExitOrders(Conditionals)
        /\ \A a, b \in AtGateway(gw) : a.guid = b.guid => a = b
    BY BookOrders
  <2>2. \A a \in AtGateway(gw) : a.guid # TP.guid /\ a.guid # SL.guid
    BY DEF Guids
  <2> QED BY <1>1, <2>1, <2>2
<1>8. SL \notin AtGateway(gw) /\ TP \notin AtGateway(gw)
  BY DEF Guids
<1>9. /\ f \subseteq S /\ h \subseteq S /\ f \cap h = {} /\ SL \notin f
      /\ AtGateway(r) = S \ (f \cup h)
  BY <1>1, <1>3, <1>6, <1>8
<1>10. r.events = x \o y
  <2>1. n \o x = x
    BY <1>3, LiteralLists
  <2> HIDE DEF n
  <2>2. gw.events = n
    BY DEF n
  <2> QED BY <1>3, <1>6, <2>1, <2>2
<1> DEFINE z == x \o y
<1>11. IsList(z) /\ ToSet(z) = ToSet(x) \cup ToSet(y) /\ \A o : News(z, o) = News(x, o) \o News(y, o)
  BY <1>3, <1>6, ListConcat, ToSetConcat, SaysConcat
<1> HIDE DEF z, S
<1>12. \A e \in ToSet(z) : /\ e.event \in {"Trade", "ConditionalUpdated"}
                           /\ e.guid \in Guids({TP, SL} \cup (f \cup h))
  BY <1>3, <1>6, <1>11 DEF Guids
<1>13. \A o \in S : o \notin {TP} \cup f => News(x, o.guid) = n
  <2> SUFFICES ASSUME NEW o \in S, o \notin {TP} \cup f PROVE News(x, o.guid) = n
    OBVIOUS
  <2>1. \A a \in {TP} \cup f : a.guid # o.guid
    BY <1>7, <1>9 DEF S
  <2>2. \A e \in ToSet(x) : e.guid # o.guid
    BY <1>3, <2>1 DEF Guids
  <2> QED BY <1>3, <2>2, SaysOfOthers
<1>14. \A o \in S : o \notin {SL} \cup h => News(y, o.guid) = n
  <2> SUFFICES ASSUME NEW o \in S, o \notin {SL} \cup h PROVE News(y, o.guid) = n
    OBVIOUS
  <2>1. \A a \in {SL} \cup h : a.guid # o.guid
    BY <1>7, <1>9 DEF S
  <2>2. \A e \in ToSet(y) : e.guid # o.guid
    BY <1>6, <2>1 DEF Guids
  <2> QED BY <1>6, <2>2, SaysOfOthers
<1>15. ASSUME NEW o \in {TP, SL} \cup (f \cup h)
       PROVE  News(z, o.guid) = NewsOf(o, {TP, SL}, f \cup h)
  <2>1. o \in S /\ o \in ExitOrders(Conditionals)
    BY <1>7, <1>9 DEF S
  <2> DEFINE s == Sent(o.guid)
             w == ExitEvents(o)
             nx == NewsOf(o, {TP}, f)
             ny == NewsOf(o, {SL}, h)
             nz == NewsOf(o, {TP, SL}, f \cup h)
  <2>2. IsList(s) /\ IsList(w) /\ IsList(n)
    BY <2>1, NewsOfIs, ExitEventsAre, LiteralLists
  <2>3. s \o n = s /\ w \o n = w /\ n \o s = s /\ n \o w = w /\ n \o n = n
    BY <2>2, LiteralLists
  <2>4. IsList(s \o w) /\ (s \o w) \o n = s \o w /\ n \o (s \o w) = s \o w
    <3>1. IsList(s \o w)
      BY <2>2, ListConcat
    <3> QED BY <3>1, LiteralLists
  <2>5. /\ o = TP /\ o \in f => nx = s \o w
        /\ o = TP /\ o \notin f => nx = s
        /\ o # TP /\ o \in f => nx = w
        /\ o # TP /\ o \notin f => nx = n
    BY <2>1, NewsOfIs
  <2>6. /\ o = SL /\ o \in h => ny = s \o w
        /\ o = SL /\ o \notin h => ny = s
        /\ o # SL /\ o \in h => ny = w
        /\ o # SL /\ o \notin h => ny = n
    BY <2>1, NewsOfIs
  <2>7. /\ o \in {TP, SL} /\ o \in f \cup h => nz = s \o w
        /\ o \in {TP, SL} /\ o \notin f \cup h => nz = s
        /\ o \notin {TP, SL} /\ o \in f \cup h => nz = w
    BY <2>1, NewsOfIs
  <2> HIDE DEF s, w, nx, ny, nz, n
  <2>8. News(x, o.guid) = nx
    BY <1>3, <1>13, <2>1, <2>5 DEF nx
  <2>9. News(y, o.guid) = ny
    BY <1>6, <1>14, <2>1, <2>6 DEF ny
  <2>10. nx \o ny = nz
    BY <1>1, <1>9, <2>3, <2>4, <2>5, <2>6, <2>7
  <2> QED BY <1>11, <2>8, <2>9, <2>10 DEF nz
<1>16. ClosesLots(gw.m_pos_volume, r.m_pos_volume, f \cup h)
  <2>1. gw.m_pos_volume \in Int
    BY DEF IsBook
  <2> QED BY <1>3, <1>6, <1>7, <1>9, <2>1, LotsAreClosedTwice
<1>17. ToSet(z) \subseteq Events
  BY <1>3, <1>6, <1>11
<1>18. \A o \in f \cup h : Reached(o, gw.m_last_price)
  BY <1>3, <1>6
<1> DEFINE fh == f \cup h
<1>19. /\ fh \subseteq AtGateway(gw) \cup {TP, SL}
       /\ AtGateway(r) = (AtGateway(gw) \cup {TP, SL}) \ fh
       /\ r.m_last_price = gw.m_last_price /\ IsBook(r) /\ r.events = z
  BY <1>3, <1>6, <1>9, <1>10 DEF S, z
<1> HIDE DEF fh
<1>20. Reacts(gw, r, {TP, SL}, fh)
  BY <1>12, <1>15, <1>16, <1>17, <1>18, <1>19 DEF Reacts, fh
<1> QED BY <1>20 DEF r, m

-----------------------------------------------------------------------------
(* The states of the exits when the gateway reacts *)

LEMMA ExecutionIs ==
  ASSUME NEW o \in ExitOrders(Conditionals)
  PROVE  ExitEvents(o) \in Executions(o.guid)
<1>1. o.side \in {-1, 1} /\ o.trigger \in Int
  BY DEF ExitOrders
<1>2. ExitTrade(o) \in TradesOf(o.guid)
  BY <1>1 DEF TradesOf, ExitTrade
<1>3. <<ExitGone(o)>> = Gone(o.guid)
  BY DEF Gone, ExitGone
<1> QED BY <1>2, <1>3 DEF Executions, ExitEvents

(* An exit that was at the gateway before, or is already executed *)
LEMMA ExitReacts ==
  ASSUME NEW gw, IsBook(gw), NEW gw2, NEW added, NEW fired, Reacts(gw, gw2, added, fired),
         NEW c, c \notin Guids(added), NEW volume, NEW fill, NEW suspended, NEW n, IsList(n),
         NEW E, NEW F, UpdatedEvent(c) \in E => UpdatedEvent(c) \in F,
         ExitState(c, volume, fill, suspended, n, GuidsAt(gw), E)
  PROVE  ExitState(c, volume, fill, suspended, n \o News(gw2.events, c), GuidsAt(gw2), F)
<1>1. /\ IsBook(gw2) /\ fired \subseteq AtGateway(gw) \cup added
      /\ AtGateway(gw2) = (AtGateway(gw) \cup added) \ fired
      /\ ToSet(gw2.events) \subseteq Events
      /\ \A e \in ToSet(gw2.events) : e.guid \in Guids(added \cup fired)
      /\ \A o \in added \cup fired : News(gw2.events, o.guid) = NewsOf(o, added, fired)
  BY DEF Reacts
<1>2. IsList(gw2.events)
  BY <1>1 DEF IsBook
<1>3. /\ AtGateway(gw) \subseteq ExitOrders(Conditionals)
      /\ \A o, p \in AtGateway(gw) : o.guid = p.guid => o = p
  BY BookOrders
<1> DEFINE x == News(gw2.events, c)
           m == <<>>
<1>4. CASE c \in Guids(fired)
  <2>1. PICK o \in fired : o.guid = c
    BY <1>4 DEF Guids
  <2>2. o \notin added /\ o \in AtGateway(gw)
    BY <1>1, <2>1 DEF Guids
  <2>3. c \in GuidsAt(gw) /\ c \notin GuidsAt(gw2)
    <3>1. ASSUME NEW p \in AtGateway(gw2), p.guid = c PROVE FALSE
      <4>1. p \notin added /\ p \in AtGateway(gw)
        BY <1>1, <3>1 DEF Guids
      <4>2. p = o
        BY <1>3, <2>1, <2>2, <3>1, <4>1
      <4> QED BY <1>1, <4>2
    <3> QED BY <2>1, <2>2, <3>1 DEF GuidsAt
  <2>4. x = ExitEvents(o)
    BY <1>1, <1>3, <2>1, <2>2, NewsOfIs
  <2>5. x \in Executions(c) /\ IsList(x)
    BY <1>3, <2>1, <2>2, <2>4, ExecutionIs, ExitEventsAre
  <2> HIDE DEF x
  <2>6. m \o x = x
    BY <2>5, LiteralLists
  <2> HIDE DEF m
  <2>7. /\ volume = 1
        /\ \/ fill = 0 /\ suspended = 0 /\ n = Sent(c)
           \/ fill = 0 /\ suspended = 1 /\ n = m
    BY <2>3 DEF ExitState, m
  <2>8. ExitState(c, volume, fill, suspended, n \o x, GuidsAt(gw2), F)
    BY <2>3, <2>5, <2>6, <2>7 DEF ExitState
  <2> QED BY <2>8 DEF x
<1>5. CASE c \notin Guids(fired)
  <2>1. \A e \in ToSet(gw2.events) : e.guid # c
    BY <1>1, <1>5 DEF Guids
  <2>2. x = m
    BY <1>1, <1>2, <2>1, SaysOfOthers
  <2>3. n \o m = n
    BY LiteralLists
  <2>4. c \in GuidsAt(gw2) <=> c \in GuidsAt(gw)
    BY <1>1, <1>5 DEF Guids, GuidsAt
  <2> HIDE DEF x
  <2>5. n \o x = n
    <3> HIDE DEF m
    <3> QED BY <2>2, <2>3
  <2>6. ExitState(c, volume, fill, suspended, n, GuidsAt(gw2), F)
    BY <2>4 DEF ExitState
  <2> QED BY <2>5, <2>6 DEF x
<1> QED BY <1>4, <1>5

(* The order has its guid to itself *)
Alone(o, added) == o \in added /\ \A p \in added : p.guid = o.guid => p = o

(* An exit that is sent *)
LEMMA AddedReacts ==
  ASSUME NEW gw, NEW gw2, NEW added, NEW fired, Reacts(gw, gw2, added, fired),
         NEW o \in ExitOrders(Conditionals), Alone(o, added), o.guid \notin GuidsAt(gw), NEW E
  PROVE  ExitState(o.guid, 1, 0, 0, News(gw2.events, o.guid), GuidsAt(gw2), E)
<1>1. /\ o \in added /\ AtGateway(gw2) = (AtGateway(gw) \cup added) \ fired
      /\ News(gw2.events, o.guid) = NewsOf(o, added, fired)
  BY DEF Reacts, Alone
<1>2. o.guid \in GuidsAt(gw2) <=> o \notin fired
  BY <1>1 DEF GuidsAt, Alone
<1>3. ExitEvents(o) \in Executions(o.guid)
  BY ExecutionIs
<1>4. CASE o \in fired
  <2>1. News(gw2.events, o.guid) = Sent(o.guid) \o ExitEvents(o)
    BY ONLY o \in ExitOrders(Conditionals), <1>1, <1>4, NewsOfIs
  <2> QED BY <1>2, <1>3, <1>4, <2>1 DEF ExitState
<1>5. CASE o \notin fired
  <2>1. News(gw2.events, o.guid) = Sent(o.guid)
    BY ONLY o \in ExitOrders(Conditionals), <1>1, <1>5, NewsOfIs
  <2> QED BY <1>2, <1>5, <2>1 DEF ExitState
<1> QED BY <1>4, <1>5

(* The events are handed to the loop. *)
LEMMA HandedOver ==
  ASSUME NEW gw, IsBook(gw)
  PROVE  LET g == [gw EXCEPT !.events = <<>>]
         IN /\ IsBook(g) /\ g.events = <<>> /\ AtGateway(g) = AtGateway(gw)
            /\ GuidsAt(g) = GuidsAt(gw)
            /\ g.m_pos_volume = gw.m_pos_volume /\ g.m_last_price = gw.m_last_price
            /\ g.m_take_profits = gw.m_take_profits /\ g.m_stop_losses = gw.m_stop_losses
<1> DEFINE n == <<>>
           g == [gw EXCEPT !.events = n]
           pos == gw.m_pos_volume
           tps == gw.m_take_profits
           sls == gw.m_stop_losses
           ev == gw.events
           price == gw.m_last_price
           b == Book(pos, price, tps, sls, n)
<1>1. /\ gw = Book(pos, price, tps, sls, ev) /\ pos \in Int /\ price \in Int
      /\ Orderly(tps, TakeProfits) /\ Orderly(sls, StopLosses)
  BY DEF IsBook
<1>2. IsList(n)
  BY LiteralLists
<1>3. IsBook(b)
  <2> HIDE DEF n, pos, tps, sls, price
  <2> QED BY <1>1, <1>2, BookIs
<1>4. g = b
  <2> HIDE DEF n, pos, tps, sls, price, ev
  <2>1. [Book(pos, price, tps, sls, ev) EXCEPT !.events = n] = b
    BY DEF Book
  <2> QED BY <1>1, <2>1
<1>5. /\ b.m_pos_volume = pos /\ b.m_last_price = price /\ b.events = n
      /\ b.m_take_profits = tps /\ b.m_stop_losses = sls
  BY BookFields
<1> HIDE DEF b, g
<1>6. AtGateway(g) = AtGateway(gw)
  BY <1>4, <1>5 DEF AtGateway
<1>7. GuidsAt(g) = GuidsAt(gw)
  BY <1>6 DEF GuidsAt
<1> QED BY <1>3, <1>4, <1>5, <1>6, <1>7 DEF g

-----------------------------------------------------------------------------
(* A market order, and the cancellation of both exits *)

LEMMA PushOrder ==
  ASSUME NEW gw, IsBook(gw), gw.events = <<>>, NEW g, NEW vol \in Int
  PROVE  LET r == push_order_request(gw, g, vol)
         IN /\ IsBook(r) /\ AtGateway(r) = AtGateway(gw) /\ GuidsAt(r) = GuidsAt(gw)
            /\ r.m_take_profits = gw.m_take_profits /\ r.m_stop_losses = gw.m_stop_losses
            /\ r.m_pos_volume = gw.m_pos_volume + vol /\ r.m_last_price = gw.m_last_price
            /\ r.events = <<OrderResponseEvent(g)>> \o <<TradeEvent(g, vol, gw.m_last_price)>>
<1> DEFINE r == push_order_request(gw, g, vol)
           n == <<>>
           pos == gw.m_pos_volume
           new == pos + vol
           tps == gw.m_take_profits
           sls == gw.m_stop_losses
           ev == gw.events
           price == gw.m_last_price
           x == <<OrderResponseEvent(g)>>
           y == <<TradeEvent(g, vol, price)>>
           z == x \o y
           b == Book(new, price, tps, sls, z)
<1>1. /\ gw = Book(pos, price, tps, sls, ev) /\ pos \in Int /\ price \in Int /\ new \in Int
      /\ Orderly(tps, TakeProfits) /\ Orderly(sls, StopLosses)
  BY DEF IsBook
<1>2. IsList(x) /\ IsList(y) /\ IsList(z)
  <2>1. IsList(x) /\ IsList(y)
    BY LiteralLists
  <2> HIDE DEF x, y
  <2> QED BY <2>1, ListConcat
<1>3. x \o n = x /\ n \o z = z
  BY <1>2, LiteralLists
<1>4. gw.m_tpsl = None
  <2> HIDE DEF pos, tps, sls, ev, price
  <2> QED BY <1>1, BookFields
<1>5. r = [Pushed(gw, x \o (IF new = 0 /\ gw.m_tpsl # None
                            THEN <<TpslUpdatedEvent(gw.m_tpsl.guid, FALSE, FALSE, FALSE)>>
                            ELSE n) \o y) EXCEPT !.m_pos_volume = new]
  BY DEF push_order_request
<1>6. r = [Pushed(gw, z) EXCEPT !.m_pos_volume = new]
  <2> HIDE DEF r, x, y, n, new
  <2>1. (IF new = 0 /\ gw.m_tpsl # None
         THEN <<TpslUpdatedEvent(gw.m_tpsl.guid, FALSE, FALSE, FALSE)>> ELSE n) = n
    BY <1>4
  <2> QED BY <1>3, <1>5, <2>1
<1> HIDE DEF r, x, y, z, new, tps, sls, ev, price
<1>7. Pushed(gw, z) = Book(pos, price, tps, sls, z)
  <2> HIDE DEF n, pos
  <2>1. Pushed(gw, z) = Book(pos, price, tps, sls, ev \o z)
    BY <1>1, PushedAtBook
  <2>2. ev = n
    BY DEF ev, n
  <2> QED BY <1>3, <2>1, <2>2
<1>8. [Book(pos, price, tps, sls, z) EXCEPT !.m_pos_volume = new] = b
  <2> HIDE DEF pos
  <2> QED BY DEF Book
<1>9. r = b
  BY <1>6, <1>7, <1>8
<1>10. IsBook(b)
  BY <1>1, <1>2, BookIs
<1>11. /\ b.m_pos_volume = new /\ b.m_last_price = price /\ b.events = z
       /\ b.m_take_profits = tps /\ b.m_stop_losses = sls
  BY BookFields
<1> HIDE DEF b
<1>12. AtGateway(b) = AtGateway(gw)
  BY <1>11 DEF AtGateway, tps, sls
<1>13. GuidsAt(b) = GuidsAt(gw)
  BY <1>12 DEF GuidsAt
<1> QED BY <1>9, <1>10, <1>11, <1>12, <1>13 DEF r, new, price, z, x, y, tps, sls

LEMMA WithoutIsOrderly ==
  ASSUME NEW q, NEW guids, Orderly(q, guids), NEW D
  PROVE  Orderly(Without(q, D), guids) /\ ToSet(Without(q, D)) = ToSet(q) \ D
<1> DEFINE r == Without(q, D)
<1>1. /\ IsList(q) /\ Once(q) /\ ToSet(q) \subseteq ExitOrders(guids)
      /\ \A a, b \in ToSet(q) : a.guid = b.guid => a = b
  BY DEF Orderly
<1>2. IsList(r) /\ ToSet(r) = ToSet(q) \ D
  BY <1>1, ToSetWithout
<1>3. Once(r)
  <2>1. q \in Seq(ToSet(q))
    BY <1>1, ToSetIs DEF IsList
  <2> QED BY <1>1, <2>1, OnceWithout
<1> HIDE DEF r
<1>4. Orderly(r, guids)
  BY <1>1, <1>2, <1>3 DEF Orderly
<1> QED BY <1>2, <1>4 DEF r

Cancels(gw, r, g) ==
  /\ IsBook(r) /\ r.m_pos_volume = gw.m_pos_volume /\ r.m_last_price = gw.m_last_price
  /\ AtGateway(r) = {o \in AtGateway(gw) : o.guid # g}
  /\ \E x : IsList(x) /\ ToSet(x) \subseteq {ConditionalUpdatedEvent(g, FALSE)}
            /\ r.events = gw.events \o x

LEMMA CancelStopLoss ==
  ASSUME NEW gw, IsBook(gw), NEW g \in StopLosses
  PROVE  Cancels(gw, cancel_stop_loss_request(gw, g), g)
<1> DEFINE r == cancel_stop_loss_request(gw, g)
           n == <<>>
           pos == gw.m_pos_volume
           tps == gw.m_take_profits
           sls == gw.m_stop_losses
           ev == gw.events
           price == gw.m_last_price
           x == <<ConditionalUpdatedEvent(g, FALSE)>>
           D == {o \in ToSet(sls) : o.guid = g}
           k == Without(sls, D)
           c == ev \o x
           b == Book(pos, price, tps, k, c)
<1>1. /\ gw = Book(pos, price, tps, sls, ev) /\ pos \in Int /\ price \in Int /\ IsList(ev)
      /\ Orderly(tps, TakeProfits) /\ Orderly(sls, StopLosses)
      /\ AtGateway(gw) = ToSet(tps) \cup ToSet(sls)
  BY DEF IsBook, AtGateway
<1>2. /\ IsList(sls) /\ \A o \in ToSet(tps) : o.guid # g
  <2>1. \A o \in ToSet(tps) : o.guid \in TakeProfits
    BY <1>1 DEF Orderly, ExitOrders
  <2> QED BY <1>1, <2>1, GuidsAreUnique DEF Orderly
<1>3. ToSet(sls) = {sls[i] : i \in 1 .. Len(sls)} /\ DOMAIN sls = 1 .. Len(sls)
  <2>1. ToSet(sls) = {sls[i] : i \in 1 .. Len(sls)}
    BY <1>2, ToSetIs
  <2>2. PICK S : sls \in Seq(S)
    BY <1>2 DEF IsList
  <2>3. DOMAIN sls = 1 .. Len(sls)
    <3> HIDE DEF sls
    <3> QED BY <2>2
  <2> QED BY <2>1, <2>3
<1>4. IsList(n) /\ IsList(x) /\ ev \o n = ev /\ IsList(c)
  <2>1. IsList(n) /\ IsList(x)
    BY LiteralLists
  <2> HIDE DEF x, n, ev
  <2> QED BY <1>1, <2>1, LiteralLists, ListConcat DEF n
<1>5. CASE Has(sls, g)
  <2>1. r = [Pushed(gw, x) EXCEPT !.m_stop_losses = Erased(@, g)]
    BY <1>5 DEF cancel_stop_loss_request
  <2> HIDE DEF r, pos, price, tps, sls, ev, x
  <2>2. Pushed(gw, x) = Book(pos, price, tps, sls, c)
    BY <1>1, PushedAtBook
  <2> DEFINE a == Book(pos, price, tps, sls, c)
  <2>3. a.m_stop_losses = sls
    BY BookFields
  <2>4. [a EXCEPT !.m_stop_losses = k] = b
    <3> HIDE DEF k, c
    <3> QED BY DEF Book
  <2>5. r = b
    <3>1. Erased(sls, g) = k
      BY DEF Erased
    <3>2. [a EXCEPT !.m_stop_losses = Erased(@, g)] = [a EXCEPT !.m_stop_losses = k]
      <4> HIDE DEF a, k
      <4> QED BY <2>3, <3>1
    <3> QED BY <2>1, <2>2, <2>4, <3>2
  <2>6. Orderly(k, StopLosses) /\ ToSet(k) = ToSet(sls) \ D
    BY <1>1, WithoutIsOrderly
  <2> HIDE DEF k, c
  <2>7. IsBook(b)
    BY <1>1, <1>4, <2>6, BookIs
  <2>8. /\ b.m_pos_volume = pos /\ b.m_last_price = price /\ b.events = c
        /\ b.m_take_profits = tps /\ b.m_stop_losses = k
    BY BookFields
  <2> HIDE DEF b
  <2>9. AtGateway(b) = {o \in AtGateway(gw) : o.guid # g}
    BY <1>1, <1>2, <2>6, <2>8 DEF AtGateway
  <2>10. ToSet(x) = {ConditionalUpdatedEvent(g, FALSE)}
    <3> DEFINE e == ConditionalUpdatedEvent(g, FALSE)
    <3>1. Len(x) = 1 /\ x[1] = e
      BY DEF x
    <3> HIDE DEF e
    <3>2. ToSet(x) = {e}
      BY <1>4, <3>1, ToSetIs
    <3> QED BY <3>2 DEF e
  <2> QED BY <1>4, <2>5, <2>7, <2>8, <2>9, <2>10 DEF Cancels, r, c, ev, pos, price
<1>6. CASE ~Has(sls, g)
  <2>1. r = gw
    BY <1>6 DEF cancel_stop_loss_request
  <2>2. \A o \in AtGateway(gw) : o.guid # g
    <3>1. \A o \in ToSet(sls) : o.guid # g
      BY <1>3, <1>6 DEF Has
    <3> QED BY <1>1, <1>2, <3>1
  <2>3. ToSet(n) = {}
    BY ToSetNothing
  <2> HIDE DEF n, r, ev
  <2>4. AtGateway(gw) = {o \in AtGateway(gw) : o.guid # g}
    BY <2>2
  <2>5. Cancels(gw, gw, g)
    BY <1>4, <2>3, <2>4 DEF Cancels, ev
  <2> QED BY <2>1, <2>5 DEF r
<1> QED BY <1>5, <1>6

LEMMA CancelTakeProfit ==
  ASSUME NEW gw, IsBook(gw), NEW g \in TakeProfits
  PROVE  Cancels(gw, cancel_take_profit_request(gw, g), g)
<1> DEFINE r == cancel_take_profit_request(gw, g)
           n == <<>>
           pos == gw.m_pos_volume
           tps == gw.m_take_profits
           sls == gw.m_stop_losses
           ev == gw.events
           price == gw.m_last_price
           x == <<ConditionalUpdatedEvent(g, FALSE)>>
           D == {o \in ToSet(tps) : o.guid = g}
           k == Without(tps, D)
           c == ev \o x
           b == Book(pos, price, k, sls, c)
<1>1. /\ gw = Book(pos, price, tps, sls, ev) /\ pos \in Int /\ price \in Int /\ IsList(ev)
      /\ Orderly(tps, TakeProfits) /\ Orderly(sls, StopLosses)
      /\ AtGateway(gw) = ToSet(tps) \cup ToSet(sls)
  BY DEF IsBook, AtGateway
<1>2. /\ IsList(tps) /\ \A o \in ToSet(sls) : o.guid # g
  <2>1. \A o \in ToSet(sls) : o.guid \in StopLosses
    BY <1>1 DEF Orderly, ExitOrders
  <2> QED BY <1>1, <2>1, GuidsAreUnique DEF Orderly
<1>3. ToSet(tps) = {tps[i] : i \in 1 .. Len(tps)} /\ DOMAIN tps = 1 .. Len(tps)
  <2>1. ToSet(tps) = {tps[i] : i \in 1 .. Len(tps)}
    BY <1>2, ToSetIs
  <2>2. PICK S : tps \in Seq(S)
    BY <1>2 DEF IsList
  <2>3. DOMAIN tps = 1 .. Len(tps)
    <3> HIDE DEF tps
    <3> QED BY <2>2
  <2> QED BY <2>1, <2>3
<1>4. IsList(n) /\ IsList(x) /\ ev \o n = ev /\ IsList(c)
  <2>1. IsList(n) /\ IsList(x)
    BY LiteralLists
  <2> HIDE DEF x, n, ev
  <2> QED BY <1>1, <2>1, LiteralLists, ListConcat DEF n
<1>5. CASE Has(tps, g)
  <2>1. r = [Pushed(gw, x) EXCEPT !.m_take_profits = Erased(@, g)]
    BY <1>5 DEF cancel_take_profit_request
  <2> HIDE DEF r, pos, price, tps, sls, ev, x
  <2>2. Pushed(gw, x) = Book(pos, price, tps, sls, c)
    BY <1>1, PushedAtBook
  <2> DEFINE a == Book(pos, price, tps, sls, c)
  <2>3. a.m_take_profits = tps
    BY BookFields
  <2>4. [a EXCEPT !.m_take_profits = k] = b
    <3> HIDE DEF k, c
    <3> QED BY DEF Book
  <2>5. r = b
    <3>1. Erased(tps, g) = k
      BY DEF Erased
    <3>2. [a EXCEPT !.m_take_profits = Erased(@, g)] = [a EXCEPT !.m_take_profits = k]
      <4> HIDE DEF a, k
      <4> QED BY <2>3, <3>1
    <3> QED BY <2>1, <2>2, <2>4, <3>2
  <2>6. Orderly(k, TakeProfits) /\ ToSet(k) = ToSet(tps) \ D
    BY <1>1, WithoutIsOrderly
  <2> HIDE DEF k, c
  <2>7. IsBook(b)
    BY <1>1, <1>4, <2>6, BookIs
  <2>8. /\ b.m_pos_volume = pos /\ b.m_last_price = price /\ b.events = c
        /\ b.m_take_profits = k /\ b.m_stop_losses = sls
    BY BookFields
  <2> HIDE DEF b
  <2>9. AtGateway(b) = {o \in AtGateway(gw) : o.guid # g}
    BY <1>1, <1>2, <2>6, <2>8 DEF AtGateway
  <2>10. ToSet(x) = {ConditionalUpdatedEvent(g, FALSE)}
    <3> DEFINE e == ConditionalUpdatedEvent(g, FALSE)
    <3>1. Len(x) = 1 /\ x[1] = e
      BY DEF x
    <3> HIDE DEF e
    <3>2. ToSet(x) = {e}
      BY <1>4, <3>1, ToSetIs
    <3> QED BY <3>2 DEF e
  <2> QED BY <1>4, <2>5, <2>7, <2>8, <2>9, <2>10 DEF Cancels, r, c, ev, pos, price
<1>6. CASE ~Has(tps, g)
  <2>1. r = gw
    BY <1>6 DEF cancel_take_profit_request
  <2>2. \A o \in AtGateway(gw) : o.guid # g
    <3>1. \A o \in ToSet(tps) : o.guid # g
      BY <1>3, <1>6 DEF Has
    <3> QED BY <1>1, <1>2, <3>1
  <2>3. ToSet(n) = {}
    BY ToSetNothing
  <2> HIDE DEF n, r, ev
  <2>4. AtGateway(gw) = {o \in AtGateway(gw) : o.guid # g}
    BY <2>2
  <2>5. Cancels(gw, gw, g)
    BY <1>4, <2>3, <2>4 DEF Cancels, ev
  <2> QED BY <2>1, <2>5 DEF r
<1> QED BY <1>5, <1>6

(* cancel_stop_loss, then cancel_take_profit *)
LEMMA CancelExits ==
  ASSUME NEW gw, IsBook(gw), gw.events = <<>>, NEW l, l.tp \in TakeProfits, l.sl \in StopLosses, NEW g
  PROVE  LET r == OrdersCancelled(gw, l, g)
         IN /\ IsBook(r) /\ r.m_pos_volume = gw.m_pos_volume /\ r.m_last_price = gw.m_last_price
            /\ AtGateway(r) = {o \in AtGateway(gw) : o.guid \notin {l.tp, l.sl}}
            /\ GuidsAt(r) = GuidsAt(gw) \ {l.tp, l.sl}
            /\ ToSet(r.events) \subseteq {ConditionalUpdatedEvent(c, FALSE) : c \in {l.tp, l.sl}}
<1> DEFINE m == cancel_stop_loss_request(gw, l.sl)
           r == cancel_take_profit_request(m, l.tp)
           n == <<>>
<1>1. Cancels(gw, m, l.sl)
  BY CancelStopLoss
<1> HIDE DEF m
<1>2. IsBook(m)
  BY <1>1 DEF Cancels
<1>3. Cancels(m, r, l.tp)
  BY <1>2, CancelTakeProfit
<1>4. OrdersCancelled(gw, l, g) = r
  BY DEF OrdersCancelled, m
<1> HIDE DEF r
<1>5. PICK x : /\ IsList(x) /\ ToSet(x) \subseteq {ConditionalUpdatedEvent(l.sl, FALSE)}
               /\ m.events = gw.events \o x
  BY <1>1 DEF Cancels
<1>6. PICK y : /\ IsList(y) /\ ToSet(y) \subseteq {ConditionalUpdatedEvent(l.tp, FALSE)}
               /\ r.events = m.events \o y
  BY <1>3 DEF Cancels
<1>7. r.events = x \o y
  <2>1. n \o x = x
    BY <1>5, LiteralLists
  <2> HIDE DEF n
  <2>2. gw.events = n
    BY DEF n
  <2> QED BY <1>5, <1>6, <2>1, <2>2
<1>8. ToSet(r.events) = ToSet(x) \cup ToSet(y)
  BY <1>5, <1>6, <1>7, ToSetConcat
<1>9. /\ IsBook(r) /\ r.m_pos_volume = gw.m_pos_volume /\ r.m_last_price = gw.m_last_price
      /\ AtGateway(r) = {o \in AtGateway(gw) : o.guid \notin {l.tp, l.sl}}
  BY <1>1, <1>3 DEF Cancels
<1>10. GuidsAt(r) = GuidsAt(gw) \ {l.tp, l.sl}
  BY <1>9 DEF GuidsAt
<1>11. ToSet(r.events) \subseteq {ConditionalUpdatedEvent(c, FALSE) : c \in {l.tp, l.sl}}
  BY <1>5, <1>6, <1>8
<1> QED BY <1>4, <1>9, <1>10, <1>11

-----------------------------------------------------------------------------
(* The invariant holds when a run begins *)

LEMMA LimitsAreRecords ==
  /\ EmptyLimits \in Limits /\ None \notin Limits
  /\ \A x \in Limits, price \in Int : mid_price(x) \in Int /\ update_prices(x, price) \in Limits
<1>1. Max(PricesOf["StaticGrid"]) \in Int
  <2> DEFINE S == PricesOf["StaticGrid"]
  <2>1. S \subseteq Int
    BY PricesAreIntegers
  <2>2. \E a \in S : \A b \in S : a >= b
    <3>1. PICK a \in S : \A b \in S : b <= a
      BY PricesHaveALimit
    <3> QED BY <2>1, <3>1
  <2>3. Max(S) = CHOOSE a \in S : \A b \in S : a >= b
    BY DEF Max
  <2> HIDE DEF S
  <2>4. Max(S) \in S
    BY <2>2, <2>3
  <2> QED BY <2>1, <2>4 DEF S
<1>2. EmptyLimits \in Limits
  BY <1>1 DEF EmptyLimits, Limits
<1>3. None \notin Limits
  <2>1. SUFFICES ASSUME None \in Limits PROVE FALSE
    OBVIOUS
  <2>2. DOMAIN None = {"min_price", "max_price"}
    BY <2>1 DEF Limits
  <2>3. DOMAIN None = {"none"}
    BY DEF None
  <2> QED BY <2>2, <2>3
<1>4. ASSUME NEW x \in Limits PROVE mid_price(x) \in Int
  <2>1. x.min_price \in Int /\ x.max_price \in Int
    BY DEF Limits
  <2>2. (x.max_price - x.min_price) \div 2 \in Int
    BY <2>1
  <2> QED BY <2>1, <2>2 DEF mid_price
<1>5. ASSUME NEW x \in Limits, NEW price \in Int PROVE update_prices(x, price) \in Limits
  <2>1. x.min_price \in Int /\ x.max_price \in Int
    BY DEF Limits
  <2>2. ASSUME NEW a \in Int, NEW b \in Int PROVE Min({a, b}) \in Int /\ Max({a, b}) \in Int
    <3> DEFINE S == {a, b}
    <3>1. \E m \in S : \A o \in S : m <= o
      <4>1. CASE a <= b
        BY <4>1
      <4>2. CASE ~(a <= b)
        BY <4>2
      <4> QED BY <4>1, <4>2
    <3>2. \E m \in S : \A o \in S : m >= o
      <4>1. CASE a >= b
        BY <4>1
      <4>2. CASE ~(a >= b)
        BY <4>2
      <4> QED BY <4>1, <4>2
    <3>3. Min(S) = (CHOOSE m \in S : \A o \in S : m <= o) /\ Max(S) = CHOOSE m \in S : \A o \in S : m >= o
      BY DEF Min, Max
    <3>4. S \subseteq Int
      OBVIOUS
    <3> HIDE DEF S
    <3>5. Min(S) \in S /\ Max(S) \in S
      BY <3>1, <3>2, <3>3
    <3> QED BY <3>4, <3>5 DEF S
  <2> QED BY <2>1, <2>2 DEF update_prices, Limits
<1> QED BY <1>2, <1>3, <1>4, <1>5

LEMMA NothingIsABook == IsBook(EmptyGateway) /\ EmptyGateway.events = <<>> /\ AtGateway(EmptyGateway) = {}
<1> DEFINE n == <<>>
           b == Book(0, 0, n, n, n)
<1>1. EmptyGateway = b
  BY DEF EmptyGateway, Book
<1>2. IsList(n) /\ ToSet(n) = {} /\ Len(n) = 0
  BY ToSetNothing, LiteralLists
<1> HIDE DEF n
<1>3. /\ b.m_take_profits = n /\ b.m_stop_losses = n /\ b.events = n
  BY BookFields
<1>4. Once(n)
  BY <1>2 DEF Once
<1>5. \A guids : Orderly(n, guids)
  BY <1>2, <1>4 DEF Orderly
<1>6. IsBook(b)
  BY <1>2, <1>5, BookIs
<1> HIDE DEF b
<1>7. AtGateway(b) = {}
  BY <1>2, <1>3 DEF AtGateway
<1> QED BY <1>1, <1>3, <1>6, <1>7 DEF n

LEMMA ZeroIsALevel == 0 \in Levels /\ Levels \subseteq Int
BY SidesHaveLevels DEF Levels

LEMMA InitIsInvariant == Init => IInv
<1> SUFFICES ASSUME Init PROVE IInv
  OBVIOUS
<1> DEFINE n == <<>>
<1>1. queue = n /\ IsList(n) /\ Len(n) = 0 /\ ToSet(n) = {} /\ IsBook(gateway) /\ gateway.events = n
      /\ GuidsAt(gateway) = {}
  <2>1. IsList(n) /\ Len(n) = 0 /\ ToSet(n) = {}
    BY ToSetNothing, LiteralLists
  <2>2. gateway = EmptyGateway /\ queue = n
    BY DEF Init
  <2> HIDE DEF n
  <2> QED BY <2>1, <2>2, NothingIsABook DEF GuidsAt, n
<1> HIDE DEF n
<1>2. Init_OrderManager /\ strategy \in Strategy /\ m_last_trend_value = 0
      /\ interval = FirstInterval /\ m_orders_by_levels = [l \in Levels |-> None]
      /\ watchedFor = [g \in Fillable |-> 0] /\ gridErrors = {}
  BY StrategiesAreKnown DEF Init, Strategy
<1>3. Types
  <2>1. interval \in [previous : Limits \cup {None}, next : Limits, age : Int, outOfBounds : BOOLEAN]
    BY <1>2, LimitsAreRecords DEF FirstInterval
  <2>2. watchedFor \in [Fillable -> Levels]
    BY <1>2, ZeroIsALevel
  <2>3. m_orders_by_levels \in [Levels -> LevelRecords \cup {None}]
    BY <1>2
  <2>4. /\ created = {} /\ rejected = {} /\ cancelRequested = {}
        /\ target \in [Fillable -> Nat] /\ filled \in [Fillable -> Nat]
        /\ suspendedVolume \in [Conditionals -> Nat]
    BY <1>2 DEF Init_OrderManager
  <2> QED BY <1>1, <1>2, <2>1, <2>2, <2>3, <2>4 DEF Types, n
<1>4. \A g \in Fillable : LevelOf(g) = None
  BY <1>2, ZeroIsALevel DEF LevelOf
<1>5. Known
  BY <1>2, <1>4 DEF Known, Init_OrderManager, Fillable
<1>6. LevelsMade
  BY <1>2 DEF LevelsMade
<1>7. InTurn(queue, m_conditionals)
  BY <1>1 DEF InTurn
<1>8. EntriesInTurn /\ ExitsInTurn
  BY <1>2 DEF EntriesInTurn, ExitsInTurn, Init_OrderManager
<1>9. NothingElse
  BY <1>1, <1>2 DEF NothingElse, Init_OrderManager, Fillable
<1>10. NoGridErrors
  BY <1>2 DEF NoGridErrors, Init_OrderManager
<1> QED BY <1>3, <1>5, <1>6, <1>7, <1>8, <1>9, <1>10 DEF IInv

-----------------------------------------------------------------------------
(* A price *)

LEMMA CandlesAre ==
  ASSUME NEW candles \in Nat, NEW close \in Int
  PROVE  LET C == [i \in 1 .. candles |-> [event |-> "Candle", close |-> close]]
         IN IsList(C) /\ ToSet(C) \subseteq {CandleEvent(close)}
<1> DEFINE e == CandleEvent(close)
           C == [i \in 1 .. candles |-> e]
<1>1. C = [i \in 1 .. candles |-> [event |-> "Candle", close |-> close]]
  BY DEF CandleEvent
<1> HIDE DEF e
<1>2. C \in Seq({e}) /\ Len(C) = candles
  OBVIOUS
<1>3. \A i \in 1 .. candles : C[i] = e
  OBVIOUS
<1> HIDE DEF C
<1>4. IsList(C)
  BY <1>2 DEF IsList
<1>5. ToSet(C) \subseteq {e}
  BY <1>2, <1>3, <1>4, ToSetIs
<1> QED BY <1>1, <1>4, <1>5 DEF e

LEMMA Parted ==
  /\ \A g \in Conditionals : g \notin Orders
  /\ Fillable = Orders \cup Conditionals
  /\ \A e : e.event \in {"Trade", "ConditionalUpdated"} => e.event \notin {"Candle", "Updated"}
BY GuidsAreUnique DEF Fillable

(* The order manager's tables *)
LEMMA Tables ==
  ASSUME IInv
  PROVE  /\ m_orders \subseteq Orders /\ m_conditionals \subseteq Conditionals
         /\ subscribed = m_orders \cup m_conditionals /\ subscribed \subseteq created
         /\ created \subseteq Fillable
         /\ \A g \in Fillable : watchedFor[g] \in Levels
         /\ GuidsAt(gateway) \subseteq m_conditionals
BY DEF IInv, Known, Types, NothingElse

LEMMA NewPriceKeeps ==
  ASSUME IInv, NEW price \in PricesOf[strategy], NEW candles \in 0 .. MaxCandles,
         NewPrice(price, candles)
  PROVE  IInv'
<1> DEFINE gw == on_new_price(gateway, price)
           last == gateway.m_last_price
           C == [i \in 1 .. candles |-> [event |-> "Candle", close |-> last]]
           n == <<>>
           g == Book(gateway.m_pos_volume, price, gateway.m_take_profits, gateway.m_stop_losses,
                     gateway.events)
<1>1. /\ queue = n /\ gateway' = [gw EXCEPT !.events = <<>>] /\ queue' = gw.events \o C
      /\ UNCHANGED <<omVars, centreVars, m_orders_by_levels, watchedFor, gridErrors>>
  BY DEF NewPrice
<1>2. price \in Int /\ candles \in Nat /\ last \in Int /\ IsBook(gateway) /\ gateway.events = n
  <2>1. strategy \in Strategy /\ IsBook(gateway) /\ gateway.events = n
    BY DEF IInv, Types
  <2>2. PricesOf[strategy] \subseteq Int
    BY <2>1, PricesAreIntegers DEF Strategy
  <2>3. candles \in Nat
    BY CandlesAreCounted
  <2> QED BY <2>1, <2>2, <2>3 DEF IsBook
<1>3. /\ g.m_last_price = price /\ AtGateway(g) = AtGateway(gateway) /\ IsBook(g)
      /\ \E fired : Reacts(g, gw, {}, fired)
  <2> HIDE DEF n
  <2> QED BY <1>2, PriceReacts DEF n
<1>4. IsList(C) /\ ToSet(C) \subseteq {CandleEvent(last)}
  BY <1>2, CandlesAre
<1> HIDE DEF gw, C, g, last
<1>5. PICK fired : Reacts(g, gw, {}, fired)
  BY <1>3
<1>6. /\ IsBook(gw) /\ fired \subseteq AtGateway(g)
      /\ AtGateway(gw) = AtGateway(g) \ fired
      /\ ToSet(gw.events) \subseteq Events
      /\ \A e \in ToSet(gw.events) :
           e.event \in {"Trade", "ConditionalUpdated"} /\ e.guid \in Guids(fired)
  BY <1>5 DEF Reacts
<1>7. IsList(gw.events) /\ Guids(fired) \subseteq GuidsAt(gateway) /\ Guids({}) = {}
      /\ GuidsAt(g) = GuidsAt(gateway)
  BY <1>3, <1>6 DEF IsBook, Guids, GuidsAt
<1>8. /\ IsBook(gateway') /\ gateway'.events = n /\ GuidsAt(gateway') = GuidsAt(gw)
  BY <1>1, <1>6, HandedOver
<1>9. GuidsAt(gw) \subseteq GuidsAt(gateway)
  BY <1>3, <1>6 DEF GuidsAt
<1>10. CandleEvent(last).event = "Candle" /\ CandleEvent(last) \in Events
  BY <1>2, EventsHeld, EventFields
<1>11. IsList(queue') /\ ToSet(queue') = ToSet(gw.events) \cup ToSet(C) /\ ToSet(queue') \subseteq Events
  BY <1>1, <1>4, <1>6, <1>7, <1>10, ListConcat, ToSetConcat
<1>12. \A e \in ToSet(queue') :
         \/ e.event = "Candle"
         \/ /\ e.event \in {"Trade", "ConditionalUpdated"}
            /\ e.guid \in GuidsAt(gateway)
  BY <1>4, <1>6, <1>7, <1>10, <1>11
<1>13. Types'
  BY <1>1, <1>8, <1>11 DEF IInv, Types, omVars, centreVars, n
<1>14. Known' /\ LevelsMade' /\ NoGridErrors'
  <2>1. Known /\ LevelsMade /\ NoGridErrors
    BY DEF IInv
  <2> QED BY <1>1, <2>1 DEF Known, LevelsMade, NoGridErrors, LevelOf, omVars, centreVars
<1>15. m_conditionals' = m_conditionals /\ m_orders' = m_orders /\ subscribed' = subscribed
  BY <1>1 DEF omVars
<1>16. InTurn(queue', m_conditionals')
  <2>1. \A e \in ToSet(gw.events) : Kind(e, m_conditionals) = "exit"
    <3> SUFFICES ASSUME NEW e \in ToSet(gw.events) PROVE Kind(e, m_conditionals) = "exit"
      OBVIOUS
    <3>1. /\ e.event \in {"Trade", "ConditionalUpdated"} /\ e.guid \in m_conditionals
          /\ e.guid \notin Orders
      BY <1>6, <1>7, Tables, Parted
    <3> QED BY <3>1 DEF Kind
  <2>2. \A e \in ToSet(C) : Kind(e, m_conditionals) = "candle"
    BY <1>4, <1>10 DEF Kind
  <2>3. InTurn(gw.events, m_conditionals)
    BY <1>7, <2>1, InTurnOfOne DEF Follow
  <2>4. InTurn(C, m_conditionals)
    BY <1>4, <2>2, InTurnOfOne DEF Follow
  <2>5. \A a \in ToSet(gw.events), b \in ToSet(C) :
          Kind(b, m_conditionals) \in Follow(Kind(a, m_conditionals))
    BY <2>1, <2>2 DEF Follow
  <2>6. InTurn(gw.events \o C, m_conditionals)
    BY <1>4, <1>7, <2>3, <2>4, <2>5, InTurnConcat
  <2> QED BY <1>1, <1>15, <2>6
<1>17. EntriesInTurn'
  <2> SUFFICES ASSUME NEW o \in m_orders
               PROVE  EntryState(o, LevelOf(o).tp, target[o], filled[o], traded, About(queue', o))
    BY <1>1 DEF EntriesInTurn, omVars, LevelOf
  <2>1. EntryState(o, LevelOf(o).tp, target[o], filled[o], traded, About(queue, o))
    BY DEF IInv, EntriesInTurn
  <2>2. About(queue, o) = n
    BY <1>1, SaysNothing DEF n
  <2>3. \A e \in ToSet(queue') : e.event = "Candle" \/ e.guid # o
    BY <1>12, Tables, Parted
  <2>4. About(queue', o) = n
    BY <1>11, <2>3, SaysOfOthers DEF n
  <2> QED BY <2>1, <2>2, <2>4
<1>18. ExitsInTurn'
  <2> SUFFICES ASSUME NEW c \in m_conditionals
               PROVE  /\ c \notin cancelRequested
                      /\ ExitState(c, target[c], filled[c], suspendedVolume[c], News(queue', c),
                                   GuidsAt(gateway'), ToSet(queue'))
    BY <1>1 DEF ExitsInTurn, omVars
  <2>1. /\ c \notin cancelRequested
        /\ ExitState(c, target[c], filled[c], suspendedVolume[c], News(queue, c),
                     GuidsAt(gateway), ToSet(queue))
    BY DEF IInv, ExitsInTurn
  <2>2. UpdatedEvent(c) \notin ToSet(queue)
    BY <1>1, ToSetNothing DEF n
  <2>3. News(queue, c) = n /\ IsList(n)
    BY <1>1, SaysNothing, LiteralLists DEF n
  <2>4. News(queue', c) = News(gw.events, c) \o News(C, c)
    BY <1>1, <1>4, <1>7, SaysConcat
  <2>5. News(C, c) = n
    <3>1. \A e \in ToSet(C) : e.event \in {"Candle", "Updated"} \/ e.guid # c
      BY <1>4, <1>10
    <3>2. ToSet(C) \subseteq Events
      BY <1>4, <1>10
    <3> QED BY <1>4, <3>1, <3>2, SaysOfOthers DEF n
  <2>6. IsList(News(gw.events, c))
    BY <1>7, SaysList
  <2>7. News(queue', c) = n \o News(gw.events, c)
    <3> DEFINE x == News(gw.events, c)
    <3>1. n \o x = x /\ x \o n = x
      BY <2>6, LiteralLists DEF n
    <3> HIDE DEF x
    <3> QED BY <2>4, <2>5, <3>1 DEF x
  <2> HIDE DEF n
  <2>8. ExitState(c, target[c], filled[c], suspendedVolume[c], n, GuidsAt(g), ToSet(queue))
    BY <1>7, <2>1, <2>3
  <2>9. ExitState(c, target[c], filled[c], suspendedVolume[c], n \o News(gw.events, c),
                  GuidsAt(gw), ToSet(queue'))
    <3>1. c \notin Guids({}) /\ IsBook(g)
      BY <1>3, <1>7
    <3> QED BY <1>5, <2>2, <2>3, <2>8, <3>1, ExitReacts
  <2> QED BY <1>8, <2>1, <2>7, <2>9
<1>19. NothingElse'
  <2>1. NothingElse
    BY DEF IInv
  <2>2. GuidsAt(gateway') \subseteq m_conditionals
    BY <1>8, <1>9, Tables
  <2>3. \A e \in ToSet(queue') : e.event = "Candle" \/ e.guid \in subscribed
    BY <1>12, Tables
  <2> QED BY <1>1, <2>1, <2>2, <2>3 DEF NothingElse, omVars
<1> QED BY <1>13, <1>14, <1>16, <1>17, <1>18, <1>19 DEF IInv

-----------------------------------------------------------------------------
(* An event that changes nothing, and a candle *)

IntervalKeeps ==
  /\ strategy' = strategy /\ m_last_trend_value' \in Int
  /\ interval' \in [previous : Limits \cup {None}, next : Limits, age : Int, outOfBounds : BOOLEAN]
  /\ strategy = "StaticGrid" /\ interval.previous # None => interval'.previous # None

LEMMA LevelsKeep ==
  ASSUME IInv, IntervalKeeps, UNCHANGED <<m_orders_by_levels, watchedFor>>
  PROVE  LevelsMade'
<1>1. LevelsMade
  BY DEF IInv
<1> QED BY <1>1 DEF LevelsMade, IntervalKeeps

LEMMA PoppedKeeps ==
  ASSUME IInv, queue # <<>>, queue' = Tail(queue), IntervalKeeps,
         UNCHANGED <<omVars, gateway, m_orders_by_levels, watchedFor, gridErrors>>,
         Head(queue).event # "Candle" =>
           /\ Head(queue).guid \notin m_orders
           /\ Head(queue).guid \in m_conditionals =>
                Head(queue).event = "Updated" /\ filled[Head(queue).guid] # 1
  PROVE  IInv'
<1> DEFINE h == Head(queue)
           q == Tail(queue)
<1>1. /\ IsList(queue) /\ ToSet(queue) \subseteq Events /\ InTurn(queue, m_conditionals)
  BY DEF IInv, Types
<1>2. /\ h \in Events /\ IsList(q) /\ ToSet(q) \subseteq Events /\ InTurn(q, m_conditionals)
      /\ ToSet(queue) = {h} \cup ToSet(q)
      /\ \A g : /\ About(queue, g) = IF h.event = "Candle" \/ h.guid # g
                                     THEN About(q, g) ELSE <<h>> \o About(q, g)
                /\ News(queue, g) = IF h.event \in {"Candle", "Updated"} \/ h.guid # g
                                    THEN News(q, g) ELSE <<h>> \o News(q, g)
  BY <1>1, QueueHead
<1> HIDE DEF q, h
<1>3. queue' = q /\ (h.event # "Candle" =>
           /\ h.guid \notin m_orders
           /\ h.guid \in m_conditionals => h.event = "Updated" /\ filled[h.guid] # 1)
  BY DEF q, h
<1>4. /\ created' = created /\ m_orders' = m_orders /\ traded' = traded
      /\ m_conditionals' = m_conditionals /\ subscribed' = subscribed /\ target' = target
      /\ filled' = filled /\ suspendedVolume' = suspendedVolume /\ rejected' = rejected
      /\ cancelRequested' = cancelRequested /\ unsolicited' = unsolicited
      /\ strayResponses' = strayResponses /\ gateway' = gateway
      /\ m_orders_by_levels' = m_orders_by_levels /\ watchedFor' = watchedFor
      /\ gridErrors' = gridErrors
  BY DEF omVars
<1>5. Types'
  <2>1. Types
    BY DEF IInv
  <2> QED BY <1>2, <1>3, <1>4, <2>1 DEF Types, IntervalKeeps
<1>6. Known' /\ NoGridErrors' /\ LevelsMade'
  <2>1. Known /\ NoGridErrors
    BY DEF IInv
  <2>2. LevelsMade'
    BY <1>4, LevelsKeep
  <2> QED BY <1>4, <2>1, <2>2 DEF Known, NoGridErrors, LevelOf
<1>7. InTurn(queue', m_conditionals')
  BY <1>2, <1>3, <1>4
<1>8. EntriesInTurn'
  <2> SUFFICES ASSUME NEW o \in m_orders
               PROVE  EntryState(o, LevelOf(o).tp, target[o], filled[o], traded, About(q, o))
    BY <1>3, <1>4 DEF EntriesInTurn, LevelOf
  <2>1. EntryState(o, LevelOf(o).tp, target[o], filled[o], traded, About(queue, o))
    BY DEF IInv, EntriesInTurn
  <2>2. About(queue, o) = About(q, o)
    BY <1>2, <1>3
  <2> QED BY <2>1, <2>2
<1>9. ExitsInTurn'
  <2> SUFFICES ASSUME NEW c \in m_conditionals
               PROVE  /\ c \notin cancelRequested
                      /\ ExitState(c, target[c], filled[c], suspendedVolume[c], News(q, c),
                                   GuidsAt(gateway), ToSet(q))
    BY <1>3, <1>4 DEF ExitsInTurn
  <2>1. /\ c \notin cancelRequested
        /\ ExitState(c, target[c], filled[c], suspendedVolume[c], News(queue, c),
                     GuidsAt(gateway), ToSet(queue))
    BY DEF IInv, ExitsInTurn
  <2>2. News(queue, c) = News(q, c)
    BY <1>2, <1>3
  <2>3. filled[c] = 1 /\ UpdatedEvent(c) \in ToSet(queue) => UpdatedEvent(c) \in ToSet(q)
    <3>1. UpdatedEvent(c).event = "Updated" /\ UpdatedEvent(c).guid = c
      BY EventFields
    <3> QED BY <1>2, <1>3, <3>1
  <2> QED BY <2>1, <2>2, <2>3 DEF ExitState
<1>10. NothingElse'
  <2>1. NothingElse
    BY DEF IInv
  <2> QED BY <1>2, <1>3, <1>4, <2>1 DEF NothingElse
<1> QED BY <1>5, <1>6, <1>7, <1>8, <1>9, <1>10 DEF IInv

(* What the queue says about orders that were never created *)
LEMMA NewGuids ==
  ASSUME IInv, NEW g \in Fillable \ created
  PROVE  /\ g \notin m_orders /\ g \notin m_conditionals /\ g \notin subscribed
         /\ g \notin GuidsAt(gateway)
         /\ \A e \in ToSet(queue) : e.event = "Candle" \/ e.guid # g
         /\ filled[g] = 0 /\ target[g] = 0 /\ g \notin traded /\ g \notin cancelRequested
         /\ g \in Conditionals => suspendedVolume[g] = 0
<1>1. NothingElse
  BY DEF IInv
<1> QED BY <1>1, Tables DEF NothingElse

LEMMA SignIsSide ==
  ASSUME NEW x \in Int, x # 0
  PROVE  -Sign(x) \in {-1, 1} /\ Sign(x) \in {-1, 1}
<1>1. CASE x > 0
  BY <1>1 DEF Sign
<1>2. CASE x < 0
  <2>1. ~(x > 0)
    BY <1>2
  <2>2. Sign(x) = -1
    BY <1>2, <2>1 DEF Sign
  <2>3. ASSUME NEW y \in Int, y + 1 = 0 PROVE -y = 1
    BY <2>3
  <2>4. Sign(x) \in Int /\ Sign(x) + 1 = 0
    BY <2>2
  <2> QED BY <2>2, <2>3, <2>4
<1> QED BY <1>1, <1>2

LEMMA EnterKeeps ==
  ASSUME IInv, IntervalKeeps, queue # <<>>, Head(queue).event = "Candle",
         NEW level \in Int, NEW banned, WantsOrder(level, banned), Enters(level, banned),
         gridErrors' = gridErrors, strategy = "StaticGrid" => interval'.previous # None
  PROVE  IInv'
<1>0. PICK o : o = NextGuid(Orders)
  OBVIOUS
<1> DEFINE h == Head(queue)
           q == Tail(queue)
           side == -Sign(level)
           gw == push_order_request(gateway, o, side)
           l == [mo |-> o, side |-> side, price |-> gateway.m_last_price, tp |-> None, sl |-> None]
           response == OrderResponseEvent(o)
           trade == TradeEvent(o, side, gateway.m_last_price)
           x == <<response>>
           y == <<trade>>
           z == x \o y
           n == <<>>
<1>1. Types /\ Known /\ LevelsMade /\ EntriesInTurn /\ ExitsInTurn /\ NothingElse /\ NoGridErrors
  BY DEF IInv
<1>2. /\ IsList(queue) /\ ToSet(queue) \subseteq Events /\ InTurn(queue, m_conditionals)
      /\ IsBook(gateway) /\ gateway.events = n
  BY DEF IInv, Types
<1>3. /\ h \in Events /\ IsList(q) /\ ToSet(q) \subseteq Events /\ InTurn(q, m_conditionals)
      /\ ToSet(queue) = {h} \cup ToSet(q)
      /\ \A e \in ToSet(q) : Kind(e, m_conditionals) \in Follow(Kind(h, m_conditionals))
      /\ \A g : About(queue, g) = About(q, g) /\ News(queue, g) = News(q, g)
  BY <1>2, QueueHead
<1>4. level \in Levels /\ level # 0 /\ m_orders_by_levels[level] = None
  BY SidesHaveLevels DEF WantsOrder, Magnitude, Levels
<1>5. side \in {-1, 1} /\ side \in Int
  BY <1>4, SignIsSide
<1>6. /\ Orders \ created # {}
      /\ send_market_order(o, 1, TRUE)
      /\ gateway' = [gw EXCEPT !.events = <<>>]
      /\ queue' = q \o gw.events
      /\ m_orders_by_levels' = [m_orders_by_levels EXCEPT ![level] = l]
      /\ watchedFor' = [watchedFor EXCEPT ![o] = level]
  BY <1>0 DEF Enters, Calls
<1>7. o \in Orders \ created
  BY <1>6 DEF send_market_order
<1>8. /\ IsBook(gw) /\ GuidsAt(gw) = GuidsAt(gateway) /\ gw.events = z
  <2> HIDE DEF side
  <2> QED BY <1>2, <1>5, PushOrder
<1>9. IsBook(gateway') /\ gateway'.events = n /\ GuidsAt(gateway') = GuidsAt(gateway)
  <2> HIDE DEF gw
  <2> QED BY <1>6, <1>8, HandedOver
<1> HIDE DEF h, q, side, gw, l
<1>10. /\ created' = created \cup {o} /\ m_orders' = m_orders \cup {o}
       /\ subscribed' = subscribed \cup {o} /\ target' = [target EXCEPT ![o] = 1]
       /\ traded' = traded /\ m_conditionals' = m_conditionals
       /\ filled' = filled /\ suspendedVolume' = suspendedVolume /\ rejected' = rejected
       /\ cancelRequested' = cancelRequested /\ unsolicited' = unsolicited
       /\ strayResponses' = strayResponses
  BY <1>6 DEF send_market_order
<1>11. o \in Orders /\ o \in Fillable /\ o \notin Conditionals
  BY <1>7, Parted
<1>12. /\ o \notin m_orders /\ o \notin m_conditionals /\ o \notin subscribed
       /\ \A e \in ToSet(queue) : e.event = "Candle" \/ e.guid # o
       /\ filled[o] = 0 /\ o \notin traded
  BY <1>7, <1>11, NewGuids
<1>13. /\ response \in Events /\ trade \in Events
       /\ response.event = "OrderResponse" /\ response.guid = o
       /\ trade.event = "Trade" /\ trade.guid = o /\ trade \in TradesOf(o)
  <2>1. gateway.m_last_price \in Int
    BY <1>2 DEF IsBook
  <2>2. response \in Events
    BY <1>11, EventsHeld
  <2>3. trade \in Events /\ trade \in TradesOf(o)
    BY <1>5, <1>11, <2>1, EventsHeld DEF TradesOf
  <2>4. response.event = "OrderResponse" /\ response.guid = o
    BY EventFields
  <2>5. trade.event = "Trade" /\ trade.guid = o
    BY EventFields
  <2> HIDE DEF response, trade
  <2> QED BY <2>2, <2>3, <2>4, <2>5
<1>14. IsList(x) /\ IsList(y) /\ IsList(z)
  <2>1. IsList(x) /\ IsList(y)
    BY LiteralLists
  <2> HIDE DEF x, y
  <2> QED BY <2>1, ListConcat
<1>15. ToSet(z) = {response, trade}
  <2>1. ToSet(x) = {response} /\ ToSet(y) = {trade}
    <3>1. Len(x) = 1 /\ x[1] = response /\ Len(y) = 1 /\ y[1] = trade
      OBVIOUS
    <3> HIDE DEF x, y, response, trade
    <3> QED BY <1>14, <3>1, ToSetIs
  <2> HIDE DEF x, y
  <2> QED BY <1>14, <2>1, ToSetConcat
<1>16. \A g : /\ About(z, g) = IF g = o THEN z ELSE n
              /\ g \in Conditionals => News(z, g) = n
  <2> SUFFICES ASSUME NEW g
               PROVE  /\ About(z, g) = IF g = o THEN z ELSE n
                      /\ g \in Conditionals => News(z, g) = n
    OBVIOUS
  <2>1. About(z, g) = About(x, g) \o About(y, g) /\ News(z, g) = News(x, g) \o News(y, g)
    <3> HIDE DEF x, y
    <3> QED BY <1>14, SaysConcat
  <2>2. /\ About(x, g) = IF g = o THEN x ELSE n
        /\ About(y, g) = IF g = o THEN y ELSE n
        /\ g # o => News(x, g) = n /\ News(y, g) = n
    <3> HIDE DEF response, trade
    <3>1. /\ About(x, g) = IF response.event = "Candle" \/ response.guid # g THEN n ELSE x
          /\ News(x, g) = IF response.event \in {"Candle", "Updated"} \/ response.guid # g THEN n ELSE x
      BY <1>13, OneEvent
    <3>2. /\ About(y, g) = IF trade.event = "Candle" \/ trade.guid # g THEN n ELSE y
          /\ News(y, g) = IF trade.event \in {"Candle", "Updated"} \/ trade.guid # g THEN n ELSE y
      BY <1>13, OneEvent
    <3> HIDE DEF x, y, n
    <3> QED BY <1>13, <3>1, <3>2
  <2>3. n \o n = n
    BY LiteralLists
  <2> HIDE DEF x, y, n
  <2> QED BY <1>11, <2>1, <2>2, <2>3
<1> HIDE DEF x, y, z, n, response, trade
<1>17. queue' = q \o z /\ IsList(queue') /\ ToSet(queue') = ToSet(q) \cup {response, trade}
  BY <1>3, <1>6, <1>8, <1>14, <1>15, ListConcat, ToSetConcat
<1>18. /\ \A g : g # o => About(queue', g) = About(queue, g)
       /\ \A g \in Conditionals : News(queue', g) = News(queue, g)
       /\ About(queue', o) = z
  <2>1. \A g : About(queue', g) = About(q, g) \o About(z, g) /\ News(queue', g) = News(q, g) \o News(z, g)
    BY <1>3, <1>14, <1>17, SaysConcat
  <2>2. \A g : IsList(About(q, g)) /\ IsList(News(q, g))
    BY <1>3, SaysList
  <2>3. \A s : IsList(s) => s \o n = s /\ n \o s = s
    BY LiteralLists DEF n
  <2>4. About(q, o) = n
    BY <1>3, <1>12, SaysOfOthers DEF n
  <2>5. ASSUME NEW g, g # o PROVE About(queue', g) = About(queue, g)
    BY <1>3, <1>16, <2>1, <2>2, <2>3, <2>5
  <2>6. ASSUME NEW g \in Conditionals PROVE News(queue', g) = News(queue, g)
    BY <1>3, <1>16, <2>1, <2>2, <2>3
  <2>7. About(queue', o) = z
    BY <1>14, <1>16, <2>1, <2>3, <2>4
  <2> QED BY <2>5, <2>6, <2>7
<1>19. l.mo = o /\ l.side = side /\ l.tp = None /\ l.sl = None /\ l \in LevelRecords
  <2>1. gateway.m_last_price \in Int
    BY <1>2 DEF IsBook
  <2> QED BY <1>5, <1>11, <2>1 DEF l, LevelRecords
<1>20. \A g \in Fillable : g # o => watchedFor'[g] = watchedFor[g] /\ watchedFor[g] \in Levels
  BY <1>1, <1>6 DEF Types
<1>21. watchedFor'[o] = level /\ watchedFor' \in [Fillable -> Levels]
  BY <1>1, <1>4, <1>6, <1>11 DEF Types
<1>22. /\ m_orders_by_levels'[level] = l
       /\ \A k \in Levels : k # level => m_orders_by_levels'[k] = m_orders_by_levels[k]
       /\ m_orders_by_levels' \in [Levels -> LevelRecords \cup {None}]
  BY <1>1, <1>4, <1>6, <1>19 DEF Types
<1>23. l # None
  <2>1. "mo" \in DOMAIN l
    BY DEF l
  <2>2. DOMAIN None = {"none"}
    BY DEF None
  <2> QED BY <2>1, <2>2
<1>24. LevelOf(o)' = l
  BY <1>21, <1>22 DEF LevelOf
<1>25. \A g \in Fillable : g # o /\ LevelOf(g) # None => LevelOf(g)' = LevelOf(g)
  BY <1>4, <1>20, <1>22 DEF LevelOf
<1>26. \A g \in Fillable : g # o /\ LevelOf(g) = None => LevelOf(g)' \in {l, None}
  BY <1>20, <1>22 DEF LevelOf
<1>27. Types'
  <2>1. target' \in [Fillable -> Nat]
    BY <1>1, <1>10, <1>11 DEF Types
  <2>2. ToSet(queue') \subseteq Events
    BY <1>3, <1>13, <1>17
  <2> QED BY <1>1, <1>9, <1>10, <1>11, <1>17, <1>21, <1>22, <2>1, <2>2 DEF Types, IntervalKeeps, n
<1>28. Known'
  <2>1. m_orders' = {a \in Orders : LevelOf(a)' # None /\ LevelOf(a)'.mo = a}
    <3>1. \A a \in Orders : a # o => (a \in m_orders <=> LevelOf(a)' # None /\ LevelOf(a)'.mo = a)
      BY <1>1, <1>19, <1>25, <1>26 DEF Known, Fillable
    <3>2. LevelOf(o)' # None /\ LevelOf(o)'.mo = o
      BY <1>19, <1>23, <1>24
    <3> QED BY <1>10, <1>11, <3>1, <3>2, Tables
  <2>2. m_conditionals' = {c \in Conditionals : LevelOf(c)' # None /\ c \in {LevelOf(c)'.tp, LevelOf(c)'.sl}}
    <3>1. \A c \in Conditionals : c # o /\ c # None
      BY <1>11, NoneIsNoGuid DEF Fillable
    <3>2. \A c \in Conditionals :
            c \in m_conditionals <=> LevelOf(c)' # None /\ c \in {LevelOf(c)'.tp, LevelOf(c)'.sl}
      BY <1>1, <1>19, <1>25, <1>26, <3>1 DEF Known, Fillable
    <3> QED BY <1>10, <3>2, Tables
  <2>3. subscribed' = m_orders' \cup m_conditionals' /\ subscribed' \subseteq created'
    BY <1>1, <1>10 DEF Known
  <2> QED BY <2>1, <2>2, <2>3 DEF Known
<1>29. LevelsMade'
  <2> SUFFICES ASSUME NEW k \in Levels, m_orders_by_levels'[k] # None
               PROVE  LET a == m_orders_by_levels'[k]
                      IN /\ k # 0 /\ a.side = -Sign(k) /\ watchedFor'[a.mo] = k
                         /\ a.tp = None <=> a.sl = None
                         /\ a.tp # None => watchedFor'[a.tp] = k /\ watchedFor'[a.sl] = k
                         /\ strategy' = "StaticGrid" => interval'.previous # None
    BY DEF LevelsMade
  <2>1. CASE k = level
    BY <1>4, <1>19, <1>21, <1>22, <2>1 DEF side, IntervalKeeps
  <2>2. CASE k # level
    <3> DEFINE a == m_orders_by_levels[k]
    <3>1. m_orders_by_levels'[k] = a /\ a # None /\ a \in LevelRecords
      BY <1>1, <1>22, <2>2 DEF Types
    <3>2. /\ k # 0 /\ a.side = -Sign(k) /\ watchedFor[a.mo] = k
          /\ a.tp = None <=> a.sl = None
          /\ a.tp # None => watchedFor[a.tp] = k /\ watchedFor[a.sl] = k
      BY <1>1, <3>1 DEF LevelsMade
    <3> HIDE DEF a
    <3>3. /\ a.mo \in Fillable
          /\ a.tp # None => a.tp \in Conditionals
          /\ a.sl # None => a.sl \in Conditionals
      BY <3>1 DEF LevelRecords, Fillable, Conditionals
    <3>4. a.mo # o
      <4>1. ASSUME a.mo = o PROVE FALSE
        <5>1. LevelOf(o) = a
          BY <3>2, <4>1 DEF LevelOf, a
        <5> QED BY <1>1, <1>11, <1>12, <3>1, <4>1, <5>1 DEF Known
      <4> QED BY <4>1
    <3>5. watchedFor'[a.mo] = k
      BY <1>20, <3>2, <3>3, <3>4
    <3>6. a.tp # None => watchedFor'[a.tp] = k /\ watchedFor'[a.sl] = k
      BY <1>11, <1>20, <3>2, <3>3, Parted
    <3> QED BY <3>1, <3>2, <3>5, <3>6 DEF IntervalKeeps
  <2> QED BY <2>1, <2>2
<1>30. InTurn(queue', m_conditionals')
  <2>1. Kind(h, m_conditionals) = "candle"
    BY DEF Kind, h
  <2>2. \A e \in ToSet(q) : Kind(e, m_conditionals) \in {"candle", "closing", "entry"}
    BY <1>3, <2>1 DEF Follow
  <2>3. \A e \in ToSet(z) : Kind(e, m_conditionals) = "entry"
    BY <1>11, <1>13, <1>15 DEF Kind
  <2>4. InTurn(z, m_conditionals)
    BY <1>14, <2>3, InTurnOfOne DEF Follow
  <2>5. \A a \in ToSet(q), b \in ToSet(z) :
          Kind(b, m_conditionals) \in Follow(Kind(a, m_conditionals))
    BY <2>2, <2>3 DEF Follow
  <2>6. InTurn(q \o z, m_conditionals)
    BY <1>3, <1>14, <2>4, <2>5, InTurnConcat
  <2> QED BY <1>10, <1>17, <2>6
<1>31. EntriesInTurn'
  <2> SUFFICES ASSUME NEW a \in m_orders \cup {o}
               PROVE  EntryState(a, LevelOf(a)'.tp, target'[a], filled[a], traded, About(queue', a))
    BY <1>10 DEF EntriesInTurn
  <2>1. CASE a = o
    <3>1. target'[o] = 1
      BY <1>1, <1>10, <1>11 DEF Types
    <3>2. About(queue', o) = <<OrderResponseEvent(o)>> \o <<trade>>
      BY <1>18 DEF z, x, y, response
    <3> QED BY <1>12, <1>13, <1>19, <1>24, <2>1, <3>1, <3>2 DEF EntryState
  <2>2. CASE a # o
    <3>1. a \in m_orders /\ a \in Fillable
      BY <2>2, Tables
    <3>2. EntryState(a, LevelOf(a).tp, target[a], filled[a], traded, About(queue, a))
      BY <1>1, <3>1 DEF EntriesInTurn
    <3>3. LevelOf(a)' = LevelOf(a)
      BY <1>1, <1>25, <2>2, <3>1 DEF Known
    <3>4. target'[a] = target[a] /\ About(queue', a) = About(queue, a)
      BY <1>1, <1>10, <1>18, <2>2, <3>1 DEF Types
    <3> QED BY <3>2, <3>3, <3>4
  <2> QED BY <2>1, <2>2
<1>32. ExitsInTurn'
  <2> SUFFICES ASSUME NEW c \in m_conditionals
               PROVE  /\ c \notin cancelRequested
                      /\ ExitState(c, target'[c], filled[c], suspendedVolume[c], News(queue', c),
                                   GuidsAt(gateway'), ToSet(queue'))
    BY <1>10 DEF ExitsInTurn
  <2>1. /\ c \notin cancelRequested
        /\ ExitState(c, target[c], filled[c], suspendedVolume[c], News(queue, c),
                     GuidsAt(gateway), ToSet(queue))
    BY <1>1 DEF ExitsInTurn
  <2>2. c \in Conditionals /\ c # o /\ c \in Fillable
    BY <1>11, Tables, Parted
  <2>3. target'[c] = target[c] /\ News(queue', c) = News(queue, c)
    BY <1>1, <1>10, <1>18, <2>2 DEF Types
  <2>4. UpdatedEvent(c) \in ToSet(queue) => UpdatedEvent(c) \in ToSet(queue')
    <3>1. UpdatedEvent(c).event = "Updated"
      BY EventFields
    <3> QED BY <1>3, <1>17, <3>1 DEF h
  <2> QED BY <1>9, <2>1, <2>3, <2>4 DEF ExitState
<1>33. NothingElse'
  <2>1. GuidsAt(gateway') \subseteq m_conditionals'
    BY <1>9, <1>10, Tables
  <2>2. ASSUME NEW e \in ToSet(queue')
        PROVE  \/ e.event = "Candle" \/ e.guid \in subscribed'
               \/ /\ e.guid \in created' \cap Conditionals
                  /\ e = ConditionalUpdatedEvent(e.guid, FALSE)
    <3>1. CASE e \in ToSet(q)
      BY <1>1, <1>3, <1>10, <3>1 DEF NothingElse
    <3>2. CASE e \in {response, trade}
      BY <1>10, <1>13, <3>2
    <3> QED BY <1>17, <3>1, <3>2
  <2>3. \A g \in Fillable \ created' : target'[g] = target[g] /\ g \in Fillable \ created
    BY <1>1, <1>10 DEF Types
  <2> QED BY <1>1, <1>10, <2>1, <2>2, <2>3 DEF NothingElse
<1>34. NoGridErrors'
  BY <1>1, <1>10 DEF NoGridErrors
<1> QED BY <1>27, <1>28, <1>29, <1>30, <1>31, <1>32, <1>33, <1>34 DEF IInv

LEMMA CandleKeeps ==
  ASSUME IInv, IntervalKeeps, Runs("Candle"), NEW level \in Int, NEW banned, Enters(level, banned),
         gridErrors' = gridErrors,
         strategy = "StaticGrid" /\ level # 0 => interval'.previous # None
  PROVE  IInv'
<1>1. queue # <<>> /\ Head(queue).event = "Candle"
  BY DEF Runs
<1>2. CASE WantsOrder(level, banned)
  <2>1. level # 0
    BY <1>2 DEF WantsOrder
  <2> QED BY <1>1, <1>2, <2>1, EnterKeeps
<1>3. CASE ~WantsOrder(level, banned)
  <2>1. queue' = Tail(queue) /\ UNCHANGED <<omVars, gateway, m_orders_by_levels, watchedFor>>
    BY <1>3 DEF Enters
  <2> QED BY <1>1, <2>1, PoppedKeeps
<1> QED BY <1>2, <1>3

LEMMA CandlePrice ==
  ASSUME IInv, Runs("Candle")
  PROVE  Head(queue).close \in Int
<1>1. /\ IsList(queue) /\ ToSet(queue) \subseteq Events /\ InTurn(queue, m_conditionals)
      /\ queue # <<>> /\ Head(queue).event = "Candle"
  BY DEF IInv, Types, Runs
<1>2. Head(queue) \in Events
  BY <1>1, QueueHead
<1> DEFINE h == Head(queue)
<1> HIDE DEF h
<1>3. h \in Events /\ h.event = "Candle"
  BY <1>1, <1>2 DEF h
<1>4. h.close \in Int
  BY <1>3, EventForms
<1> QED BY <1>4 DEF h

LEMMA PushCandleKeeps ==
  ASSUME IInv, NEW trend \in Trends, NEW banned \in BOOLEAN, push_candle(trend, banned)
  PROVE  IInv'
<1> DEFINE level == get_level_number(Head(queue).close, trend)
<1>1. /\ strategy = "DynamicGridAdx" /\ Runs("Candle") /\ m_last_trend_value' = trend
      /\ Enters(level, banned) /\ UNCHANGED <<strategy, interval, gridErrors, pricesSeen>>
  BY DEF push_candle
<1>2. trend \in Int
  BY PricesAreIntegers
<1>3. level \in Int
  BY <1>1, <1>2, CandlePrice, LevelIsInteger
<1>4. IntervalKeeps
  BY <1>1, <1>2 DEF IntervalKeeps, IInv, Types
<1> HIDE DEF level
<1> QED BY <1>1, <1>3, <1>4, CandleKeeps

LEMMA PushCandleStaticKeeps ==
  ASSUME IInv, push_candle_static
  PROVE  IInv'
<1> DEFINE close == Head(queue).close
           i     == try_interval_handover(interval)
           level == IF i.previous = None THEN 0
                    ELSE get_level_number(close, mid_price(i.previous))
           out   == level # 0 /\ OutOfLimits(i.previous, close)
           banned == out \/ is_banned(i)
           Is == [previous : Limits \cup {None}, next : Limits, age : Int, outOfBounds : BOOLEAN]
<1>1. /\ strategy = "StaticGrid" /\ Runs("Candle")
      /\ interval' = [i EXCEPT !.next = update_prices(@, close),
                               !.outOfBounds = @ \/ (out /\ i.age > 0)]
      /\ Enters(level, banned)
      /\ UNCHANGED <<strategy, m_last_trend_value, gridErrors, pricesSeen>>
  BY DEF push_candle_static
<1>2. close \in Int /\ interval \in Is /\ m_last_trend_value \in Int
  BY <1>1, CandlePrice DEF IInv, Types
<1>3. i \in Is /\ (interval.previous # None => i.previous # None)
  <2>1. CASE interval.age + 1 < Interval
    <3>1. i = [interval EXCEPT !.age = @ + 1]
      BY <2>1 DEF try_interval_handover
    <3> HIDE DEF i
    <3> QED BY <1>2, <3>1
  <2>2. CASE ~(interval.age + 1 < Interval)
    <3>1. i = [previous |-> interval.next, next |-> EmptyLimits, age |-> 0, outOfBounds |-> FALSE]
      BY <2>2 DEF try_interval_handover
    <3>2. interval.next \in Limits
      BY <1>2
    <3> HIDE DEF i
    <3> QED BY <3>1, <3>2, LimitsAreRecords
  <2> QED BY <2>1, <2>2
<1> HIDE DEF i, close
<1>4. level \in Int /\ (level # 0 => i.previous # None)
  <2>1. CASE i.previous = None
    BY <2>1
  <2>2. CASE i.previous # None
    <3>1. i.previous \in Limits
      BY <1>3, <2>2
    <3>2. mid_price(i.previous) \in Int
      BY <3>1, LimitsAreRecords
    <3> QED BY <1>2, <2>2, <3>2, LevelIsInteger
  <2> QED BY <2>1, <2>2
<1> HIDE DEF level
<1>5. interval' \in Is /\ interval'.previous = i.previous
  <2>1. update_prices(i.next, close) \in Limits
    BY <1>2, <1>3, LimitsAreRecords
  <2>2. (i.outOfBounds \/ (out /\ i.age > 0)) \in BOOLEAN
    BY <1>3
  <2>3. interval' = [i EXCEPT !.next = update_prices(i.next, close),
                              !.outOfBounds = i.outOfBounds \/ (out /\ i.age > 0)]
    BY <1>1
  <2> HIDE DEF out
  <2> QED BY <1>3, <2>1, <2>2, <2>3
<1>6. IntervalKeeps
  BY <1>1, <1>2, <1>3, <1>5 DEF IntervalKeeps
<1> HIDE DEF banned
<1> QED BY <1>1, <1>4, <1>5, <1>6, CandleKeeps

-----------------------------------------------------------------------------
(* The order manager hears of the gateway. *)

LEMMA AtHead ==
  ASSUME IInv, queue # <<>>
  PROVE  /\ Head(queue) \in Events /\ IsList(Tail(queue)) /\ ToSet(Tail(queue)) \subseteq Events
         /\ ToSet(queue) = {Head(queue)} \cup ToSet(Tail(queue))
         /\ InTurn(Tail(queue), m_conditionals)
         /\ \A e \in ToSet(Tail(queue)) :
              Kind(e, m_conditionals) \in Follow(Kind(Head(queue), m_conditionals))
         /\ \A g : /\ IsList(About(Tail(queue), g)) /\ IsList(News(Tail(queue), g))
                   /\ About(queue, g) = IF Head(queue).event = "Candle" \/ Head(queue).guid # g
                                        THEN About(Tail(queue), g)
                                        ELSE <<Head(queue)>> \o About(Tail(queue), g)
                   /\ News(queue, g) = IF Head(queue).event \in {"Candle", "Updated"} \/ Head(queue).guid # g
                                       THEN News(Tail(queue), g)
                                       ELSE <<Head(queue)>> \o News(Tail(queue), g)
         /\ \/ Head(queue).event = "Candle"
            \/ Head(queue).guid \in subscribed
            \/ /\ Head(queue).guid \in created \cap Conditionals
               /\ Head(queue) = ConditionalUpdatedEvent(Head(queue).guid, FALSE)
<1>1. /\ IsList(queue) /\ ToSet(queue) \subseteq Events /\ InTurn(queue, m_conditionals) /\ NothingElse
  BY DEF IInv, Types
<1>2. Head(queue) \in ToSet(queue)
  BY <1>1, ToSetFirst
<1>3. \/ Head(queue).event = "Candle"
      \/ Head(queue).guid \in subscribed
      \/ /\ Head(queue).guid \in created \cap Conditionals
         /\ Head(queue) = ConditionalUpdatedEvent(Head(queue).guid, FALSE)
  BY <1>1, <1>2 DEF NothingElse
<1> QED BY <1>1, <1>3, QueueHead

(* What changes with neither the gateway nor the levels *)
GridStays == UNCHANGED <<gateway, strategy, m_last_trend_value, interval, m_orders_by_levels,
                         watchedFor, gridErrors>>

LEMMA ResponseKeeps ==
  ASSUME IInv, Runs("OrderResponse"), on_order_response(Head(queue).guid, "ack"),
         queue' = Tail(queue), GridStays
  PROVE  IInv'
<1>0. PICK h, q : h = Head(queue) /\ q = Tail(queue)
  OBVIOUS
<1>1. queue # <<>> /\ h.event = "OrderResponse" /\ queue' = q
  BY <1>0 DEF Runs
<1>2. /\ h \in Events /\ IsList(q) /\ ToSet(q) \subseteq Events /\ InTurn(q, m_conditionals)
      /\ ToSet(queue) = {h} \cup ToSet(q)
      /\ \A g : /\ IsList(About(q, g))
                /\ About(queue, g) = IF h.event = "Candle" \/ h.guid # g
                                     THEN About(q, g) ELSE <<h>> \o About(q, g)
                /\ News(queue, g) = IF h.event \in {"Candle", "Updated"} \/ h.guid # g
                                    THEN News(q, g) ELSE <<h>> \o News(q, g)
      /\ \/ h.event = "Candle" \/ h.guid \in subscribed
         \/ h.guid \in created \cap Conditionals /\ h = ConditionalUpdatedEvent(h.guid, FALSE)
  BY <1>0, <1>1, AtHead
<1>3. h.guid \in Orders /\ h = OrderResponseEvent(h.guid)
  BY <1>1, <1>2, EventForms
<1>4. h.guid \in m_orders /\ h.guid \notin Conditionals
  BY <1>1, <1>2, <1>3, Parted, Tables
<1> DEFINE o == h.guid
<1>5. EntryState(o, LevelOf(o).tp, target[o], filled[o], traded, About(queue, o))
  BY <1>4 DEF IInv, EntriesInTurn
<1>6. About(queue, o) = <<h>> \o About(q, o) /\ IsList(About(q, o))
  BY <1>1, <1>2
<1>7. /\ LevelOf(o).tp = None /\ target[o] = 1 /\ filled[o] = 0 /\ o \notin traded
      /\ \E t \in TradesOf(o) : About(q, o) = <<t>>
  <2>1. ASSUME NEW e, e.event # "OrderResponse" PROVE About(queue, o) # <<e>>
    <3> DEFINE n == <<>>
               a == About(q, o)
    <3>1. SUFFICES ASSUME About(queue, o) = <<e>> PROVE FALSE
      OBVIOUS
    <3>2. <<e>> \o n = <<e>> /\ IsList(n)
      BY LiteralLists
    <3> HIDE DEF n, a
    <3>3. <<h>> \o a = <<e>> \o n /\ IsList(a)
      BY <1>6, <3>1, <3>2 DEF a
    <3>4. h = e
      BY <3>2, <3>3, ListCancel
    <3> QED BY <1>1, <2>1, <3>4
  <2>2. About(queue, o) # <<>>
    BY <1>6, LiteralLists, ListTakes
  <2>3. About(queue, o) # <<UpdatedEvent(o)>>
    BY <2>1, EventFields
  <2>4. \A t \in TradesOf(o) : About(queue, o) # <<t>>
    BY <2>1, EventFields DEF TradesOf
  <2>5. \A t \in TradesOf(o) :
          About(queue, o) = <<OrderResponseEvent(o)>> \o <<t>> => About(q, o) = <<t>>
    <3> SUFFICES ASSUME NEW t \in TradesOf(o), About(queue, o) = <<OrderResponseEvent(o)>> \o <<t>>
                 PROVE  About(q, o) = <<t>>
      OBVIOUS
    <3> DEFINE b == <<t>>
               a == About(q, o)
    <3>1. IsList(b)
      BY LiteralLists
    <3> HIDE DEF a, b
    <3>2. <<h>> \o a = <<OrderResponseEvent(o)>> \o b /\ IsList(a)
      BY <1>6 DEF a, b
    <3>3. a = b
      BY <3>1, <3>2, ListCancel
    <3> QED BY <3>3 DEF a, b
  <2> QED BY <1>5, <2>2, <2>3, <2>4, <2>5 DEF EntryState
<1>8. /\ created' = created /\ m_orders' = m_orders /\ traded' = traded
      /\ m_conditionals' = m_conditionals /\ subscribed' = subscribed /\ target' = target
      /\ filled' = filled /\ suspendedVolume' = suspendedVolume /\ rejected' = rejected
      /\ cancelRequested' = cancelRequested /\ unsolicited' = unsolicited
      /\ strayResponses' = strayResponses
  <2>1. ~ResponseCompletes(h.guid)
    BY <1>7 DEF ResponseCompletes
  <2>2. on_order_response(h.guid, "ack")
    BY <1>0
  <2> QED BY <1>4, <2>1, <2>2 DEF on_order_response
<1>9. /\ gateway' = gateway /\ strategy' = strategy /\ m_last_trend_value' = m_last_trend_value
      /\ interval' = interval /\ m_orders_by_levels' = m_orders_by_levels
      /\ watchedFor' = watchedFor /\ gridErrors' = gridErrors
  BY DEF GridStays
<1>10. Types'
  <2>1. Types
    BY DEF IInv
  <2> QED BY <1>1, <1>2, <1>8, <1>9, <2>1 DEF Types
<1>11. Known' /\ NoGridErrors' /\ LevelsMade'
  <2>1. Known /\ NoGridErrors /\ LevelsMade
    BY DEF IInv
  <2> QED BY <1>8, <1>9, <2>1 DEF Known, NoGridErrors, LevelOf, LevelsMade
<1>12. InTurn(queue', m_conditionals')
  BY <1>1, <1>2, <1>8
<1>13. EntriesInTurn'
  <2> SUFFICES ASSUME NEW a \in m_orders
               PROVE  EntryState(a, LevelOf(a).tp, target[a], filled[a], traded, About(q, a))
    BY <1>1, <1>8, <1>9 DEF EntriesInTurn, LevelOf
  <2>1. CASE a = o
    BY <1>7, <2>1 DEF EntryState
  <2>2. CASE a # o
    <3>1. EntryState(a, LevelOf(a).tp, target[a], filled[a], traded, About(queue, a))
      BY DEF IInv, EntriesInTurn
    <3>2. About(queue, a) = About(q, a)
      BY <1>2, <2>2
    <3> QED BY <3>1, <3>2
  <2> QED BY <2>1, <2>2
<1>14. ExitsInTurn'
  <2> SUFFICES ASSUME NEW c \in m_conditionals
               PROVE  /\ c \notin cancelRequested
                      /\ ExitState(c, target[c], filled[c], suspendedVolume[c], News(q, c),
                                   GuidsAt(gateway), ToSet(q))
    BY <1>1, <1>8, <1>9 DEF ExitsInTurn
  <2>1. /\ c \notin cancelRequested
        /\ ExitState(c, target[c], filled[c], suspendedVolume[c], News(queue, c),
                     GuidsAt(gateway), ToSet(queue))
    BY DEF IInv, ExitsInTurn
  <2>2. News(queue, c) = News(q, c)
    BY <1>2, <1>4, Tables
  <2>3. UpdatedEvent(c) \in ToSet(queue) => UpdatedEvent(c) \in ToSet(q)
    BY <1>1, <1>2, EventFields
  <2> QED BY <2>1, <2>2, <2>3 DEF ExitState
<1>15. NothingElse'
  <2>1. NothingElse
    BY DEF IInv
  <2> QED BY <1>1, <1>2, <1>8, <1>9, <2>1 DEF NothingElse
<1> QED BY <1>10, <1>11, <1>12, <1>13, <1>14, <1>15 DEF IInv

(* The states of an order, by what the queue says of it next *)
LEMMA OneCancel ==
  ASSUME NEW h, NEW e, NEW a, IsList(a), <<h>> \o a = <<e>>
  PROVE  h = e /\ a = <<>>
<1> DEFINE n == <<>>
<1>1. <<e>> \o n = <<e>> /\ IsList(n)
  BY LiteralLists
<1> HIDE DEF n
<1>2. <<h>> \o a = <<e>> \o n
  BY <1>1
<1>3. h = e /\ a = n
  BY <1>1, <1>2, ListCancel
<1> QED BY <1>3 DEF n

LEMMA NotNothing ==
  ASSUME NEW h, NEW a, IsList(a)
  PROVE  <<h>> \o a # <<>>
<1> DEFINE x == <<h>>
           n == <<>>
<1>1. IsList(x) /\ Len(x) = 1 /\ IsList(n) /\ Len(n) = 0
  BY LiteralLists
<1>2. x # n
  BY <1>1
<1> HIDE DEF x, n
<1>3. x \o a # n
  BY <1>1, <1>2, ListTakes DEF n
<1> QED BY <1>3 DEF x, n

LEMMA EntryNext ==
  ASSUME NEW g, NEW tp, NEW volume, NEW fill, NEW done, NEW h, NEW a, IsList(a),
         EntryState(g, tp, volume, fill, done, <<h>> \o a)
  PROVE  /\ volume = 1 /\ tp = None
         /\ h.event = "Trade" => fill = 0 /\ g \notin done /\ a = <<>>
         /\ h.event = "Updated" => fill = 1 /\ a = <<>>
<1> DEFINE s == <<h>> \o a
           n == <<>>
<1>1. s # n
  BY NotNothing
<1>2. \A e : s = <<e>> => h = e /\ a = n
  BY OneCancel
<1>3. \A e, t : s = <<e>> \o <<t>> => h = e
  <2> SUFFICES ASSUME NEW e, NEW t, s = <<e>> \o <<t>> PROVE h = e
    OBVIOUS
  <2> DEFINE b == <<t>>
  <2>1. IsList(b)
    BY LiteralLists
  <2> HIDE DEF b
  <2> QED BY <2>1, ListCancel DEF b
<1>4. /\ OrderResponseEvent(g).event = "OrderResponse" /\ UpdatedEvent(g).event = "Updated"
      /\ \A t \in TradesOf(g) : t.event = "Trade"
  BY EventFields DEF TradesOf
<1> HIDE DEF n
<1>5. /\ volume = 1
      /\ \/ /\ tp = None /\ fill = 0 /\ g \notin done
            /\ \E t \in TradesOf(g) : s = <<t>> \/ s = <<OrderResponseEvent(g)>> \o <<t>>
         \/ tp = None /\ fill = 1 /\ s = <<UpdatedEvent(g)>>
         \/ tp # None /\ fill = 1 /\ s = n
  BY DEF EntryState, n
<1> HIDE DEF s
<1>6. CASE \E t \in TradesOf(g) : s = <<t>>
  BY <1>1, <1>2, <1>4, <1>5, <1>6 DEF n
<1>7. CASE \E t \in TradesOf(g) : s = <<OrderResponseEvent(g)>> \o <<t>>
  <2>1. h = OrderResponseEvent(g)
    BY <1>3, <1>7
  <2>2. h.event = "OrderResponse"
    BY <1>4, <2>1
  <2>3. tp = None \/ s = n
    BY <1>5
  <2> QED BY <1>1, <1>5, <2>2, <2>3
<1>8. CASE s = <<UpdatedEvent(g)>>
  BY <1>1, <1>2, <1>4, <1>5, <1>8 DEF n
<1> QED BY <1>1, <1>5, <1>6, <1>7, <1>8

LEMMA ExecutionFirst ==
  ASSUME NEW c, NEW h, NEW a, IsList(a), <<h>> \o a \in Executions(c)
  PROVE  h \in TradesOf(c) /\ h.event = "Trade" /\ a = Gone(c)
<1>1. PICK t \in TradesOf(c) : <<h>> \o a = <<t>> \o Gone(c)
  BY DEF Executions
<1>2. IsList(Gone(c))
  BY LiteralLists DEF Gone
<1>3. h = t /\ a = Gone(c)
  BY <1>1, <1>2, ListCancel
<1> QED BY <1>3, EventFields DEF TradesOf

LEMMA ExitNext ==
  ASSUME NEW c, NEW volume, NEW fill, NEW suspended, NEW h, NEW a, IsList(a), NEW at, NEW E,
         ExitState(c, volume, fill, suspended, <<h>> \o a, at, E)
  PROVE  /\ volume = 1
         /\ h.event = "Trade" =>
              h \in TradesOf(c) /\ fill = 0 /\ suspended = 1 /\ c \notin at /\ a = Gone(c)
         /\ h.event = "ConditionalUpdated" /\ h.active =>
              /\ fill = 0 /\ suspended = 0
              /\ (c \in at /\ a = <<>>) \/ (c \notin at /\ a \in Executions(c))
         /\ h.event = "ConditionalUpdated" /\ ~h.active =>
              fill = 1 /\ suspended = 0 /\ c \notin at /\ UpdatedEvent(c) \in E /\ a = <<>>
<1> DEFINE s == <<h>> \o a
           n == <<>>
           active == ConditionalUpdatedEvent(c, TRUE)
           gone == ConditionalUpdatedEvent(c, FALSE)
<1>1. s # n
  BY NotNothing
<1>2. s = Sent(c) => h = active /\ a = n
  BY OneCancel DEF Sent
<1>3. s = Gone(c) => h = gone /\ a = n
  BY OneCancel DEF Gone
<1>4. s \in Executions(c) => h \in TradesOf(c) /\ h.event = "Trade" /\ a = Gone(c)
  BY ExecutionFirst
<1>5. \A x \in Executions(c) : s = Sent(c) \o x => h = active /\ a = x
  <2> SUFFICES ASSUME NEW x \in Executions(c), s = Sent(c) \o x PROVE h = active /\ a = x
    OBVIOUS
  <2>1. IsList(x)
    <3>1. PICK t \in TradesOf(c) : x = <<t>> \o Gone(c)
      BY DEF Executions
    <3>2. IsList(<<t>>) /\ IsList(Gone(c))
      BY LiteralLists DEF Gone
    <3> QED BY <3>1, <3>2, ListConcat
  <2>2. <<h>> \o a = <<active>> \o x
    BY DEF Sent
  <2> HIDE DEF active, s
  <2> QED BY <2>1, <2>2, ListCancel
<1>6. /\ active.event = "ConditionalUpdated" /\ active.active
      /\ gone.event = "ConditionalUpdated" /\ ~gone.active
  BY DEF ConditionalUpdatedEvent
<1> HIDE DEF s, n, active, gone
<1>7. /\ volume = 1
      /\ \/ fill = 0 /\ suspended = 0 /\ c \in at /\ s = Sent(c)
         \/ fill = 0 /\ suspended = 0 /\ c \notin at /\ \E x \in Executions(c) : s = Sent(c) \o x
         \/ fill = 0 /\ suspended = 1 /\ c \in at /\ s = n
         \/ fill = 0 /\ suspended = 1 /\ c \notin at /\ s \in Executions(c)
         \/ /\ fill = 1 /\ suspended = 0 /\ c \notin at
            /\ UpdatedEvent(c) \in E /\ (s = n \/ s = Gone(c))
  BY DEF ExitState, s, n
<1>8. CASE fill = 0 /\ suspended = 0 /\ c \in at /\ s = Sent(c)
  <2>1. h.event = "ConditionalUpdated" /\ h.active /\ a = n
    BY <1>2, <1>6, <1>8
  <2> QED BY <1>7, <1>8, <2>1 DEF n
<1>9. CASE fill = 0 /\ suspended = 0 /\ c \notin at /\ \E x \in Executions(c) : s = Sent(c) \o x
  <2>1. h.event = "ConditionalUpdated" /\ h.active /\ a \in Executions(c)
    BY <1>5, <1>6, <1>9
  <2> QED BY <1>7, <1>9, <2>1
<1>10. CASE fill = 0 /\ suspended = 1 /\ c \notin at /\ s \in Executions(c)
  BY <1>4, <1>7, <1>10
<1>11. CASE /\ fill = 1 /\ suspended = 0 /\ c \notin at
            /\ UpdatedEvent(c) \in E /\ s = Gone(c)
  <2>1. h.event = "ConditionalUpdated" /\ ~h.active /\ a = n
    BY <1>3, <1>6, <1>11
  <2> QED BY <1>7, <1>11, <2>1 DEF n
<1> QED BY <1>1, <1>7, <1>8, <1>9, <1>10, <1>11

(* The update of an order is appended. *)
LEMMA QueueNotified ==
  ASSUME NEW q, IsList(q), ToSet(q) \subseteq Events, NEW g \in Fillable,
         NEW r, r = Append(q, UpdatedEvent(g))
  PROVE  /\ IsList(r) /\ ToSet(r) = ToSet(q) \cup {UpdatedEvent(g)} /\ ToSet(r) \subseteq Events
         /\ \A c : News(r, c) = News(q, c)
         /\ \A o : o # g => About(r, o) = About(q, o)
<1> DEFINE e == UpdatedEvent(g)
           x == <<e>>
           n == <<>>
<1>1. r = q \o x /\ IsList(r) /\ ToSet(r) = ToSet(q) \cup {e}
  BY ListAppend, ToSetAppend
<1>2. e \in Events /\ e.event = "Updated" /\ e.guid = g
  <2>1. e \in Events
    BY EventsHeld
  <2> QED BY <2>1, EventFields
<1>3. IsList(x)
  BY LiteralLists
<1> HIDE DEF e
<1>4. \A c : News(x, c) = n /\ About(x, c) = IF c # g THEN n ELSE x
  BY <1>2, OneEvent
<1> HIDE DEF x
<1>5. \A c : /\ News(r, c) = News(q, c) \o News(x, c)
             /\ About(r, c) = About(q, c) \o About(x, c)
             /\ IsList(News(q, c)) /\ IsList(About(q, c))
  BY <1>1, <1>3, SaysConcat, SaysList
<1>6. \A s : IsList(s) => s \o n = s /\ n \o s = s
  BY LiteralLists
<1> HIDE DEF n
<1>7. \A c : News(r, c) = News(q, c)
  BY <1>4, <1>5, <1>6
<1>8. \A o : o # g => About(r, o) = About(q, o)
  BY <1>4, <1>5, <1>6
<1> QED BY <1>1, <1>2, <1>7, <1>8 DEF e

(* Nor does it change what the others are told. *)
LEMMA OthersNotified ==
  ASSUME NEW q, IsList(q), ToSet(q) \subseteq Events, NEW g \in Fillable,
         NEW r, r = Append(q, UpdatedEvent(g)), NEW o, o # g
  PROVE  About(r, o) = About(q, o)
<1> DEFINE e == UpdatedEvent(g)
           x == <<e>>
           n == <<>>
<1>1. r = q \o x /\ IsList(r) /\ ToSet(r) = ToSet(q) \cup {e}
  BY ListAppend, ToSetAppend
<1>2. e \in Events /\ e.event = "Updated" /\ e.guid = g
  <2>1. e \in Events
    BY EventsHeld
  <2> QED BY <2>1, EventFields
<1>3. IsList(x)
  BY LiteralLists
<1> HIDE DEF e
<1>4. \A c : News(x, c) = n /\ About(x, c) = IF c # g THEN n ELSE x
  BY <1>2, OneEvent
<1> HIDE DEF x
<1>5. About(r, o) = About(q, o) \o About(x, o) /\ IsList(About(q, o))
  BY <1>1, <1>3, SaysConcat, SaysList
<1>6. \A s : IsList(s) => s \o n = s
  BY LiteralLists
<1> HIDE DEF n
<1>7. About(x, o) = n
  BY <1>4
<1> QED BY <1>5, <1>6, <1>7

(* What a notification adds to what an entry is still told, if that was nothing. *)
LEMMA FirstNotified ==
  ASSUME NEW q, IsList(q), ToSet(q) \subseteq Events, NEW g \in Fillable,
         NEW r, r = Append(q, UpdatedEvent(g)), About(q, g) = <<>>
  PROVE  About(r, g) = <<UpdatedEvent(g)>>
<1> DEFINE e == UpdatedEvent(g)
           x == <<e>>
           n == <<>>
<1>1. r = q \o x /\ IsList(r) /\ ToSet(r) = ToSet(q) \cup {e}
  BY ListAppend, ToSetAppend
<1>2. e \in Events /\ e.event = "Updated" /\ e.guid = g
  <2>1. e \in Events
    BY EventsHeld
  <2> QED BY <2>1, EventFields
<1>3. IsList(x)
  BY LiteralLists
<1> HIDE DEF e
<1>4. \A c : News(x, c) = n /\ About(x, c) = IF c # g THEN n ELSE x
  BY <1>2, OneEvent
<1> HIDE DEF x
<1>5. \A c : /\ News(r, c) = News(q, c) \o News(x, c)
             /\ About(r, c) = About(q, c) \o About(x, c)
             /\ IsList(News(q, c)) /\ IsList(About(q, c))
  BY <1>1, <1>3, SaysConcat, SaysList
<1>6. \A s : IsList(s) => s \o n = s /\ n \o s = s
  BY LiteralLists
<1> HIDE DEF n
<1>7. About(q, g) = n
  BY DEF n
<1>8. About(r, g) = n \o About(x, g)
  BY <1>5, <1>7
<1>9. About(x, g) = x
  BY <1>4
<1>10. n \o x = x
  BY <1>3, <1>6
<1>11. About(r, g) = x
  BY <1>8, <1>9, <1>10
<1> QED BY <1>11 DEF x, e

LEMMA InTurnNotified ==
  ASSUME NEW q, IsList(q), NEW conds, InTurn(q, conds), NEW e,
         \A a \in ToSet(q) : Kind(e, conds) \in Follow(Kind(a, conds))
  PROVE  InTurn(Append(q, e), conds)
<1> DEFINE x == <<e>>
<1>1. IsList(x) /\ Append(q, e) = q \o x /\ Len(x) = 1 /\ x[1] = e
  BY LiteralLists, ListAppend
<1> HIDE DEF x
<1>2. ToSet(x) = {e}
  BY <1>1, ToSetIs
<1>3. InTurn(x, conds)
  BY <1>1 DEF InTurn
<1>4. InTurn(q \o x, conds)
  BY <1>1, <1>2, <1>3, InTurnConcat
<1> QED BY <1>1, <1>4

LEMMA EntryTradeKeeps ==
  ASSUME IInv, Runs("Trade"), Head(queue).guid \in Orders,
         on_trade(Head(queue).guid, Magnitude(Head(queue).volume)),
         queue' = Notified(Tail(queue), Head(queue).guid), GridStays
  PROVE  IInv'
<1>0. PICK h, q : h = Head(queue) /\ q = Tail(queue)
  OBVIOUS
<1>1. queue # <<>> /\ h.event = "Trade" /\ h.guid \in Orders
  BY <1>0 DEF Runs
<1>2. /\ h \in Events /\ IsList(q) /\ ToSet(q) \subseteq Events /\ InTurn(q, m_conditionals)
      /\ ToSet(queue) = {h} \cup ToSet(q)
      /\ \A e \in ToSet(q) : Kind(e, m_conditionals) \in Follow(Kind(h, m_conditionals))
      /\ \A g : /\ IsList(About(q, g))
                /\ About(queue, g) = IF h.event = "Candle" \/ h.guid # g
                                     THEN About(q, g) ELSE <<h>> \o About(q, g)
                /\ News(queue, g) = IF h.event \in {"Candle", "Updated"} \/ h.guid # g
                                    THEN News(q, g) ELSE <<h>> \o News(q, g)
      /\ \/ h.event = "Candle" \/ h.guid \in subscribed
         \/ h.guid \in created \cap Conditionals /\ h = ConditionalUpdatedEvent(h.guid, FALSE)
  BY <1>0, <1>1, AtHead
<1>3. h.volume \in {-1, 1}
  BY <1>1, <1>2, EventForms
<1>4. Magnitude(h.volume) = 1
  BY <1>3 DEF Magnitude
<1>5. PICK o : o = h.guid
  OBVIOUS
<1>6. o \in m_orders /\ o \notin m_conditionals /\ o \in subscribed /\ o \in Fillable
  BY <1>1, <1>2, <1>5, Parted, Tables
<1>7. EntryState(o, LevelOf(o).tp, target[o], filled[o], traded, <<h>> \o About(q, o))
  <2>1. EntryState(o, LevelOf(o).tp, target[o], filled[o], traded, About(queue, o))
    BY <1>6 DEF IInv, EntriesInTurn
  <2>2. About(queue, o) = <<h>> \o About(q, o)
    BY <1>1, <1>2, <1>5
  <2> QED BY <2>1, <2>2
<1>8. LevelOf(o).tp = None /\ target[o] = 1 /\ filled[o] = 0 /\ About(q, o) = <<>>
  BY <1>1, <1>2, <1>7, EntryNext
<1>9. /\ created' = created /\ m_orders' = m_orders /\ m_conditionals' = m_conditionals
      /\ subscribed' = subscribed /\ target' = target /\ suspendedVolume' = suspendedVolume
      /\ rejected' = rejected /\ cancelRequested' = cancelRequested
      /\ unsolicited' = unsolicited /\ strayResponses' = strayResponses
      /\ filled' = [filled EXCEPT ![o] = @ + 1] /\ traded' = traded \cup {o}
  <2>1. on_trade(o, 1)
    BY <1>0, <1>4, <1>5
  <2>2. ~TradeCompletes(o)
    BY <1>6 DEF TradeCompletes
  <2>3. try_trade_market_order(o, 1)
    BY <1>6, <2>1 DEF on_trade, try_trade_conditional
  <2> QED BY <2>2, <2>3 DEF try_trade_market_order, object_on_trade
<1>10. /\ gateway' = gateway /\ strategy' = strategy /\ m_last_trend_value' = m_last_trend_value
       /\ interval' = interval /\ m_orders_by_levels' = m_orders_by_levels
       /\ watchedFor' = watchedFor /\ gridErrors' = gridErrors
  BY DEF GridStays
<1>11. queue' = Append(q, UpdatedEvent(o))
  BY <1>0, <1>5, <1>6 DEF Notified, UpdatedEvent
<1>12. /\ IsList(queue') /\ ToSet(queue') = ToSet(q) \cup {UpdatedEvent(o)} /\ ToSet(queue') \subseteq Events
       /\ \A c : News(queue', c) = News(q, c)
       /\ \A a : a # o => About(queue', a) = About(q, a)
       /\ About(queue', o) = <<UpdatedEvent(o)>>
  BY <1>2, <1>6, <1>8, <1>11, QueueNotified, FirstNotified
<1>13. filled'[o] = 1 /\ filled' \in [Fillable -> Nat] /\ \A g \in Fillable : g # o => filled'[g] = filled[g]
  <2>1. filled \in [Fillable -> Nat]
    BY DEF IInv, Types
  <2> QED BY <1>6, <1>8, <1>9, <2>1
<1>14. Types'
  <2>1. Types
    BY DEF IInv
  <2> QED BY <1>9, <1>10, <1>12, <1>13, <2>1 DEF Types
<1>15. Known' /\ NoGridErrors' /\ LevelsMade'
  <2>1. Known /\ NoGridErrors /\ LevelsMade
    BY DEF IInv
  <2> QED BY <1>9, <1>10, <2>1 DEF Known, NoGridErrors, LevelOf, LevelsMade
<1>16. InTurn(queue', m_conditionals')
  <2> DEFINE e == UpdatedEvent(o)
  <2>1. Kind(e, m_conditionals) = "entered"
    <3>1. e.event = "Updated" /\ e.guid \in Orders
      BY <1>1, <1>5, EventFields
    <3> HIDE DEF e
    <3> QED BY <3>1 DEF Kind
  <2>2. Kind(h, m_conditionals) = "entry"
    BY <1>1 DEF Kind
  <2>3. \A a \in ToSet(q) : Kind(a, m_conditionals) \in {"entry", "cancelled", "entered"}
    BY <1>2, <2>2 DEF Follow
  <2>4. \A a \in ToSet(q) : Kind(e, m_conditionals) \in Follow(Kind(a, m_conditionals))
    <3> HIDE DEF e
    <3> QED BY <2>1, <2>3 DEF Follow
  <2> HIDE DEF e
  <2>5. InTurn(Append(q, e), m_conditionals)
    BY <1>2, <2>4, InTurnNotified
  <2> QED BY <1>9, <1>11, <2>5 DEF e
<1>17. EntriesInTurn'
  <2> SUFFICES ASSUME NEW a \in m_orders
               PROVE  EntryState(a, LevelOf(a).tp, target[a], filled'[a], traded \cup {o}, About(queue', a))
    BY <1>9, <1>10 DEF EntriesInTurn, LevelOf
  <2>1. CASE a = o
    BY <1>8, <1>12, <1>13, <2>1 DEF EntryState
  <2>2. CASE a # o
    <3>1. EntryState(a, LevelOf(a).tp, target[a], filled[a], traded, About(queue, a))
      BY DEF IInv, EntriesInTurn
    <3>2. About(queue, a) = About(queue', a)
      BY <1>2, <1>5, <1>12, <2>2
    <3>3. filled'[a] = filled[a]
      BY <1>13, <2>2, Tables, Parted
    <3> QED BY <2>2, <3>1, <3>2, <3>3 DEF EntryState
  <2> QED BY <2>1, <2>2
<1>18. ExitsInTurn'
  <2> SUFFICES ASSUME NEW c \in m_conditionals
               PROVE  /\ c \notin cancelRequested
                      /\ ExitState(c, target[c], filled'[c], suspendedVolume[c], News(queue', c),
                                   GuidsAt(gateway), ToSet(queue'))
    BY <1>9, <1>10 DEF ExitsInTurn
  <2>1. /\ c \notin cancelRequested
        /\ ExitState(c, target[c], filled[c], suspendedVolume[c], News(queue, c),
                     GuidsAt(gateway), ToSet(queue))
    BY DEF IInv, ExitsInTurn
  <2>2. News(queue, c) = News(queue', c)
    BY <1>2, <1>5, <1>6, <1>12
  <2>3. filled'[c] = filled[c]
    BY <1>6, <1>13, Tables, Parted
  <2>4. UpdatedEvent(c) \in ToSet(queue) => UpdatedEvent(c) \in ToSet(queue')
    BY <1>1, <1>2, <1>12, EventFields
  <2> QED BY <2>1, <2>2, <2>3, <2>4 DEF ExitState
<1>19. NothingElse'
  <2>1. NothingElse
    BY DEF IInv
  <2>2. \A e \in ToSet(queue') :
          \/ e.event = "Candle" \/ e.guid \in subscribed
          \/ e.guid \in created \cap Conditionals /\ e = ConditionalUpdatedEvent(e.guid, FALSE)
    <3>1. UpdatedEvent(o).guid = o
      BY EventFields
    <3>2. \A e \in ToSet(queue') : e \in ToSet(queue) \/ e = UpdatedEvent(o)
      BY <1>2, <1>12
    <3> QED BY <1>6, <2>1, <3>1, <3>2 DEF NothingElse
  <2>3. \A g \in Fillable \ created : filled'[g] = 0 /\ g \notin traded'
    <3>1. o \in created
      BY <1>6, Tables
    <3> QED BY <1>9, <1>13, <2>1, <3>1 DEF NothingElse
  <2> QED BY <1>9, <1>10, <2>1, <2>2, <2>3 DEF NothingElse
<1> QED BY <1>14, <1>15, <1>16, <1>17, <1>18, <1>19 DEF IInv

(* The order manager hears of an exit that it has. *)
LEMMA ExitHeardKeeps ==
  ASSUME IInv, queue # <<>>, NEW c \in m_conditionals, Head(queue).guid = c,
         Head(queue).event \in {"Trade", "ConditionalUpdated"},
         queue' = Append(Tail(queue), UpdatedEvent(c)), GridStays,
         UNCHANGED <<created, m_orders, traded, m_conditionals, subscribed, target, rejected,
                     cancelRequested, unsolicited, strayResponses>>,
         NEW f \in Nat, NEW s \in Nat, filled' = [filled EXCEPT ![c] = f],
         suspendedVolume' = [suspendedVolume EXCEPT ![c] = s],
         ExitState(c, 1, f, s, News(Tail(queue), c), GuidsAt(gateway), {UpdatedEvent(c)})
  PROVE  IInv'
<1>0. PICK h, q : h = Head(queue) /\ q = Tail(queue)
  OBVIOUS
<1>1. queue # <<>> /\ h.event \in {"Trade", "ConditionalUpdated"} /\ h.guid = c
  BY <1>0
<1>2. /\ h \in Events /\ IsList(q) /\ ToSet(q) \subseteq Events /\ InTurn(q, m_conditionals)
      /\ ToSet(queue) = {h} \cup ToSet(q)
      /\ \A e \in ToSet(q) : Kind(e, m_conditionals) \in Follow(Kind(h, m_conditionals))
      /\ \A g : /\ IsList(About(q, g))
                /\ About(queue, g) = IF h.event = "Candle" \/ h.guid # g
                                     THEN About(q, g) ELSE <<h>> \o About(q, g)
                /\ News(queue, g) = IF h.event \in {"Candle", "Updated"} \/ h.guid # g
                                    THEN News(q, g) ELSE <<h>> \o News(q, g)
  BY <1>0, <1>1, AtHead
<1>3. /\ c \in Conditionals /\ c \in Fillable /\ c \notin Orders /\ c \notin m_orders
      /\ c \in subscribed /\ c \in created
  BY Parted, Tables
<1>4. ExitState(c, target[c], filled[c], suspendedVolume[c], News(queue, c),
                GuidsAt(gateway), ToSet(queue))
  BY DEF IInv, ExitsInTurn
<1>5. target[c] = 1
  BY <1>4 DEF ExitState
<1>6. /\ created' = created /\ m_orders' = m_orders /\ m_conditionals' = m_conditionals
      /\ subscribed' = subscribed /\ target' = target /\ traded' = traded
      /\ rejected' = rejected /\ cancelRequested' = cancelRequested
      /\ unsolicited' = unsolicited /\ strayResponses' = strayResponses
  OBVIOUS
<1>7. /\ gateway' = gateway /\ strategy' = strategy /\ m_last_trend_value' = m_last_trend_value
      /\ interval' = interval /\ m_orders_by_levels' = m_orders_by_levels
      /\ watchedFor' = watchedFor /\ gridErrors' = gridErrors
  BY DEF GridStays
<1>8. queue' = Append(q, UpdatedEvent(c))
  BY <1>0
<1>9. /\ IsList(queue') /\ ToSet(queue') = ToSet(q) \cup {UpdatedEvent(c)} /\ ToSet(queue') \subseteq Events
      /\ \A g : News(queue', g) = News(q, g)
      /\ \A a : a # c => About(queue', a) = About(q, a)
  <2> DEFINE e == UpdatedEvent(c)
  <2>1. c \in Fillable /\ IsList(q) /\ ToSet(q) \subseteq Events
    BY <1>2, <1>3
  <2>2. PICK r : r = Append(q, e)
    OBVIOUS
  <2>3. /\ IsList(r) /\ ToSet(r) = ToSet(q) \cup {e} /\ ToSet(r) \subseteq Events
        /\ \A g : News(r, g) = News(q, g)
    BY <2>1, <2>2, QueueNotified
  <2>4. \A a : a # c => About(r, a) = About(q, a)
    <3> SUFFICES ASSUME NEW a, a # c PROVE About(r, a) = About(q, a)
      OBVIOUS
    <3>1. c \in Fillable
      BY <2>1
    <3>2. IsList(q)
      BY <2>1
    <3>3. ToSet(q) \subseteq Events
      BY <2>1
    <3>4. r = Append(q, UpdatedEvent(c))
      BY <2>2
    <3> QED BY ONLY <3>1, <3>2, <3>3, <3>4, a # c, OthersNotified
  <2>5. queue' = r
    BY <1>8, <2>2
  <2> HIDE DEF e
  <2> QED BY <2>3, <2>4, <2>5 DEF e
<1>10. /\ filled'[c] = f /\ filled' \in [Fillable -> Nat]
       /\ \A g \in Fillable : g # c => filled'[g] = filled[g]
       /\ suspendedVolume'[c] = s /\ suspendedVolume' \in [Conditionals -> Nat]
       /\ \A g \in Conditionals : g # c => suspendedVolume'[g] = suspendedVolume[g]
  <2>1. filled \in [Fillable -> Nat] /\ suspendedVolume \in [Conditionals -> Nat]
    BY DEF IInv, Types
  <2> QED BY <1>3, <2>1
<1>11. Types'
  <2>1. Types
    BY DEF IInv
  <2> QED BY <1>6, <1>7, <1>9, <1>10, <2>1 DEF Types
<1>12. Known' /\ NoGridErrors' /\ LevelsMade'
  <2>1. Known /\ NoGridErrors /\ LevelsMade
    BY DEF IInv
  <2> QED BY <1>6, <1>7, <2>1 DEF Known, NoGridErrors, LevelOf, LevelsMade
<1>13. InTurn(queue', m_conditionals')
  <2> DEFINE e == UpdatedEvent(c)
  <2>1. Kind(e, m_conditionals) = "closing"
    <3>1. e.event = "Updated" /\ e.guid \notin Orders
      BY <1>3, EventFields
    <3> HIDE DEF e
    <3> QED BY <3>1 DEF Kind
  <2>2. Kind(h, m_conditionals) = "exit"
    BY <1>1, <1>3 DEF Kind
  <2>3. \A a \in ToSet(q) : Kind(a, m_conditionals) \in {"exit", "candle", "closing"}
    BY <1>2, <2>2 DEF Follow
  <2>4. \A a \in ToSet(q) : Kind(e, m_conditionals) \in Follow(Kind(a, m_conditionals))
    <3> HIDE DEF e
    <3> QED BY <2>1, <2>3 DEF Follow
  <2> HIDE DEF e
  <2>5. InTurn(Append(q, e), m_conditionals)
    BY <1>2, <2>4, InTurnNotified
  <2> QED BY <1>6, <1>8, <2>5 DEF e
<1>14. EntriesInTurn'
  <2> SUFFICES ASSUME NEW a \in m_orders
               PROVE  EntryState(a, LevelOf(a).tp, target[a], filled'[a], traded, About(queue', a))
    BY <1>6, <1>7 DEF EntriesInTurn, LevelOf
  <2>1. EntryState(a, LevelOf(a).tp, target[a], filled[a], traded, About(queue, a))
    BY DEF IInv, EntriesInTurn
  <2>2. a # c /\ a \in Fillable
    BY <1>3, Tables, Parted
  <2>3. About(queue, a) = About(queue', a)
    BY <1>1, <1>2, <1>9, <2>2
  <2>4. filled'[a] = filled[a]
    BY <1>10, <2>2
  <2> QED BY <2>1, <2>3, <2>4
<1>15. ExitsInTurn'
  <2> SUFFICES ASSUME NEW d \in m_conditionals
               PROVE  /\ d \notin cancelRequested
                      /\ ExitState(d, target[d], filled'[d], suspendedVolume'[d], News(queue', d),
                                   GuidsAt(gateway), ToSet(queue'))
    BY <1>6, <1>7 DEF ExitsInTurn
  <2>1. /\ d \notin cancelRequested
        /\ ExitState(d, target[d], filled[d], suspendedVolume[d], News(queue, d),
                     GuidsAt(gateway), ToSet(queue))
    BY DEF IInv, ExitsInTurn
  <2>2. CASE d = c
    <3>1. ExitState(c, 1, f, s, News(queue', c), GuidsAt(gateway), {UpdatedEvent(c)})
      BY <1>0, <1>9
    <3>2. ExitState(c, 1, f, s, News(queue', c), GuidsAt(gateway), ToSet(queue'))
      BY <1>9, <3>1 DEF ExitState
    <3> QED BY <1>5, <1>10, <2>1, <2>2, <3>2
  <2>3. CASE d # c
    <3>1. News(queue, d) = News(queue', d)
      BY <1>1, <1>2, <1>9, <2>3
    <3>2. filled'[d] = filled[d] /\ suspendedVolume'[d] = suspendedVolume[d]
      BY <1>10, <2>3, Tables, Parted
    <3>3. UpdatedEvent(d) \in ToSet(queue) => UpdatedEvent(d) \in ToSet(queue')
      BY <1>1, <1>2, <1>9, EventFields
    <3> QED BY <2>1, <3>1, <3>2, <3>3 DEF ExitState
  <2> QED BY <2>2, <2>3
<1>16. NothingElse'
  <2>1. NothingElse
    BY DEF IInv
  <2>2. \A e \in ToSet(queue') :
          \/ e.event = "Candle" \/ e.guid \in subscribed
          \/ e.guid \in created \cap Conditionals /\ e = ConditionalUpdatedEvent(e.guid, FALSE)
    <3>1. UpdatedEvent(c).guid = c
      BY EventFields
    <3>2. \A e \in ToSet(queue') : e \in ToSet(queue) \/ e = UpdatedEvent(c)
      BY <1>2, <1>9
    <3> QED BY <1>3, <2>1, <3>1, <3>2 DEF NothingElse
  <2>3. /\ \A g \in Fillable \ created : filled'[g] = 0
        /\ \A g \in Conditionals \ created : suspendedVolume'[g] = 0
    BY <1>3, <1>10, <2>1 DEF NothingElse
  <2> QED BY <1>6, <1>7, <2>1, <2>2, <2>3 DEF NothingElse
<1> QED BY <1>11, <1>12, <1>13, <1>14, <1>15, <1>16 DEF IInv

LEMMA ExitTradeKeeps ==
  ASSUME IInv, Runs("Trade"), Head(queue).guid \notin Orders,
         on_trade(Head(queue).guid, Magnitude(Head(queue).volume)),
         queue' = Notified(Tail(queue), Head(queue).guid), GridStays
  PROVE  IInv'
<1>0. PICK h, q, c : h = Head(queue) /\ q = Tail(queue) /\ c = Head(queue).guid
  OBVIOUS
<1>1. queue # <<>> /\ h.event = "Trade" /\ h.guid = c /\ c \notin Orders
  BY <1>0 DEF Runs
<1>2. /\ h \in Events /\ IsList(News(q, c)) /\ News(queue, c) = <<h>> \o News(q, c)
      /\ \/ h.event = "Candle" \/ h.guid \in subscribed
         \/ h.guid \in created \cap Conditionals /\ h = ConditionalUpdatedEvent(h.guid, FALSE)
  BY <1>0, <1>1, AtHead
<1>3. h.volume \in {-1, 1}
  BY <1>1, <1>2, EventForms
<1>4. Magnitude(h.volume) = 1
  BY <1>3 DEF Magnitude
<1>5. c \in m_conditionals /\ c \in subscribed /\ c \in Conditionals /\ c \notin m_orders
  <2>1. h # ConditionalUpdatedEvent(h.guid, FALSE)
    BY <1>1 DEF ConditionalUpdatedEvent
  <2> QED BY <1>1, <1>2, <2>1, Tables
<1>6. ExitState(c, target[c], filled[c], suspendedVolume[c], <<h>> \o News(q, c),
                GuidsAt(gateway), ToSet(queue))
  <2>1. ExitState(c, target[c], filled[c], suspendedVolume[c], News(queue, c),
                  GuidsAt(gateway), ToSet(queue))
    BY <1>5 DEF IInv, ExitsInTurn
  <2> QED BY <1>2, <2>1
<1>7. filled[c] = 0 /\ suspendedVolume[c] = 1 /\ c \notin GuidsAt(gateway) /\ News(q, c) = Gone(c)
  BY <1>1, <1>2, <1>6, ExitNext
<1>8. try_trade_conditional(c, 1)
  <2>1. on_trade(c, 1)
    BY <1>0, <1>4
  <2> QED BY <1>5, <2>1 DEF on_trade, try_trade_market_order
<1>9. /\ filled' = [filled EXCEPT ![c] = 1]
      /\ suspendedVolume' = [suspendedVolume EXCEPT ![c] = 0]
      /\ m_conditionals' = m_conditionals
  <2>1. filled' = [filled EXCEPT ![c] = @ + 1]
    BY <1>8 DEF try_trade_conditional, object_on_trade
  <2>2. suspendedVolume' = [suspendedVolume EXCEPT ![c] = IF @ >= 1 THEN @ - 1 ELSE @]
        /\ m_conditionals' = m_conditionals
    BY <1>5, <1>8 DEF try_trade_conditional
  <2> QED BY <1>7, <2>1, <2>2
<1>10. UNCHANGED <<created, m_orders, traded, subscribed, target, rejected, cancelRequested,
                   unsolicited, strayResponses>>
  BY <1>8 DEF try_trade_conditional
<1>11. queue' = Append(q, UpdatedEvent(c))
  BY <1>0, <1>5 DEF Notified, UpdatedEvent
<1>12. ExitState(c, 1, 1, 0, News(q, c), GuidsAt(gateway), {UpdatedEvent(c)})
  BY <1>7 DEF ExitState
<1> QED BY <1>0, <1>1, <1>5, <1>9, <1>10, <1>11, <1>12, ExitHeardKeeps

LEMMA ExitResponseKeeps ==
  ASSUME IInv, Runs("ConditionalUpdated"),
         on_conditional_response(Head(queue).guid, Head(queue).active),
         queue' = Notified(Tail(queue), Head(queue).guid), GridStays
  PROVE  IInv'
<1>0. PICK h, q, c : h = Head(queue) /\ q = Tail(queue) /\ c = Head(queue).guid
  OBVIOUS
<1>1. queue # <<>> /\ h.event = "ConditionalUpdated" /\ h.guid = c
  BY <1>0 DEF Runs
<1>2. /\ h \in Events /\ IsList(News(q, c)) /\ News(queue, c) = <<h>> \o News(q, c)
      /\ \/ h.event = "Candle" \/ h.guid \in subscribed
         \/ h.guid \in created \cap Conditionals /\ h = ConditionalUpdatedEvent(h.guid, FALSE)
  BY <1>0, <1>1, AtHead
<1>3. c \in Conditionals /\ c \notin Orders /\ c \in Fillable /\ h.active \in BOOLEAN
  <2>1. c \in Conditionals /\ h.active \in BOOLEAN
    BY <1>1, <1>2, EventForms
  <2> QED BY <2>1, Parted
<1>4. c \in subscribed <=> c \in m_conditionals
  BY <1>3, Tables
<1>5. on_conditional_response(c, h.active)
  BY <1>0
<1>6. Types
  BY DEF IInv
<1>7. CASE c \in m_conditionals
  <2>1. ExitState(c, target[c], filled[c], suspendedVolume[c], <<h>> \o News(q, c),
                  GuidsAt(gateway), ToSet(queue))
    <3>1. ExitState(c, target[c], filled[c], suspendedVolume[c], News(queue, c),
                    GuidsAt(gateway), ToSet(queue))
      BY <1>7 DEF IInv, ExitsInTurn
    <3> QED BY <1>2, <3>1
  <2>2. queue' = Append(q, UpdatedEvent(c))
    BY <1>0, <1>4, <1>7 DEF Notified, UpdatedEvent
  <2>3. UNCHANGED <<created, m_orders, traded, m_conditionals, subscribed, target, rejected,
                    cancelRequested, unsolicited, strayResponses>>
    BY <1>5, <1>7 DEF on_conditional_response
  <2>4. filled' = filled
        /\ suspendedVolume' = [suspendedVolume EXCEPT ![c] = IF h.active THEN target[c] ELSE 0]
    BY <1>5, <1>7 DEF on_conditional_response
  <2>5. filled \in [Fillable -> Nat]
    BY <1>6 DEF Types
  <2>6. CASE h.active
    <3>1. /\ target[c] = 1 /\ filled[c] = 0
          /\ (c \in GuidsAt(gateway) /\ News(q, c) = <<>>)
             \/ (c \notin GuidsAt(gateway) /\ News(q, c) \in Executions(c))
      BY <1>1, <1>2, <2>1, <2>6, ExitNext
    <3>2. ExitState(c, 1, 0, 1, News(q, c), GuidsAt(gateway), {UpdatedEvent(c)})
      BY <3>1 DEF ExitState
    <3>3. /\ filled' = [filled EXCEPT ![c] = 0]
          /\ suspendedVolume' = [suspendedVolume EXCEPT ![c] = 1]
      BY <1>3, <2>4, <2>5, <2>6, <3>1
    <3> QED BY <1>0, <1>1, <1>7, <2>2, <2>3, <3>2, <3>3, ExitHeardKeeps
  <2>7. CASE ~h.active
    <3>1. filled[c] = 1 /\ c \notin GuidsAt(gateway) /\ News(q, c) = <<>>
      BY <1>1, <1>2, <2>1, <2>7, ExitNext
    <3>2. ExitState(c, 1, 1, 0, News(q, c), GuidsAt(gateway), {UpdatedEvent(c)})
      BY <3>1 DEF ExitState
    <3>3. /\ filled' = [filled EXCEPT ![c] = 1]
          /\ suspendedVolume' = [suspendedVolume EXCEPT ![c] = 0]
      BY <1>3, <2>4, <2>5, <2>7, <3>1
    <3> QED BY <1>0, <1>1, <1>7, <2>2, <2>3, <3>2, <3>3, ExitHeardKeeps
  <2> QED BY <1>3, <2>6, <2>7
<1>8. CASE c \notin m_conditionals
  <2>1. h = ConditionalUpdatedEvent(c, FALSE)
    BY <1>1, <1>2, <1>4, <1>8
  <2>2. ~h.active
    BY <2>1 DEF ConditionalUpdatedEvent
  <2>3. UNCHANGED omVars
    BY <1>5, <1>8, <2>2 DEF on_conditional_response, omVars
  <2>4. queue' = Tail(queue)
    BY <1>0, <1>4, <1>8 DEF Notified
  <2>5. IntervalKeeps
    BY <1>6 DEF IntervalKeeps, GridStays, Types
  <2>6. UNCHANGED <<gateway, m_orders_by_levels, watchedFor, gridErrors>>
    BY DEF GridStays
  <2>7. c \notin m_orders
    BY <1>3, Tables
  <2> QED BY <1>0, <1>1, <1>8, <2>3, <2>4, <2>5, <2>6, <2>7, PoppedKeeps
<1> QED BY <1>7, <1>8

(* What the gateway sent is heard by the order manager. *)
LEMMA HandlesKeeps ==
  ASSUME IInv, OrderManagerHandles
  PROVE  IInv'
<1>1. GridStays
  BY DEF OrderManagerHandles, GridStays, gridVars, centreVars
<1>2. CASE /\ Runs("OrderResponse") /\ on_order_response(Head(queue).guid, "ack")
           /\ queue' = Tail(queue)
  BY <1>1, <1>2, ResponseKeeps
<1>3. CASE /\ Runs("Trade") /\ on_trade(Head(queue).guid, Magnitude(Head(queue).volume))
           /\ queue' = Notified(Tail(queue), Head(queue).guid)
  BY <1>1, <1>3, EntryTradeKeeps, ExitTradeKeeps
<1>4. CASE /\ Runs("ConditionalUpdated")
           /\ on_conditional_response(Head(queue).guid, Head(queue).active)
           /\ queue' = Notified(Tail(queue), Head(queue).guid)
  BY <1>1, <1>4, ExitResponseKeeps
<1> QED BY <1>2, <1>3, <1>4 DEF OrderManagerHandles

(* The update an entry or an exit gets. *)
LEMMA UpdateSays ==
  ASSUME IInv, Runs("Updated"), NEW g, g = Head(queue).guid
  PROVE  /\ g \in Fillable
         /\ g \in Orders =>
              /\ g \in m_orders /\ status(g) = "Filled" /\ filled[g] = 1
              /\ LevelOf(g).tp = None /\ About(Tail(queue), g) = <<>>
         /\ g \notin Orders => g \in m_conditionals /\ (status(g) = "Filled" <=> filled[g] = 1)
<1>0. PICK h, q : h = Head(queue) /\ q = Tail(queue)
  OBVIOUS
<1>1. queue # <<>> /\ h.event = "Updated" /\ h.guid = g
  BY <1>0 DEF Runs
<1>2. /\ h \in Events /\ IsList(About(q, g)) /\ About(queue, g) = <<h>> \o About(q, g)
      /\ \/ h.event = "Candle" \/ h.guid \in subscribed
         \/ h.guid \in created \cap Conditionals /\ h = ConditionalUpdatedEvent(h.guid, FALSE)
  BY <1>0, <1>1, AtHead
<1>3. g \in subscribed /\ g \in Fillable
  <2>1. ConditionalUpdatedEvent(g, FALSE).event = "ConditionalUpdated"
    BY DEF ConditionalUpdatedEvent
  <2>2. g \in subscribed
    BY <1>1, <1>2, <2>1
  <2> QED BY <2>2, Tables
<1>4. rejected = {} /\ cancelRequested \subseteq Conditionals
  BY DEF IInv, Types
<1>5. CASE g \in Orders
  <2>1. g \in m_orders /\ g \notin Conditionals
    BY <1>3, <1>5, Tables, Parted
  <2>2. EntryState(g, LevelOf(g).tp, target[g], filled[g], traded, About(queue, g))
    BY <2>1 DEF IInv, EntriesInTurn
  <2>3. EntryState(g, LevelOf(g).tp, target[g], filled[g], traded, <<h>> \o About(q, g))
    BY <1>2, <2>2
  <2>4. target[g] = 1 /\ LevelOf(g).tp = None /\ filled[g] = 1 /\ About(q, g) = <<>>
    BY <1>1, <1>2, <2>3, EntryNext
  <2>5. status(g) = "Filled"
    BY <1>4, <2>1, <2>4 DEF status
  <2> QED BY <1>0, <1>3, <1>5, <2>1, <2>4, <2>5
<1>6. CASE g \notin Orders
  <2>1. g \in m_conditionals /\ g \in Conditionals
    BY <1>3, <1>6, Tables, Parted
  <2>2. /\ g \notin cancelRequested
        /\ ExitState(g, target[g], filled[g], suspendedVolume[g], News(queue, g),
                     GuidsAt(gateway), ToSet(queue))
    BY <2>1 DEF IInv, ExitsInTurn
  <2>3. target[g] = 1 /\ (filled[g] = 0 \/ (filled[g] = 1 /\ suspendedVolume[g] = 0))
    BY <2>2 DEF ExitState
  <2>4. status(g) = "Filled" <=> filled[g] = 1
    BY <1>4, <2>1, <2>2, <2>3 DEF status
  <2> QED BY <1>3, <1>6, <2>1, <2>4
<1> QED BY <1>5, <1>6

(* What a subscriber that leaves does not hear any more *)
LEMMA DiscardedSays ==
  ASSUME NEW q, IsList(q), ToSet(q) \subseteq Events, NEW gone, gone \subseteq Fillable,
         NEW r, r = Discarded(q, gone)
  PROVE  /\ IsList(r) /\ ToSet(r) \subseteq Events
         /\ \A e \in Events : e \in ToSet(r) <=>
              e \in ToSet(q) /\ (e.event = "Updated" => e.guid \notin gone)
         /\ \A c : News(r, c) = News(q, c)
         /\ \A a : a \notin gone => About(r, a) = About(q, a)
         /\ \A conds : InTurn(q, conds) => InTurn(r, conds)
<1> DEFINE U == {UpdatedEvent(g) : g \in gone}
<1>1. r = Without(q, U)
  BY DEF Discarded, UpdatedEvent
<1>2. \A u \in U : u \in Events /\ u.event = "Updated" /\ u.guid \in gone
  BY EventsHeld, EventFields
<1>3. \A e \in Events : e \in U <=> e.event = "Updated" /\ e.guid \in gone
  <2> SUFFICES ASSUME NEW e \in Events PROVE e \in U <=> e.event = "Updated" /\ e.guid \in gone
    OBVIOUS
  <2>1. e.event = "Updated" => e = UpdatedEvent(e.guid)
    BY EventForms
  <2> QED BY <1>2, <2>1
<1> HIDE DEF U
<1>4. IsList(r) /\ ToSet(r) = ToSet(q) \ U
  BY <1>1, ToSetWithout
<1>5. \A c : News(r, c) = News(q, c)
  <2> SUFFICES ASSUME NEW c PROVE News(r, c) = News(q, c)
    OBVIOUS
  <2>1. U \subseteq NotNews(c)
    BY <1>2 DEF NotNews
  <2> QED BY <1>1, <2>1, WithoutTwice DEF News
<1>6. \A a : a \notin gone => About(r, a) = About(q, a)
  <2> SUFFICES ASSUME NEW a, a \notin gone PROVE About(r, a) = About(q, a)
    OBVIOUS
  <2>1. U \subseteq NotAbout(a)
    BY <1>2 DEF NotAbout
  <2> QED BY <1>1, <2>1, WithoutTwice DEF About
<1>7. \A conds : InTurn(q, conds) => InTurn(r, conds)
  BY <1>1, InTurnWithout
<1>8. \A e \in Events : e \in ToSet(r) <=>
              e \in ToSet(q) /\ (e.event = "Updated" => e.guid \notin gone)
  BY <1>3, <1>4
<1>9. ToSet(r) \subseteq Events
  BY <1>4
<1> QED BY <1>4, <1>5, <1>6, <1>7, <1>8, <1>9

(* The level that an exit of it closes *)
LEMMA ClosingLevel ==
  ASSUME IInv, Runs("Updated"), NEW g, g = Head(queue).guid, g \in m_conditionals,
         NEW i, i = watchedFor[g], NEW l, l = m_orders_by_levels[i]
  PROVE  /\ i \in Levels /\ l # None /\ l \in LevelRecords /\ g \in {l.tp, l.sl}
         /\ l.tp \in TakeProfits /\ l.sl \in StopLosses /\ l.mo \in Orders
         /\ l.mo \in m_orders /\ l.tp \in m_conditionals /\ l.sl \in m_conditionals
         /\ watchedFor[l.mo] = i /\ watchedFor[l.tp] = i /\ watchedFor[l.sl] = i
<1>1. Types /\ Known /\ LevelsMade
  BY DEF IInv
<1>2. g \in Conditionals /\ g \in Fillable /\ i \in Levels
  BY Tables, Parted
<1>3. l # None /\ g \in {l.tp, l.sl}
  BY <1>1 DEF Known, LevelOf
<1>4. l \in LevelRecords
  BY <1>1, <1>2, <1>3 DEF Types
<1>5. l.mo \in Orders /\ l.tp \in TakeProfits \cup {None} /\ l.sl \in StopLosses \cup {None}
  BY <1>4 DEF LevelRecords
<1>6. /\ watchedFor[l.mo] = i /\ (l.tp = None <=> l.sl = None)
      /\ l.tp # None => watchedFor[l.tp] = i /\ watchedFor[l.sl] = i
  BY <1>1, <1>2, <1>3 DEF LevelsMade
<1>7. g # None
  BY <1>2, NoneIsNoGuid
<1>8. l.tp # None /\ l.sl # None
  BY <1>3, <1>6, <1>7
<1>9. l.mo \in m_orders
  BY <1>1, <1>3, <1>5, <1>6 DEF Known, LevelOf
<1>10. l.tp \in m_conditionals /\ l.sl \in m_conditionals
  <2>1. l.tp \in Conditionals /\ l.sl \in Conditionals
    BY <1>5, <1>8 DEF Conditionals
  <2> QED BY <1>1, <1>3, <1>6, <1>8, <2>1 DEF Known, LevelOf
<1> QED BY <1>2, <1>3, <1>4, <1>5, <1>6, <1>8, <1>9, <1>10

(* An exit closes its level: both exits are cancelled, and the order manager forgets all
   three orders. *)
LEMMA CloseKeeps ==
  ASSUME IInv, Runs("Updated"), NEW g, g = Head(queue).guid, g \in m_conditionals,
         on_exit_traded(watchedFor[g], g), UNCHANGED centreVars
  PROVE  IInv'
<1>0. PICK h, q : h = Head(queue) /\ q = Tail(queue)
  OBVIOUS
<1>1. PICK i : i = watchedFor[g]
  OBVIOUS
<1>2. PICK l : l = m_orders_by_levels[i]
  OBVIOUS
<1>3. PICK mo, tp, sl : mo = l.mo /\ tp = l.tp /\ sl = l.sl
  OBVIOUS
<1>4. /\ i \in Levels /\ l # None /\ l \in LevelRecords /\ g \in {tp, sl}
      /\ tp \in TakeProfits /\ sl \in StopLosses /\ mo \in Orders
      /\ mo \in m_orders /\ tp \in m_conditionals /\ sl \in m_conditionals
      /\ watchedFor[mo] = i /\ watchedFor[tp] = i /\ watchedFor[sl] = i
  BY <1>1, <1>2, <1>3, ClosingLevel
<1>5. tp \in Conditionals /\ sl \in Conditionals /\ mo \notin Conditionals /\ mo \notin {tp, sl}
      /\ {mo, tp, sl} \subseteq Fillable /\ tp \notin Orders /\ sl \notin Orders
      /\ g \in Conditionals /\ g \notin Orders
  BY <1>4, Parted DEF Conditionals
<1>6. queue # <<>> /\ h.event = "Updated" /\ h.guid = g
  BY <1>0 DEF Runs
<1>7. /\ h \in Events /\ IsList(q) /\ ToSet(q) \subseteq Events /\ InTurn(q, m_conditionals)
      /\ ToSet(queue) = {h} \cup ToSet(q)
      /\ \A e \in ToSet(q) : Kind(e, m_conditionals) \in Follow(Kind(h, m_conditionals))
      /\ \A a : /\ IsList(About(q, a)) /\ IsList(News(q, a))
                /\ About(queue, a) = IF h.event = "Candle" \/ h.guid # a
                                     THEN About(q, a) ELSE <<h>> \o About(q, a)
                /\ News(queue, a) = IF h.event \in {"Candle", "Updated"} \/ h.guid # a
                                    THEN News(q, a) ELSE <<h>> \o News(q, a)
  BY <1>0, <1>6, AtHead
<1>8. IsBook(gateway) /\ gateway.events = <<>>
  BY DEF IInv, Types
<1>9. PICK r : r = OrdersCancelled(gateway, l, g)
  OBVIOUS
<1>10. /\ IsBook(r) /\ GuidsAt(r) = GuidsAt(gateway) \ {tp, sl}
       /\ ToSet(r.events) \subseteq {ConditionalUpdatedEvent(c, FALSE) : c \in {tp, sl}}
  BY <1>3, <1>4, <1>8, <1>9, CancelExits
<1>11. PICK x : x = r.events
  OBVIOUS
<1>12. IsList(x)
  BY <1>10, <1>11 DEF IsBook
<1>13. \A e \in ToSet(x) : /\ e \in Events /\ e.event = "ConditionalUpdated" /\ e.guid \in {tp, sl}
                           /\ e = ConditionalUpdatedEvent(e.guid, FALSE)
  <2> SUFFICES ASSUME NEW e \in ToSet(x)
               PROVE  /\ e \in Events /\ e.event = "ConditionalUpdated" /\ e.guid \in {tp, sl}
                      /\ e = ConditionalUpdatedEvent(e.guid, FALSE)
    OBVIOUS
  <2>1. PICK c \in {tp, sl} : e = ConditionalUpdatedEvent(c, FALSE)
    BY <1>10, <1>11
  <2>2. e.event = "ConditionalUpdated" /\ e.guid = c
    BY <2>1 DEF ConditionalUpdatedEvent
  <2>3. ConditionalUpdatedEvent(c, FALSE) \in Events
    BY <1>5, <2>1, EventsHeld
  <2> QED BY <2>1, <2>2, <2>3
<1>14. PICK d : d = Discarded(q, {mo, tp, sl})
  OBVIOUS
<1>15. /\ IsList(d) /\ ToSet(d) \subseteq Events
       /\ \A e \in Events : e \in ToSet(d) <=>
            e \in ToSet(q) /\ (e.event = "Updated" => e.guid \notin {mo, tp, sl})
       /\ \A c : News(d, c) = News(q, c)
       /\ \A a : a \notin {mo, tp, sl} => About(d, a) = About(q, a)
       /\ InTurn(d, m_conditionals)
  <2>1. PICK gone : gone = {mo, tp, sl}
    OBVIOUS
  <2>2. d = Discarded(q, gone) /\ gone \subseteq Fillable
    BY <1>5, <1>14, <2>1
  <2>3. /\ IsList(d) /\ ToSet(d) \subseteq Events
        /\ \A e \in Events : e \in ToSet(d) <=>
             e \in ToSet(q) /\ (e.event = "Updated" => e.guid \notin gone)
        /\ \A c : News(d, c) = News(q, c)
        /\ \A conds : InTurn(q, conds) => InTurn(d, conds)
    BY <1>7, <2>2, DiscardedSays
  <2>4. ASSUME NEW a, a \notin gone PROVE About(d, a) = About(q, a)
    <3>1. IsList(q) /\ ToSet(q) \subseteq Events
      BY <1>7
    <3> QED BY <2>2, <2>4, <3>1, DiscardedSays
  <2> QED BY <1>7, <2>1, <2>3, <2>4
<1>16. /\ LevelErased(mo, {tp, sl})
       /\ Calls(d, r)
       /\ m_orders_by_levels' = [m_orders_by_levels EXCEPT ![i] = None]
       /\ watchedFor' = watchedFor /\ gridErrors' = gridErrors
  BY <1>0, <1>1, <1>2, <1>3, <1>4, <1>9, <1>14 DEF on_exit_traded
<1>17. queue' = d \o x /\ IsBook(gateway') /\ gateway'.events = <<>>
       /\ GuidsAt(gateway') = GuidsAt(gateway) \ {tp, sl}
  BY <1>10, <1>11, <1>16, HandedOver DEF Calls
<1>18. /\ m_orders' = m_orders \ {mo} /\ m_conditionals' = m_conditionals \ {tp, sl}
       /\ subscribed' = subscribed \ {tp, sl, mo}
       /\ cancelRequested' = cancelRequested \cup {tp, sl}
       /\ target' = [c \in Fillable |-> IF c \in {tp, sl} THEN filled[c] ELSE target[c]]
       /\ created' = created /\ traded' = traded /\ filled' = filled
       /\ suspendedVolume' = suspendedVolume /\ rejected' = rejected
       /\ unsolicited' = unsolicited /\ strayResponses' = strayResponses
  <2>1. {tp, sl} \cap m_conditionals = {tp, sl}
    BY <1>4
  <2> QED BY <1>16, <2>1 DEF LevelErased
<1>19. strategy' = strategy /\ m_last_trend_value' = m_last_trend_value /\ interval' = interval
  BY DEF centreVars
<1>20. /\ IsList(queue') /\ ToSet(queue') = ToSet(d) \cup ToSet(x) /\ ToSet(queue') \subseteq Events
       /\ \A a : /\ About(queue', a) = About(d, a) \o About(x, a)
                 /\ News(queue', a) = News(d, a) \o News(x, a)
  <2>1. PICK z : z = d \o x
    OBVIOUS
  <2>2. IsList(z) /\ ToSet(z) = ToSet(d) \cup ToSet(x)
    BY <1>12, <1>15, <2>1, ListConcat, ToSetConcat
  <2>3. \A a : About(z, a) = About(d, a) \o About(x, a) /\ News(z, a) = News(d, a) \o News(x, a)
    BY <1>12, <1>15, <2>1, SaysConcat
  <2>4. queue' = z
    BY <1>17, <2>1
  <2> QED BY <1>13, <1>15, <2>2, <2>3, <2>4
<1>21. \A a : a \notin {mo, tp, sl} =>
         About(queue', a) = About(queue, a) /\ News(queue', a) = News(queue, a)
  <2> SUFFICES ASSUME NEW a, a \notin {mo, tp, sl}
               PROVE  About(queue', a) = About(queue, a) /\ News(queue', a) = News(queue, a)
    OBVIOUS
  <2> DEFINE n == <<>>
  <2>1. About(x, a) = n /\ News(x, a) = n
    <3>1. \A e \in ToSet(x) : e.guid # a
      BY <1>13
    <3>2. ToSet(x) \subseteq Events
      BY <1>13
    <3> QED BY <1>12, <3>1, <3>2, SaysOfOthers
  <2>2. \A s : IsList(s) => s \o n = s
    BY LiteralLists
  <2>3. About(d, a) = About(q, a) /\ News(d, a) = News(q, a)
    BY <1>15
  <2>4. About(queue, a) = About(q, a) /\ News(queue, a) = News(q, a)
    BY <1>4, <1>6, <1>7
  <2> HIDE DEF n
  <2> QED BY <1>7, <1>20, <2>1, <2>2, <2>3, <2>4
<1>22. PICK k, k2 : k = m_conditionals /\ k2 = m_conditionals \ {tp, sl}
  OBVIOUS
<1>23. /\ \A e \in ToSet(q) : Kind(e, k) \in {"closing", "entry", "cancelled"}
       /\ InTurn(q, k) /\ InTurn(d, k) /\ m_conditionals' = k2
  <2>1. Kind(h, k) = "closing"
    BY <1>5, <1>6 DEF Kind
  <2>2. \A e \in ToSet(q) : Kind(e, k) \in Follow(Kind(h, k))
    BY <1>7, <1>22
  <2>3. \A e \in ToSet(q) : Kind(e, k) \in {"closing", "entry", "cancelled"}
    BY <2>1, <2>2 DEF Follow
  <2> QED BY <1>7, <1>15, <1>18, <1>22, <2>3
<1>24. \A e \in ToSet(d) : e \in ToSet(q) /\ e \in Events
                           /\ (e.event = "Updated" => e.guid \notin {mo, tp, sl})
  BY <1>15
<1>25. InTurn(queue', k2)
  <2>1. \A e \in ToSet(d) : Kind(e, k2) \in {"closing", "entry", "cancelled"} /\ Kind(e, k) = Kind(e, k2)
    <3> SUFFICES ASSUME NEW e \in ToSet(d)
                 PROVE  Kind(e, k2) \in {"closing", "entry", "cancelled"} /\ Kind(e, k) = Kind(e, k2)
      OBVIOUS
    <3>1. Kind(e, k) \in {"closing", "entry", "cancelled"}
      BY <1>23, <1>24
    <3>2. e.guid \notin k => e.guid \notin k2
      BY <1>22
    <3> QED BY <3>1, <3>2 DEF Kind
  <2>2. InTurn(d, k2)
    BY <1>15, <1>23, <2>1, InTurnSameKinds
  <2>3. \A e \in ToSet(x) : Kind(e, k2) = "cancelled"
    <3> SUFFICES ASSUME NEW e \in ToSet(x) PROVE Kind(e, k2) = "cancelled"
      OBVIOUS
    <3>1. e.event = "ConditionalUpdated" /\ e.guid \in {tp, sl}
      BY <1>13
    <3>2. e.guid \notin Orders /\ e.guid \notin k2
      BY <1>5, <1>22, <3>1
    <3> QED BY <3>1, <3>2 DEF Kind
  <2>4. InTurn(x, k2)
    <3>1. "cancelled" \in Follow("cancelled")
      BY DEF Follow
    <3> QED BY <1>12, <2>3, <3>1, InTurnOfOne
  <2>5. \A a \in ToSet(d), b \in ToSet(x) : Kind(b, k2) \in Follow(Kind(a, k2))
    BY <2>1, <2>3 DEF Follow
  <2>6. InTurn(d \o x, k2)
    BY <1>12, <1>15, <2>2, <2>4, <2>5, InTurnConcat
  <2> QED BY <1>17, <2>6
<1>26. Types'
  <2>1. Types
    BY DEF IInv
  <2>2. m_orders_by_levels' \in [Levels -> LevelRecords \cup {None}]
    BY <1>16, <2>1 DEF Types
  <2>3. target' \in [Fillable -> Nat]
    BY <1>18, <2>1 DEF Types
  <2>4. cancelRequested' \subseteq Conditionals
    BY <1>5, <1>18, <2>1 DEF Types
  <2> QED BY <1>16, <1>17, <1>18, <1>19, <1>20, <2>1, <2>2, <2>3, <2>4 DEF Types
<1>27. \A a \in Fillable : /\ watchedFor'[a] = watchedFor[a] /\ watchedFor[a] \in Levels
                           /\ watchedFor[a] = i => LevelOf(a)' = None
                           /\ watchedFor[a] # i => LevelOf(a)' = LevelOf(a)
  <2>1. m_orders_by_levels \in [Levels -> LevelRecords \cup {None}] /\ watchedFor \in [Fillable -> Levels]
    BY DEF IInv, Types
  <2> QED BY <1>4, <1>16, <2>1 DEF LevelOf
<1>28. Known'
  <2>1. Known
    BY DEF IInv
  <2>2. \A a \in Orders \cup Conditionals : a \in Fillable
    BY Parted
  <2>3. m_orders' = {o \in Orders : LevelOf(o)' # None /\ LevelOf(o)'.mo = o}
    <3> SUFFICES ASSUME NEW o \in Orders
                 PROVE  o \in m_orders \ {mo} <=> LevelOf(o)' # None /\ LevelOf(o)'.mo = o
      BY <1>18, <2>1 DEF Known
    <3>1. o \in m_orders <=> LevelOf(o) # None /\ LevelOf(o).mo = o
      BY <2>1 DEF Known
    <3>2. CASE watchedFor[o] = i
      <4>1. LevelOf(o) = l
        BY <1>2, <3>2 DEF LevelOf
      <4> QED BY <1>3, <1>27, <2>2, <3>1, <3>2, <4>1
    <3>3. CASE watchedFor[o] # i
      <4>1. o # mo
        BY <1>4, <3>3
      <4> QED BY <1>27, <2>2, <3>1, <3>3, <4>1
    <3> QED BY <3>2, <3>3
  <2>4. m_conditionals' =
          {c \in Conditionals : LevelOf(c)' # None /\ c \in {LevelOf(c)'.tp, LevelOf(c)'.sl}}
    <3> SUFFICES ASSUME NEW c \in Conditionals
                 PROVE  c \in m_conditionals \ {tp, sl} <=>
                          LevelOf(c)' # None /\ c \in {LevelOf(c)'.tp, LevelOf(c)'.sl}
      BY <1>18, <2>1 DEF Known
    <3>1. c \in m_conditionals <=> LevelOf(c) # None /\ c \in {LevelOf(c).tp, LevelOf(c).sl}
      BY <2>1 DEF Known
    <3>2. CASE watchedFor[c] = i
      <4>1. LevelOf(c) = l
        BY <1>2, <3>2 DEF LevelOf
      <4> QED BY <1>3, <1>27, <2>2, <3>1, <3>2, <4>1
    <3>3. CASE watchedFor[c] # i
      <4>1. c \notin {tp, sl}
        BY <1>4, <3>3
      <4> QED BY <1>27, <2>2, <3>1, <3>3, <4>1
    <3> QED BY <3>2, <3>3
  <2>5. subscribed' = m_orders' \cup m_conditionals' /\ subscribed' \subseteq created'
    BY <1>5, <1>18, <2>1, Tables DEF Known
  <2> QED BY <2>3, <2>4, <2>5 DEF Known
<1>29. LevelsMade' /\ NoGridErrors'
  <2>1. NoGridErrors /\ LevelsMade
    BY DEF IInv
  <2>2. NoGridErrors'
    BY <1>16, <1>18, <2>1 DEF NoGridErrors
  <2>3. \A k0 \in Levels : m_orders_by_levels'[k0] = IF k0 = i THEN None ELSE m_orders_by_levels[k0]
    <3>1. m_orders_by_levels \in [Levels -> LevelRecords \cup {None}]
      BY DEF IInv, Types
    <3> QED BY <1>4, <1>16, <3>1
  <2> QED BY <1>16, <1>19, <2>1, <2>2, <2>3 DEF LevelsMade
<1>30. \A a \in Fillable : a \notin {tp, sl} => target'[a] = target[a]
  BY <1>18
<1>31. EntriesInTurn'
  <2> SUFFICES ASSUME NEW a \in m_orders \ {mo}
               PROVE  EntryState(a, LevelOf(a)'.tp, target'[a], filled[a], traded, About(queue', a))
    BY <1>18 DEF EntriesInTurn
  <2>1. EntryState(a, LevelOf(a).tp, target[a], filled[a], traded, About(queue, a))
    BY DEF IInv, EntriesInTurn
  <2>2. a \in Orders /\ a \in Fillable /\ a \notin {mo, tp, sl}
    BY <1>5, Tables, Parted
  <2>3. watchedFor[a] # i
    <3>1. LevelOf(a).mo = a
      BY DEF IInv, Known
    <3> QED BY <1>2, <1>3, <3>1 DEF LevelOf
  <2>4. LevelOf(a)' = LevelOf(a)
    BY <1>27, <2>2, <2>3
  <2> QED BY <1>21, <1>30, <2>1, <2>2, <2>4
<1>32. ExitsInTurn'
  <2> SUFFICES ASSUME NEW c \in m_conditionals, c \notin {tp, sl}
               PROVE  /\ c \notin cancelRequested \cup {tp, sl}
                      /\ ExitState(c, target'[c], filled[c], suspendedVolume[c], News(queue', c),
                                   GuidsAt(gateway'), ToSet(queue'))
    BY <1>18 DEF ExitsInTurn
  <2>1. /\ c \notin cancelRequested
        /\ ExitState(c, target[c], filled[c], suspendedVolume[c], News(queue, c),
                     GuidsAt(gateway), ToSet(queue))
    BY DEF IInv, ExitsInTurn
  <2>2. c \in Conditionals /\ c \in Fillable /\ c \notin {mo, tp, sl}
    BY <1>5, Tables, Parted
  <2>3. UpdatedEvent(c) \in ToSet(queue) => UpdatedEvent(c) \in ToSet(queue')
    <3>1. UpdatedEvent(c).guid = c /\ UpdatedEvent(c) \in Events
      BY <2>2, EventFields, EventsHeld
    <3>2. UpdatedEvent(c) # h
      BY <1>4, <1>6, <2>2, <3>1
    <3> QED BY <1>7, <1>15, <1>20, <2>2, <3>1, <3>2
  <2>4. c \in GuidsAt(gateway') <=> c \in GuidsAt(gateway)
    BY <1>17, <2>2
  <2>5. News(queue', c) = News(queue, c) /\ target'[c] = target[c]
    BY <1>21, <1>30, <2>2
  <2> QED BY <2>1, <2>2, <2>3, <2>4, <2>5 DEF ExitState
<1>33. NothingElse'
  <2>1. NothingElse
    BY DEF IInv
  <2>2. GuidsAt(gateway') \subseteq m_conditionals'
    BY <1>17, <1>18, <2>1 DEF NothingElse
  <2>3. \A e \in ToSet(q) : e.event = "Candle" \/ e.guid # mo
    <3>1. EntryState(mo, LevelOf(mo).tp, target[mo], filled[mo], traded, About(queue, mo))
      BY <1>4 DEF IInv, EntriesInTurn
    <3>2. LevelOf(mo).tp # None
      <4>1. tp # None
        BY <1>5, NoneIsNoGuid
      <4> QED BY <1>2, <1>3, <1>4, <4>1 DEF LevelOf
    <3>3. About(queue, mo) = <<>>
      BY <3>1, <3>2 DEF EntryState
    <3>4. About(queue, mo) = About(q, mo)
      BY <1>4, <1>5, <1>6, <1>7
    <3>5. About(q, mo) = <<>>
      BY <3>3, <3>4
    <3> QED BY <1>7, <3>5, SaysOfNone
  <2>4. \A e \in ToSet(d) :
          \/ e.event = "Candle" \/ e.guid \in subscribed'
          \/ e.guid \in created \cap Conditionals /\ e = ConditionalUpdatedEvent(e.guid, FALSE)
    <3> SUFFICES ASSUME NEW e \in ToSet(d), e.event # "Candle",
                        ~(e.guid \in created \cap Conditionals /\ e = ConditionalUpdatedEvent(e.guid, FALSE))
                 PROVE  e.guid \in subscribed \ {tp, sl, mo}
      BY <1>18
    <3>1. e \in ToSet(q) /\ (e.event = "Updated" => e.guid \notin {mo, tp, sl})
      BY <1>24
    <3>2. e.guid \in subscribed
      BY <1>7, <2>1, <3>1 DEF NothingElse
    <3>3. e.guid # mo
      BY <2>3, <3>1
    <3>4. e.guid \notin {tp, sl}
      <4> SUFFICES ASSUME e.guid \in {tp, sl} PROVE FALSE
        OBVIOUS
      <4>1. Kind(e, k) \in {"closing", "entry", "cancelled"}
        BY <1>23, <3>1
      <4>2. e.guid \in k /\ e.guid \notin Orders /\ e.event # "Updated"
        BY <1>4, <1>5, <1>22, <3>1
      <4> QED BY <4>1, <4>2 DEF Kind
    <3> QED BY <3>2, <3>3, <3>4
  <2>5. \A e \in ToSet(x) :
          e.guid \in created \cap Conditionals /\ e = ConditionalUpdatedEvent(e.guid, FALSE)
    <3>1. tp \in created /\ sl \in created
      BY <1>4, Tables
    <3> QED BY <1>5, <1>13, <3>1
  <2>6. \A a \in Fillable \ created :
          filled[a] = 0 /\ target'[a] = 0 /\ a \notin traded /\ a \notin cancelRequested'
    <3> SUFFICES ASSUME NEW a \in Fillable \ created
                 PROVE  filled[a] = 0 /\ target'[a] = 0 /\ a \notin traded
                        /\ a \notin cancelRequested \cup {tp, sl}
      BY <1>18
    <3>1. a \notin {tp, sl}
      BY <1>4, Tables
    <3> QED BY <1>30, <2>1, <3>1 DEF NothingElse
  <2>7. \A e \in ToSet(queue') :
          \/ e.event = "Candle" \/ e.guid \in subscribed'
          \/ e.guid \in created \cap Conditionals /\ e = ConditionalUpdatedEvent(e.guid, FALSE)
    BY <1>20, <2>4, <2>5
  <2> QED BY <1>18, <2>1, <2>2, <2>6, <2>7 DEF NothingElse
<1>34. InTurn(queue', m_conditionals')
  BY <1>23, <1>25
<1> QED BY <1>26, <1>28, <1>29, <1>31, <1>32, <1>33, <1>34 DEF IInv

LEMMA LevelsAreNotNone == None \notin LevelRecords
<1>1. SUFFICES ASSUME None \in LevelRecords PROVE FALSE
  OBVIOUS
<1>2. DOMAIN None = {"mo", "side", "price", "tp", "sl"}
  BY <1>1 DEF LevelRecords
<1>3. DOMAIN None = {"none"}
  BY DEF None
<1> QED BY <1>2, <1>3

LEMMA ExitPrices ==
  ASSUME IInv, NEW l \in LevelRecords, strategy = "StaticGrid" => interval.previous # None
  PROVE  /\ Centre \in Int /\ calc_tp_price(l.price, l.side, Centre) \in Int
         /\ StopPriceOf(l) \in Int
<1>1. l.price \in Int /\ l.side \in {-1, 1}
  BY DEF LevelRecords
<1>2. /\ m_last_trend_value \in Int /\ strategy \in Strategy
      /\ interval.previous \in Limits \cup {None}
  BY DEF IInv, Types
<1>3. strategy = "StaticGrid" => interval.previous \in Limits
  BY <1>2
<1>4. Centre \in Int
  BY <1>2, <1>3, LimitsAreRecords, ZeroIsALevel DEF Centre
<1>5. LevelWidth \in Int /\ LevelsPerSide \in Int
  BY WidthIsPositive, SidesHaveLevels
<1>6. calc_tp_price(l.price, l.side, Centre) \in Int
  <2>1. PICK n, t : n = get_level_number(l.price, Centre) /\ t = Centre
    OBVIOUS
  <2>2. n \in Int /\ t \in Int
    BY <1>1, <1>4, <2>1, LevelIsInteger
  <2>3. calc_tp_price(l.price, l.side, Centre) = t + (n + l.side) * LevelWidth
    BY <2>1 DEF calc_tp_price, get_price_from_level_number
  <2> QED BY <1>1, <1>5, <2>2, <2>3
<1>7. StopPriceOf(l) \in Int
  <2>1. CASE strategy = "StaticGrid"
    BY <1>1, <1>3, <1>5, <2>1 DEF StopPriceOf, calc_sl_price_static, Limits
  <2>2. CASE strategy # "StaticGrid"
    <3>1. (LevelsPerSide + 1) * LevelWidth \in Int
      BY <1>5
    <3>2. l.side * (LevelsPerSide + 1) * LevelWidth \in Int
      BY <1>1, <1>5
    <3> QED BY <1>1, <2>2, <3>2 DEF StopPriceOf, calc_sl_price
  <2> QED BY <2>1, <2>2
<1> QED BY <1>4, <1>6, <1>7

(* The level that an entry opens *)
LEMMA OpeningLevel ==
  ASSUME IInv, NEW g \in m_orders, LevelOf(g).tp = None,
         NEW i, i = watchedFor[g], NEW l, l = m_orders_by_levels[i]
  PROVE  /\ i \in Levels /\ i # 0 /\ l # None /\ l \in LevelRecords
         /\ l.mo = g /\ l.tp = None /\ l.sl = None /\ l.side = -Sign(i)
         /\ l.side \in {-1, 1} /\ l.price \in Int
         /\ strategy = "StaticGrid" => interval.previous # None
<1>1. Types /\ Known /\ LevelsMade
  BY DEF IInv
<1>2. g \in Orders /\ g \in Fillable /\ i \in Levels
  BY Tables, Parted
<1>3. l # None /\ l.mo = g /\ l.tp = None
  BY <1>1 DEF Known, LevelOf
<1>4. l \in LevelRecords
  BY <1>1, <1>2, <1>3 DEF Types
<1>5. /\ i # 0 /\ l.side = -Sign(i) /\ (l.tp = None <=> l.sl = None)
      /\ strategy = "StaticGrid" => interval.previous # None
  BY <1>1, <1>2, <1>3 DEF LevelsMade
<1>6. l.side \in {-1, 1} /\ l.price \in Int
  BY <1>4 DEF LevelRecords
<1> QED BY <1>2, <1>3, <1>4, <1>5, <1>6

(* A level's entry is traded: its take profit and its stop loss are sent. *)
LEMMA OpenKeeps ==
  ASSUME IInv, Runs("Updated"), NEW g \in m_orders, g = Head(queue).guid, filled[g] = 1,
         LevelOf(g).tp = None, About(Tail(queue), g) = <<>>,
         on_order_traded(watchedFor[g]), UNCHANGED centreVars
  PROVE  IInv'
<1>0. PICK h, q : h = Head(queue) /\ q = Tail(queue)
  OBVIOUS
<1>1. PICK i : i = watchedFor[g]
  OBVIOUS
<1>2. PICK l : l = m_orders_by_levels[i]
  OBVIOUS
<1>3. /\ i \in Levels /\ i # 0 /\ l # None /\ l \in LevelRecords
      /\ l.mo = g /\ l.tp = None /\ l.sl = None /\ l.side = -Sign(i)
      /\ l.side \in {-1, 1} /\ l.price \in Int
      /\ strategy = "StaticGrid" => interval.previous # None
  BY <1>1, <1>2, OpeningLevel
<1>4. PICK tp, sl : tp = NextGuid(TakeProfits) /\ sl = NextGuid(StopLosses)
  OBVIOUS
<1>5. PICK TP, SL :
        /\ TP = [guid |-> tp, side |-> -l.side, volume |-> 1,
                 trigger |-> calc_tp_price(l.price, l.side, Centre)]
        /\ SL = [guid |-> sl, side |-> -l.side, volume |-> 1, trigger |-> StopPriceOf(l)]
  OBVIOUS
<1>6. PICK r : r = push_stop_loss_request(push_take_profit_request(gateway, TP), SL)
  OBVIOUS
<1>7. /\ TakeProfits \ created # {} /\ StopLosses \ created # {}
      /\ TpAndSlSent(tp, sl, 1)
      /\ Calls(q, r)
      /\ m_orders_by_levels' = [m_orders_by_levels EXCEPT ![i].tp = tp, ![i].sl = sl]
      /\ watchedFor' = [watchedFor EXCEPT ![tp] = i, ![sl] = i]
      /\ gridErrors' = gridErrors
  BY <1>0, <1>1, <1>2, <1>3, <1>4, <1>5, <1>6 DEF on_order_traded
<1>8. /\ tp \in TakeProfits /\ sl \in StopLosses /\ tp \notin created /\ sl \notin created
  BY <1>4, <1>7 DEF NextGuid
<1>9. /\ tp \in Conditionals /\ sl \in Conditionals /\ tp \notin Orders /\ sl \notin Orders
      /\ tp \in Fillable /\ sl \in Fillable /\ tp # sl /\ tp # None /\ sl # None
      /\ g \in Orders /\ g \in Fillable /\ g \in created
  <2>1. tp \in Conditionals /\ sl \in Conditionals /\ tp # sl
    BY <1>8, GuidsAreUnique DEF Conditionals
  <2> QED BY <2>1, Parted, Tables, NoneIsNoGuid
<1>10. \A c \in {tp, sl} :
         /\ c \notin m_orders /\ c \notin m_conditionals /\ c \notin subscribed
         /\ c \notin GuidsAt(gateway)
         /\ \A e \in ToSet(queue) : e.event = "Candle" \/ e.guid # c
         /\ filled[c] = 0 /\ target[c] = 0 /\ c \notin traded /\ c \notin cancelRequested
         /\ suspendedVolume[c] = 0
  BY <1>8, <1>9, NewGuids
<1>11. TP \in ExitOrders(TakeProfits) /\ SL \in ExitOrders(StopLosses)
       /\ TP.guid = tp /\ SL.guid = sl
  <2>1. calc_tp_price(l.price, l.side, Centre) \in Int /\ StopPriceOf(l) \in Int
    BY <1>3, ExitPrices
  <2>2. -l.side \in {-1, 1}
    BY <1>3
  <2> QED BY <1>5, <1>8, <2>1, <2>2 DEF ExitOrders
<1>12. IsBook(gateway) /\ gateway.events = <<>>
  BY DEF IInv, Types
<1>13. PICK fired : Reacts(gateway, r, {TP, SL}, fired)
  <2>1. TP.guid \notin Guids(AtGateway(gateway)) /\ SL.guid \notin Guids(AtGateway(gateway))
    BY <1>10, <1>11 DEF Guids, GuidsAt
  <2> QED BY <1>6, <1>11, <1>12, <2>1, OpenReacts
<1>14. PICK x : x = r.events
  OBVIOUS
<1>15. /\ IsBook(r) /\ IsList(x) /\ ToSet(x) \subseteq Events
       /\ fired \subseteq AtGateway(gateway) \cup {TP, SL}
       /\ AtGateway(r) = (AtGateway(gateway) \cup {TP, SL}) \ fired
       /\ \A e \in ToSet(x) :
            e.event \in {"Trade", "ConditionalUpdated"} /\ e.guid \in Guids({TP, SL} \cup fired)
  BY <1>13, <1>14 DEF Reacts, IsBook
<1>16. GuidsAt(gateway) \subseteq m_conditionals
  BY Tables
<1>17. GuidsAt(r) \subseteq m_conditionals \cup {tp, sl}
  BY <1>11, <1>15, <1>16 DEF GuidsAt
<1>18. \A e \in ToSet(x) : e.guid \in m_conditionals \cup {tp, sl}
  BY <1>11, <1>15, <1>16 DEF GuidsAt, Guids
<1>19. queue' = q \o x /\ IsBook(gateway') /\ gateway'.events = <<>>
       /\ GuidsAt(gateway') = GuidsAt(r)
  BY <1>7, <1>14, <1>15, HandedOver DEF Calls
<1>20. /\ created' = created \cup {tp, sl} /\ m_conditionals' = m_conditionals \cup {tp, sl}
       /\ subscribed' = subscribed \cup {tp, sl}
       /\ target' = [target EXCEPT ![tp] = 1, ![sl] = 1]
       /\ m_orders' = m_orders /\ traded' = traded /\ filled' = filled
       /\ suspendedVolume' = suspendedVolume /\ rejected' = rejected
       /\ cancelRequested' = cancelRequested
       /\ unsolicited' = unsolicited /\ strayResponses' = strayResponses
  BY <1>7 DEF TpAndSlSent
<1>21. strategy' = strategy /\ m_last_trend_value' = m_last_trend_value /\ interval' = interval
  BY DEF centreVars
<1>22. queue # <<>> /\ h.event = "Updated" /\ h.guid = g
  BY <1>0 DEF Runs
<1>23. /\ h \in Events /\ IsList(q) /\ ToSet(q) \subseteq Events /\ InTurn(q, m_conditionals)
       /\ ToSet(queue) = {h} \cup ToSet(q)
       /\ \A e \in ToSet(q) : Kind(e, m_conditionals) \in Follow(Kind(h, m_conditionals))
       /\ \A a : /\ IsList(About(q, a)) /\ IsList(News(q, a))
                 /\ About(queue, a) = IF h.event = "Candle" \/ h.guid # a
                                      THEN About(q, a) ELSE <<h>> \o About(q, a)
                 /\ News(queue, a) = IF h.event \in {"Candle", "Updated"} \/ h.guid # a
                                     THEN News(q, a) ELSE <<h>> \o News(q, a)
  BY <1>0, <1>22, AtHead
<1>24. /\ IsList(queue') /\ ToSet(queue') = ToSet(q) \cup ToSet(x) /\ ToSet(queue') \subseteq Events
       /\ \A a : /\ About(queue', a) = About(q, a) \o About(x, a)
                 /\ News(queue', a) = News(q, a) \o News(x, a)
  <2>1. PICK z : z = q \o x
    OBVIOUS
  <2>2. IsList(z) /\ ToSet(z) = ToSet(q) \cup ToSet(x)
    BY <1>15, <1>23, <2>1, ListConcat, ToSetConcat
  <2>3. \A a : About(z, a) = About(q, a) \o About(x, a) /\ News(z, a) = News(q, a) \o News(x, a)
    BY <1>15, <1>23, <2>1, SaysConcat
  <2>4. queue' = z
    BY <1>19, <2>1
  <2> QED BY <1>15, <1>23, <2>2, <2>3, <2>4
<1>25. target' \in [Fillable -> Nat] /\ target'[tp] = 1 /\ target'[sl] = 1
       /\ \A a \in Fillable : a \notin {tp, sl} => target'[a] = target[a]
  <2>1. target \in [Fillable -> Nat]
    BY DEF IInv, Types
  <2> QED BY <1>9, <1>20, <2>1
<1>26. watchedFor' \in [Fillable -> Levels] /\ watchedFor'[tp] = i /\ watchedFor'[sl] = i
       /\ \A a \in Fillable : a \notin {tp, sl} => watchedFor'[a] = watchedFor[a]
  <2>1. watchedFor \in [Fillable -> Levels]
    BY DEF IInv, Types
  <2> QED BY <1>3, <1>7, <1>9, <2>1
<1>27. PICK l2 : l2 = [l EXCEPT !.tp = tp, !.sl = sl]
  OBVIOUS
<1>28. /\ l2 \in LevelRecords /\ l2 # None /\ l2.mo = g /\ l2.tp = tp /\ l2.sl = sl
       /\ l2.side = l.side /\ l2.price = l.price
  BY <1>3, <1>8, <1>27, LevelsAreNotNone DEF LevelRecords
<1>29. /\ m_orders_by_levels' = [m_orders_by_levels EXCEPT ![i] = l2]
       /\ m_orders_by_levels' \in [Levels -> LevelRecords \cup {None}]
       /\ \A k \in Levels : m_orders_by_levels'[k] = IF k = i THEN l2 ELSE m_orders_by_levels[k]
  <2>1. m_orders_by_levels \in [Levels -> LevelRecords \cup {None}]
    BY DEF IInv, Types
  <2>2. m_orders_by_levels' = [m_orders_by_levels EXCEPT ![i] = l2]
    <3>1. PICK f : f = [m_orders_by_levels EXCEPT ![i] = [@ EXCEPT !.tp = tp]]
      OBVIOUS
    <3>2. m_orders_by_levels' = [f EXCEPT ![i] = [@ EXCEPT !.sl = sl]]
      BY <1>7, <3>1
    <3>3. l2 = [[l EXCEPT !.tp = tp] EXCEPT !.sl = sl]
      BY <1>27
    <3> QED BY <1>2, <1>3, <2>1, <3>1, <3>2, <3>3
  <2> QED BY <1>3, <1>28, <2>1, <2>2
<1>30. PICK k, k2 : k = m_conditionals /\ k2 = m_conditionals \cup {tp, sl}
  OBVIOUS
<1>31. InTurn(queue', k2)
  <2>1. Kind(h, k) = "entered"
    BY <1>9, <1>22 DEF Kind
  <2>2. \A e \in ToSet(q) : Kind(e, k) \in Follow(Kind(h, k))
    BY <1>23, <1>30
  <2>3. \A e \in ToSet(q) : Kind(e, k) \in {"entered", "exit"}
    BY <2>1, <2>2 DEF Follow
  <2>4. \A e \in ToSet(q) : Kind(e, k) = Kind(e, k2)
    <3> SUFFICES ASSUME NEW e \in ToSet(q) PROVE Kind(e, k) = Kind(e, k2)
      OBVIOUS
    <3>1. e.event = "Candle" \/ e.guid \notin {tp, sl}
      BY <1>10, <1>23
    <3>2. e.event # "Candle" => (e.guid \in k <=> e.guid \in k2)
      BY <1>30, <3>1
    <3> QED BY <3>2 DEF Kind
  <2>5. InTurn(q, k2)
    BY <1>23, <1>30, <2>4, InTurnSameKinds
  <2>6. \A e \in ToSet(x) : Kind(e, k2) = "exit"
    <3> SUFFICES ASSUME NEW e \in ToSet(x) PROVE Kind(e, k2) = "exit"
      OBVIOUS
    <3>1. e.event \in {"Trade", "ConditionalUpdated"} /\ e.guid \in k2
      BY <1>15, <1>18, <1>30
    <3>2. e.guid \notin Orders
      BY <1>9, <1>18, Tables, Parted
    <3> QED BY <3>1, <3>2 DEF Kind
  <2>7. InTurn(x, k2)
    <3>1. "exit" \in Follow("exit")
      BY DEF Follow
    <3> QED BY <1>15, <2>6, <3>1, InTurnOfOne
  <2>8. \A a \in ToSet(q), b \in ToSet(x) : Kind(b, k2) \in Follow(Kind(a, k2))
    BY <2>3, <2>4, <2>6 DEF Follow
  <2>9. InTurn(q \o x, k2)
    BY <1>15, <1>23, <2>5, <2>7, <2>8, InTurnConcat
  <2> QED BY <1>19, <2>9
<1>32. Types'
  <2>1. Types
    BY DEF IInv
  <2>2. created' \subseteq Fillable
    BY <1>9, <1>20, <2>1 DEF Types
  <2> QED BY <1>19, <1>20, <1>21, <1>24, <1>25, <1>26, <1>29, <2>1, <2>2 DEF Types
<1>33. \A a \in Fillable : a \notin {tp, sl} =>
         LevelOf(a)' = IF watchedFor[a] = i THEN l2 ELSE LevelOf(a)
  <2>1. \A a \in Fillable : watchedFor[a] \in Levels
    BY Tables
  <2> QED BY <1>26, <1>29, <2>1 DEF LevelOf
<1>34. LevelOf(tp)' = l2 /\ LevelOf(sl)' = l2
  BY <1>3, <1>26, <1>29 DEF LevelOf
<1>35. \A a \in Fillable : watchedFor[a] = i => LevelOf(a) = l
  BY <1>2 DEF LevelOf
<1>36. Known'
  <2>1. Known
    BY DEF IInv
  <2>2. \A a \in Orders \cup Conditionals : a \in Fillable
    BY Parted
  <2>3. m_orders' = {o \in Orders : LevelOf(o)' # None /\ LevelOf(o)'.mo = o}
    <3> SUFFICES ASSUME NEW o \in Orders
                 PROVE  o \in m_orders <=> LevelOf(o)' # None /\ LevelOf(o)'.mo = o
      BY <1>20, <2>1 DEF Known
    <3>1. o \in m_orders <=> LevelOf(o) # None /\ LevelOf(o).mo = o
      BY <2>1 DEF Known
    <3>2. o \notin {tp, sl} /\ o \in Fillable
      BY <1>9, <2>2
    <3> QED BY <1>3, <1>28, <1>33, <1>35, <3>1, <3>2
  <2>4. m_conditionals' =
          {c \in Conditionals : LevelOf(c)' # None /\ c \in {LevelOf(c)'.tp, LevelOf(c)'.sl}}
    <3> SUFFICES ASSUME NEW c \in Conditionals
                 PROVE  c \in m_conditionals \cup {tp, sl} <=>
                          LevelOf(c)' # None /\ c \in {LevelOf(c)'.tp, LevelOf(c)'.sl}
      BY <1>9, <1>20, <2>1 DEF Known
    <3>1. c \in m_conditionals <=> LevelOf(c) # None /\ c \in {LevelOf(c).tp, LevelOf(c).sl}
      BY <2>1 DEF Known
    <3>2. c \in Fillable /\ c # None
      BY <2>2, NoneIsNoGuid
    <3>3. CASE c \in {tp, sl}
      BY <1>28, <1>34, <3>3
    <3>4. CASE c \notin {tp, sl}
      <4>1. LevelOf(c)' = IF watchedFor[c] = i THEN l2 ELSE LevelOf(c)
        BY <1>33, <3>2, <3>4
      <4>2. CASE watchedFor[c] = i
        <5>1. c \notin m_conditionals
          BY <1>3, <1>35, <3>1, <3>2, <4>2
        <5> QED BY <1>28, <3>4, <4>1, <4>2, <5>1
      <4>3. CASE watchedFor[c] # i
        BY <3>1, <3>4, <4>1, <4>3
      <4> QED BY <4>2, <4>3
    <3> QED BY <3>3, <3>4
  <2>5. subscribed' = m_orders' \cup m_conditionals' /\ subscribed' \subseteq created'
    BY <1>20, <2>1 DEF Known
  <2> QED BY <2>3, <2>4, <2>5 DEF Known
<1>37. NoGridErrors'
  <2>1. NoGridErrors
    BY DEF IInv
  <2> QED BY <1>7, <1>20, <2>1 DEF NoGridErrors
<1>38. LevelsMade'
  <2> SUFFICES ASSUME NEW j \in Levels, m_orders_by_levels'[j] # None
               PROVE  LET a == m_orders_by_levels'[j]
                      IN /\ j # 0 /\ a.side = -Sign(j) /\ watchedFor'[a.mo] = j
                         /\ a.tp = None <=> a.sl = None
                         /\ a.tp # None => watchedFor'[a.tp] = j /\ watchedFor'[a.sl] = j
                         /\ strategy' = "StaticGrid" => interval'.previous # None
    BY DEF LevelsMade
  <2>1. CASE j = i
    <3>1. m_orders_by_levels'[j] = l2
      BY <1>29, <2>1
    <3>2. watchedFor'[g] = i
      BY <1>1, <1>9, <1>26
    <3> QED BY <1>3, <1>9, <1>21, <1>26, <1>28, <2>1, <3>1, <3>2
  <2>2. CASE j # i
    <3>1. PICK a : a = m_orders_by_levels[j]
      OBVIOUS
    <3>2. m_orders_by_levels'[j] = a /\ a # None /\ a \in LevelRecords
      <4>1. m_orders_by_levels \in [Levels -> LevelRecords \cup {None}]
        BY DEF IInv, Types
      <4> QED BY <1>29, <2>2, <3>1, <4>1
    <3>3. /\ j # 0 /\ a.side = -Sign(j) /\ watchedFor[a.mo] = j
          /\ a.tp = None <=> a.sl = None
          /\ a.tp # None => watchedFor[a.tp] = j /\ watchedFor[a.sl] = j
          /\ strategy = "StaticGrid" => interval.previous # None
      BY <3>1, <3>2 DEF IInv, LevelsMade
    <3>4. a.mo \in Orders /\ a.tp \in TakeProfits \cup {None} /\ a.sl \in StopLosses \cup {None}
      BY <3>2 DEF LevelRecords
    <3>5. watchedFor'[a.mo] = j
      <4>1. a.mo \in Fillable /\ a.mo \notin {tp, sl}
        BY <1>9, <3>4, Parted
      <4> QED BY <1>26, <3>3, <4>1
    <3>6. a.tp # None => watchedFor'[a.tp] = j /\ watchedFor'[a.sl] = j
      <4> SUFFICES ASSUME a.tp # None PROVE watchedFor'[a.tp] = j /\ watchedFor'[a.sl] = j
        OBVIOUS
      <4>1. a.tp \in Conditionals /\ a.sl \in Conditionals
        BY <3>3, <3>4 DEF Conditionals
      <4>2. LevelOf(a.tp) = a /\ LevelOf(a.sl) = a
        BY <3>1, <3>3 DEF LevelOf
      <4>3. a.tp \in m_conditionals /\ a.sl \in m_conditionals
        BY <3>2, <4>1, <4>2 DEF IInv, Known
      <4>4. a.tp \notin {tp, sl} /\ a.sl \notin {tp, sl}
        BY <1>10, <4>3
      <4>5. a.tp \in Fillable /\ a.sl \in Fillable
        BY <4>1, Parted
      <4> QED BY <1>26, <3>3, <4>4, <4>5
    <3> QED BY <1>21, <3>2, <3>3, <3>5, <3>6
  <2> QED BY <2>1, <2>2
<1>39. \A a : IsList(a) => a \o <<>> = a /\ <<>> \o a = a
  BY LiteralLists
<1>40. EntriesInTurn'
  <2> SUFFICES ASSUME NEW a \in m_orders
               PROVE  EntryState(a, LevelOf(a)'.tp, target'[a], filled[a], traded, About(queue', a))
    BY <1>20 DEF EntriesInTurn
  <2>1. EntryState(a, LevelOf(a).tp, target[a], filled[a], traded, About(queue, a))
    BY DEF IInv, EntriesInTurn
  <2>2. a \in Orders /\ a \in Fillable /\ a \notin {tp, sl} /\ a \notin m_conditionals
    BY <1>9, Tables, Parted
  <2>3. About(queue', a) = About(q, a)
    <3> DEFINE n == <<>>
    <3>1. \A e \in ToSet(x) : e.event = "Candle" \/ e.guid # a
      BY <1>18, <2>2
    <3>2. About(x, a) = n
      BY <1>15, <3>1, SaysOfOthers
    <3>3. About(queue', a) = About(q, a) \o n
      BY <1>24, <3>2
    <3>4. About(q, a) \o n = About(q, a)
      BY <1>23, <1>39
    <3> QED BY <3>3, <3>4
  <2>4. target'[a] = target[a]
    BY <1>25, <2>2
  <2>5. CASE a = g
    <3>1. LevelOf(a)'.tp # None
      BY <1>1, <1>9, <1>28, <1>33, <2>2, <2>5
    <3>2. About(queue', a) = <<>>
      BY <1>0, <2>3, <2>5
    <3>3. target[a] = 1
      BY <2>1 DEF EntryState
    <3> QED BY <2>4, <2>5, <3>1, <3>2, <3>3 DEF EntryState
  <2>6. CASE a # g
    <3>1. LevelOf(a).mo = a
      BY DEF IInv, Known
    <3>2. watchedFor[a] # i
      BY <1>3, <1>35, <2>2, <2>6, <3>1
    <3>3. LevelOf(a)' = LevelOf(a)
      BY <1>33, <2>2, <3>2
    <3>4. About(queue, a) = About(q, a)
      BY <1>22, <1>23, <2>6
    <3> QED BY <2>1, <2>3, <2>4, <3>3, <3>4
  <2> QED BY <2>5, <2>6
<1>41. ExitsInTurn'
  <2> SUFFICES ASSUME NEW c \in m_conditionals \cup {tp, sl}
               PROVE  /\ c \notin cancelRequested
                      /\ ExitState(c, target'[c], filled[c], suspendedVolume[c], News(queue', c),
                                   GuidsAt(gateway'), ToSet(queue'))
    BY <1>20 DEF ExitsInTurn
  <2>1. News(queue', c) = News(q, c) \o News(x, c)
    BY <1>24
  <2>2. CASE c \in m_conditionals
    <3>1. /\ c \notin cancelRequested
          /\ ExitState(c, target[c], filled[c], suspendedVolume[c], News(queue, c),
                       GuidsAt(gateway), ToSet(queue))
      BY <2>2 DEF IInv, ExitsInTurn
    <3>2. c \notin {tp, sl} /\ c \in Fillable /\ c \notin Orders
      BY <1>10, <2>2, Tables, Parted
    <3>3. News(queue, c) = News(q, c) /\ IsList(News(q, c))
      BY <1>22, <1>23
    <3>4. UpdatedEvent(c) \in ToSet(queue) => UpdatedEvent(c) \in ToSet(queue')
      <4>1. UpdatedEvent(c).guid = c
        BY EventFields
      <4>2. UpdatedEvent(c) # h
        BY <1>9, <1>22, <3>2, <4>1
      <4> QED BY <1>23, <1>24, <4>2
    <3>5. c \notin Guids({TP, SL})
      BY <1>11, <3>2 DEF Guids
    <3>6. PICK n, E, F : n = News(q, c) /\ E = ToSet(queue) /\ F = ToSet(queue')
      OBVIOUS
    <3>7. ExitState(c, target[c], filled[c], suspendedVolume[c], n, GuidsAt(gateway), E)
      BY <3>1, <3>3, <3>6
    <3>8. UpdatedEvent(c) \in E => UpdatedEvent(c) \in F
      BY <3>4, <3>6
    <3>9. ExitState(c, target[c], filled[c], suspendedVolume[c], n \o News(r.events, c), GuidsAt(r), F)
      <4>1. IsList(n)
        BY <3>3, <3>6
      <4> QED BY <1>12, <1>13, <3>5, <3>7, <3>8, <4>1, ExitReacts
    <3>10. News(queue', c) = n \o News(r.events, c)
      BY <1>14, <2>1, <3>6
    <3>11. target'[c] = target[c]
      BY <1>25, <3>2
    <3> QED BY <1>19, <3>1, <3>6, <3>9, <3>10, <3>11
  <2>3. CASE c \in {tp, sl}
    <3>1. PICK o \in {TP, SL} : o.guid = c
      BY <1>11, <2>3
    <3>2. PICK F : F = ToSet(queue')
      OBVIOUS
    <3>3. ExitState(o.guid, 1, 0, 0, News(r.events, o.guid), GuidsAt(r), F)
      <4>1. Alone(o, {TP, SL})
        BY <1>9, <1>11, <3>1 DEF Alone
      <4>2. o.guid \notin GuidsAt(gateway)
        BY <1>10, <2>3, <3>1
      <4>3. PICK gw, S : gw = gateway /\ S = {TP, SL}
        OBVIOUS
      <4>4. /\ Reacts(gw, r, S, fired) /\ Alone(o, S) /\ o.guid \notin GuidsAt(gw)
            /\ o \in ExitOrders(Conditionals)
        <5>1. o \in ExitOrders(Conditionals)
          BY <1>11, <3>1 DEF ExitOrders, Conditionals
        <5> QED BY <1>13, <4>1, <4>2, <4>3, <5>1
      <4> QED BY ONLY <4>4, AddedReacts
    <3>4. News(queue', c) = News(x, c)
      <4> DEFINE n == <<>>
      <4>1. \A e \in ToSet(q) : e.event \in {"Candle", "Updated"} \/ e.guid # c
        BY <1>10, <1>23, <2>3
      <4>2. News(q, c) = n
        BY <1>23, <4>1, SaysOfOthers
      <4>3. IsList(News(x, c))
        BY <1>15, SaysList
      <4>4. n \o News(x, c) = News(x, c)
        BY <1>39, <4>3
      <4> HIDE DEF n
      <4> QED BY <2>1, <4>2, <4>4
    <3>5. target'[c] = 1 /\ filled[c] = 0 /\ suspendedVolume[c] = 0 /\ c \notin cancelRequested
      BY <1>10, <1>25, <2>3
    <3> QED BY <1>14, <1>19, <3>1, <3>2, <3>3, <3>4, <3>5
  <2> QED BY <2>2, <2>3
<1>42. NothingElse'
  <2>1. NothingElse
    BY DEF IInv
  <2>2. GuidsAt(gateway') \subseteq m_conditionals'
    BY <1>17, <1>19, <1>20
  <2>3. \A e \in ToSet(queue') :
          \/ e.event = "Candle" \/ e.guid \in subscribed'
          \/ e.guid \in created' \cap Conditionals /\ e = ConditionalUpdatedEvent(e.guid, FALSE)
    <3>1. \A e \in ToSet(x) : e.guid \in subscribed'
      BY <1>18, <1>20, Tables
    <3>2. \A e \in ToSet(q) :
            \/ e.event = "Candle" \/ e.guid \in subscribed'
            \/ e.guid \in created' \cap Conditionals /\ e = ConditionalUpdatedEvent(e.guid, FALSE)
      BY <1>20, <1>23, <2>1 DEF NothingElse
    <3> QED BY <1>24, <3>1, <3>2
  <2>4. \A a \in Fillable \ created' :
          filled[a] = 0 /\ target'[a] = 0 /\ a \notin traded /\ a \notin cancelRequested
    BY <1>20, <1>25, <2>1 DEF NothingElse
  <2>5. \A c \in Conditionals \ created' : suspendedVolume[c] = 0
    BY <1>20, <2>1 DEF NothingElse
  <2> QED BY <1>20, <2>2, <2>3, <2>4, <2>5 DEF NothingElse
<1>43. InTurn(queue', m_conditionals')
  BY <1>20, <1>30, <1>31
<1> QED BY <1>32, <1>36, <1>37, <1>38, <1>40, <1>41, <1>42, <1>43 DEF IInv

LEMMA UpdatedKeeps ==
  ASSUME IInv, OrderUpdated
  PROVE  IInv'
<1>0. PICK g : g = Head(queue).guid
  OBVIOUS
<1>1. /\ Runs("Updated") /\ UNCHANGED <<centreVars, pricesSeen>>
      /\ IF status(g) # "Filled" THEN Ignored
         ELSE IF g \in Orders THEN on_order_traded(watchedFor[g])
         ELSE on_exit_traded(watchedFor[g], g)
  BY <1>0 DEF OrderUpdated
<1>2. /\ g \in Orders =>
           /\ g \in m_orders /\ status(g) = "Filled" /\ filled[g] = 1
           /\ LevelOf(g).tp = None /\ About(Tail(queue), g) = <<>>
      /\ g \notin Orders => g \in m_conditionals /\ (status(g) = "Filled" <=> filled[g] = 1)
  BY <1>0, <1>1, UpdateSays
<1>3. CASE g \in Orders
  <2>1. on_order_traded(watchedFor[g])
    BY <1>1, <1>2, <1>3
  <2>2. UNCHANGED centreVars
    BY <1>1
  <2>3. g \in m_orders /\ filled[g] = 1 /\ LevelOf(g).tp = None /\ About(Tail(queue), g) = <<>>
    BY <1>2, <1>3
  <2> QED BY <1>0, <1>1, <2>1, <2>2, <2>3, OpenKeeps
<1>4. CASE g \notin Orders /\ status(g) = "Filled"
  <2>1. on_exit_traded(watchedFor[g], g) /\ g \in m_conditionals
    BY <1>1, <1>2, <1>4
  <2>2. UNCHANGED centreVars
    BY <1>1
  <2> QED BY <1>0, <1>1, <2>1, <2>2, CloseKeeps
<1>5. CASE g \notin Orders /\ status(g) # "Filled"
  <2>1. Ignored
    BY <1>1, <1>5
  <2>2. queue # <<>> /\ Head(queue).event = "Updated"
    BY <1>1 DEF Runs
  <2>3. queue' = Tail(queue)
        /\ UNCHANGED <<omVars, gateway, m_orders_by_levels, watchedFor, gridErrors>>
    BY <2>1 DEF Ignored
  <2>4. IntervalKeeps
    BY <1>1 DEF IntervalKeeps, centreVars, IInv, Types
  <2>5. g \notin m_orders /\ filled[g] # 1
    BY <1>2, <1>5, Tables
  <2> QED BY <1>0, <2>2, <2>3, <2>4, <2>5, PoppedKeeps
<1> QED BY <1>2, <1>3, <1>4, <1>5

LEMMA StutterKeeps ==
  ASSUME IInv, UNCHANGED vars
  PROVE  IInv'
<1>1. /\ Types' /\ Known' /\ LevelsMade' /\ InTurn(queue', m_conditionals')
  BY DEF IInv, Types, Known, LevelsMade, LevelOf, vars, omVars, gridVars, centreVars
<1>2. EntriesInTurn' /\ ExitsInTurn' /\ NothingElse'
  BY DEF IInv, EntriesInTurn, ExitsInTurn, NothingElse, LevelOf, vars, omVars, gridVars
<1>3. NoGridErrors'
  BY DEF IInv, NoGridErrors, vars, omVars, gridVars
<1> QED BY <1>1, <1>2, <1>3 DEF IInv

LEMMA StepKeepsInvariant ==
  ASSUME IInv, [Next]_vars
  PROVE  IInv'
<1>1. CASE \E price \in PricesOf[strategy], candles \in 0 .. MaxCandles : NewPrice(price, candles)
  BY <1>1, NewPriceKeeps
<1>2. CASE \E trend \in Trends, banned \in BOOLEAN : push_candle(trend, banned)
  BY <1>2, PushCandleKeeps
<1>3. CASE push_candle_static
  BY <1>3, PushCandleStaticKeeps
<1>4. CASE OrderManagerHandles
  BY <1>4, HandlesKeeps
<1>5. CASE OrderUpdated
  BY <1>5, UpdatedKeeps
<1>6. CASE UNCHANGED vars
  BY <1>6, StutterKeeps
<1> QED BY <1>1, <1>2, <1>3, <1>4, <1>5, <1>6 DEF Next

(* The order manager, the queue, the gateway and the levels agree at any moment about how
   far each order of each level has come. *)
THEOREM OrdersInTurn == Spec => []IInv
<1>1. IInv /\ [Next]_vars => IInv'
  BY StepKeepsInvariant
<1> QED BY <1>1, InitIsInvariant, PTL DEF Spec

(* No error branch of a grid is ever taken, whatever the prices, the widths and the number
   of the levels. *)
THEOREM GridsMeetNoErrors == Spec => []NoGridErrors
<1>1. IInv => NoGridErrors
  BY DEF IInv
<1> QED BY <1>1, OrdersInTurn, PTL

(* When the events of a price are handled, both exits of each open level rest at the
   gateway, and nothing else. *)
LEMMA QuietLevels ==
  ASSUME IInv
  PROVE  EveryLevelHasBothExits
<1> SUFFICES ASSUME Quiet
             PROVE  /\ RestingGuids =
                         UNION {{m_orders_by_levels[l].tp, m_orders_by_levels[l].sl} : l \in OpenLevels}
                    /\ RestingGuids = m_conditionals
                    /\ \A c \in m_conditionals : c \in subscribed /\ status(c) = "Suspended"
  BY DEF EveryLevelHasBothExits
<1>1. Types /\ Known /\ LevelsMade /\ NothingElse
  BY DEF IInv
<1>2. \A a : About(queue, a) = <<>> /\ News(queue, a) = <<>>
  BY SaysNothing DEF Quiet
<1>3. ToSet(queue) = {}
  BY ToSetNothing DEF Quiet
<1>4. \A c \in m_conditionals :
        /\ c \notin cancelRequested /\ c \in GuidsAt(gateway)
        /\ target[c] = 1 /\ suspendedVolume[c] = 1
  <2> SUFFICES ASSUME NEW c \in m_conditionals
               PROVE  /\ c \notin cancelRequested /\ c \in GuidsAt(gateway)
                      /\ target[c] = 1 /\ suspendedVolume[c] = 1
    OBVIOUS
  <2> DEFINE n == <<>>
  <2>1. /\ c \notin cancelRequested
        /\ ExitState(c, target[c], filled[c], suspendedVolume[c], News(queue, c),
                     GuidsAt(gateway), ToSet(queue))
    BY DEF IInv, ExitsInTurn
  <2>2. ExitState(c, target[c], filled[c], suspendedVolume[c], n, GuidsAt(gateway), {})
    BY <1>2, <1>3, <2>1
  <2>3. n # Sent(c) /\ n \notin Executions(c) /\ \A x \in Executions(c) : n # Sent(c) \o x
    <3>1. \A a : IsList(<<a>>) /\ <<a>> # n
      BY LiteralLists
    <3>2. \A h, a : IsList(a) => <<h>> \o a # n
      BY NotNothing
    <3>3. IsList(Gone(c))
      BY <3>1 DEF Gone
    <3>4. n # Sent(c)
      BY <3>1 DEF Sent
    <3>5. \A x \in Executions(c) : IsList(x) /\ x # n
      <4> SUFFICES ASSUME NEW x \in Executions(c) PROVE IsList(x) /\ x # n
        OBVIOUS
      <4>1. PICK t \in TradesOf(c) : x = <<t>> \o Gone(c)
        BY DEF Executions
      <4>2. IsList(<<t>> \o Gone(c))
        BY <3>1, <3>3, ListConcat
      <4> QED BY <3>2, <3>3, <4>1, <4>2
    <3>6. \A x \in Executions(c) : n # Sent(c) \o x
      BY <3>2, <3>5 DEF Sent
    <3> QED BY <3>4, <3>5, <3>6
  <2> HIDE DEF n
  <2> QED BY <2>1, <2>2, <2>3 DEF ExitState
<1>5. RestingGuids = m_conditionals
  <2>1. RestingGuids = GuidsAt(gateway)
    BY DEF RestingGuids, GuidsAt, AtGateway
  <2> QED BY <1>1, <1>4, <2>1 DEF NothingElse
<1>6. \A c \in m_conditionals : c \in subscribed /\ status(c) = "Suspended"
  <2> SUFFICES ASSUME NEW c \in m_conditionals PROVE c \in subscribed /\ status(c) = "Suspended"
    OBVIOUS
  <2>1. c \in Conditionals /\ c \in subscribed /\ rejected = {}
    BY <1>1, Tables DEF Types
  <2> QED BY <1>4, <2>1 DEF status
<1>7. \A l \in OpenLevels : LET o == m_orders_by_levels[l]
                            IN o.tp \in m_conditionals /\ o.sl \in m_conditionals
  <2> SUFFICES ASSUME NEW l \in Levels, NEW o, o = m_orders_by_levels[l], o # None
               PROVE  o.tp \in m_conditionals /\ o.sl \in m_conditionals
    BY DEF OpenLevels
  <2>1. o.mo \in Orders /\ o.tp \in TakeProfits \cup {None} /\ o.sl \in StopLosses \cup {None}
    BY <1>1 DEF Types, LevelRecords
  <2>2. watchedFor[o.mo] = l /\ (o.tp = None <=> o.sl = None)
        /\ (o.tp # None => watchedFor[o.tp] = l /\ watchedFor[o.sl] = l)
    BY <1>1 DEF LevelsMade
  <2>3. o.mo \in m_orders /\ LevelOf(o.mo) = o
    BY <1>1, <2>1, <2>2 DEF Known, LevelOf
  <2>4. o.tp # None
    <3>1. EntryState(o.mo, o.tp, target[o.mo], filled[o.mo], traded, About(queue, o.mo))
      BY <2>3 DEF IInv, EntriesInTurn
    <3> DEFINE n == <<>>
    <3>2. EntryState(o.mo, o.tp, target[o.mo], filled[o.mo], traded, n)
      BY <1>2, <3>1
    <3>3. \A a : <<a>> # n
      BY LiteralLists
    <3>4. \A a, b : <<a>> \o <<b>> # n
      BY LiteralLists, NotNothing
    <3> HIDE DEF n
    <3> QED BY <3>2, <3>3, <3>4 DEF EntryState
  <2>5. o.tp \in Conditionals /\ o.sl \in Conditionals
    BY <2>1, <2>2, <2>4 DEF Conditionals
  <2> QED BY <1>1, <2>2, <2>4, <2>5 DEF Known, LevelOf
<1>8. m_conditionals =
        UNION {{m_orders_by_levels[l].tp, m_orders_by_levels[l].sl} : l \in OpenLevels}
  <2>1. ASSUME NEW c \in m_conditionals
        PROVE  \E l \in OpenLevels : c \in {m_orders_by_levels[l].tp, m_orders_by_levels[l].sl}
    <3>1. LevelOf(c) # None /\ c \in {LevelOf(c).tp, LevelOf(c).sl} /\ watchedFor[c] \in Levels
      BY <1>1, Tables, Parted DEF Known
    <3> QED BY <3>1 DEF OpenLevels, LevelOf
  <2> QED BY <1>7, <2>1
<1> QED BY <1>5, <1>6, <1>8

THEOREM LevelsHaveBothExits == Spec => []EveryLevelHasBothExits
BY OrdersInTurn, QuietLevels, PTL

-----------------------------------------------------------------------------
(* What a step does to the levels and at the gateway *)

Moved(price, added, fired) ==
  /\ fired \subseteq AtGateway(gateway) \cup added
  /\ AtGateway(gateway') = (AtGateway(gateway) \cup added) \ fired
  /\ gateway'.m_last_price = price
  /\ \A o \in fired : Reached(o, price)
  /\ ClosesLots(gateway.m_pos_volume, gateway'.m_pos_volume, fired)

Priced(price, fired) ==
  /\ queue = <<>> /\ price \in Int /\ Moved(price, {}, fired)
  /\ UNCHANGED <<strategy, m_orders_by_levels, watchedFor, m_conditionals>>

Entering(l, o) ==
  /\ l \in Levels /\ l # 0 /\ o \in Orders /\ m_orders_by_levels[l] = None
  /\ m_orders_by_levels' =
       [m_orders_by_levels EXCEPT ![l] =
          [mo |-> o, side |-> -Sign(l), price |-> gateway.m_last_price, tp |-> None, sl |-> None]]
  /\ watchedFor' = [watchedFor EXCEPT ![o] = l]
  /\ AtGateway(gateway') = AtGateway(gateway)
  /\ gateway'.m_last_price = gateway.m_last_price
  /\ gateway'.m_pos_volume = gateway.m_pos_volume - Sign(l)
  /\ UNCHANGED <<strategy, m_conditionals>>

Opening(i, l, TP, SL, fired) ==
  /\ i \in Levels /\ l = m_orders_by_levels[i] /\ l \in LevelRecords /\ l.tp = None
  /\ TP \in ExitOrders(TakeProfits) /\ SL \in ExitOrders(StopLosses)
  /\ TP.guid \notin m_conditionals /\ SL.guid \notin m_conditionals
  /\ TP.side = -l.side /\ SL.side = -l.side
  /\ TP.trigger = calc_tp_price(l.price, l.side, Centre) /\ SL.trigger = StopPriceOf(l)
  /\ Centre \in Int
  /\ m_orders_by_levels' =
       [m_orders_by_levels EXCEPT ![i] = [l EXCEPT !.tp = TP.guid, !.sl = SL.guid]]
  /\ watchedFor' = [watchedFor EXCEPT ![TP.guid] = i, ![SL.guid] = i]
  /\ m_conditionals' = m_conditionals \cup {TP.guid, SL.guid}
  /\ Moved(gateway.m_last_price, {TP, SL}, fired)
  /\ UNCHANGED strategy

Closing(i, l, g) ==
  /\ i \in Levels /\ l = m_orders_by_levels[i] /\ l # None /\ g \in {l.tp, l.sl}
  /\ l.tp \in TakeProfits /\ l.sl \in StopLosses
  /\ watchedFor[l.tp] = i /\ watchedFor[l.sl] = i
  /\ g \in m_conditionals \ GuidsAt(gateway)
  /\ m_orders_by_levels' = [m_orders_by_levels EXCEPT ![i] = None]
  /\ m_conditionals' = m_conditionals \ {l.tp, l.sl}
  /\ AtGateway(gateway') = {o \in AtGateway(gateway) : o.guid \notin {l.tp, l.sl}}
  /\ gateway'.m_last_price = gateway.m_last_price
  /\ gateway'.m_pos_volume = gateway.m_pos_volume
  /\ UNCHANGED <<strategy, watchedFor>>

Staying ==
  /\ UNCHANGED <<strategy, gateway, m_orders_by_levels, watchedFor>>
  /\ m_conditionals' \subseteq m_conditionals

PriceSteps   == \E price, fired : Priced(price, fired)
EntrySteps   == \E l, o : Entering(l, o)
OpeningSteps == \E i, l, TP, SL, fired : Opening(i, l, TP, SL, fired)
ClosingSteps == \E i, l, g : Closing(i, l, g)

LEMMA PriceIsServed ==
  ASSUME IInv, NEW price \in PricesOf[strategy], NEW candles \in 0 .. MaxCandles,
         NewPrice(price, candles)
  PROVE  PriceSteps
<1>1. PICK gw : gw = on_new_price(gateway, price)
  OBVIOUS
<1>2. /\ queue = <<>> /\ gateway' = [gw EXCEPT !.events = <<>>]
      /\ UNCHANGED <<strategy, m_orders_by_levels, watchedFor, m_conditionals>>
  BY <1>1 DEF NewPrice, omVars, centreVars
<1>3. price \in Int /\ IsBook(gateway) /\ gateway.events = <<>>
  <2>1. strategy \in Strategy /\ IsBook(gateway) /\ gateway.events = <<>>
    BY DEF IInv, Types
  <2>2. PricesOf[strategy] \subseteq Int
    BY <2>1, PricesAreIntegers DEF Strategy
  <2> QED BY <2>1, <2>2
<1>4. PICK g : g = Book(gateway.m_pos_volume, price, gateway.m_take_profits,
                        gateway.m_stop_losses, gateway.events)
  OBVIOUS
<1>5. /\ g.m_last_price = price /\ g.m_pos_volume = gateway.m_pos_volume
      /\ AtGateway(g) = AtGateway(gateway)
      /\ \E fired : Reacts(g, gw, {}, fired)
  BY <1>1, <1>3, <1>4, PriceReacts
<1>6. PICK fired : Reacts(g, gw, {}, fired)
  BY <1>5
<1>7. /\ IsBook(gw) /\ gw.m_last_price = price /\ fired \subseteq AtGateway(gateway) \cup {}
      /\ AtGateway(gw) = (AtGateway(gateway) \cup {}) \ fired
      /\ \A o \in fired : Reached(o, price)
      /\ ClosesLots(gateway.m_pos_volume, gw.m_pos_volume, fired)
  BY <1>5, <1>6 DEF Reacts
<1>8. /\ AtGateway(gateway') = AtGateway(gw) /\ gateway'.m_last_price = gw.m_last_price
      /\ gateway'.m_pos_volume = gw.m_pos_volume
  BY <1>2, <1>7, HandedOver
<1>9. Moved(price, {}, fired)
  BY <1>7, <1>8 DEF Moved
<1> QED BY <1>2, <1>3, <1>9 DEF PriceSteps, Priced

LEMMA LevelIsEntered ==
  ASSUME IInv, NEW level \in Int, NEW banned, Enters(level, banned), strategy' = strategy
  PROVE  EntrySteps \/ Staying
<1>1. CASE ~WantsOrder(level, banned)
  BY <1>1 DEF Enters, omVars, Staying
<1>2. CASE WantsOrder(level, banned)
  <2>1. PICK o, side : o = NextGuid(Orders) /\ side = -Sign(level)
    OBVIOUS
  <2>2. PICK gw : gw = push_order_request(gateway, o, side)
    OBVIOUS
  <2>3. level \in Levels /\ level # 0 /\ m_orders_by_levels[level] = None
    BY <1>2, SidesHaveLevels DEF WantsOrder, Magnitude, Levels
  <2>4. side \in {-1, 1} /\ side \in Int /\ Sign(level) \in Int
    BY <2>1, <2>3, SignIsSide
  <2>5. /\ send_market_order(o, 1, TRUE)
        /\ gateway' = [gw EXCEPT !.events = <<>>]
        /\ m_orders_by_levels' =
             [m_orders_by_levels EXCEPT ![level] =
                [mo |-> o, side |-> -Sign(level), price |-> gateway.m_last_price, tp |-> None, sl |-> None]]
        /\ watchedFor' = [watchedFor EXCEPT ![o] = level]
    BY <1>2, <2>1, <2>2 DEF Enters, Calls
  <2>6. o \in Orders /\ m_conditionals' = m_conditionals
    BY <2>5 DEF send_market_order
  <2>7. IsBook(gateway) /\ gateway.events = <<>> /\ gateway.m_pos_volume \in Int
    BY DEF IInv, Types, IsBook
  <2>8. /\ IsBook(gw) /\ AtGateway(gw) = AtGateway(gateway)
        /\ gw.m_pos_volume = gateway.m_pos_volume + side
        /\ gw.m_last_price = gateway.m_last_price
    BY <2>2, <2>4, <2>7, PushOrder
  <2>9. /\ AtGateway(gateway') = AtGateway(gw) /\ gateway'.m_pos_volume = gw.m_pos_volume
        /\ gateway'.m_last_price = gw.m_last_price
    BY <2>5, <2>8, HandedOver
  <2>10. gateway'.m_pos_volume = gateway.m_pos_volume - Sign(level)
    BY <2>1, <2>4, <2>7, <2>8, <2>9
  <2>11. Entering(level, o)
    BY <2>3, <2>5, <2>6, <2>8, <2>9, <2>10 DEF Entering
  <2> QED BY <2>11 DEF EntrySteps
<1> QED BY <1>1, <1>2

LEMMA EntryIsTraded ==
  ASSUME IInv, Runs("Updated"), NEW g \in m_orders, filled[g] = 1,
         LevelOf(g).tp = None, on_order_traded(watchedFor[g]), strategy' = strategy
  PROVE  OpeningSteps
<1>1. PICK i : i = watchedFor[g]
  OBVIOUS
<1>2. PICK l : l = m_orders_by_levels[i]
  OBVIOUS
<1>3. /\ i \in Levels /\ i # 0 /\ l # None /\ l \in LevelRecords
      /\ l.mo = g /\ l.tp = None /\ l.sl = None
      /\ l.side \in {-1, 1} /\ l.price \in Int
      /\ strategy = "StaticGrid" => interval.previous # None
  BY <1>1, <1>2, OpeningLevel
<1>4. PICK tp, sl : tp = NextGuid(TakeProfits) /\ sl = NextGuid(StopLosses)
  OBVIOUS
<1>5. PICK TP, SL :
        /\ TP = [guid |-> tp, side |-> -l.side, volume |-> 1,
                 trigger |-> calc_tp_price(l.price, l.side, Centre)]
        /\ SL = [guid |-> sl, side |-> -l.side, volume |-> 1, trigger |-> StopPriceOf(l)]
  OBVIOUS
<1>6. PICK r : r = push_stop_loss_request(push_take_profit_request(gateway, TP), SL)
  OBVIOUS
<1>7. /\ TakeProfits \ created # {} /\ StopLosses \ created # {}
      /\ TpAndSlSent(tp, sl, 1)
      /\ gateway' = [r EXCEPT !.events = <<>>]
      /\ m_orders_by_levels' = [m_orders_by_levels EXCEPT ![i].tp = tp, ![i].sl = sl]
      /\ watchedFor' = [watchedFor EXCEPT ![tp] = i, ![sl] = i]
  BY <1>1, <1>2, <1>3, <1>4, <1>5, <1>6 DEF on_order_traded, Calls
<1>8. /\ tp \in TakeProfits /\ sl \in StopLosses /\ tp \notin created /\ sl \notin created
  BY <1>4, <1>7 DEF NextGuid
<1>9. tp \in Fillable /\ sl \in Fillable /\ tp \in Conditionals /\ sl \in Conditionals
  BY <1>8, Parted DEF Conditionals
<1>10. /\ tp \notin m_conditionals /\ tp \notin GuidsAt(gateway)
       /\ sl \notin m_conditionals /\ sl \notin GuidsAt(gateway)
  BY <1>8, <1>9, NewGuids
<1>11. calc_tp_price(l.price, l.side, Centre) \in Int /\ StopPriceOf(l) \in Int /\ Centre \in Int
  BY <1>3, ExitPrices
<1>12. /\ TP \in ExitOrders(TakeProfits) /\ SL \in ExitOrders(StopLosses)
       /\ TP.guid = tp /\ SL.guid = sl /\ TP.side = -l.side /\ SL.side = -l.side
       /\ TP.trigger = calc_tp_price(l.price, l.side, Centre) /\ SL.trigger = StopPriceOf(l)
  <2>1. -l.side \in {-1, 1}
    BY <1>3
  <2> QED BY <1>5, <1>8, <1>11, <2>1 DEF ExitOrders
<1>13. IsBook(gateway) /\ gateway.events = <<>>
  BY DEF IInv, Types
<1>14. PICK fired : Reacts(gateway, r, {TP, SL}, fired)
  <2>1. TP.guid \notin Guids(AtGateway(gateway)) /\ SL.guid \notin Guids(AtGateway(gateway))
    BY <1>10, <1>12 DEF Guids, GuidsAt
  <2> QED BY <1>6, <1>12, <1>13, <2>1, OpenReacts
<1>15. /\ IsBook(r) /\ r.m_last_price = gateway.m_last_price
       /\ fired \subseteq AtGateway(gateway) \cup {TP, SL}
       /\ AtGateway(r) = (AtGateway(gateway) \cup {TP, SL}) \ fired
       /\ \A o \in fired : Reached(o, gateway.m_last_price)
       /\ ClosesLots(gateway.m_pos_volume, r.m_pos_volume, fired)
  BY <1>14 DEF Reacts
<1>16. /\ AtGateway(gateway') = AtGateway(r) /\ gateway'.m_pos_volume = r.m_pos_volume
       /\ gateway'.m_last_price = r.m_last_price
  BY <1>7, <1>15, HandedOver
<1>17. Moved(gateway.m_last_price, {TP, SL}, fired)
  BY <1>15, <1>16 DEF Moved
<1>18. m_orders_by_levels' = [m_orders_by_levels EXCEPT ![i] = [l EXCEPT !.tp = tp, !.sl = sl]]
  <2>1. m_orders_by_levels \in [Levels -> LevelRecords \cup {None}]
    BY DEF IInv, Types
  <2>2. PICK f : f = [m_orders_by_levels EXCEPT ![i] = [@ EXCEPT !.tp = tp]]
    OBVIOUS
  <2>3. m_orders_by_levels' = [f EXCEPT ![i] = [@ EXCEPT !.sl = sl]]
    BY <1>7, <2>2
  <2>4. PICK l2 : l2 = [l EXCEPT !.tp = tp, !.sl = sl]
    OBVIOUS
  <2>5. l2 = [[l EXCEPT !.tp = tp] EXCEPT !.sl = sl]
    BY <2>4
  <2>6. m_orders_by_levels' = [m_orders_by_levels EXCEPT ![i] = l2]
    BY <1>2, <1>3, <2>1, <2>2, <2>3, <2>5
  <2> QED BY <2>4, <2>6
<1>19. m_conditionals' = m_conditionals \cup {tp, sl}
  BY <1>7 DEF TpAndSlSent
<1>20. Opening(i, l, TP, SL, fired)
  BY <1>2, <1>3, <1>7, <1>10, <1>11, <1>12, <1>17, <1>18, <1>19 DEF Opening
<1> QED BY <1>20 DEF OpeningSteps

LEMMA ExitIsTraded ==
  ASSUME IInv, Runs("Updated"), NEW g \in m_conditionals, g = Head(queue).guid, filled[g] = 1,
         on_exit_traded(watchedFor[g], g), strategy' = strategy
  PROVE  ClosingSteps
<1>1. PICK i : i = watchedFor[g]
  OBVIOUS
<1>2. PICK l : l = m_orders_by_levels[i]
  OBVIOUS
<1>3. /\ i \in Levels /\ l # None /\ g \in {l.tp, l.sl}
      /\ l.tp \in TakeProfits /\ l.sl \in StopLosses
      /\ l.tp \in m_conditionals /\ l.sl \in m_conditionals
      /\ watchedFor[l.tp] = i /\ watchedFor[l.sl] = i
  BY <1>1, <1>2, ClosingLevel
<1>4. g \notin GuidsAt(gateway)
  <2>1. ExitState(g, target[g], filled[g], suspendedVolume[g], News(queue, g),
                  GuidsAt(gateway), ToSet(queue))
    BY DEF IInv, ExitsInTurn
  <2> QED BY <2>1 DEF ExitState
<1>5. IsBook(gateway) /\ gateway.events = <<>>
  BY DEF IInv, Types
<1>6. PICK r : r = OrdersCancelled(gateway, l, g)
  OBVIOUS
<1>7. /\ IsBook(r) /\ r.m_pos_volume = gateway.m_pos_volume
      /\ r.m_last_price = gateway.m_last_price
      /\ AtGateway(r) = {o \in AtGateway(gateway) : o.guid \notin {l.tp, l.sl}}
  BY <1>3, <1>5, <1>6, CancelExits
<1>8. /\ LevelErased(l.mo, {l.tp, l.sl})
      /\ gateway' = [r EXCEPT !.events = <<>>]
      /\ m_orders_by_levels' = [m_orders_by_levels EXCEPT ![i] = None]
      /\ watchedFor' = watchedFor
  BY <1>1, <1>2, <1>3, <1>6 DEF on_exit_traded, Calls
<1>9. /\ AtGateway(gateway') = AtGateway(r) /\ gateway'.m_pos_volume = r.m_pos_volume
      /\ gateway'.m_last_price = r.m_last_price
  BY <1>7, <1>8, HandedOver
<1>10. m_conditionals' = m_conditionals \ {l.tp, l.sl}
  BY <1>8 DEF LevelErased
<1>11. Closing(i, l, g)
  BY <1>2, <1>3, <1>4, <1>7, <1>8, <1>9, <1>10 DEF Closing
<1> QED BY <1>11 DEF ClosingSteps

LEMMA HandledStays ==
  ASSUME IInv, OrderManagerHandles
  PROVE  Staying
<1>1. UNCHANGED <<strategy, gateway, m_orders_by_levels, watchedFor>>
  BY DEF OrderManagerHandles, gridVars, centreVars
<1>2. m_conditionals' \subseteq m_conditionals
  BY DEF OrderManagerHandles, on_order_response, on_trade, try_trade_market_order,
         try_trade_conditional, on_conditional_response
<1> QED BY <1>1, <1>2 DEF Staying

(* A step serves a price, enters a level, opens it, closes it, or leaves all levels. *)
LEMMA StepsAre ==
  ASSUME IInv, [Next]_vars
  PROVE  PriceSteps \/ EntrySteps \/ OpeningSteps \/ ClosingSteps \/ Staying
<1>1. CASE \E price \in PricesOf[strategy], candles \in 0 .. MaxCandles : NewPrice(price, candles)
  BY <1>1, PriceIsServed
<1>2. CASE \E trend \in Trends, banned \in BOOLEAN : push_candle(trend, banned)
  <2>1. PICK trend \in Trends, banned \in BOOLEAN : push_candle(trend, banned)
    BY <1>2
  <2>2. PICK level : level = get_level_number(Head(queue).close, trend)
    OBVIOUS
  <2>3. Enters(level, banned) /\ strategy' = strategy /\ Runs("Candle")
    BY <2>1, <2>2 DEF push_candle
  <2>4. Head(queue).close \in Int
    BY <2>3, CandlePrice
  <2>5. level \in Int
    <3>1. trend \in Int
      BY PricesAreIntegers
    <3> QED BY <2>2, <2>4, <3>1, LevelIsInteger
  <2> QED BY <2>3, <2>5, LevelIsEntered
<1>3. CASE push_candle_static
  <2>1. PICK i : i = try_interval_handover(interval)
    OBVIOUS
  <2>2. PICK close, level : close = Head(queue).close /\
          level = IF i.previous = None THEN 0 ELSE get_level_number(close, mid_price(i.previous))
    OBVIOUS
  <2>3. PICK b : b = ((level # 0 /\ OutOfLimits(i.previous, close)) \/ is_banned(i))
    OBVIOUS
  <2>4. Enters(level, b) /\ strategy' = strategy /\ Runs("Candle")
    BY <1>3, <2>1, <2>2, <2>3 DEF push_candle_static
  <2>5. close \in Int
    BY <2>2, <2>4, CandlePrice
  <2>6. i.previous \in Limits \cup {None}
    <3>1. interval \in [previous : Limits \cup {None}, next : Limits, age : Int, outOfBounds : BOOLEAN]
      BY DEF IInv, Types
    <3> QED BY <2>1, <3>1 DEF try_interval_handover
  <2>7. level \in Int
    <3>1. i.previous # None => mid_price(i.previous) \in Int
      BY <2>5, <2>6, LimitsAreRecords
    <3> QED BY <2>2, <2>5, <3>1, LevelIsInteger
  <2> QED BY <2>4, <2>7, LevelIsEntered
<1>4. CASE OrderManagerHandles
  BY <1>4, HandledStays
<1>5. CASE OrderUpdated
  <2>1. PICK g : g = Head(queue).guid
    OBVIOUS
  <2>2. /\ Runs("Updated") /\ strategy' = strategy
        /\ IF status(g) # "Filled" THEN Ignored
           ELSE IF g \in Orders THEN on_order_traded(watchedFor[g])
           ELSE on_exit_traded(watchedFor[g], g)
    BY <1>5, <2>1 DEF OrderUpdated, centreVars
  <2>3. /\ g \in Orders =>
             /\ g \in m_orders /\ status(g) = "Filled" /\ filled[g] = 1
             /\ LevelOf(g).tp = None /\ About(Tail(queue), g) = <<>>
        /\ g \notin Orders => g \in m_conditionals /\ (status(g) = "Filled" <=> filled[g] = 1)
    BY <2>1, <2>2, UpdateSays
  <2>4. CASE g \in Orders
    <3>1. /\ g \in m_orders /\ filled[g] = 1 /\ LevelOf(g).tp = None
          /\ on_order_traded(watchedFor[g])
      BY <2>2, <2>3, <2>4
    <3> QED BY <2>2, <3>1, EntryIsTraded
  <2>5. CASE g \notin Orders /\ status(g) = "Filled"
    <3>1. g \in m_conditionals /\ filled[g] = 1 /\ on_exit_traded(watchedFor[g], g)
      BY <2>2, <2>3, <2>5
    <3> QED BY <2>1, <2>2, <3>1, ExitIsTraded
  <2>6. CASE g \notin Orders /\ status(g) # "Filled"
    BY <2>2, <2>6 DEF Ignored, Staying, omVars
  <2> QED BY <2>4, <2>5, <2>6
<1>6. CASE UNCHANGED vars
  BY <1>6 DEF vars, omVars, gridVars, centreVars, Staying
<1> QED BY <1>1, <1>2, <1>3, <1>4, <1>5, <1>6 DEF Next

-----------------------------------------------------------------------------
(* The prices of the orders *)

LEMMA LevelOfExit ==
  ASSUME IInv, NEW c \in m_conditionals, NEW l, l = LevelOf(c)
  PROVE  /\ c \in Fillable /\ c \in Conditionals /\ c # None /\ watchedFor[c] \in Levels
         /\ l \in LevelRecords /\ l # None /\ c \in {l.tp, l.sl}
         /\ l.tp \in TakeProfits /\ l.sl \in StopLosses
         /\ l.tp \in m_conditionals /\ l.sl \in m_conditionals
         /\ watchedFor[l.tp] = watchedFor[c] /\ watchedFor[l.sl] = watchedFor[c]
         /\ l.side \in {-1, 1} /\ l.price \in Int
<1>1. Types /\ Known /\ LevelsMade
  BY DEF IInv
<1>2. c \in Conditionals /\ c \in Fillable /\ watchedFor[c] \in Levels /\ c # None
  BY Tables, Parted, NoneIsNoGuid
<1>3. l # None /\ c \in {l.tp, l.sl}
  BY <1>1 DEF Known
<1>4. l \in LevelRecords
  BY <1>1, <1>2, <1>3 DEF Types, LevelOf
<1>5. /\ l.side \in {-1, 1} /\ l.price \in Int
      /\ l.tp \in TakeProfits \cup {None} /\ l.sl \in StopLosses \cup {None}
  BY <1>4 DEF LevelRecords
<1>6. /\ l.tp = None <=> l.sl = None
      /\ l.tp # None => watchedFor[l.tp] = watchedFor[c] /\ watchedFor[l.sl] = watchedFor[c]
  BY <1>1, <1>2, <1>3 DEF LevelsMade, LevelOf
<1>7. l.tp # None /\ l.sl # None
  BY <1>2, <1>3, <1>6
<1>8. l.tp \in Conditionals /\ l.sl \in Conditionals
  BY <1>5, <1>7 DEF Conditionals
<1>9. l.tp \in m_conditionals /\ l.sl \in m_conditionals
  BY <1>1, <1>3, <1>6, <1>7, <1>8 DEF Known, LevelOf
<1> QED BY <1>2, <1>3, <1>4, <1>5, <1>6, <1>7, <1>9

(* The price an exit is executed at is as far away as its own. *)
LEMMA ReachedIsAway ==
  ASSUME NEW l, l.side \in {-1, 1}, l.price \in Int, NEW o, o.side = -l.side, o.trigger \in Int,
         NEW price \in Int, Reached(o, price), NEW x \in Int
  PROVE  /\ o.guid \notin StopLosses /\ Gain(l, o.trigger) > 0 => Gain(l, price) > 0
         /\ o.guid \in StopLosses /\ Gain(l, o.trigger) < x => Gain(l, price) < x
<1>1. PICK s, p, t : s = l.side /\ p = l.price /\ t = o.trigger
  OBVIOUS
<1>2. p \in Int /\ t \in Int /\ s \in {-1, 1} /\ o.side = -s
  BY <1>1
<1>3. Gain(l, o.trigger) = (t - p) * s /\ Gain(l, price) = (price - p) * s
  BY <1>1 DEF Gain
<1>4. IF o.guid \in StopLosses THEN price * (-s) >= t * (-s) ELSE price * (-s) <= t * (-s)
  BY <1>1, <1>2 DEF Reached, StopLossReached, TakeProfitReached
<1>5. CASE s = 1
  <2>1. IF o.guid \in StopLosses THEN price <= t ELSE price >= t
    BY <1>2, <1>4, <1>5
  <2>2. Gain(l, o.trigger) = t - p /\ Gain(l, price) = price - p
    BY <1>2, <1>3, <1>5
  <2> QED BY <1>2, <2>1, <2>2
<1>6. CASE s = -1
  <2>1. -s = 1
    <3>1. s + 1 = 0
      BY <1>6
    <3> QED BY <1>2, <3>1
  <2>2. IF o.guid \in StopLosses THEN price >= t ELSE price <= t
    BY <1>2, <1>4, <2>1
  <2>3. Gain(l, o.trigger) = p - t /\ Gain(l, price) = p - price
    BY <1>2, <1>3, <1>6
  <2> QED BY <1>2, <2>2, <2>3
<1> QED BY <1>2, <1>5, <1>6

LEMMA AwayWhenReached ==
  ASSUME NEW l, l.side \in {-1, 1}, l.price \in Int,
         NEW o \in ExitOrders(Conditionals), o.side = -l.side,
         LevelOf(o.guid) = l, NEW price \in Int, Reached(o, price), Away(o.guid, o.trigger)
  PROVE  Away(o.guid, price)
<1>1. o.guid \in Conditionals /\ o.trigger \in Int
  BY DEF ExitOrders
<1>2. o.guid \in StopLosses <=> o.guid \notin TakeProfits
  BY <1>1, GuidsAreUnique DEF Conditionals
<1>3. PICK x : x = -(LevelsPerSide * LevelWidth)
  OBVIOUS
<1>4. x \in Int
  BY <1>3, WidthIsPositive, SidesHaveLevels
<1>5. /\ o.guid \notin StopLosses /\ Gain(l, o.trigger) > 0 => Gain(l, price) > 0
      /\ o.guid \in StopLosses /\ Gain(l, o.trigger) < x => Gain(l, price) < x
  BY <1>1, <1>4, ReachedIsAway
<1> QED BY <1>2, <1>3, <1>5 DEF Away

LEMMA InitPrices ==
  ASSUME Init
  PROVE  Prices
<1>1. /\ \A l \in Levels : m_orders_by_levels[l] = None
      /\ m_conditionals = {} /\ AtGateway(gateway) = {}
  BY NothingIsABook DEF Init, Init_OrderManager
<1> QED BY <1>1 DEF Prices, EntryPrices, ExitSides, ExitsAway, ExecutedAway

LEMMA PriceKeepsPrices ==
  ASSUME IInv, Prices, PriceSteps
  PROVE  Prices'
<1>1. PICK price, fired : Priced(price, fired)
  BY DEF PriceSteps
<1>2. /\ queue = <<>> /\ price \in Int /\ fired \subseteq AtGateway(gateway)
      /\ AtGateway(gateway') = AtGateway(gateway) \ fired
      /\ gateway'.m_last_price = price /\ \A o \in fired : Reached(o, price)
      /\ strategy' = strategy /\ m_orders_by_levels' = m_orders_by_levels
      /\ watchedFor' = watchedFor /\ m_conditionals' = m_conditionals
  BY <1>1 DEF Priced, Moved
<1>3. /\ RestingGuids =
           UNION {{m_orders_by_levels[l].tp, m_orders_by_levels[l].sl} : l \in OpenLevels}
      /\ RestingGuids = m_conditionals
  BY <1>2, QuietLevels DEF EveryLevelHasBothExits, Quiet
<1>4. \A c : LevelOf(c)' = LevelOf(c)
  BY <1>2 DEF LevelOf
<1>5. EntryPrices'
  <2> SUFFICES ASSUME NEW l \in Levels, m_orders_by_levels[l] # None,
                      m_orders_by_levels[l].tp = None
               PROVE  FALSE
    BY <1>2 DEF EntryPrices
  <2>1. m_orders_by_levels[l].tp \in m_conditionals
    BY <1>3 DEF OpenLevels
  <2> QED BY <2>1, LevelOfExit
<1>6. ExitSides' /\ ExitsAway'
  <2>1. ExitSides'
    BY <1>2, <1>4 DEF Prices, ExitSides
  <2>2. ExitsAway'
    BY <1>2, <1>4 DEF Prices, ExitsAway, Away
  <2> QED BY <2>1, <2>2
<1>7. ExecutedAway'
  <2> SUFFICES ASSUME strategy = "DynamicGridAdx",
                      NEW c \in m_conditionals, c \notin GuidsAt(gateway')
               PROVE  Away(c, price)
    BY <1>2, <1>4 DEF ExecutedAway, Away
  <2>1. c \in GuidsAt(gateway)
    BY <1>3 DEF GuidsAt, RestingGuids, AtGateway
  <2>2. PICK o \in AtGateway(gateway) : o.guid = c
    BY <2>1 DEF GuidsAt
  <2>3. o \in fired
    BY <1>2, <2>2 DEF GuidsAt
  <2>4. o \in ExitOrders(Conditionals)
    BY <2>2, BookOrders DEF IInv, Types
  <2>5. PICK l : l = LevelOf(c)
    OBVIOUS
  <2>6. l.side \in {-1, 1} /\ l.price \in Int
    BY <2>5, LevelOfExit
  <2>7. o.side = -l.side /\ Away(o.guid, o.trigger)
    BY <2>2, <2>5 DEF Prices, ExitSides, ExitsAway
  <2>8. Reached(o, price) /\ LevelOf(o.guid) = l
    BY <1>2, <2>2, <2>3, <2>5
  <2> QED BY <1>2, <2>2, <2>4, <2>6, <2>7, <2>8, AwayWhenReached
<1> QED BY <1>5, <1>6, <1>7 DEF Prices

LEMMA EntryKeepsPrices ==
  ASSUME IInv, Prices, EntrySteps
  PROVE  Prices'
<1>1. PICK l, o : Entering(l, o)
  BY DEF EntrySteps
<1>2. PICK r : r = [mo |-> o, side |-> -Sign(l), price |-> gateway.m_last_price,
                    tp |-> None, sl |-> None]
  OBVIOUS
<1>3. /\ l \in Levels /\ o \in Orders /\ m_orders_by_levels[l] = None
      /\ m_orders_by_levels' = [m_orders_by_levels EXCEPT ![l] = r]
      /\ watchedFor' = [watchedFor EXCEPT ![o] = l]
      /\ AtGateway(gateway') = AtGateway(gateway)
      /\ gateway'.m_last_price = gateway.m_last_price
      /\ strategy' = strategy /\ m_conditionals' = m_conditionals
  BY <1>1, <1>2 DEF Entering
<1>4. m_orders_by_levels \in [Levels -> LevelRecords \cup {None}] /\ watchedFor \in [Fillable -> Levels]
  BY DEF IInv, Types
<1>5. \A k \in Levels : m_orders_by_levels'[k] = IF k = l THEN r ELSE m_orders_by_levels[k]
  BY <1>3, <1>4
<1>6. \A c \in m_conditionals : LevelOf(c)' = LevelOf(c)
  <2> SUFFICES ASSUME NEW c \in m_conditionals PROVE LevelOf(c)' = LevelOf(c)
    OBVIOUS
  <2>1. c \in Fillable /\ c \in Conditionals /\ watchedFor[c] \in Levels /\ LevelOf(c) # None
    BY LevelOfExit
  <2>2. c # o
    BY <1>3, <2>1, Parted
  <2>3. watchedFor'[c] = watchedFor[c]
    BY <1>3, <1>4, <2>1, <2>2
  <2>4. watchedFor[c] # l
    BY <1>3, <2>1 DEF LevelOf
  <2> QED BY <1>5, <2>1, <2>3, <2>4 DEF LevelOf
<1>7. \A e \in AtGateway(gateway) : e.guid \in m_conditionals
  BY Tables DEF GuidsAt
<1>8. EntryPrices'
  <2>1. r.price = gateway.m_last_price
    BY <1>2
  <2> QED BY <1>3, <1>5, <2>1 DEF Prices, EntryPrices
<1>9. ExitSides' /\ ExitsAway'
  <2>1. ExitSides'
    BY <1>3, <1>6, <1>7 DEF Prices, ExitSides
  <2>2. ExitsAway'
    BY <1>3, <1>6, <1>7 DEF Prices, ExitsAway, Away
  <2> QED BY <2>1, <2>2
<1>10. ExecutedAway'
  <2>1. GuidsAt(gateway') = GuidsAt(gateway)
    BY <1>3 DEF GuidsAt
  <2> QED BY <1>3, <1>6, <2>1 DEF Prices, ExecutedAway, Away
<1> QED BY <1>8, <1>9, <1>10 DEF Prices

LEMMA ClosingKeepsPrices ==
  ASSUME IInv, Prices, ClosingSteps
  PROVE  Prices'
<1>1. PICK i, l, g : Closing(i, l, g)
  BY DEF ClosingSteps
<1>2. /\ i \in Levels /\ l = m_orders_by_levels[i]
      /\ m_orders_by_levels' = [m_orders_by_levels EXCEPT ![i] = None]
      /\ m_conditionals' = m_conditionals \ {l.tp, l.sl}
      /\ AtGateway(gateway') = {o \in AtGateway(gateway) : o.guid \notin {l.tp, l.sl}}
      /\ gateway'.m_last_price = gateway.m_last_price
      /\ strategy' = strategy /\ watchedFor' = watchedFor
  BY <1>1 DEF Closing
<1>3. \A k \in Levels : m_orders_by_levels'[k] = IF k = i THEN None ELSE m_orders_by_levels[k]
  <2>1. m_orders_by_levels \in [Levels -> LevelRecords \cup {None}]
    BY DEF IInv, Types
  <2> QED BY <1>2, <2>1
<1>4. \A c \in m_conditionals : c \notin {l.tp, l.sl} => LevelOf(c)' = LevelOf(c)
  <2> SUFFICES ASSUME NEW c \in m_conditionals, c \notin {l.tp, l.sl}
               PROVE  LevelOf(c)' = LevelOf(c)
    OBVIOUS
  <2>1. PICK r : r = LevelOf(c)
    OBVIOUS
  <2>2. c \in {r.tp, r.sl} /\ watchedFor[c] \in Levels
    BY <2>1, LevelOfExit
  <2>3. watchedFor[c] # i
    BY <1>2, <2>1, <2>2 DEF LevelOf
  <2> QED BY <1>2, <1>3, <2>2, <2>3 DEF LevelOf
<1>5. \A e \in AtGateway(gateway) : e.guid \in m_conditionals
  BY Tables DEF GuidsAt
<1>6. EntryPrices'
  BY <1>2, <1>3 DEF Prices, EntryPrices
<1>7. ExitSides' /\ ExitsAway'
  <2>1. ExitSides'
    BY <1>2, <1>4, <1>5 DEF Prices, ExitSides
  <2>2. ExitsAway'
    BY <1>2, <1>4, <1>5 DEF Prices, ExitsAway, Away
  <2> QED BY <2>1, <2>2
<1>8. ExecutedAway'
  <2>1. \A c : c \notin {l.tp, l.sl} => (c \in GuidsAt(gateway') <=> c \in GuidsAt(gateway))
    BY <1>2 DEF GuidsAt
  <2> QED BY <1>2, <1>4, <2>1 DEF Prices, ExecutedAway, Away
<1> QED BY <1>6, <1>7, <1>8 DEF Prices

LEMMA StayingKeepsPrices ==
  ASSUME Prices, Staying
  PROVE  Prices'
<1>1. \A c : LevelOf(c)' = LevelOf(c)
  BY DEF Staying, LevelOf
<1>2. EntryPrices' /\ ExitSides'
  BY <1>1 DEF Staying, Prices, EntryPrices, ExitSides
<1>3. ExitsAway'
  BY <1>1 DEF Staying, Prices, ExitsAway, Away
<1>4. ExecutedAway'
  BY <1>1 DEF Staying, Prices, ExecutedAway, Away
<1> QED BY <1>2, <1>3, <1>4 DEF Prices

(* A level is opened: its record has the guids of its exits, the others stay. *)
LEMMA OpenedLevel ==
  ASSUME IInv, NEW i, NEW l, NEW TP, NEW SL, NEW fired, Opening(i, l, TP, SL, fired),
         NEW k \in Levels
  PROVE  m_orders_by_levels'[k] =
           IF k = i THEN [l EXCEPT !.tp = TP.guid, !.sl = SL.guid] ELSE m_orders_by_levels[k]
<1>1. PICK r : r = [l EXCEPT !.tp = TP.guid, !.sl = SL.guid]
  OBVIOUS
<1>2. m_orders_by_levels' = [m_orders_by_levels EXCEPT ![i] = r]
  BY <1>1 DEF Opening
<1>3. m_orders_by_levels \in [Levels -> LevelRecords \cup {None}]
  BY DEF IInv, Types
<1>4. m_orders_by_levels'[k] = IF k = i THEN r ELSE m_orders_by_levels[k]
  BY <1>2, <1>3
<1> QED BY <1>1, <1>4

(* The exits of the levels that were open before are watched for the same levels. *)
LEMMA OthersStay ==
  ASSUME IInv, NEW i, NEW l, NEW TP, NEW SL, NEW fired, Opening(i, l, TP, SL, fired),
         NEW c \in m_conditionals
  PROVE  LevelOf(c)' = LevelOf(c) /\ watchedFor'[c] = watchedFor[c]
<1>1. PICK tp, sl : tp = TP.guid /\ sl = SL.guid
  OBVIOUS
<1>2. /\ watchedFor' = [watchedFor EXCEPT ![tp] = i, ![sl] = i]
      /\ tp \notin m_conditionals /\ sl \notin m_conditionals
      /\ l = m_orders_by_levels[i] /\ l.tp = None
  BY <1>1 DEF Opening
<1>3. watchedFor \in [Fillable -> Levels]
  BY DEF IInv, Types
<1>4. PICK r : r = LevelOf(c)
  OBVIOUS
<1>5. c \in Fillable /\ watchedFor[c] \in Levels /\ r.tp \in TakeProfits
  BY <1>4, LevelOfExit
<1>6. watchedFor'[c] = watchedFor[c]
  BY <1>2, <1>3, <1>5
<1>7. r.tp # None
  BY <1>5, NoneIsNoGuid DEF Fillable, Conditionals
<1>8. watchedFor[c] # i
  BY <1>2, <1>4, <1>7 DEF LevelOf
<1>9. m_orders_by_levels'[watchedFor[c]] = m_orders_by_levels[watchedFor[c]]
  BY <1>5, <1>8, OpenedLevel
<1> QED BY <1>6, <1>9 DEF LevelOf

(* What is known of the orders while a level is opened *)
LEMMA OpeningPrices ==
  ASSUME IInv, Prices, NEW i, NEW l, NEW TP, NEW SL, NEW fired, Opening(i, l, TP, SL, fired)
  PROVE  /\ watchedFor'[TP.guid] = i /\ watchedFor'[SL.guid] = i
         /\ watchedFor' \in [Fillable -> Levels]
         /\ l # None /\ l.side \in {-1, 1} /\ l.price \in Int /\ l.price = gateway.m_last_price
         /\ TP.guid \in TakeProfits /\ SL.guid \in StopLosses /\ TP.guid # SL.guid
         /\ TP.guid \notin GuidsAt(gateway) /\ SL.guid \notin GuidsAt(gateway)
         /\ TP.trigger \in Int /\ SL.trigger \in Int
         /\ Gain(l, TP.trigger) > 0
         /\ strategy = "DynamicGridAdx" => Gain(l, SL.trigger) < -(LevelsPerSide * LevelWidth)
         /\ strategy = "DynamicGridAdx" => Centre = m_last_trend_value
<1>1. /\ i \in Levels /\ l = m_orders_by_levels[i] /\ l \in LevelRecords /\ l.tp = None
      /\ TP \in ExitOrders(TakeProfits) /\ SL \in ExitOrders(StopLosses)
      /\ TP.guid \notin m_conditionals /\ SL.guid \notin m_conditionals
      /\ TP.trigger = calc_tp_price(l.price, l.side, Centre) /\ SL.trigger = StopPriceOf(l)
      /\ Centre \in Int
      /\ m_orders_by_levels' =
           [m_orders_by_levels EXCEPT ![i] = [l EXCEPT !.tp = TP.guid, !.sl = SL.guid]]
      /\ watchedFor' = [watchedFor EXCEPT ![TP.guid] = i, ![SL.guid] = i]
  BY DEF Opening
<1>2. m_orders_by_levels \in [Levels -> LevelRecords \cup {None}] /\ watchedFor \in [Fillable -> Levels]
  BY DEF IInv, Types
<1>3. l # None /\ l.side \in {-1, 1} /\ l.price \in Int
  <2>1. l # None
    BY <1>1, LevelsAreNotNone
  <2> QED BY <1>1, <2>1 DEF LevelRecords
<1>4. l.price = gateway.m_last_price
  BY <1>1, <1>3 DEF Prices, EntryPrices
<1>5. /\ TP.guid \in TakeProfits /\ SL.guid \in StopLosses
      /\ TP.trigger \in Int /\ SL.trigger \in Int
  BY <1>1 DEF ExitOrders
<1>6. /\ TP.guid # SL.guid /\ TP.guid \in Fillable /\ SL.guid \in Fillable
  BY <1>5, GuidsAreUnique DEF Fillable, Conditionals
<1>7. TP.guid \notin GuidsAt(gateway) /\ SL.guid \notin GuidsAt(gateway)
  BY <1>1, Tables
<1>8. /\ watchedFor'[TP.guid] = i /\ watchedFor'[SL.guid] = i
      /\ watchedFor' \in [Fillable -> Levels]
      /\ \A a \in Fillable : a \notin {TP.guid, SL.guid} => watchedFor'[a] = watchedFor[a]
  <2>1. PICK tp, sl : tp = TP.guid /\ sl = SL.guid
    OBVIOUS
  <2>2. watchedFor' = [watchedFor EXCEPT ![tp] = i, ![sl] = i] /\ tp \in Fillable /\ sl \in Fillable
    BY <1>1, <1>6, <2>1
  <2>3. /\ watchedFor'[tp] = i /\ watchedFor'[sl] = i
        /\ watchedFor' \in [Fillable -> Levels]
        /\ \A a \in Fillable : a \notin {tp, sl} => watchedFor'[a] = watchedFor[a]
    BY <1>1, <1>2, <2>2
  <2> QED BY <2>1, <2>3
<1>11. Gain(l, TP.trigger) > 0
  BY <1>1, <1>3, TakeProfitGains DEF Gain
<1>12. ASSUME strategy = "DynamicGridAdx"
       PROVE  Gain(l, SL.trigger) < -(LevelsPerSide * LevelWidth) /\ Centre = m_last_trend_value
  <2>1. PICK t, x : t = SL.trigger /\ x = LevelsPerSide * LevelWidth
    OBVIOUS
  <2>2. t = calc_sl_price(l.price, l.side) /\ t \in Int
    BY <1>1, <1>5, <1>12, <2>1 DEF StopPriceOf
  <2>3. x \in Int
    BY <2>1, WidthIsPositive, SidesHaveLevels
  <2>4. (l.price - t) * l.side > x
    BY <1>3, <2>1, <2>2, StopLossLoses
  <2>5. PICK s, p : s = l.side /\ p = l.price
    OBVIOUS
  <2>6. (p - t) * s > x /\ p \in Int /\ s \in {-1, 1}
    BY <1>3, <2>4, <2>5
  <2>7. (t - p) * s < -x
    BY <2>2, <2>3, <2>6
  <2> QED BY <1>12, <2>1, <2>5, <2>7 DEF Gain, Centre
<1> QED BY <1>3, <1>4, <1>5, <1>6, <1>7, <1>8, <1>11, <1>12

LEMMA OpeningKeepsPrices ==
  ASSUME IInv, Prices, OpeningSteps
  PROVE  Prices'
<1>1. PICK i, l, TP, SL, fired : Opening(i, l, TP, SL, fired)
  BY DEF OpeningSteps
<1>2. /\ i \in Levels /\ l = m_orders_by_levels[i]
      /\ TP \in ExitOrders(TakeProfits) /\ SL \in ExitOrders(StopLosses)
      /\ TP.side = -l.side /\ SL.side = -l.side
      /\ m_conditionals' = m_conditionals \cup {TP.guid, SL.guid}
      /\ fired \subseteq AtGateway(gateway) \cup {TP, SL}
      /\ AtGateway(gateway') = (AtGateway(gateway) \cup {TP, SL}) \ fired
      /\ gateway'.m_last_price = gateway.m_last_price
      /\ \A o \in fired : Reached(o, gateway.m_last_price)
      /\ strategy' = strategy
  BY <1>1 DEF Opening, Moved
<1>31. \A c \in m_conditionals : LevelOf(c)' = LevelOf(c)
  BY <1>1, OthersStay
<1>32. \A k \in Levels : m_orders_by_levels'[k] =
         IF k = i THEN [l EXCEPT !.tp = TP.guid, !.sl = SL.guid] ELSE m_orders_by_levels[k]
  BY <1>1, OpenedLevel
<1>33. /\ watchedFor'[TP.guid] = i /\ watchedFor'[SL.guid] = i
       /\ l # None /\ l.side \in {-1, 1} /\ l.price \in Int /\ l.price = gateway.m_last_price
       /\ TP.guid \in TakeProfits /\ SL.guid \in StopLosses
       /\ Gain(l, TP.trigger) > 0
       /\ strategy = "DynamicGridAdx" => Gain(l, SL.trigger) < -(LevelsPerSide * LevelWidth)
  BY <1>1, OpeningPrices
<1>4. PICK l2 : l2 = [l EXCEPT !.tp = TP.guid, !.sl = SL.guid]
  OBVIOUS
<1>5. l2.side = l.side /\ l2.price = l.price /\ l2.tp = TP.guid
  <2>1. l \in LevelRecords
    BY <1>1 DEF Opening
  <2> QED BY <1>4, <2>1 DEF LevelRecords
<1>6. LevelOf(TP.guid)' = l2 /\ LevelOf(SL.guid)' = l2
  BY <1>2, <1>31, <1>32, <1>33, <1>4 DEF LevelOf
<1>7. \A e \in AtGateway(gateway) : e.guid \in m_conditionals /\ e \in ExitOrders(Conditionals)
  <2>1. IsBook(gateway)
    BY DEF IInv, Types
  <2> QED BY <2>1, Tables, BookOrders DEF GuidsAt
<1>8. \A o \in AtGateway(gateway) \cup {TP, SL} :
        /\ o \in ExitOrders(Conditionals) /\ o.guid \in m_conditionals'
        /\ o.side = -LevelOf(o.guid)'.side
        /\ LevelOf(o.guid)'.side \in {-1, 1} /\ LevelOf(o.guid)'.price \in Int
  <2> SUFFICES ASSUME NEW o \in AtGateway(gateway) \cup {TP, SL}
               PROVE  /\ o \in ExitOrders(Conditionals) /\ o.guid \in m_conditionals'
                      /\ o.side = -LevelOf(o.guid)'.side
                      /\ LevelOf(o.guid)'.side \in {-1, 1} /\ LevelOf(o.guid)'.price \in Int
    OBVIOUS
  <2>1. CASE o \in AtGateway(gateway)
    <3>1. o.guid \in m_conditionals /\ o \in ExitOrders(Conditionals) /\ o.side = -LevelOf(o.guid).side
      BY <1>7, <2>1 DEF Prices, ExitSides
    <3>2. LevelOf(o.guid).side \in {-1, 1} /\ LevelOf(o.guid).price \in Int
      BY <3>1, LevelOfExit
    <3> QED BY <1>2, <1>31, <1>32, <1>33, <3>1, <3>2
  <2>2. CASE o \in {TP, SL}
    <3>1. TP \in ExitOrders(Conditionals) /\ SL \in ExitOrders(Conditionals)
      BY <1>2 DEF ExitOrders, Conditionals
    <3> QED BY <1>2, <1>31, <1>32, <1>33, <1>5, <1>6, <2>2, <3>1
  <2> QED BY <2>1, <2>2
<1>9. \A o \in AtGateway(gateway) \cup {TP, SL} :
        strategy = "DynamicGridAdx" \/ o.guid \in TakeProfits => Away(o.guid, o.trigger)'
  <2> SUFFICES ASSUME NEW o \in AtGateway(gateway) \cup {TP, SL},
                      strategy = "DynamicGridAdx" \/ o.guid \in TakeProfits
               PROVE  Away(o.guid, o.trigger)'
    OBVIOUS
  <2>1. CASE o \in AtGateway(gateway)
    <3>1. LevelOf(o.guid)' = LevelOf(o.guid)
      BY <1>31, <1>32, <1>33, <1>7, <2>1
    <3>2. Away(o.guid, o.trigger)
      BY <2>1 DEF Prices, ExitsAway
    <3> QED BY <3>1, <3>2 DEF Away
  <2>2. CASE o = TP
    BY <1>31, <1>32, <1>33, <1>5, <1>6, <2>2 DEF Away, Gain
  <2>3. CASE o = SL
    <3>1. SL.guid \notin TakeProfits
      BY <1>31, <1>32, <1>33, GuidsAreUnique
    <3> QED BY <1>31, <1>32, <1>33, <1>5, <1>6, <2>3, <3>1 DEF Away, Gain
  <2> QED BY <2>1, <2>2, <2>3
<1>10. EntryPrices'
  <2> SUFFICES ASSUME NEW k \in Levels, m_orders_by_levels'[k] # None, m_orders_by_levels'[k].tp = None
               PROVE  m_orders_by_levels'[k].price = gateway.m_last_price
    BY <1>2 DEF EntryPrices
  <2>1. k # i
    <3>1. TP.guid # None
      BY <1>31, <1>32, <1>33, NoneIsNoGuid DEF Fillable, Conditionals
    <3> QED BY <1>31, <1>32, <1>33, <1>4, <1>5, <3>1
  <2> QED BY <1>31, <1>32, <1>33, <2>1 DEF Prices, EntryPrices
<1>11. ExitSides' /\ ExitsAway'
  <2>1. ExitSides'
    BY <1>2, <1>8 DEF ExitSides
  <2>2. ExitsAway'
    BY <1>2, <1>9 DEF ExitsAway
  <2> QED BY <2>1, <2>2
<1>12. ExecutedAway'
  <2> SUFFICES ASSUME strategy = "DynamicGridAdx",
                      NEW c \in m_conditionals \cup {TP.guid, SL.guid}, c \notin GuidsAt(gateway')
               PROVE  Away(c, gateway.m_last_price)'
    BY <1>2 DEF ExecutedAway
  <2>1. PICK p : p = gateway.m_last_price
    OBVIOUS
  <2>2. p \in Int
    BY <2>1 DEF IInv, Types, IsBook
  <2>3. CASE \E o \in AtGateway(gateway) \cup {TP, SL} : o.guid = c
    <3>1. PICK o \in AtGateway(gateway) \cup {TP, SL} : o.guid = c
      BY <2>3
    <3>2. o \in fired
      BY <1>2, <3>1 DEF GuidsAt
    <3>3. PICK r : r = LevelOf(c)'
      OBVIOUS
    <3>4. /\ r.side \in {-1, 1} /\ r.price \in Int /\ o \in ExitOrders(Conditionals)
          /\ o.side = -r.side /\ Reached(o, p) /\ Away(c, o.trigger)'
      BY <1>2, <1>8, <1>9, <2>1, <3>1, <3>2, <3>3
    <3>5. PICK x : x = -(LevelsPerSide * LevelWidth)
      OBVIOUS
    <3>6. x \in Int /\ o.trigger \in Int /\ o.guid \in Conditionals
      BY <3>4, <3>5, WidthIsPositive, SidesHaveLevels DEF ExitOrders
    <3>7. /\ o.guid \notin StopLosses /\ Gain(r, o.trigger) > 0 => Gain(r, p) > 0
          /\ o.guid \in StopLosses /\ Gain(r, o.trigger) < x => Gain(r, p) < x
      BY <2>2, <3>4, <3>6, ReachedIsAway
    <3>8. c \in TakeProfits <=> c \notin StopLosses
      BY <3>1, <3>6, GuidsAreUnique DEF Conditionals
    <3>9. IF c \in TakeProfits THEN Gain(r, o.trigger) > 0 ELSE Gain(r, o.trigger) < x
      BY <3>3, <3>4, <3>5 DEF Away
    <3>10. IF c \in TakeProfits THEN Gain(r, p) > 0 ELSE Gain(r, p) < x
      BY <3>1, <3>7, <3>8, <3>9
    <3>11. gateway'.m_last_price = p
      BY <1>2, <2>1
    <3> QED BY <2>1, <3>3, <3>5, <3>10, <3>11 DEF Away
  <2>4. CASE ~\E o \in AtGateway(gateway) \cup {TP, SL} : o.guid = c
    <3>1. c \in m_conditionals \ GuidsAt(gateway)
      BY <2>4 DEF GuidsAt
    <3>2. Away(c, gateway.m_last_price)
      BY <3>1 DEF Prices, ExecutedAway
    <3> QED BY <1>2, <1>31, <1>32, <1>33, <3>1, <3>2 DEF Away
  <2> QED BY <2>3, <2>4
<1> QED BY <1>10, <1>11, <1>12 DEF Prices

LEMMA StepKeepsPrices ==
  ASSUME IInv, Prices, [Next]_vars
  PROVE  Prices'
BY StepsAre, PriceKeepsPrices, EntryKeepsPrices, OpeningKeepsPrices, ClosingKeepsPrices,
   StayingKeepsPrices

(* An entry that is not known to be traded was made at the last price, and what rests at
   the gateway is away from the price of its entry, as is the price of an exit that is
   executed. *)
THEOREM OrdersArePriced == Spec => []Prices
<1>1. IInv /\ Prices /\ [Next]_vars => Prices'
  BY StepKeepsPrices
<1>2. Init => Prices
  BY InitPrices
<1> QED BY <1>1, <1>2, OrdersInTurn, PTL DEF Spec

LEMMA ClosesAway ==
  ASSUME IInv, Prices, [Next]_vars, NEW k \in Levels, strategy = "DynamicGridAdx",
         m_orders_by_levels[k] # None, m_orders_by_levels'[k] = None
  PROVE  LET o    == m_orders_by_levels[k]
             gain == (gateway.m_last_price - o.price) * o.side
         IN gain > 0 \/ gain < -(LevelsPerSide * LevelWidth)
<1>1. m_orders_by_levels \in [Levels -> LevelRecords \cup {None}]
  BY DEF IInv, Types
<1>2. CASE PriceSteps
  BY <1>2 DEF PriceSteps, Priced
<1>3. CASE Staying
  BY <1>3 DEF Staying
<1>4. CASE EntrySteps
  <2>1. PICK l, o : Entering(l, o)
    BY <1>4 DEF EntrySteps
  <2>2. PICK r : r = [mo |-> o, side |-> -Sign(l), price |-> gateway.m_last_price,
                      tp |-> None, sl |-> None]
    OBVIOUS
  <2>3. m_orders_by_levels[l] = None /\ m_orders_by_levels' = [m_orders_by_levels EXCEPT ![l] = r]
    BY <2>1, <2>2 DEF Entering
  <2> QED BY <1>1, <2>3
<1>5. CASE OpeningSteps
  <2>1. PICK i, l, TP, SL, fired : Opening(i, l, TP, SL, fired)
    BY <1>5 DEF OpeningSteps
  <2>2. PICK l2 : l2 = [l EXCEPT !.tp = TP.guid, !.sl = SL.guid]
    OBVIOUS
  <2>3. m_orders_by_levels'[k] = IF k = i THEN l2 ELSE m_orders_by_levels[k]
    BY <2>1, <2>2, OpenedLevel
  <2>4. l2 # None
    <3>1. l \in LevelRecords /\ TP.guid \in TakeProfits /\ SL.guid \in StopLosses
      BY <2>1 DEF Opening, ExitOrders
    <3>2. l2 \in LevelRecords
      BY <2>2, <3>1 DEF LevelRecords
    <3> QED BY <3>2, LevelsAreNotNone
  <2> QED BY <2>3, <2>4
<1>6. CASE ClosingSteps
  <2>1. PICK i, l, g : Closing(i, l, g)
    BY <1>6 DEF ClosingSteps
  <2>2. /\ l = m_orders_by_levels[i] /\ g \in m_conditionals \ GuidsAt(gateway)
        /\ g \in {l.tp, l.sl} /\ watchedFor[l.tp] = i /\ watchedFor[l.sl] = i
        /\ m_orders_by_levels' = [m_orders_by_levels EXCEPT ![i] = None]
    BY <2>1 DEF Closing
  <2>3. k = i
    BY <1>1, <2>2
  <2>4. LevelOf(g) = l
    BY <2>2 DEF LevelOf
  <2>5. Away(g, gateway.m_last_price)
    BY <2>2 DEF Prices, ExecutedAway
  <2>6. Gain(l, gateway.m_last_price) > 0
        \/ Gain(l, gateway.m_last_price) < -(LevelsPerSide * LevelWidth)
    BY <2>4, <2>5 DEF Away
  <2> QED BY <2>2, <2>3, <2>6 DEF Gain
<1> QED BY <1>2, <1>3, <1>4, <1>5, <1>6, StepsAre

(* A level of a dynamic grid is closed to its gain, or by a price further away than all
   the levels of a side, whatever the trend does in between. *)
THEOREM ClosedAwayFromEntry == Spec => LevelsCloseAwayFromEntry
<1>1. IInv /\ Prices /\ [Next]_vars =>
        [\A l \in Levels :
           strategy = "DynamicGridAdx" /\ m_orders_by_levels[l] # None
             /\ m_orders_by_levels'[l] = None =>
             LET o    == m_orders_by_levels[l]
                 gain == (gateway.m_last_price - o.price) * o.side
             IN gain > 0 \/ gain < -(LevelsPerSide * LevelWidth)]_vars
  BY ClosesAway
<1> QED BY <1>1, OrdersInTurn, OrdersArePriced, PTL DEF Spec, LevelsCloseAwayFromEntry

-----------------------------------------------------------------------------
(* The levels are independent: what they hold before and after a step *)

LEMMA HeldIs ==
  ASSUME NEW k \in Levels, NEW r, r = m_orders_by_levels[k]
  PROVE  Held[k] = IF r # None /\ (r.tp = None \/ {r.tp, r.sl} \subseteq GuidsAt(gateway))
                   THEN r.side ELSE 0
<1>1. RestingGuids = GuidsAt(gateway)
  BY DEF RestingGuids, GuidsAt, AtGateway
<1>2. Held[k] = HeldBy(k)
  BY DEF Held
<1> QED BY <1>1, <1>2 DEF HeldBy

LEMMA HeldNext ==
  ASSUME NEW k \in Levels, NEW r, r = m_orders_by_levels'[k]
  PROVE  Held'[k] = IF r # None /\ (r.tp = None \/ {r.tp, r.sl} \subseteq GuidsAt(gateway'))
                    THEN r.side ELSE 0
<1>1. RestingGuids' = GuidsAt(gateway')
  BY DEF RestingGuids, GuidsAt, AtGateway
<1>2. Held'[k] = HeldBy(k)'
  BY DEF Held
<1> QED BY <1>1, <1>2 DEF HeldBy

(* A level is entered with its side, once its order is known to be sent. *)
LEMMA LevelSides ==
  ASSUME IInv, NEW k \in Levels, NEW r, r = m_orders_by_levels[k], r # None
  PROVE  /\ r \in LevelRecords /\ r.side \in {-1, 1}
         /\ r.tp # None =>
              /\ r.tp \in m_conditionals /\ r.sl \in m_conditionals /\ r.tp # r.sl
              /\ r.tp \in TakeProfits /\ r.sl \in StopLosses
              /\ watchedFor[r.tp] = k /\ watchedFor[r.sl] = k
<1>1. Types /\ Known /\ LevelsMade
  BY DEF IInv
<1>2. r \in LevelRecords
  BY <1>1 DEF Types
<1>3. /\ r.side \in {-1, 1}
      /\ r.tp \in TakeProfits \cup {None} /\ r.sl \in StopLosses \cup {None}
  BY <1>2 DEF LevelRecords
<1>4. ASSUME r.tp # None
      PROVE  /\ r.tp \in m_conditionals /\ r.sl \in m_conditionals /\ r.tp # r.sl
             /\ r.tp \in TakeProfits /\ r.sl \in StopLosses
             /\ watchedFor[r.tp] = k /\ watchedFor[r.sl] = k
  <2>1. /\ r.tp = None <=> r.sl = None
        /\ r.tp # None => watchedFor[r.tp] = k /\ watchedFor[r.sl] = k
    BY <1>1 DEF LevelsMade
  <2>2. /\ r.tp \in TakeProfits /\ r.sl \in StopLosses /\ r.tp # r.sl
        /\ r.tp \in Conditionals /\ r.sl \in Conditionals
    BY <1>3, <1>4, <2>1, GuidsAreUnique DEF Conditionals
  <2>3. r.tp \in m_conditionals /\ r.sl \in m_conditionals
    BY <1>1, <1>4, <2>1, <2>2 DEF Known, LevelOf
  <2> QED BY <1>4, <2>1, <2>2, <2>3
<1> QED BY <1>2, <1>3, <1>4

(* What rested goes on resting unless it is executed. *)
LEMMA RestingAfter ==
  ASSUME IInv, NEW price, NEW added, NEW fired, Moved(price, added, fired),
         \A a \in added : a.guid \notin m_conditionals, NEW c \in m_conditionals
  PROVE  c \in GuidsAt(gateway') <=> c \in GuidsAt(gateway) /\ \A o \in fired : o.guid # c
<1>1. /\ fired \subseteq AtGateway(gateway) \cup added
      /\ AtGateway(gateway') = (AtGateway(gateway) \cup added) \ fired
  BY DEF Moved
<1>2. \A o, p \in AtGateway(gateway) : o.guid = p.guid => o = p
  BY BookOrders DEF IInv, Types
<1> QED BY <1>1, <1>2 DEF GuidsAt

(* A level keeps what it holds unless one of its exits is executed. *)
LEMMA HeldAfter ==
  ASSUME IInv, NEW price, NEW added, NEW fired, Moved(price, added, fired),
         \A a \in added : a.guid \notin m_conditionals,
         NEW v, \A c \in m_conditionals : v[c] = watchedFor[c],
         NEW k \in Levels, m_orders_by_levels'[k] = m_orders_by_levels[k],
         \A a \in added : v[a.guid] # k
  PROVE  Held'[k] = IF \E o \in fired : v[o.guid] = k THEN 0 ELSE Held[k]
<1>1. PICK r : r = m_orders_by_levels[k]
  OBVIOUS
<1>2. Held[k] = IF r # None /\ (r.tp = None \/ {r.tp, r.sl} \subseteq GuidsAt(gateway))
                THEN r.side ELSE 0
  BY <1>1, HeldIs
<1>3. Held'[k] = IF r # None /\ (r.tp = None \/ {r.tp, r.sl} \subseteq GuidsAt(gateway'))
                 THEN r.side ELSE 0
  BY <1>1, HeldNext
<1>4. ASSUME NEW o \in fired, v[o.guid] = k
      PROVE  r # None /\ r.tp # None /\ o.guid \in {r.tp, r.sl} /\ o.guid \in m_conditionals
  <2>1. o.guid \in GuidsAt(gateway)
    BY <1>4 DEF Moved, GuidsAt
  <2>2. o.guid \in m_conditionals
    BY <2>1, Tables
  <2>3. LevelOf(o.guid) = r
    BY <1>1, <1>4, <2>2 DEF LevelOf
  <2> QED BY <2>2, <2>3, LevelOfExit, NoneIsNoGuid DEF Fillable, Conditionals
<1>5. CASE \E o \in fired : v[o.guid] = k
  <2>1. PICK o \in fired : v[o.guid] = k
    BY <1>5
  <2>2. r # None /\ r.tp # None /\ o.guid \in {r.tp, r.sl} /\ o.guid \in m_conditionals
    BY <1>4, <2>1
  <2>3. o.guid \notin GuidsAt(gateway')
    BY <2>1, <2>2, RestingAfter
  <2> QED BY <1>3, <1>5, <2>2, <2>3
<1>6. CASE ~\E o \in fired : v[o.guid] = k
  <2>1. CASE r = None \/ r.tp = None
    BY <1>2, <1>3, <1>6, <2>1
  <2>2. CASE r # None /\ r.tp # None
    <3>1. /\ r.tp \in m_conditionals /\ r.sl \in m_conditionals
          /\ v[r.tp] = k /\ v[r.sl] = k
      BY <1>1, <2>2, LevelSides
    <3>2. /\ r.tp \in GuidsAt(gateway') <=> r.tp \in GuidsAt(gateway)
          /\ r.sl \in GuidsAt(gateway') <=> r.sl \in GuidsAt(gateway)
      BY <1>6, <3>1, RestingAfter
    <3> QED BY <1>2, <1>3, <1>6, <3>2
  <2> QED BY <2>1, <2>2
<1> QED BY <1>5, <1>6

(* Orders that are executed take their levels' lots with them, which is a step of the
   independent levels. *)
LEMMA LotsGoBack ==
  ASSUME NEW v \in [Fillable -> Levels], NEW fired, fired \subseteq ExitOrders(Conditionals),
         NEW h, h = Held, h \in [Levels -> Int],
         ClosesLots(gateway.m_pos_volume, gateway'.m_pos_volume, fired),
         \A o \in fired : h[v[o.guid]] = -o.side,
         \A o, p \in fired : v[o.guid] = v[p.guid] => o = p,
         \A k \in Levels : Held'[k] = IF \E o \in fired : v[o.guid] = k THEN 0 ELSE h[k]
  PROVE  Independent!Next
<1> DEFINE closed == {v[o.guid] : o \in fired}
<1>1. PICK h2 : h2 = Held'
  OBVIOUS
<1>2. h2 = LotsLeft(h, v, fired)
  <2>1. h2 = [k \in Levels |-> HeldBy(k)']
    BY <1>1 DEF Held
  <2>2. \A k \in Levels : h2[k] = IF \E o \in fired : v[o.guid] = k THEN 0 ELSE h[k]
    BY <1>1
  <2> QED BY <2>1, <2>2 DEF LotsLeft
<1>3. gateway'.m_pos_volume = gateway.m_pos_volume + Independent!Lots(h2) - Independent!Lots(h)
  BY <1>2 DEF ClosesLots
<1>4. closed \subseteq {k \in Levels : h[k] # 0}
  <2> SUFFICES ASSUME NEW o \in fired PROVE v[o.guid] \in Levels /\ h[v[o.guid]] # 0
    OBVIOUS
  <2>1. o.guid \in Fillable /\ o.side \in {-1, 1}
    BY DEF ExitOrders, Fillable
  <2>2. h[v[o.guid]] = -o.side
    OBVIOUS
  <2> QED BY <2>1, <2>2
<1>5. h2 = [k \in Levels |-> IF k \in closed THEN 0 ELSE h[k]]
  BY <1>2 DEF LotsLeft
<1> HIDE DEF closed
<1>6. Levels = Independent!Levels
  BY DEF Levels, Independent!Levels
<1>7. Independent!Close(closed)
  BY <1>1, <1>5, <1>6 DEF Independent!Close, Held
<1>8. closed \in SUBSET {k \in Independent!Levels : [l \in Levels |-> HeldBy(l)][k] # 0}
  BY <1>4, <1>6 DEF Held
<1> QED BY <1>1, <1>3, <1>7, <1>8 DEF Independent!Next, Held

(* A price that reaches a take profit does not reach the stop loss of the same level. *)
LEMMA NeverBoth ==
  ASSUME NEW l, l.side \in {-1, 1}, l.price \in Int, NEW price \in Int,
         NEW o, o.side = -l.side, o.trigger \in Int, o.guid \in TakeProfits,
         NEW p, p.side = -l.side, p.trigger \in Int, p.guid \in StopLosses,
         Gain(l, o.trigger) > 0, Gain(l, p.trigger) < -(LevelsPerSide * LevelWidth),
         Reached(o, price), Reached(p, price)
  PROVE  FALSE
<1>1. PICK x : x = -(LevelsPerSide * LevelWidth)
  OBVIOUS
<1>2. x \in Int /\ x <= 0
  <2>1. LevelsPerSide \in Nat /\ LevelWidth \in Nat
    BY SidesHaveLevels, WidthIsPositive
  <2>2. LevelsPerSide * LevelWidth \in Nat
    BY <2>1
  <2> QED BY <1>1, <2>2
<1>3. o.guid \notin StopLosses
  BY GuidsAreUnique
<1>4. Gain(l, price) > 0
  BY <1>2, <1>3, ReachedIsAway
<1>5. Gain(l, price) < x
  BY <1>1, <1>2, ReachedIsAway
<1>6. Gain(l, price) \in Int
  BY DEF Gain
<1> QED BY <1>2, <1>4, <1>5, <1>6

(* Nor does it when the price before reached neither. *)
LEMMA NotBothAfterNone ==
  ASSUME NEW s \in {-1, 1}, NEW last \in Int, NEW price \in Int,
         NEW o, o.side = s, o.trigger \in Int, o.guid \in TakeProfits, ~Reached(o, last),
         NEW p, p.side = s, p.trigger \in Int, p.guid \in StopLosses, ~Reached(p, last),
         Reached(o, price), Reached(p, price)
  PROVE  FALSE
<1>1. o.guid \notin StopLosses
  BY GuidsAreUnique
<1>2. PICK t, u : t = o.trigger /\ u = p.trigger
  OBVIOUS
<1>3. price * s <= t * s /\ ~(last * s <= t * s)
  BY <1>1, <1>2 DEF Reached, TakeProfitReached
<1>4. price * s >= u * s /\ ~(last * s >= u * s)
  BY <1>2 DEF Reached, StopLossReached
<1>5. t \in Int /\ u \in Int
  BY <1>2
<1>6. CASE s = 1
  BY <1>3, <1>4, <1>5, <1>6
<1>7. CASE s = -1
  BY <1>3, <1>4, <1>5, <1>7
<1> QED BY <1>6, <1>7

LEMMA NothingMissed ==
  ASSUME IInv, Missed = {}, NEW o \in AtGateway(gateway)
  PROVE  ~Reached(o, gateway.m_last_price)
<1>1. /\ o \in ToSet(gateway.m_take_profits) => o.guid \in TakeProfits
      /\ o \in ToSet(gateway.m_stop_losses) => o.guid \in StopLosses
  BY BookOrders DEF IInv, Types
<1>2. CASE o \in ToSet(gateway.m_stop_losses)
  BY <1>1, <1>2 DEF Missed, Reached
<1>3. CASE o \in ToSet(gateway.m_take_profits)
  <2>1. o.guid \notin StopLosses
    BY <1>1, <1>3, GuidsAreUnique
  <2> QED BY <1>3, <2>1 DEF Missed, Reached
<1> QED BY <1>2, <1>3 DEF AtGateway

(* An order at the gateway and the level it is an exit of *)
LEMMA OrderOfLevel ==
  ASSUME IInv, Prices, NEW o \in AtGateway(gateway), NEW l, l = LevelOf(o.guid)
  PROVE  /\ o \in ExitOrders(Conditionals) /\ o.guid \in m_conditionals
         /\ o.guid \in {l.tp, l.sl} /\ l # None /\ l.tp \in TakeProfits /\ l.sl \in StopLosses
         /\ l.side \in {-1, 1} /\ l.price \in Int /\ o.side = -l.side /\ o.trigger \in Int
<1>1. o.guid \in m_conditionals
  BY Tables DEF GuidsAt
<1>2. o \in ExitOrders(Conditionals)
  BY BookOrders DEF IInv, Types
<1>3. o.trigger \in Int
  BY <1>2 DEF ExitOrders
<1>4. o.side = -l.side
  BY DEF Prices, ExitSides
<1>5. /\ l.side \in {-1, 1} /\ l.price \in Int
      /\ o.guid \in {l.tp, l.sl} /\ l # None /\ l.tp \in TakeProfits /\ l.sl \in StopLosses
  BY <1>1, LevelOfExit
<1> QED BY <1>1, <1>2, <1>3, <1>4, <1>5

(* One price does not execute both exits of a level, unless the gateway of a static grid
   has passed one over. *)
LEMMA OneExitReached ==
  ASSUME IInv, Prices, strategy = "DynamicGridAdx" \/ Missed = {},
         NEW o \in AtGateway(gateway), NEW p \in AtGateway(gateway),
         o.guid \in TakeProfits, p.guid \in StopLosses,
         watchedFor[o.guid] = watchedFor[p.guid],
         NEW price \in Int, Reached(o, price), Reached(p, price)
  PROVE  FALSE
<1>1. PICK l : l = LevelOf(o.guid) /\ l = LevelOf(p.guid)
  BY DEF LevelOf
<1>2. /\ l.side \in {-1, 1} /\ l.price \in Int
      /\ o.side = -l.side /\ o.trigger \in Int /\ p.side = -l.side /\ p.trigger \in Int
  BY <1>1, OrderOfLevel
<1>3. CASE strategy = "DynamicGridAdx"
  <2>1. p.guid \notin TakeProfits
    BY GuidsAreUnique
  <2>2. Gain(l, o.trigger) > 0 /\ Gain(l, p.trigger) < -(LevelsPerSide * LevelWidth)
    <3>1. Away(o.guid, o.trigger) /\ Away(p.guid, p.trigger)
      BY <1>3 DEF Prices, ExitsAway
    <3> QED BY <1>1, <2>1, <3>1 DEF Away
  <2> QED BY <1>2, <2>2, NeverBoth
<1>4. CASE Missed = {}
  <2>1. PICK last : last = gateway.m_last_price
    OBVIOUS
  <2>2. last \in Int /\ ~Reached(o, last) /\ ~Reached(p, last)
    BY <1>4, <2>1, NothingMissed DEF IInv, Types, IsBook
  <2>3. -l.side \in {-1, 1}
    BY <1>2
  <2> QED BY <1>2, <2>2, <2>3, NotBothAfterNone
<1> QED BY <1>3, <1>4

LEMMA ReachedTogether ==
  ASSUME IInv, Prices, strategy = "DynamicGridAdx" \/ Missed = {},
         NEW o \in AtGateway(gateway), NEW p \in AtGateway(gateway),
         watchedFor[o.guid] = watchedFor[p.guid],
         NEW price \in Int, Reached(o, price), Reached(p, price)
  PROVE  o = p
<1>1. PICK l : l = LevelOf(o.guid) /\ l = LevelOf(p.guid)
  BY DEF LevelOf
<1>2. o.guid \in {l.tp, l.sl} /\ p.guid \in {l.tp, l.sl} /\ l.tp \in TakeProfits /\ l.sl \in StopLosses
  BY <1>1, OrderOfLevel
<1>3. o.guid = p.guid => o = p
  BY BookOrders DEF IInv, Types
<1>4. ~(o.guid \in TakeProfits /\ p.guid \in StopLosses)
  BY OneExitReached
<1>5. ~(p.guid \in TakeProfits /\ o.guid \in StopLosses)
  BY OneExitReached
<1> QED BY <1>2, <1>3, <1>4, <1>5

LEMMA HeldIsIntegers ==
  ASSUME IInv
  PROVE  Held \in [Levels -> Int]
<1>1. \A k \in Levels : Held[k] \in Int
  <2> SUFFICES ASSUME NEW k \in Levels PROVE Held[k] \in Int
    OBVIOUS
  <2>1. PICK r : r = m_orders_by_levels[k]
    OBVIOUS
  <2>2. r # None => r.side \in Int
    BY <2>1, LevelSides
  <2> QED BY <2>1, <2>2, HeldIs
<1> QED BY <1>1 DEF Held

(* A price: all the open levels have both their exits, so what is executed closes them. *)
LEMMA PriceCloses ==
  ASSUME IInv, Prices, PriceSteps, strategy = "DynamicGridAdx" \/ Missed = {}
  PROVE  Independent!Next
<1>1. PICK price, fired : Priced(price, fired)
  BY DEF PriceSteps
<1>2. /\ price \in Int /\ Moved(price, {}, fired) /\ queue = <<>>
      /\ m_orders_by_levels' = m_orders_by_levels
      /\ fired \subseteq AtGateway(gateway) /\ \A o \in fired : Reached(o, price)
      /\ ClosesLots(gateway.m_pos_volume, gateway'.m_pos_volume, fired)
  BY <1>1 DEF Priced, Moved
<1>3. PICK h : h = Held
  OBVIOUS
<1>4. h \in [Levels -> Int] /\ watchedFor \in [Fillable -> Levels]
  BY <1>3, HeldIsIntegers DEF IInv, Types
<1>5. \A o \in fired : o \in ExitOrders(Conditionals)
  BY <1>2, OrderOfLevel
<1>6. ASSUME NEW o \in fired PROVE h[watchedFor[o.guid]] = -o.side
  <2>1. PICK l : l = LevelOf(o.guid)
    OBVIOUS
  <2>2. /\ l.side \in {-1, 1} /\ o.side = -l.side /\ l # None
        /\ o.guid \in m_conditionals
    BY <1>2, <2>1, OrderOfLevel
  <2>3. watchedFor[o.guid] \in Levels /\ l.tp \in m_conditionals /\ l.sl \in m_conditionals
    BY <2>1, <2>2, LevelOfExit
  <2>4. GuidsAt(gateway) = m_conditionals
    BY <1>2, QuietLevels DEF EveryLevelHasBothExits, Quiet, RestingGuids, GuidsAt, AtGateway
  <2>5. h[watchedFor[o.guid]] = l.side
    BY <1>3, <2>1, <2>2, <2>3, <2>4, HeldIs DEF LevelOf
  <2> QED BY <2>2, <2>5
<1>7. \A o, p \in fired : watchedFor[o.guid] = watchedFor[p.guid] => o = p
  BY <1>2, ReachedTogether
<1>8. ASSUME NEW k \in Levels
      PROVE  Held'[k] = IF \E o \in fired : watchedFor[o.guid] = k THEN 0 ELSE h[k]
  BY <1>2, <1>3, HeldAfter
<1>9. fired \subseteq ExitOrders(Conditionals) /\ \A o \in fired : h[watchedFor[o.guid]] = -o.side
  BY <1>5, <1>6
<1> QED BY <1>2, <1>3, <1>4, <1>7, <1>8, <1>9, LotsGoBack

(* An order that executes while a level is opened is an exit of a level that had both. *)
LEMMA PartnerRests ==
  ASSUME IInv, Prices, strategy = "DynamicGridAdx" \/ Missed = {},
         NEW o \in AtGateway(gateway), Reached(o, gateway.m_last_price)
  PROVE  Held[watchedFor[o.guid]] = -o.side
<1>1. strategy = "DynamicGridAdx"
  BY NothingMissed
<1>2. PICK l, price : l = LevelOf(o.guid) /\ price = gateway.m_last_price
  OBVIOUS
<1>3. /\ o \in ExitOrders(Conditionals) /\ o.guid \in m_conditionals
      /\ o.guid \in {l.tp, l.sl} /\ l # None /\ l.tp \in TakeProfits /\ l.sl \in StopLosses
      /\ l.side \in {-1, 1} /\ l.price \in Int /\ o.side = -l.side
  BY <1>2, OrderOfLevel
<1>4. /\ watchedFor[o.guid] \in Levels /\ l.tp \in m_conditionals /\ l.sl \in m_conditionals
      /\ watchedFor[l.tp] = watchedFor[o.guid] /\ watchedFor[l.sl] = watchedFor[o.guid]
  BY <1>2, <1>3, LevelOfExit
<1>5. price \in Int /\ Reached(o, price)
  BY <1>2 DEF IInv, Types, IsBook
<1>6. Away(o.guid, price)
  <2>1. Away(o.guid, o.trigger)
    BY <1>1 DEF Prices, ExitsAway
  <2> QED BY <1>2, <1>3, <1>5, <2>1, AwayWhenReached
<1>7. ASSUME NEW c \in {l.tp, l.sl} PROVE c \in GuidsAt(gateway)
  <2> SUFFICES ASSUME c \notin GuidsAt(gateway) PROVE FALSE
    OBVIOUS
  <2>1. c # o.guid
    BY DEF GuidsAt
  <2>2. LevelOf(c) = l
    BY <1>2, <1>4 DEF LevelOf
  <2>3. Away(c, price)
    BY <1>1, <1>2, <1>4 DEF Prices, ExecutedAway
  <2>4. l.sl \notin TakeProfits
    BY <1>3, GuidsAreUnique
  <2>5. Gain(l, price) > 0 /\ Gain(l, price) < -(LevelsPerSide * LevelWidth)
    BY <1>2, <1>3, <1>6, <2>1, <2>2, <2>3, <2>4 DEF Away
  <2>6. PICK x, y : x = LevelsPerSide * LevelWidth /\ y = Gain(l, price)
    OBVIOUS
  <2>7. x \in Nat /\ y \in Int
    BY <1>3, <1>5, <2>6, SidesHaveLevels, WidthIsPositive DEF Gain
  <2>8. y > 0 /\ y < -x
    BY <2>5, <2>6
  <2> QED BY <2>7, <2>8
<1>8. Held[watchedFor[o.guid]] = l.side
  BY <1>2, <1>3, <1>4, <1>7, HeldIs DEF LevelOf
<1> QED BY <1>3, <1>8

(* The take profit of a level is never reached by the price the level is opened at. *)
LEMMA NotReachedAtOnce ==
  ASSUME NEW l, l.side \in {-1, 1}, l.price \in Int,
         NEW o, o.side = -l.side, o.trigger \in Int, o.guid \in TakeProfits,
         Gain(l, o.trigger) > 0
  PROVE  ~Reached(o, l.price)
<1> SUFFICES ASSUME Reached(o, l.price) PROVE FALSE
  OBVIOUS
<1>1. o.guid \notin StopLosses
  BY GuidsAreUnique
<1>2. PICK x : x = 0
  OBVIOUS
<1>3. Gain(l, l.price) > 0
  BY <1>1, <1>2, ReachedIsAway
<1>4. PICK s, p : s = l.side /\ p = l.price
  OBVIOUS
<1>5. (p - p) * s > 0 /\ p \in Int /\ s \in {-1, 1}
  BY <1>3, <1>4 DEF Gain
<1> QED BY <1>5

(* A level is opened: its stop loss may execute at once, and other orders with it. *)
LEMMA OpeningCloses ==
  ASSUME IInv, Prices, OpeningSteps, strategy = "DynamicGridAdx" \/ Missed = {}
  PROVE  Independent!Next
<1>1. PICK i, l, TP, SL, fired : Opening(i, l, TP, SL, fired)
  BY DEF OpeningSteps
<1>2. PICK price, v, h : price = gateway.m_last_price /\ v = watchedFor' /\ h = Held
  OBVIOUS
<1>3. /\ i \in Levels /\ l = m_orders_by_levels[i] /\ l.tp = None
      /\ TP \in ExitOrders(TakeProfits) /\ SL \in ExitOrders(StopLosses)
      /\ TP.guid \notin m_conditionals /\ SL.guid \notin m_conditionals
      /\ TP.side = -l.side /\ SL.side = -l.side
      /\ Moved(price, {TP, SL}, fired)
      /\ fired \subseteq AtGateway(gateway) \cup {TP, SL}
      /\ AtGateway(gateway') = (AtGateway(gateway) \cup {TP, SL}) \ fired
      /\ \A o \in fired : Reached(o, price)
      /\ ClosesLots(gateway.m_pos_volume, gateway'.m_pos_volume, fired)
  BY <1>1, <1>2 DEF Opening, Moved
<1>4. /\ v[TP.guid] = i /\ v[SL.guid] = i /\ v \in [Fillable -> Levels]
      /\ l # None /\ l.side \in {-1, 1} /\ l.price \in Int /\ l.price = price
      /\ TP.guid \in TakeProfits /\ SL.guid \in StopLosses /\ TP.guid # SL.guid
      /\ TP.guid \notin GuidsAt(gateway) /\ SL.guid \notin GuidsAt(gateway)
      /\ TP.trigger \in Int /\ SL.trigger \in Int
      /\ Gain(l, TP.trigger) > 0
  BY <1>1, <1>2, OpeningPrices
<1>5. \A c \in m_conditionals : v[c] = watchedFor[c]
  BY <1>1, <1>2, OthersStay
<1>6. TP \notin fired
  BY <1>3, <1>4, NotReachedAtOnce
<1>7. ASSUME NEW o \in AtGateway(gateway)
      PROVE  /\ o.guid \in m_conditionals /\ o \in ExitOrders(Conditionals)
             /\ v[o.guid] = watchedFor[o.guid] /\ v[o.guid] # i
  <2>1. PICK r : r = LevelOf(o.guid)
    OBVIOUS
  <2>2. o.guid \in m_conditionals /\ o \in ExitOrders(Conditionals) /\ r.tp \in TakeProfits
    BY <2>1, OrderOfLevel
  <2>3. r.tp # None
    BY <2>2, NoneIsNoGuid DEF Fillable, Conditionals
  <2>4. watchedFor[o.guid] # i
    BY <1>3, <2>1, <2>3 DEF LevelOf
  <2> QED BY <1>5, <2>2, <2>4
<1>8. h[i] = l.side
  BY <1>2, <1>3, <1>4, HeldIs
<1>9. price \in Int
  BY <1>4
<1>10. ASSUME NEW o \in fired PROVE o \in ExitOrders(Conditionals) /\ h[v[o.guid]] = -o.side
  <2>1. CASE o \in AtGateway(gateway)
    <3>1. Held[watchedFor[o.guid]] = -o.side
      BY <1>2, <1>3, <2>1, PartnerRests
    <3> QED BY <1>2, <1>7, <2>1, <3>1
  <2>2. CASE o = SL
    <3>1. SL \in ExitOrders(Conditionals)
      BY <1>3 DEF ExitOrders, Conditionals
    <3>2. l.side = -SL.side
      BY <1>3, <1>4
    <3> QED BY <1>4, <1>8, <2>2, <3>1, <3>2
  <2> QED BY <1>3, <1>6, <2>1, <2>2
<1>11. ASSUME NEW o \in fired, NEW p \in fired, v[o.guid] = v[p.guid] PROVE o = p
  <2>1. CASE o \in AtGateway(gateway) /\ p \in AtGateway(gateway)
    BY <1>3, <1>7, <1>9, <1>11, <2>1, ReachedTogether
  <2>2. CASE o = SL /\ p = SL
    BY <2>2
  <2>3. CASE o = SL /\ p \in AtGateway(gateway)
    BY <1>4, <1>7, <1>11, <2>3
  <2>4. CASE p = SL /\ o \in AtGateway(gateway)
    BY <1>4, <1>7, <1>11, <2>4
  <2> QED BY <1>3, <1>6, <2>1, <2>2, <2>3, <2>4
<1>12. ASSUME NEW k \in Levels
       PROVE  Held'[k] = IF \E o \in fired : v[o.guid] = k THEN 0 ELSE h[k]
  <2>1. CASE k # i
    <3>1. m_orders_by_levels'[k] = m_orders_by_levels[k]
      BY <1>1, <2>1, OpenedLevel
    <3>2. \A a \in {TP, SL} : a.guid \notin m_conditionals /\ v[a.guid] # k
      BY <1>3, <1>4, <2>1
    <3> QED BY <1>2, <1>3, <1>5, <3>1, <3>2, HeldAfter
  <2>2. CASE k = i
    <3>1. PICK r : r = [l EXCEPT !.tp = TP.guid, !.sl = SL.guid]
      OBVIOUS
    <3>2. m_orders_by_levels'[i] = r
      BY <1>1, <1>3, <3>1, OpenedLevel
    <3>3. r \in LevelRecords /\ r.tp = TP.guid /\ r.sl = SL.guid /\ r.side = l.side
      <4>1. l \in LevelRecords
        BY <1>1 DEF Opening
      <4> QED BY <1>4, <3>1, <4>1 DEF LevelRecords
    <3>4. r # None /\ r.tp # None
      BY <1>4, <3>3, LevelsAreNotNone, NoneIsNoGuid DEF Fillable, Conditionals
    <3>5. Held'[i] = IF {TP.guid, SL.guid} \subseteq GuidsAt(gateway') THEN l.side ELSE 0
      BY <1>3, <3>2, <3>3, <3>4, HeldNext
    <3>6. TP.guid \in GuidsAt(gateway')
      BY <1>3, <1>6 DEF GuidsAt
    <3>7. SL.guid \in GuidsAt(gateway') <=> SL \notin fired
      BY <1>3, <1>4 DEF GuidsAt
    <3>8. (\E o \in fired : v[o.guid] = i) <=> SL \in fired
      BY <1>3, <1>4, <1>6, <1>7
    <3> QED BY <1>8, <2>2, <3>5, <3>6, <3>7, <3>8
  <2> QED BY <2>1, <2>2
<1>13. fired \subseteq ExitOrders(Conditionals) /\ \A o \in fired : h[v[o.guid]] = -o.side
  BY <1>10
<1>14. h \in [Levels -> Int]
  BY <1>2, HeldIsIntegers
<1> QED BY <1>2, <1>3, <1>4, <1>11, <1>12, <1>13, <1>14, LotsGoBack

(* A level that holds nothing is entered. *)
LEMMA EntryEnters ==
  ASSUME IInv, EntrySteps
  PROVE  Independent!Next
<1>1. PICK l, o : Entering(l, o)
  BY DEF EntrySteps
<1>2. PICK r, h, k, side : /\ r = [mo |-> o, side |-> -Sign(l), price |-> gateway.m_last_price,
                                   tp |-> None, sl |-> None]
                           /\ h = Held /\ k = Held' /\ side = -Sign(l)
  OBVIOUS
<1>3. /\ l \in Levels /\ l # 0 /\ o \in Orders /\ m_orders_by_levels[l] = None
      /\ m_orders_by_levels' = [m_orders_by_levels EXCEPT ![l] = r]
      /\ AtGateway(gateway') = AtGateway(gateway)
      /\ gateway'.m_pos_volume = gateway.m_pos_volume - Sign(l)
  BY <1>1, <1>2 DEF Entering
<1>4. \A j \in Levels : m_orders_by_levels'[j] = IF j = l THEN r ELSE m_orders_by_levels[j]
  <2>1. m_orders_by_levels \in [Levels -> LevelRecords \cup {None}]
    BY DEF IInv, Types
  <2> QED BY <1>3, <2>1
<1>5. l \in Int /\ side \in {-1, 1} /\ Sign(l) \in Int /\ side = -Sign(l)
  <2>1. l \in Int
    BY <1>3, ZeroIsALevel
  <2> QED BY <1>2, <1>3, <2>1, SignIsSide
<1>6. GuidsAt(gateway') = GuidsAt(gateway)
  BY <1>3 DEF GuidsAt
<1>7. h[l] = 0
  BY <1>2, <1>3, HeldIs
<1>8. k[l] = side
  <2>1. m_orders_by_levels'[l] = r /\ r.tp = None /\ r.side = side
    BY <1>2, <1>3, <1>4
  <2>2. r # None
    BY <2>1, <1>2 DEF None
  <2> QED BY <1>2, <1>3, <2>1, <2>2, HeldNext
<1>9. \A j \in Levels \ {l} : k[j] = h[j]
  <2> SUFFICES ASSUME NEW j \in Levels, j # l PROVE k[j] = h[j]
    OBVIOUS
  <2>1. PICK a : a = m_orders_by_levels[j]
    OBVIOUS
  <2>2. a = m_orders_by_levels'[j]
    BY <1>4, <2>1
  <2>3. h[j] = IF a # None /\ (a.tp = None \/ {a.tp, a.sl} \subseteq GuidsAt(gateway)) THEN a.side ELSE 0
    BY <1>2, <2>1, HeldIs
  <2>4. k[j] = IF a # None /\ (a.tp = None \/ {a.tp, a.sl} \subseteq GuidsAt(gateway')) THEN a.side ELSE 0
    BY <1>2, <2>2, HeldNext
  <2> QED BY <1>6, <2>3, <2>4
<1>10. h \in [Levels -> Int]
  BY <1>2, HeldIsIntegers
<1>11. k = [h EXCEPT ![l] = side] /\ k \in [Levels -> Int]
  <2>1. k = [j \in Levels |-> HeldBy(j)']
    BY <1>2 DEF Held
  <2>2. side \in Int
    BY <1>5
  <2>3. \A j \in Levels : k[j] = IF j = l THEN side ELSE h[j]
    BY <1>8, <1>9
  <2> QED BY <1>3, <1>10, <2>1, <2>2, <2>3
<1>12. /\ Independent!Lots(h) \in Int /\ Independent!Lots(k) \in Int
       /\ Independent!Lots(k) = Independent!Lots(h) + k[l] - h[l]
  BY <1>3, <1>9, <1>10, <1>11, LotsChange
<1>13. gateway'.m_pos_volume = gateway.m_pos_volume + Independent!Lots(k) - Independent!Lots(h)
  <2>1. PICK p, q : p = gateway.m_pos_volume /\ q = gateway'.m_pos_volume
    OBVIOUS
  <2>2. p \in Int /\ q = p - Sign(l)
    BY <1>3, <2>1 DEF IInv, Types, IsBook
  <2>3. q = p + side
    BY <1>5, <2>2
  <2> QED BY <1>5, <1>7, <1>8, <1>12, <2>1, <2>2, <2>3
<1>14. side = Independent!Side(l)
  BY <1>3, <1>5 DEF Sign, Independent!Side
<1>15. l \in Independent!Levels
  BY <1>3 DEF Levels, Independent!Levels
<1>16. Independent!Enter(l)
  BY <1>2, <1>3, <1>7, <1>11, <1>14 DEF Independent!Enter, Held
<1> QED BY <1>2, <1>13, <1>15, <1>16 DEF Independent!Next, Held

(* The record of a level goes after its lot has gone. *)
LEMMA ClosingLetsGo ==
  ASSUME IInv, ClosingSteps
  PROVE  UNCHANGED Independent!levelVars
<1>1. PICK i, l, g : Closing(i, l, g)
  BY DEF ClosingSteps
<1>2. /\ i \in Levels /\ l = m_orders_by_levels[i] /\ l # None /\ g \in {l.tp, l.sl}
      /\ l.tp \in TakeProfits /\ watchedFor[l.tp] = i /\ watchedFor[l.sl] = i
      /\ g \notin GuidsAt(gateway)
      /\ m_orders_by_levels' = [m_orders_by_levels EXCEPT ![i] = None]
      /\ AtGateway(gateway') = {o \in AtGateway(gateway) : o.guid \notin {l.tp, l.sl}}
      /\ gateway'.m_pos_volume = gateway.m_pos_volume
  BY <1>1 DEF Closing
<1>3. \A j \in Levels : m_orders_by_levels'[j] = IF j = i THEN None ELSE m_orders_by_levels[j]
  <2>1. m_orders_by_levels \in [Levels -> LevelRecords \cup {None}]
    BY DEF IInv, Types
  <2> QED BY <1>2, <2>1
<1>4. \A c : c \notin {l.tp, l.sl} => (c \in GuidsAt(gateway') <=> c \in GuidsAt(gateway))
  BY <1>2 DEF GuidsAt
<1>5. \A j \in Levels : Held'[j] = Held[j]
  <2> SUFFICES ASSUME NEW j \in Levels PROVE Held'[j] = Held[j]
    OBVIOUS
  <2>1. CASE j = i
    <3>1. l.tp # None
      BY <1>2, NoneIsNoGuid DEF Fillable, Conditionals
    <3>2. Held[i] = 0
      BY <1>2, <3>1, HeldIs
    <3>3. Held'[i] = 0
      BY <1>2, <1>3, HeldNext
    <3> QED BY <2>1, <3>2, <3>3
  <2>2. CASE j # i
    <3>1. PICK a : a = m_orders_by_levels[j]
      OBVIOUS
    <3>2. a = m_orders_by_levels'[j]
      BY <1>3, <2>2, <3>1
    <3>3. Held[j] = IF a # None /\ (a.tp = None \/ {a.tp, a.sl} \subseteq GuidsAt(gateway)) THEN a.side ELSE 0
      BY <3>1, HeldIs
    <3>4. Held'[j] = IF a # None /\ (a.tp = None \/ {a.tp, a.sl} \subseteq GuidsAt(gateway')) THEN a.side ELSE 0
      BY <3>2, HeldNext
    <3>5. a # None /\ a.tp # None => watchedFor[a.tp] = j /\ watchedFor[a.sl] = j
      BY <3>1, LevelSides
    <3>6. a # None /\ a.tp # None => a.tp \notin {l.tp, l.sl} /\ a.sl \notin {l.tp, l.sl}
      BY <1>2, <2>2, <3>5
    <3> QED BY <1>4, <3>3, <3>4, <3>6
  <2> QED BY <2>1, <2>2
<1>6. Held' = Held
  <2>1. Held' = [j \in Levels |-> HeldBy(j)'] /\ Held = [j \in Levels |-> HeldBy(j)]
    BY DEF Held
  <2> QED BY <1>5, <2>1
<1> QED BY <1>2, <1>6 DEF Independent!levelVars, Held

LEMMA StayingHolds ==
  ASSUME Staying
  PROVE  UNCHANGED Independent!levelVars
<1>1. UNCHANGED <<gateway, m_orders_by_levels>>
  BY DEF Staying
<1>2. RestingGuids' = RestingGuids
  BY <1>1 DEF RestingGuids
<1>3. \A k \in Levels : HeldBy(k)' = HeldBy(k)
  BY <1>1, <1>2 DEF HeldBy
<1> QED BY <1>1, <1>3 DEF Independent!levelVars

(* Every step is one of the independent levels, or theirs stutter. *)
LEMMA StepIsIndependent ==
  ASSUME IInv, Prices, [Next]_vars, strategy = "DynamicGridAdx" \/ Missed = {}
  PROVE  [Independent!Next]_Independent!levelVars
<1>1. CASE PriceSteps
  BY <1>1, PriceCloses
<1>2. CASE EntrySteps
  BY <1>2, EntryEnters
<1>3. CASE OpeningSteps
  BY <1>3, OpeningCloses
<1>4. CASE ClosingSteps
  BY <1>4, ClosingLetsGo
<1>5. CASE Staying
  BY <1>5, StayingHolds
<1> QED BY <1>1, <1>2, <1>3, <1>4, <1>5, StepsAre

LEMMA NothingHeldFirst ==
  ASSUME Init
  PROVE  Independent!Init
<1>1. m_orders_by_levels = [l \in Levels |-> None] /\ gateway.m_pos_volume = 0
  BY DEF Init, EmptyGateway
<1>2. \A l \in Levels : HeldBy(l) = 0
  BY <1>1 DEF HeldBy
<1>3. Levels = Independent!Levels
  BY DEF Levels, Independent!Levels
<1> QED BY <1>1, <1>2, <1>3 DEF Independent!Init

(* The grids implement independent levels: whichever orders a price jumps over and one
   order of another sets off, a level that holds its lot is not entered again, and no lot
   is closed twice. *)
THEOREM GridsAreIndependentLevels == Spec => LevelsAreIndependent
<1>1. Init => Independent!Init
  BY NothingHeldFirst
<1>2. IInv /\ Prices /\ [Next]_vars =>
        [strategy = "DynamicGridAdx" \/ Missed = {} => Independent!Next]_Independent!levelVars
  BY StepIsIndependent
<1> QED BY <1>1, <1>2, OrdersInTurn, OrdersArePriced, PTL DEF Spec, LevelsAreIndependent

(* What the levels of a dynamic grid hold together moves with the position. *)
LEMMA PositionMoves ==
  ASSUME IInv, Prices, PositionIsHeld, [Next]_vars
  PROVE  PositionIsHeld'
<1>1. strategy' = strategy
  <2>1. CASE PriceSteps
    BY <2>1 DEF PriceSteps, Priced
  <2>2. CASE EntrySteps
    BY <2>2 DEF EntrySteps, Entering
  <2>3. CASE OpeningSteps
    BY <2>3 DEF OpeningSteps, Opening
  <2>4. CASE ClosingSteps
    BY <2>4 DEF ClosingSteps, Closing
  <2>5. CASE Staying
    BY <2>5 DEF Staying
  <2> QED BY <2>1, <2>2, <2>3, <2>4, <2>5, StepsAre
<1> SUFFICES ASSUME strategy = "DynamicGridAdx"
             PROVE  gateway'.m_pos_volume = Independent!Lots(Held')
  BY <1>1 DEF PositionIsHeld
<1>2. PICK p, q, h, k : /\ p = gateway.m_pos_volume /\ q = gateway'.m_pos_volume
                        /\ h = Held /\ k = Held'
  OBVIOUS
<1>3. p = Independent!Lots(h)
  BY <1>2 DEF PositionIsHeld
<1>4. CASE Independent!Next
  <2>1. q = p + Independent!Lots(k) - Independent!Lots(h)
    BY <1>2, <1>4 DEF Independent!Next, Held
  <2>2. Independent!Lots(h) \in Int /\ Independent!Lots(k) \in Int
    <3>1. h \in [Levels -> Int]
      BY <1>2, HeldIsIntegers
    <3>2. k \in [Levels -> Int]
      <4>1. Levels = Independent!Levels
        BY DEF Levels, Independent!Levels
      <4>2. ASSUME NEW l \in Independent!Levels, Independent!Enter(l) PROVE k \in [Levels -> Int]
        <5>1. k = [h EXCEPT ![l] = Independent!Side(l)]
          BY <1>2, <4>2 DEF Independent!Enter, Held
        <5>2. Independent!Side(l) \in Int
          BY DEF Independent!Side
        <5> QED BY <3>1, <5>1, <5>2
      <4>3. ASSUME NEW closed, Independent!Close(closed) PROVE k \in [Levels -> Int]
        <5>1. k = [l \in Levels |-> IF l \in closed THEN 0 ELSE h[l]]
          BY <1>2, <4>1, <4>3 DEF Independent!Close, Held
        <5> QED BY <3>1, <5>1
      <4> QED BY <1>4, <4>2, <4>3 DEF Independent!Next
    <3> QED BY <3>1, <3>2, ZeroIsALevel, LotsChange
  <2> QED BY <1>2, <1>3, <2>1, <2>2
<1>5. CASE UNCHANGED Independent!levelVars
  BY <1>2, <1>3, <1>5 DEF Independent!levelVars, Held
<1> QED BY <1>4, <1>5, StepIsIndependent

(* The position of a dynamic grid is what its levels hold, at any moment. *)
THEOREM PositionIsWhatLevelsHold == Spec => []PositionIsHeld
<1>1. Init => PositionIsHeld
  <2> SUFFICES ASSUME Init PROVE gateway.m_pos_volume = Independent!Lots(Held)
    BY DEF PositionIsHeld
  <2>1. PICK h : h = Held
    OBVIOUS
  <2>2. m_orders_by_levels = [l \in Levels |-> None] /\ gateway.m_pos_volume = 0
    BY DEF Init, EmptyGateway
  <2>3. \A l \in Levels : HeldBy(l) = 0
    BY <2>2 DEF HeldBy
  <2>4. h \in [Levels -> Int] /\ \A l \in Levels : h[l] = 0
    BY <2>1, <2>3 DEF Held
  <2> QED BY <2>1, <2>2, <2>4, LotsOfNone
<1>2. IInv /\ Prices /\ PositionIsHeld /\ [Next]_vars => PositionIsHeld'
  BY PositionMoves
<1> QED BY <1>1, <1>2, OrdersInTurn, OrdersArePriced, PTL DEF Spec
=============================================================================
