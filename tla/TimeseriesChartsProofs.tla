------------------------ MODULE TimeseriesChartsProofs ------------------------
(***************************************************************************)
(* The charts of a time series, for any number of windows and values, any  *)
(* times and any capacity.                                                 *)
(***************************************************************************)
EXTENDS TimeseriesCharts, QueueProofs

(* What is left when something is dropped twice *)
LEMMA TwiceAppended ==
  ASSUME NEW S, NEW r \in Seq(S), NEW e \in S, NEW A, NEW B,
         Without(Without(r, A), B) = Without(r, A \cup B)
  PROVE  /\ Append(r, e) \in Seq(S)
         /\ Without(Without(Append(r, e), A), B) = Without(Append(r, e), A \cup B)
<1>1. Without(r, A) \in Seq(S) /\ Append(r, e) \in Seq(S)
  BY WithoutAppend, AppendProperties
<1>2. Without(Append(r, e), A) = IF e \in A THEN Without(r, A) ELSE Append(Without(r, A), e)
  BY WithoutAppend
<1>3. Without(Append(r, e), A \cup B) =
        IF e \in A \cup B THEN Without(r, A \cup B) ELSE Append(Without(r, A \cup B), e)
  BY WithoutAppend
<1>4. PICK w \in Seq(S) : w = Without(r, A)
  BY <1>1
<1>5. Without(Append(w, e), B) = IF e \in B THEN Without(w, B) ELSE Append(Without(w, B), e)
  BY WithoutAppend
<1> QED BY <1>1, <1>2, <1>3, <1>4, <1>5

LEMMA WithoutTwice ==
  ASSUME NEW S, NEW q \in Seq(S), NEW A, NEW B
  PROVE  Without(Without(q, A), B) = Without(q, A \cup B)
<1> DEFINE T == {r \in Seq(S) : Without(Without(r, A), B) = Without(r, A \cup B)}
<1>1. <<>> \in T
  BY WithoutNothing
<1>2. ASSUME NEW r \in T, NEW e \in S PROVE Append(r, e) \in T
  <2>1. r \in Seq(S) /\ Without(Without(r, A), B) = Without(r, A \cup B)
    OBVIOUS
  <2>2. SUFFICES Append(r, e) \in Seq(S)
              /\ Without(Without(Append(r, e), A), B) = Without(Append(r, e), A \cup B)
    OBVIOUS
  <2> HIDE DEF T
  <2> QED BY <2>1, TwiceAppended
<1>3. T = Seq(S)
  <2> HIDE DEF T
  <2> QED BY <1>1, <1>2, InductionOnLists DEF T
<1> QED BY <1>3

(* Only the elements that the list may have count. *)
LEMMA WithoutSame ==
  ASSUME NEW S, NEW q \in Seq(S), NEW A, NEW B, \A x \in S : x \in A <=> x \in B
  PROVE  Without(q, A) = Without(q, B)
<1>1. \A i \in 1 .. Len(q) : q[i] \in S
  OBVIOUS
<1>2. \A i \in 1 .. Len(q) : q[i] \in A <=> q[i] \in B
  BY <1>1
<1> QED BY <1>2, WithoutAlike

-----------------------------------------------------------------------------
(* The data: what push has left of the values is the snapshot of all of them. *)

Numbers(n) == [v \in 1 .. n |-> v]

LEMMA NextNumber ==
  ASSUME NEW n \in Nat
  PROVE  /\ Numbers(n) \in Seq(1 .. n)
         /\ Numbers(n + 1) = Append(Numbers(n), n + 1)
<1>1. /\ Numbers(n) \in Seq(1 .. n) /\ Numbers(n + 1) \in Seq(1 .. n + 1)
      /\ Len(Numbers(n)) = n /\ Len(Numbers(n + 1)) = n + 1
  BY DEF Numbers
<1>2. Numbers(n) \in Seq(1 .. n + 1)
  BY DEF Numbers
<1>3. /\ Append(Numbers(n), n + 1) \in Seq(1 .. n + 1)
      /\ Len(Append(Numbers(n), n + 1)) = n + 1
      /\ \A i \in 1 .. n : Append(Numbers(n), n + 1)[i] = Numbers(n)[i]
      /\ Append(Numbers(n), n + 1)[n + 1] = n + 1
  BY <1>1, <1>2, AppendProperties
<1>4. \A i \in 1 .. n + 1 : i \in 1 .. n \/ i = n + 1
  OBVIOUS
<1>5. \A i \in 1 .. n + 1 : Numbers(n + 1)[i] = Append(Numbers(n), n + 1)[i]
  BY <1>3, <1>4 DEF Numbers
<1>6. /\ Len(Numbers(n + 1)) = Len(Append(Numbers(n), n + 1))
      /\ \A i \in 1 .. Len(Numbers(n + 1)) : Numbers(n + 1)[i] = Append(Numbers(n), n + 1)[i]
  BY <1>1, <1>3, <1>5
<1>7. PICK s, t : s = Numbers(n + 1) /\ t = Append(Numbers(n), n + 1)
  OBVIOUS
<1>8. s = t
  BY <1>1, <1>3, <1>6, <1>7, SeqEqual
<1> QED BY <1>1, <1>7, <1>8

LEMMA SnapshotGrows ==
  ASSUME m_capacity \in SUBSET Nat, NEW n \in Nat, n < Len(TimeOf)
  PROVE  Append(Without(Snapshot(n), {v \in 1 .. n : Outdated(v, n + 1)}), n + 1)
           = Snapshot(n + 1)
<1> DEFINE out == {v \in 1 .. n : Outdated(v, n + 1)}
<1>1. /\ \A v \in 1 .. n + 1 : TimeOf[v] \in Int
      /\ n > 0 => TimeOf[n] <= TimeOf[n + 1]
  BY TimesAreNumbers, TimeIsMonotone
<1>2. PICK A, B, C : A = TooOld(n) /\ B = out /\ C = TooOld(n + 1)
  OBVIOUS
<1>3. \A v \in 1 .. n : v \in A \cup B <=> v \in C
  BY <1>1, <1>2 DEF TooOld, Outdated
<1>4. n + 1 \notin C
  BY <1>1, <1>2 DEF TooOld
<1>5. PICK q : q = Numbers(n)
  OBVIOUS
<1>6. q \in Seq(1 .. n) /\ Numbers(n + 1) = Append(q, n + 1)
  BY <1>5, NextNumber
<1>7. Snapshot(n) = Without(q, A) /\ Snapshot(n + 1) = Without(Append(q, n + 1), C)
  BY <1>2, <1>5, <1>6 DEF Snapshot, Numbers
<1> HIDE DEF out
<1>8. Without(Without(q, A), B) = Without(q, A \cup B)
  BY <1>6, WithoutTwice
<1>9. Without(q, A \cup B) = Without(q, C)
  BY <1>3, <1>6, WithoutSame
<1>10. PICK S : S = (1 .. n) \cup {n + 1}
  OBVIOUS
<1>11. q \in Seq(S) /\ n + 1 \in S
  <2>1. 1 .. n \subseteq S /\ n + 1 \in S
    BY <1>10
  <2> QED BY <1>6, <2>1, SeqMonotonic
<1>12. Without(Append(q, n + 1), C) = Append(Without(q, C), n + 1)
  <2>1. PICK next : next = n + 1
    OBVIOUS
  <2>2. Without(Append(q, next), C) = Append(Without(q, C), next)
    <3>1. q \in Seq(S) /\ next \in S /\ next \notin C
      BY <1>4, <1>11, <2>1
    <3> QED BY ONLY <3>1, WithoutAppend
  <2> QED BY <2>1, <2>2
<1> QED BY <1>2, <1>7, <1>8, <1>9, <1>12 DEF out

-----------------------------------------------------------------------------
(* What a chart has been told: it has drawn the list drawn, and the signals of the list
   waiting are still queued for it. *)
Told(drawn, waiting, series) ==
  /\ Len(series) = Len(drawn) + Len(waiting)
  /\ \A i \in 1 .. Len(drawn) : drawn[i] = series[i]
  /\ \A i \in 1 .. Len(waiting) : waiting[i].value = series[Len(drawn) + i]

(* The snapshot of the first n values and the values behind b, k of them *)
Series(n, b, k) == Snapshot(n) \o [i \in 1 .. k |-> b + i]

LEMMA ToldAtOnce ==
  ASSUME NEW q, IsList(q) PROVE Told(q, <<>>, q)
<1>1. Len(<<>>) = 0 /\ Len(q) \in Nat
  BY LiteralLists, ListIndices
<1>2. PICK n : n = <<>>
  OBVIOUS
<1>3. Len(n) = 0
  BY <1>1, <1>2
<1> QED BY <1>1, <1>2, <1>3 DEF Told

LEMMA ToldMore ==
  ASSUME NEW drawn, NEW waiting, NEW series, NEW e,
         IsList(drawn), IsList(waiting), IsList(series), Told(drawn, waiting, series)
  PROVE  Told(drawn, Append(waiting, e), Append(series, e.value))
<1>1. Len(drawn) \in Nat /\ Len(waiting) \in Nat /\ Len(series) \in Nat
  BY ListIndices
<1>2. PICK w : w = Append(waiting, e)
  OBVIOUS
<1>3. /\ Len(w) = Len(waiting) + 1 /\ w[Len(waiting) + 1] = e
      /\ \A i \in 1 .. Len(waiting) : w[i] = waiting[i]
  BY <1>2, ListAppend
<1>4. PICK s : s = Append(series, e.value)
  OBVIOUS
<1>5. /\ Len(s) = Len(series) + 1 /\ s[Len(series) + 1] = e.value
      /\ \A i \in 1 .. Len(series) : s[i] = series[i]
  BY <1>4, ListAppend
<1>6. \A i \in 1 .. Len(w) : i \in 1 .. Len(waiting) \/ i = Len(waiting) + 1
  BY <1>1, <1>3
<1>7. Len(s) = Len(drawn) + Len(w)
  BY <1>1, <1>3, <1>5 DEF Told
<1>8. \A i \in 1 .. Len(drawn) : drawn[i] = s[i]
  BY <1>1, <1>5 DEF Told
<1>9. ASSUME NEW i \in 1 .. Len(w) PROVE w[i].value = s[Len(drawn) + i]
  <2>1. CASE i \in 1 .. Len(waiting)
    <3>1. Len(drawn) + i \in 1 .. Len(series)
      BY <1>1, <2>1 DEF Told
    <3> QED BY <1>3, <1>5, <2>1, <3>1 DEF Told
  <2>2. CASE i = Len(waiting) + 1
    <3>1. Len(drawn) + i = Len(series) + 1
      BY <1>1, <2>2 DEF Told
    <3> QED BY <1>3, <1>5, <2>2, <3>1
  <2> QED BY <1>6, <2>1, <2>2
<1> QED BY <1>2, <1>4, <1>7, <1>8, <1>9 DEF Told

LEMMA ToldNext ==
  ASSUME NEW drawn, NEW waiting, NEW series, NEW e,
         IsList(drawn), IsList(waiting), Told(drawn, <<e>> \o waiting, series)
  PROVE  Told(Append(drawn, e.value), waiting, series)
<1>1. Len(drawn) \in Nat /\ Len(waiting) \in Nat
  BY ListIndices
<1>2. PICK w : w = <<e>> \o waiting
  OBVIOUS
<1>3. /\ Len(w) = Len(waiting) + 1 /\ w[1] = e
      /\ \A i \in 1 .. Len(waiting) : w[1 + i] = waiting[i]
  <2>1. PICK o : o = <<e>>
    OBVIOUS
  <2>2. IsList(o) /\ Len(o) = 1 /\ o[1] = e
    BY <2>1, LiteralLists
  <2> QED BY <1>1, <1>2, <2>1, <2>2, ListConcat
<1>4. PICK d : d = Append(drawn, e.value)
  OBVIOUS
<1>5. /\ Len(d) = Len(drawn) + 1 /\ d[Len(drawn) + 1] = e.value
      /\ \A i \in 1 .. Len(drawn) : d[i] = drawn[i]
  BY <1>4, ListAppend
<1>6. \A i \in 1 .. Len(d) : i \in 1 .. Len(drawn) \/ i = Len(drawn) + 1
  BY <1>1, <1>5
<1>7. Told(drawn, w, series)
  BY <1>2
<1>8. w[1].value = series[Len(drawn) + 1]
  BY <1>1, <1>3, <1>7 DEF Told
<1>9. \A i \in 1 .. Len(d) : d[i] = series[i]
  BY <1>3, <1>5, <1>6, <1>7, <1>8 DEF Told
<1>10. ASSUME NEW i \in 1 .. Len(waiting) PROVE waiting[i].value = series[Len(d) + i]
  <2>1. 1 + i \in 1 .. Len(w) /\ Len(drawn) + (1 + i) = Len(d) + i
    BY <1>1, <1>3, <1>5
  <2> QED BY <1>3, <1>7, <2>1 DEF Told
<1>11. Len(series) = Len(d) + Len(waiting)
  BY <1>1, <1>3, <1>5, <1>7 DEF Told
<1> QED BY <1>4, <1>9, <1>10, <1>11 DEF Told

LEMMA RunIsList ==
  ASSUME NEW b \in Int, NEW k \in Nat
  PROVE  [i \in 1 .. k |-> b + i] \in Seq(Int) /\ Len([i \in 1 .. k |-> b + i]) = k
OBVIOUS

LEMMA SnapshotIsList == ASSUME NEW n \in Nat PROVE Snapshot(n) \in Seq(Int)
<1>1. PICK q : q = Numbers(n)
  OBVIOUS
<1>2. q \in Seq(1 .. n) /\ Snapshot(n) = Without(q, TooOld(n))
  BY <1>1, NextNumber DEF Snapshot, Numbers
<1>3. Without(q, TooOld(n)) \in Seq(1 .. n)
  BY <1>2, InWithout
<1> QED BY <1>2, <1>3, SeqMonotonic

LEMMA SeriesGrows ==
  ASSUME NEW n \in Nat, NEW b \in Int, NEW k \in Nat
  PROVE  /\ IsList(Series(n, b, k))
         /\ Series(n, b, 0) = Snapshot(n)
         /\ Series(n, b, k + 1) = Append(Series(n, b, k), b + k + 1)
<1> DEFINE Run(m) == [i \in 1 .. m |-> b + i]
<1>1. PICK s : s = Snapshot(n)
  OBVIOUS
<1>2. s \in Seq(Int)
  BY <1>1, SnapshotIsList
<1>3. \A m \in Nat : Run(m) \in Seq(Int) /\ Len(Run(m)) = m
  BY RunIsList
<1>4. Run(k + 1) = Append(Run(k), b + k + 1)
  <2>1. /\ Run(k) \in Seq(Int) /\ Run(k + 1) \in Seq(Int) /\ b + k + 1 \in Int
        /\ Len(Run(k)) = k /\ Len(Run(k + 1)) = k + 1
    BY <1>3
  <2>2. PICK r, t, u : r = Run(k) /\ t = Run(k + 1) /\ u = Append(r, b + k + 1)
    OBVIOUS
  <2>3. /\ u \in Seq(Int) /\ Len(u) = k + 1 /\ u[k + 1] = b + k + 1
        /\ \A i \in 1 .. k : u[i] = r[i]
    BY <2>1, <2>2, AppendProperties
  <2>4. /\ \A i \in 1 .. k : r[i] = b + i
        /\ \A i \in 1 .. k + 1 : t[i] = b + i
    BY <2>2
  <2> HIDE DEF Run
  <2>5. \A i \in 1 .. k + 1 : t[i] = u[i]
    BY <2>3, <2>4
  <2>6. t = u
    BY <2>1, <2>2, <2>3, <2>5, SeqEqual
  <2> QED BY <2>2, <2>6
<1>5. Run(0) = <<>>
  OBVIOUS
<1>6. Series(n, b, k) = s \o Run(k) /\ Series(n, b, k + 1) = s \o Run(k + 1)
      /\ Series(n, b, 0) = s \o Run(0)
  BY <1>1 DEF Series
<1> HIDE DEF Run
<1>7. IsList(s) /\ IsList(Run(k))
  BY <1>2, <1>3 DEF IsList
<1>8. s \o <<>> = s
  BY <1>7, LiteralLists
<1>9. s \o Append(Run(k), b + k + 1) = Append(s \o Run(k), b + k + 1)
  <2>1. PICK o : o = <<b + k + 1>>
    OBVIOUS
  <2>2. IsList(o) /\ Append(Run(k), b + k + 1) = Run(k) \o o
    BY <1>7, <2>1, LiteralLists, ListAppend
  <2>3. IsList(s \o Run(k)) /\ (s \o Run(k)) \o o = s \o (Run(k) \o o)
    <3>1. PICK r : r = Run(k)
      OBVIOUS
    <3>2. IsList(r) /\ IsList(s) /\ IsList(o)
      BY <1>7, <2>2, <3>1
    <3>3. IsList(s \o r) /\ (s \o r) \o o = s \o (r \o o)
      BY ONLY <3>2, ListConcat, ListAssociative
    <3> QED BY <3>1, <3>3
  <2>4. Append(s \o Run(k), b + k + 1) = (s \o Run(k)) \o o
    BY <2>1, <2>3, ListAppend
  <2> QED BY <2>2, <2>3, <2>4
<1>10. IsList(s \o Run(k))
  BY <1>7, ListConcat
<1> QED BY <1>1, <1>4, <1>5, <1>6, <1>8, <1>9, <1>10

-----------------------------------------------------------------------------
(* The inductive invariant *)

Entries == [chart : Charts, value : DOMAIN TimeOf]

(* Serving: push holds the mutex and is at the head of todo, or between two. *)
AtHead  == {"promoted", "given", "stuck"}
Serving == AtHead \cup {"visiting"}

Types ==
  /\ m_capacity \in SUBSET Nat /\ pushed \in 0 .. Len(TimeOf)
  /\ pc \in Serving \cup {"idle", "stored"}
  /\ lock \in {"free", "strategy", "ui"}
  /\ window \in [Charts -> {"none", "opening", "open", "closing", "closed"}]
  /\ m_subscriptions \in Seq(Charts) /\ Once(m_subscriptions)
  /\ todo \in Seq(Charts) /\ Once(todo)
  /\ posted \in Seq(Entries)
  /\ shown \in [Charts -> Seq(Int)] /\ opened \in [Charts -> Nat]

(* Who holds the mutex of the subscriptions, that one window is opened or closed at a
   time, and what push has in hand *)
Turns ==
  /\ lock = "strategy" <=> pc \in Serving
  /\ lock = "ui" <=> \E c \in Charts : window[c] = "opening"
  /\ \A c, d \in Charts : {window[c], window[d]} \subseteq {"opening", "closing"} => c = d
  /\ pc \in {"idle", "stored"} => todo = <<>>
  /\ pc \in AtHead => todo # <<>>
  /\ pc # "idle" => pushed > 0

(* A window that is open has its entry, and signals are queued for open windows only. *)
Listed ==
  /\ \A c \in Charts : In(c, m_subscriptions) \/ In(c, todo) => window[c] # "none"
  /\ \A c \in Charts :
       window[c] \in {"opening", "open"} /\ ~destroyed => In(c, m_subscriptions)
  /\ \A e \in Entries : In(e, posted) => window[e.chart] = "open"

DataIsSnapshot == m_data = Snapshot(pushed)

(* The value being pushed is still to come to a chart. *)
Waits(c) ==
  \/ pc = "stored"
  \/ pc \in {"visiting", "promoted"} /\ In(c, todo)
  \/ pc \in {"given", "stuck"} /\ In(c, Tail(todo))

Reached(c) == IF Waits(c) THEN pushed - 1 ELSE pushed

OfOthers(c) == {e \in Entries : e.chart # c}

(* What an open chart has been told is its snapshot and all the values behind it, from the
   value being pushed when it opened or the next, to the last one that was due. *)
InOrder(c) ==
  \E b \in Int, k \in Nat :
    /\ b \in {opened[c] - 1, opened[c]} /\ b >= 0
    /\ b + k = Reached(c)
    /\ Told(shown[c], Without(posted, OfOthers(c)), Series(opened[c], b, k))

ShownInOrder == \A c \in Charts : window[c] = "open" => InOrder(c)

IInv == Types /\ Turns /\ Listed /\ DataIsSnapshot /\ ShownInOrder

LEMMA InitIsInvariant == Init => IInv
<1> SUFFICES ASSUME Init PROVE IInv
  OBVIOUS
<1>1. PICK n : n = <<>>
  OBVIOUS
<1>2. /\ m_data = n /\ m_subscriptions = n /\ todo = n /\ posted = n
      /\ pushed = 0 /\ pc = "idle" /\ lock = "free" /\ ~destroyed
      /\ window = [c \in Charts |-> "none"] /\ shown = [c \in Charts |-> n]
      /\ opened = [c \in Charts |-> 0] /\ m_capacity \in Capacities
  BY <1>1 DEF Init
<1>3. n \in Seq(Charts) /\ n \in Seq(Entries) /\ n \in Seq(Int) /\ Len(n) = 0
  BY <1>1, EmptySeq
<1>4. Once(n) /\ \A x : ~In(x, n)
  BY <1>3 DEF Once, In
<1>5. Types
  BY <1>2, <1>3, <1>4, TimesAreNumbers DEF Types, Serving, AtHead
<1>6. Turns
  BY <1>1, <1>2 DEF Turns, Serving, AtHead
<1>7. Listed
  BY <1>2, <1>4 DEF Listed
<1>8. DataIsSnapshot
  <2>1. Numbers(0) = <<>>
    <3>1. Numbers(0) \in Seq(1 .. 0) /\ Len(Numbers(0)) = 0
      BY DEF Numbers
    <3> QED BY <3>1, EmptySeq
  <2>2. Snapshot(0) = <<>>
    BY <2>1, WithoutNothing DEF Snapshot, Numbers
  <2> QED BY <1>1, <1>2, <2>2 DEF DataIsSnapshot
<1>9. ShownInOrder
  BY <1>2 DEF ShownInOrder
<1> QED BY <1>5, <1>6, <1>7, <1>8, <1>9 DEF IInv

-----------------------------------------------------------------------------
(* The types, the turns and the lists *)

LEMMA HeadOfTodo ==
  ASSUME Types, todo # <<>>
  PROVE  /\ Head(todo) \in Charts /\ Tail(todo) \in Seq(Charts) /\ Once(Tail(todo))
         /\ ~In(Head(todo), Tail(todo))
         /\ \A c : In(c, todo) <=> c = Head(todo) \/ In(c, Tail(todo))
BY InTail, OnceTail DEF Types

LEMMA HeadOfPosted ==
  ASSUME Types, posted # <<>>
  PROVE  /\ Head(posted) \in Entries /\ Tail(posted) \in Seq(Entries)
         /\ \A e : In(e, posted) <=> e = Head(posted) \/ In(e, Tail(posted))
BY InTail DEF Types

LEMMA TypesKept ==
  ASSUME IInv, [Next]_vars
  PROVE  Types'
<1> USE DEF IInv
<1>1. CASE StoreValue
  BY <1>1 DEF StoreValue, Types, uiVars, Serving, AtHead
<1>2. CASE LockSubscriptions
  BY <1>2 DEF LockSubscriptions, Types, uiVars, Serving, AtHead
<1>3. CASE Promote
  BY <1>3, HeadOfTodo DEF Promote, Types, uiVars, Serving, AtHead
<1>4. CASE PushToConsumer
  <2>1. todo # <<>> /\ pushed > 0
    BY <1>4 DEF PushToConsumer, Turns, AtHead
  <2>2. PICK e : e = [chart |-> Head(todo), value |-> pushed]
    OBVIOUS
  <2>3. pushed \in DOMAIN TimeOf
    BY <2>1, TimesAreNumbers DEF Types
  <2>4. e \in Entries
    BY <2>1, <2>2, <2>3, HeadOfTodo DEF Entries
  <2>5. posted' = posted \/ posted' = Append(posted, e)
    BY <1>4, <2>2 DEF PushToConsumer
  <2>6. posted' \in Seq(Entries)
    <3>1. PICK q \in Seq(Entries) : q = posted
      BY DEF Types
    <3>2. Append(q, e) \in Seq(Entries)
      BY <2>4, AppendProperties
    <3> QED BY <2>5, <3>1, <3>2
  <2> QED BY <1>4, <2>6 DEF PushToConsumer, Types, uiVars, Serving, AtHead
<1>5. CASE Release
  <2>1. todo # <<>>
    BY <1>5 DEF Release, Turns, AtHead
  <2> QED BY <1>5, <2>1, HeadOfTodo DEF Release, Types, uiVars, Serving, AtHead
<1>6. CASE PushReturns
  BY <1>6 DEF PushReturns, Types, uiVars, Serving, AtHead
<1>7. CASE PushDestroyed
  BY <1>7 DEF PushDestroyed, Types, uiVars, pushVars, Serving, AtHead
<1>8. ASSUME NEW c \in Charts, Subscribe(c) PROVE Types'
  <2>1. window[c] = "none"
    BY <1>8 DEF Subscribe
  <2>2. ~In(c, m_subscriptions)
    BY <2>1 DEF Listed
  <2>3. Append(m_subscriptions, c) \in Seq(Charts) /\ Once(Append(m_subscriptions, c))
    BY <2>2, InAppend, OnceAppend DEF Types
  <2>4. m_subscriptions' = Append(m_subscriptions, c)
    BY <1>8 DEF Subscribe
  <2>5. m_subscriptions' \in Seq(Charts) /\ Once(m_subscriptions')
    BY <2>3, <2>4
  <2>6. window' \in [Charts -> {"none", "opening", "open", "closing", "closed"}]
    BY <1>8 DEF Subscribe, Types
  <2> QED BY <1>8, <2>5, <2>6 DEF Subscribe, Types, pushVars, Serving, AtHead
<1>9. ASSUME NEW c \in Charts, DrawSnapshot(c) PROVE Types'
  <2>1. m_data \in Seq(Int)
    BY SnapshotIsList DEF DataIsSnapshot, Types
  <2>2. shown' \in [Charts -> Seq(Int)] /\ opened' \in [Charts -> Nat]
    BY <1>9, <2>1 DEF DrawSnapshot, Types
  <2> QED BY <1>9, <2>2 DEF DrawSnapshot, Types, pushVars, Serving, AtHead
<1>10. ASSUME NEW c \in Charts, CloseWindow(c) PROVE Types'
  <2>1. posted' = Without(posted, [chart : {c}, value : DOMAIN TimeOf])
    BY <1>10 DEF CloseWindow
  <2>2. posted' \in Seq(Entries)
    BY <2>1, InWithout DEF Types
  <2>3. window' \in [Charts -> {"none", "opening", "open", "closing", "closed"}]
    BY <1>10 DEF CloseWindow, Types
  <2> QED BY <1>10, <2>2, <2>3 DEF CloseWindow, Types, pushVars, Serving, AtHead
<1>11. ASSUME NEW c \in Charts, Unsubscribe(c) PROVE Types'
  <2>1. m_subscriptions' = Without(m_subscriptions, {c})
    BY <1>11 DEF Unsubscribe, Erased
  <2>2. m_subscriptions' \in Seq(Charts) /\ Once(m_subscriptions')
    BY <2>1, InWithout, OnceWithout DEF Types
  <2>3. window' \in [Charts -> {"none", "opening", "open", "closing", "closed"}]
    BY <1>11 DEF Unsubscribe, Types
  <2> QED BY <1>11, <2>2, <2>3 DEF Unsubscribe, Types, pushVars, Serving, AtHead
<1>12. CASE DrawIncrement
  <2>1. posted # <<>>
    BY <1>12 DEF DrawIncrement
  <2>2. PICK e : e = Head(posted)
    OBVIOUS
  <2>3. e \in Entries /\ Tail(posted) \in Seq(Entries)
    BY <2>1, <2>2, HeadOfPosted
  <2>4. e.chart \in Charts /\ e.value \in Int
    BY <2>3, TimesAreNumbers DEF Entries
  <2>5. shown' = [shown EXCEPT ![e.chart] = Append(@, e.value)]
    BY <1>12, <2>2 DEF DrawIncrement
  <2>6. shown' \in [Charts -> Seq(Int)]
    BY <2>4, <2>5, AppendProperties DEF Types
  <2> QED BY <1>12, <2>3, <2>6 DEF DrawIncrement, Types, pushVars, Serving, AtHead
<1>13. CASE DestroyChannel
  <2>1. PICK n : n = <<>>
    OBVIOUS
  <2>2. n \in Seq(Charts) /\ Once(n)
    BY <2>1, EmptySeq DEF Once
  <2>3. m_subscriptions' = n
    BY <1>13, <2>1 DEF DestroyChannel
  <2> QED BY <1>13, <2>2, <2>3 DEF DestroyChannel, Types, pushVars, uiVars, Serving, AtHead
<1>14. CASE UNCHANGED vars
  BY <1>14 DEF vars, Types, pushVars, uiVars, Serving, AtHead
<1> QED BY <1>1, <1>2, <1>3, <1>4, <1>5, <1>6, <1>7, <1>8, <1>9, <1>10, <1>11, <1>12, <1>13,
           <1>14 DEF Next, PushStep, ChartStep

LEMMA TurnsKept ==
  ASSUME IInv, [Next]_vars
  PROVE  Turns'
<1> USE DEF IInv
<1>1. CASE StoreValue
  BY <1>1 DEF StoreValue, Turns, Types, uiVars, Serving, AtHead
<1>2. CASE LockSubscriptions
  BY <1>2 DEF LockSubscriptions, Turns, uiVars, Serving, AtHead
<1>3. CASE Promote
  BY <1>3 DEF Promote, Turns, uiVars, Serving, AtHead
<1>4. CASE PushToConsumer
  BY <1>4 DEF PushToConsumer, Turns, uiVars, Serving, AtHead
<1>5. CASE Release
  BY <1>5 DEF Release, Turns, uiVars, Serving, AtHead
<1>6. CASE PushReturns
  BY <1>6 DEF PushReturns, Turns, uiVars, Serving, AtHead
<1>7. CASE PushDestroyed
  BY <1>7 DEF PushDestroyed, Turns, uiVars, pushVars, Serving, AtHead
<1>8. ASSUME NEW c \in Charts, Subscribe(c) PROVE Turns'
  <2>1. window'[c] = "opening" /\ lock' = "ui" /\ pc \notin Serving
    BY <1>8 DEF Subscribe, Types, Turns
  <2>2. \A d \in Charts : d # c => window'[d] \notin {"opening", "closing"}
    BY <1>8 DEF Subscribe, UiIdle, Types
  <2>3. \A d, e \in Charts : {window'[d], window'[e]} \subseteq {"opening", "closing"} => d = e
    BY <2>2
  <2> QED BY <1>8, <2>1, <2>3 DEF Subscribe, Turns, pushVars, Serving, AtHead
<1>9. ASSUME NEW c \in Charts, DrawSnapshot(c) PROVE Turns'
  <2>1. lock = "ui" /\ \A d \in Charts : d # c => window[d] \notin {"opening", "closing"}
    BY <1>9 DEF DrawSnapshot, Turns
  <2>2. \A d \in Charts : window'[d] \notin {"opening", "closing"}
    BY <1>9, <2>1 DEF DrawSnapshot, Types
  <2> QED BY <1>9, <2>1, <2>2 DEF DrawSnapshot, Turns, pushVars, Serving, AtHead
<1>10. ASSUME NEW c \in Charts, CloseWindow(c) PROVE Turns'
  <2>1. \A d \in Charts : window[d] \notin {"opening", "closing"}
    BY <1>10 DEF CloseWindow, UiIdle
  <2>2. \A d \in Charts : window'[d] # "opening" /\ (d # c => window'[d] # "closing")
    BY <1>10, <2>1 DEF CloseWindow, Types
  <2> QED BY <1>10, <2>1, <2>2 DEF CloseWindow, Turns, pushVars, Serving, AtHead
<1>11. ASSUME NEW c \in Charts, Unsubscribe(c) PROVE Turns'
  <2>1. \A d \in Charts : d # c => window'[d] = window[d]
    BY <1>11 DEF Unsubscribe, Types
  <2>2. window'[c] = "closed" /\ window[c] = "closing"
    BY <1>11 DEF Unsubscribe, Types
  <2>3. /\ \A d \in Charts : window'[d] = "opening" <=> window[d] = "opening"
        /\ \A d, e \in Charts :
             {window'[d], window'[e]} \subseteq {"opening", "closing"} => d = e
    BY <2>1, <2>2 DEF Turns
  <2> QED BY <1>11, <2>3 DEF Unsubscribe, Turns, pushVars, Serving, AtHead
<1>12. CASE DrawIncrement
  BY <1>12 DEF DrawIncrement, Turns, pushVars, Serving, AtHead
<1>13. CASE DestroyChannel
  BY <1>13 DEF DestroyChannel, Turns, pushVars, uiVars, Serving, AtHead
<1>14. CASE UNCHANGED vars
  BY <1>14 DEF vars, Turns, pushVars, uiVars, Serving, AtHead
<1> QED BY <1>1, <1>2, <1>3, <1>4, <1>5, <1>6, <1>7, <1>8, <1>9, <1>10, <1>11, <1>12, <1>13,
           <1>14 DEF Next, PushStep, ChartStep

LEMMA ListedKept ==
  ASSUME IInv, [Next]_vars
  PROVE  Listed'
<1> USE DEF IInv
<1>1. CASE StoreValue
  BY <1>1 DEF StoreValue, Listed, uiVars
<1>2. CASE LockSubscriptions
  BY <1>2 DEF LockSubscriptions, Listed, uiVars
<1>3. CASE Promote
  BY <1>3, HeadOfTodo DEF Promote, Listed, uiVars
<1>4. CASE PushToConsumer
  <2>1. todo # <<>> /\ pushed > 0
    BY <1>4 DEF PushToConsumer, Turns, AtHead
  <2>2. PICK e : e = [chart |-> Head(todo), value |-> pushed]
    OBVIOUS
  <2>3. e \in Entries /\ e.chart = Head(todo)
    BY <2>1, <2>2, HeadOfTodo, TimesAreNumbers DEF Entries, Types
  <2>4. \/ posted' = posted
        \/ window[e.chart] = "open" /\ posted' = Append(posted, e)
    BY <1>4, <2>2 DEF PushToConsumer
  <2>5. \A x : In(x, Append(posted, e)) <=> In(x, posted) \/ x = e
    BY <2>3, InAppend DEF Types
  <2>6. \A x \in Entries : In(x, posted') => window[x.chart] = "open"
    BY <2>4, <2>5 DEF Listed
  <2> QED BY <1>4, <2>6 DEF PushToConsumer, Listed, uiVars
<1>5. CASE Release
  <2>1. todo # <<>>
    BY <1>5 DEF Release, Turns, AtHead
  <2> QED BY <1>5, <2>1, HeadOfTodo DEF Release, Listed, uiVars
<1>6. CASE PushReturns
  BY <1>6 DEF PushReturns, Listed, uiVars
<1>7. CASE PushDestroyed
  BY <1>7 DEF PushDestroyed, Listed, uiVars, pushVars
<1>8. ASSUME NEW c \in Charts, Subscribe(c) PROVE Listed'
  <2>1. \A d : In(d, Append(m_subscriptions, c)) <=> In(d, m_subscriptions) \/ d = c
    BY InAppend DEF Types
  <2>2. m_subscriptions' = Append(m_subscriptions, c)
    BY <1>8 DEF Subscribe
  <2>3. \A d : In(d, m_subscriptions') <=> In(d, m_subscriptions) \/ d = c
    BY <2>1, <2>2
  <2>4. window'[c] = "opening" /\ \A d \in Charts : d # c => window'[d] = window[d]
    BY <1>8 DEF Subscribe, Types
  <2>5. \A e \in Entries : In(e, posted) => window'[e.chart] = "open"
    <3>1. window[c] = "none" /\ \A e \in Entries : e.chart \in Charts
      BY <1>8 DEF Subscribe, Entries
    <3> QED BY <2>4, <3>1 DEF Listed
  <2> QED BY <1>8, <2>3, <2>4, <2>5 DEF Subscribe, Listed, pushVars
<1>9. ASSUME NEW c \in Charts, DrawSnapshot(c) PROVE Listed'
  <2>1. /\ window[c] = "opening" /\ window'[c] = "open"
        /\ \A d \in Charts : d # c => window'[d] = window[d]
    BY <1>9 DEF DrawSnapshot, Types
  <2>2. \A e \in Entries : e.chart \in Charts
    BY DEF Entries
  <2> QED BY <1>9, <2>1, <2>2 DEF DrawSnapshot, Listed, pushVars
<1>10. ASSUME NEW c \in Charts, CloseWindow(c) PROVE Listed'
  <2>1. posted' = Without(posted, [chart : {c}, value : DOMAIN TimeOf])
    BY <1>10 DEF CloseWindow
  <2>2. \A e \in Entries : In(e, posted') => In(e, posted) /\ e.chart # c
    <3>1. PICK D : D = [chart : {c}, value : DOMAIN TimeOf]
      OBVIOUS
    <3>2. \A e : In(e, Without(posted, D)) <=> In(e, posted) /\ e \notin D
      BY InWithout DEF Types
    <3>3. \A e \in Entries : e.chart = c => e \in D
      BY <3>1 DEF Entries
    <3> QED BY <2>1, <3>1, <3>2, <3>3
  <2>3. /\ window[c] = "open" /\ window'[c] \in {"closing", "closed"}
        /\ \A d \in Charts : d # c => window'[d] = window[d]
    BY <1>10 DEF CloseWindow, Types
  <2>4. \A e \in Entries : In(e, posted') => window'[e.chart] = "open"
    BY <2>2, <2>3 DEF Listed, Entries
  <2> QED BY <1>10, <2>3, <2>4 DEF CloseWindow, Listed, pushVars
<1>11. ASSUME NEW c \in Charts, Unsubscribe(c) PROVE Listed'
  <2>1. m_subscriptions' = Without(m_subscriptions, {c})
    BY <1>11 DEF Unsubscribe, Erased
  <2>2. \A d : In(d, m_subscriptions') <=> In(d, m_subscriptions) /\ d # c
    BY <2>1, InWithout DEF Types
  <2>3. /\ window[c] = "closing" /\ window'[c] = "closed"
        /\ \A d \in Charts : d # c => window'[d] = window[d]
    BY <1>11 DEF Unsubscribe, Types
  <2>4. \A e \in Entries : e.chart \in Charts
    BY DEF Entries
  <2> QED BY <1>11, <2>2, <2>3, <2>4 DEF Unsubscribe, Listed, pushVars
<1>12. CASE DrawIncrement
  <2>1. \A e \in Entries : In(e, posted') => In(e, posted)
    BY <1>12, HeadOfPosted DEF DrawIncrement
  <2> QED BY <1>12, <2>1 DEF DrawIncrement, Listed, pushVars
<1>13. CASE DestroyChannel
  <2>1. PICK n : n = <<>>
    OBVIOUS
  <2>2. Len(n) = 0 /\ m_subscriptions' = n
    BY <1>13, <2>1, EmptySeq DEF DestroyChannel
  <2>3. \A d : ~In(d, m_subscriptions')
    BY <2>2 DEF In
  <2> QED BY <1>13, <2>3 DEF DestroyChannel, Listed, pushVars, uiVars
<1>14. CASE UNCHANGED vars
  BY <1>14 DEF vars, Listed, pushVars, uiVars
<1> QED BY <1>1, <1>2, <1>3, <1>4, <1>5, <1>6, <1>7, <1>8, <1>9, <1>10, <1>11, <1>12, <1>13,
           <1>14 DEF Next, PushStep, ChartStep

LEMMA DataKept ==
  ASSUME IInv, [Next]_vars
  PROVE  DataIsSnapshot'
<1>1. m_capacity' = m_capacity
  BY DEF Next, PushStep, ChartStep, vars, StoreValue, LockSubscriptions, Promote,
         PushToConsumer, Release, PushReturns, PushDestroyed, Subscribe, DrawSnapshot,
         CloseWindow, Unsubscribe, DrawIncrement, DestroyChannel
<1>2. \A n : Snapshot(n)' = Snapshot(n)
  BY <1>1 DEF Snapshot, TooOld
<1>3. CASE StoreValue
  <2>1. PICK n : n = pushed
    OBVIOUS
  <2>2. n \in Nat /\ n < Len(TimeOf) /\ m_capacity \in SUBSET Nat /\ pushed' = n + 1
    BY <1>3, <2>1 DEF StoreValue, IInv, Types
  <2>3. m_data' = Append(Without(Snapshot(n), {v \in 1 .. n : Outdated(v, n + 1)}), n + 1)
    BY <1>3, <2>1 DEF StoreValue, IInv, DataIsSnapshot
  <2>4. Append(Without(Snapshot(n), {v \in 1 .. n : Outdated(v, n + 1)}), n + 1)
          = Snapshot(n + 1)
    BY <2>2, SnapshotGrows
  <2>5. m_data' = Snapshot(n + 1)
    BY <2>3, <2>4
  <2> QED BY <1>1, <2>2, <2>5 DEF DataIsSnapshot, Snapshot, TooOld
<1>4. CASE UNCHANGED <<m_data, pushed>>
  BY <1>1, <1>4 DEF IInv, DataIsSnapshot, Snapshot, TooOld
<1>5. StoreValue \/ UNCHANGED <<m_data, pushed>>
  BY DEF Next, PushStep, ChartStep, vars, pushVars, uiVars, LockSubscriptions, Promote,
         PushToConsumer, Release, PushReturns, PushDestroyed, Subscribe, DrawSnapshot,
         CloseWindow, Unsubscribe, DrawIncrement, DestroyChannel
<1> QED BY <1>3, <1>4, <1>5

-----------------------------------------------------------------------------
(* What the charts have been told *)

(* A chart of which nothing changes *)
LEMMA InOrderStays ==
  ASSUME IInv, NEW c \in Charts, InOrder(c), m_capacity' = m_capacity,
         shown'[c] = shown[c], opened'[c] = opened[c], Reached(c)' = Reached(c),
         Without(posted', OfOthers(c)) = Without(posted, OfOthers(c))
  PROVE  InOrder(c)'
<1>1. PICK b \in Int, k \in Nat :
        /\ b \in {opened[c] - 1, opened[c]} /\ b >= 0
        /\ b + k = Reached(c)
        /\ Told(shown[c], Without(posted, OfOthers(c)), Series(opened[c], b, k))
  BY DEF InOrder
<1>2. Series(opened[c], b, k)' = Series(opened[c], b, k)
  BY DEF Series, Snapshot, TooOld
<1>3. /\ b \in {opened'[c] - 1, opened'[c]} /\ b + k = Reached(c)'
      /\ Told(shown'[c], Without(posted', OfOthers(c)), Series(opened[c], b, k)')
  BY <1>1, <1>2
<1> QED BY <1>1, <1>3 DEF InOrder, OfOthers, Entries

LEMMA AllInOrderStay ==
  ASSUME IInv, m_capacity' = m_capacity, UNCHANGED <<window, shown, opened, posted>>,
         \A c \in Charts : window[c] = "open" => Reached(c)' = Reached(c)
  PROVE  ShownInOrder'
<1> SUFFICES ASSUME NEW c \in Charts, window'[c] = "open" PROVE InOrder(c)'
  BY DEF ShownInOrder
<1>1. InOrder(c) /\ Reached(c)' = Reached(c)
  BY DEF IInv, ShownInOrder
<1> QED BY <1>1, InOrderStays

(* What is queued for other charts does not count, and neither does what is dropped of it. *)
LEMMA ForAnother ==
  ASSUME NEW q \in Seq(Entries), NEW c \in Charts, NEW e \in Entries, e.chart # c
  PROVE  Without(Append(q, e), OfOthers(c)) = Without(q, OfOthers(c))
<1>1. PICK D : D = OfOthers(c)
  OBVIOUS
<1>2. e \in D
  BY <1>1 DEF OfOthers
<1> QED BY <1>1, <1>2, WithoutAppend

LEMMA ForThis ==
  ASSUME NEW q \in Seq(Entries), NEW c \in Charts, NEW e \in Entries, e.chart = c
  PROVE  Without(Append(q, e), OfOthers(c)) = Append(Without(q, OfOthers(c)), e)
<1>1. PICK D : D = OfOthers(c)
  OBVIOUS
<1>2. e \notin D
  BY <1>1 DEF OfOthers
<1>3. Without(Append(q, e), D) = Append(Without(q, D), e)
  BY <1>2, WithoutAppend
<1> QED BY <1>1, <1>3

LEMMA FirstSignal ==
  ASSUME NEW q \in Seq(Entries), NEW c \in Charts, q # <<>>
  PROVE  Without(q, OfOthers(c)) =
           IF Head(q).chart # c THEN Without(Tail(q), OfOthers(c))
           ELSE <<Head(q)>> \o Without(Tail(q), OfOthers(c))
<1>1. PICK D, e, t : D = OfOthers(c) /\ e = Head(q) /\ t = Tail(q)
  OBVIOUS
<1>2. e \in Entries /\ t \in Seq(Entries)
  BY <1>1, InTail
<1>3. e \in D <=> e.chart # c
  BY <1>1, <1>2 DEF OfOthers
<1>4. PICK n, o : n = <<>> /\ o = <<e>>
  OBVIOUS
<1>5. n \in Seq(Entries) /\ o = Append(n, e)
  BY <1>4, EmptySeq
<1>6. Without(n, D) = n
  BY <1>4, WithoutNothing
<1>7. Without(o, D) = IF e \in D THEN n ELSE o
  <2>1. Without(Append(n, e), D) = IF e \in D THEN Without(n, D) ELSE Append(Without(n, D), e)
    BY <1>2, <1>5, WithoutAppend
  <2> QED BY <1>5, <1>6, <2>1
<1>8. IsList(q) /\ IsList(o) /\ IsList(t)
  BY <1>2, <1>4, LiteralLists DEF IsList
<1>9. q = o \o t
  BY <1>1, <1>4, <1>8, ListTail
<1>10. Without(q, D) = Without(o, D) \o Without(t, D)
  BY <1>8, <1>9, ListWithoutConcat
<1>11. IsList(Without(t, D))
  BY <1>8, ListWithout
<1>12. n \o Without(t, D) = Without(t, D)
  BY <1>4, <1>11, LiteralLists
<1> QED BY <1>1, <1>3, <1>4, <1>7, <1>10, <1>12

LEMMA GoneWithItsWindow ==
  ASSUME NEW q \in Seq(Entries), NEW c \in Charts, NEW d \in Charts, c # d
  PROVE  Without(Without(q, [chart : {c}, value : DOMAIN TimeOf]), OfOthers(d))
           = Without(q, OfOthers(d))
<1>1. PICK A, D : A = [chart : {c}, value : DOMAIN TimeOf] /\ D = OfOthers(d)
  OBVIOUS
<1>2. \A e \in Entries : e \in A \cup D <=> e \in D
  BY <1>1 DEF OfOthers, Entries
<1>3. Without(Without(q, A), D) = Without(q, A \cup D)
  BY WithoutTwice
<1>4. Without(q, A \cup D) = Without(q, D)
  BY <1>2, WithoutSame
<1> QED BY <1>1, <1>3, <1>4

(* Nothing is queued for a window that is not open. *)
LEMMA NothingForClosed ==
  ASSUME Types, Listed, NEW c \in Charts, window[c] # "open"
  PROVE  Without(posted, OfOthers(c)) = <<>>
<1>1. PICK q, D : q = posted /\ D = OfOthers(c)
  OBVIOUS
<1>2. q \in Seq(Entries)
  BY <1>1 DEF Types
<1>3. PICK w : w = Without(q, D)
  OBVIOUS
<1>4. w \in Seq(Entries) /\ \A x : In(x, w) <=> In(x, q) /\ x \notin D
  BY <1>2, <1>3, InWithout
<1>5. \A x \in Entries : In(x, q) => x.chart # c
  BY <1>1 DEF Listed
<1>6. \A x \in Entries : ~In(x, w)
  BY <1>1, <1>4, <1>5 DEF OfOthers
<1>7. w = <<>>
  <2>1. SUFFICES ASSUME w # <<>> PROVE FALSE
    OBVIOUS
  <2>2. Head(w) \in Entries /\ In(Head(w), w)
    BY <1>4, <2>1, InTail
  <2> QED BY <1>6, <2>2
<1> QED BY <1>1, <1>3, <1>7

(* push reaches a chart: its signal is the next value of its series. *)
LEMMA ChartIsTold ==
  ASSUME IInv, PushToConsumer
  PROVE  ShownInOrder'
<1>1. todo # <<>> /\ pushed > 0 /\ pushed \in Nat
  BY DEF IInv, PushToConsumer, Turns, AtHead, Types
<1>2. PICK h, t, e : h = Head(todo) /\ t = Tail(todo) /\ e = [chart |-> h, value |-> pushed]
  OBVIOUS
<1>3. h \in Charts /\ ~In(h, t) /\ \A c : In(c, todo) <=> c = h \/ In(c, t)
  BY <1>1, <1>2, HeadOfTodo DEF IInv
<1>4. e \in Entries /\ e.chart = h /\ e.value = pushed
  BY <1>1, <1>2, <1>3, TimesAreNumbers DEF IInv, Types, Entries
<1>5. pc = "promoted" /\ pc' = "given" /\ todo' = todo /\ pushed' = pushed
      /\ m_capacity' = m_capacity /\ UNCHANGED <<window, shown, opened>>
  BY DEF PushToConsumer, uiVars
<1>6. posted' = IF window[h] = "open" THEN Append(posted, e) ELSE posted
  BY <1>2 DEF PushToConsumer
<1>7. posted \in Seq(Entries)
  BY DEF IInv, Types
<1> SUFFICES ASSUME NEW c \in Charts, window[c] = "open" PROVE InOrder(c)'
  BY <1>5 DEF ShownInOrder
<1>8. InOrder(c)
  BY DEF IInv, ShownInOrder
<1>9. CASE c # h
  <2>1. Without(posted', OfOthers(c)) = Without(posted, OfOthers(c))
    BY <1>4, <1>6, <1>7, <1>9, ForAnother
  <2>2. Reached(c)' = Reached(c)
    BY <1>2, <1>3, <1>5, <1>9 DEF Reached, Waits
  <2> QED BY <1>5, <1>8, <2>1, <2>2, InOrderStays
<1>10. CASE c = h
  <2>1. PICK b \in Int, k \in Nat :
          /\ b \in {opened[c] - 1, opened[c]} /\ b >= 0
          /\ b + k = Reached(c)
          /\ Told(shown[c], Without(posted, OfOthers(c)), Series(opened[c], b, k))
    BY <1>8 DEF InOrder
  <2>2. b + k + 1 = pushed /\ Reached(c)' = pushed
    <3>1. Waits(c) /\ ~Waits(c)'
      BY <1>2, <1>3, <1>5, <1>10 DEF Waits
    <3> QED BY <1>1, <1>5, <2>1, <3>1 DEF Reached
  <2>3. PICK w, s, n : w = Without(posted, OfOthers(c)) /\ s = Series(n, b, k)
                       /\ n = opened[c]
    OBVIOUS
  <2>4. n \in Nat /\ shown[c] \in Seq(Int)
    BY <2>3 DEF IInv, Types
  <2>5. IsList(s) /\ Series(n, b, k + 1) = Append(s, pushed)
    BY <2>2, <2>3, <2>4, SeriesGrows
  <2>6. IsList(w) /\ IsList(shown[c])
    BY <1>7, <2>3, <2>4, InWithout DEF IsList
  <2>7. Told(shown[c], Append(w, e), Append(s, e.value))
    BY <2>1, <2>3, <2>5, <2>6, ToldMore
  <2>8. Without(posted', OfOthers(c)) = Append(w, e)
    BY <1>4, <1>6, <1>7, <1>10, <2>3, ForThis
  <2>9. Told(shown'[c], Without(posted', OfOthers(c)), Series(n, b, k + 1))
    BY <1>4, <1>5, <2>5, <2>7, <2>8
  <2>10. Series(opened[c], b, k + 1)' = Series(n, b, k + 1)
    BY <1>5, <2>3 DEF Series, Snapshot, TooOld
  <2>11. PICK m \in Nat : m = k + 1
    OBVIOUS
  <2>12. /\ b \in {opened'[c] - 1, opened'[c]} /\ b >= 0 /\ b + m = Reached(c)'
         /\ Told(shown'[c], Without(posted', OfOthers(c)'), Series(opened[c], b, m)')
    BY <1>5, <2>1, <2>2, <2>9, <2>10, <2>11 DEF OfOthers, Entries
  <2> QED BY <2>12 DEF InOrder
<1> QED BY <1>9, <1>10

(* The snapshot is the start of a series, whether the last value is still to come again. *)
LEMMA SnapshotIsDrawn ==
  ASSUME IInv, NEW c \in Charts, DrawSnapshot(c)
  PROVE  ShownInOrder'
<1>1. /\ window[c] = "opening" /\ UNCHANGED <<m_capacity, posted, pc, pushed, todo>>
      /\ shown' = [shown EXCEPT ![c] = m_data] /\ opened' = [opened EXCEPT ![c] = pushed]
      /\ window' = [window EXCEPT ![c] = "open"]
  BY DEF DrawSnapshot, pushVars
<1>2. \A d \in Charts : Reached(d)' = Reached(d)
  BY <1>1 DEF Reached, Waits
<1> SUFFICES ASSUME NEW d \in Charts, window'[d] = "open" PROVE InOrder(d)'
  BY DEF ShownInOrder
<1>3. CASE d # c
  <2>1. window[d] = "open" /\ shown'[d] = shown[d] /\ opened'[d] = opened[d]
    BY <1>1, <1>3 DEF IInv, Types
  <2>2. InOrder(d)
    BY <2>1 DEF IInv, ShownInOrder
  <2> QED BY <1>1, <1>2, <2>1, <2>2, InOrderStays
<1>4. CASE d = c
  <2>1. lock = "ui" /\ pc \in {"idle", "stored"}
    BY <1>1 DEF IInv, Turns, Types
  <2>2. PICK n \in Nat : n = pushed
    BY DEF IInv, Types
  <2>3. PICK b \in Int : b = IF pc = "stored" THEN n - 1 ELSE n
    BY <2>2
  <2>4. b \in {n - 1, n} /\ b >= 0
    BY <2>1, <2>2, <2>3 DEF IInv, Turns
  <2>5. b + 0 = Reached(c)
    BY <2>1, <2>2, <2>3 DEF Reached, Waits
  <2>6. IsList(Series(n, b, 0)) /\ Series(n, b, 0) = Snapshot(n)
    BY SeriesGrows
  <2>7. shown'[c] = Series(n, b, 0) /\ opened'[c] = n
    BY <1>1, <2>2, <2>6 DEF IInv, DataIsSnapshot, Types
  <2>8. Without(posted', OfOthers(c)) = <<>>
    BY <1>1, NothingForClosed DEF IInv
  <2>9. Told(shown'[c], Without(posted', OfOthers(c)), Series(n, b, 0))
    BY <2>6, <2>7, <2>8, ToldAtOnce
  <2>10. Series(opened[c], b, 0)' = Series(n, b, 0)
    BY <1>1, <2>7 DEF Series, Snapshot, TooOld
  <2>11. /\ b \in {opened'[c] - 1, opened'[c]} /\ b >= 0 /\ b + 0 = Reached(c)'
         /\ Told(shown'[c], Without(posted', OfOthers(c)'), Series(opened[c], b, 0)')
    BY <1>2, <2>4, <2>5, <2>7, <2>9, <2>10 DEF OfOthers, Entries
  <2>12. InOrder(c)'
    BY <2>11 DEF InOrder
  <2> QED BY <1>4, <2>12
<1> QED BY <1>3, <1>4

(* A signal is drawn: what was queued for the chart first is now the last it has drawn. *)
LEMMA IncrementIsDrawn ==
  ASSUME IInv, DrawIncrement
  PROVE  ShownInOrder'
<1>1. PICK e : e = Head(posted)
  OBVIOUS
<1>2. /\ posted # <<>> /\ posted' = Tail(posted)
      /\ shown' = [shown EXCEPT ![e.chart] = Append(@, e.value)]
      /\ UNCHANGED <<m_capacity, window, opened, pc, pushed, todo>>
  BY <1>1 DEF DrawIncrement, pushVars
<1>3. posted \in Seq(Entries) /\ e \in Entries /\ posted' \in Seq(Entries)
  BY <1>1, <1>2, HeadOfPosted DEF IInv, Types
<1>4. e.chart \in Charts
  BY <1>3 DEF Entries
<1>5. \A d \in Charts : Reached(d)' = Reached(d)
  BY <1>2 DEF Reached, Waits
<1> SUFFICES ASSUME NEW d \in Charts, window[d] = "open" PROVE InOrder(d)'
  BY <1>2 DEF ShownInOrder
<1>6. InOrder(d)
  BY DEF IInv, ShownInOrder
<1>7. PICK q \in Seq(Entries) : q = posted
  BY <1>3
<1>8. Without(q, OfOthers(d)) = IF e.chart # d THEN Without(Tail(q), OfOthers(d))
                                ELSE <<e>> \o Without(Tail(q), OfOthers(d))
  BY <1>1, <1>2, <1>7, FirstSignal
<1>9. CASE e.chart # d
  <2>1. shown'[d] = shown[d]
    BY <1>2, <1>4, <1>9 DEF IInv, Types
  <2>2. Without(posted', OfOthers(d)) = Without(posted, OfOthers(d))
    BY <1>2, <1>7, <1>8, <1>9
  <2> QED BY <1>2, <1>5, <1>6, <2>1, <2>2, InOrderStays
<1>10. CASE e.chart = d
  <2>1. PICK b \in Int, k \in Nat :
          /\ b \in {opened[d] - 1, opened[d]} /\ b >= 0
          /\ b + k = Reached(d)
          /\ Told(shown[d], Without(posted, OfOthers(d)), Series(opened[d], b, k))
    BY <1>6 DEF InOrder
  <2>2. PICK w, s, drawn : w = Without(posted', OfOthers(d)) /\ s = Series(opened[d], b, k)
                           /\ drawn = shown[d]
    OBVIOUS
  <2>3. Without(posted, OfOthers(d)) = <<e>> \o w
    BY <1>2, <1>7, <1>8, <1>10, <2>2
  <2>4. IsList(drawn) /\ IsList(w)
    <3>1. drawn \in Seq(Int)
      BY <2>2 DEF IInv, Types
    <3>2. w \in Seq(Entries)
      BY <1>3, <2>2, InWithout
    <3> QED BY <3>1, <3>2 DEF IsList
  <2>5. Told(drawn, <<e>> \o w, s)
    BY <2>1, <2>2, <2>3
  <2>6. Told(Append(drawn, e.value), w, s)
    BY <2>4, <2>5, ToldNext
  <2>7. shown'[d] = Append(drawn, e.value)
    BY <1>2, <1>4, <1>10, <2>2 DEF IInv, Types
  <2>8. Series(opened[d], b, k)' = s
    BY <1>2, <2>2 DEF Series, Snapshot, TooOld
  <2>9. /\ b \in {opened'[d] - 1, opened'[d]} /\ b >= 0 /\ b + k = Reached(d)'
        /\ Told(shown'[d], Without(posted', OfOthers(d)'), Series(opened[d], b, k)')
    BY <1>2, <1>5, <2>1, <2>2, <2>6, <2>7, <2>8 DEF OfOthers, Entries
  <2> QED BY <2>9 DEF InOrder
<1> QED BY <1>9, <1>10

LEMMA OrderKept ==
  ASSUME IInv, [Next]_vars
  PROVE  ShownInOrder'
<1>1. CASE StoreValue
  <2>1. Types /\ pc = "idle" /\ pc' = "stored" /\ pushed' = pushed + 1
    BY <1>1 DEF StoreValue, IInv
  <2>2. \A c \in Charts : Reached(c)' = Reached(c)
    BY <2>1 DEF Reached, Waits, Types
  <2> QED BY <1>1, <2>2, AllInOrderStay DEF StoreValue, uiVars
<1>2. CASE LockSubscriptions
  <2>1. \A c \in Charts : window[c] = "open" => In(c, m_subscriptions)
    BY <1>2 DEF LockSubscriptions, IInv, Listed
  <2>2. \A c \in Charts : window[c] = "open" => Reached(c)' = Reached(c)
    BY <1>2, <2>1 DEF LockSubscriptions, Reached, Waits
  <2> QED BY <1>2, <2>2, AllInOrderStay DEF LockSubscriptions, uiVars
<1>3. CASE Promote
  <2>1. todo # <<>>
    BY <1>3 DEF Promote
  <2>2. \A c \in Charts : window[c] = "open" => Reached(c)' = Reached(c)
    BY <1>3, <2>1, HeadOfTodo DEF Promote, Reached, Waits, IInv
  <2> QED BY <1>3, <2>2, AllInOrderStay DEF Promote, uiVars
<1>4. CASE PushToConsumer
  BY <1>4, ChartIsTold
<1>5. CASE Release
  <2>1. \A c \in Charts : Reached(c)' = Reached(c)
    BY <1>5 DEF Release, Reached, Waits
  <2> QED BY <1>5, <2>1, AllInOrderStay DEF Release, uiVars
<1>6. CASE PushReturns
  <2>1. PICK n : n = <<>>
    OBVIOUS
  <2>2. todo = n /\ Len(n) = 0
    BY <1>6, <2>1, EmptySeq DEF PushReturns
  <2>3. \A c \in Charts : ~In(c, todo)
    BY <2>2 DEF In
  <2>4. \A c \in Charts : Reached(c)' = Reached(c)
    BY <1>6, <2>3 DEF PushReturns, Reached, Waits
  <2> QED BY <1>6, <2>4, AllInOrderStay DEF PushReturns, uiVars
<1>7. CASE PushDestroyed
  <2>1. \A c \in Charts : Reached(c)' = Reached(c)
    BY <1>7 DEF PushDestroyed, pushVars, Reached, Waits
  <2> QED BY <1>7, <2>1, AllInOrderStay DEF PushDestroyed, uiVars
<1>8. ASSUME NEW c \in Charts, Subscribe(c) PROVE ShownInOrder'
  <2>1. UNCHANGED <<m_capacity, shown, opened, posted, pc, pushed, todo>>
    BY <1>8 DEF Subscribe, pushVars
  <2>2. \A d \in Charts : window'[d] = "open" => window[d] = "open"
    BY <1>8 DEF Subscribe, IInv, Types
  <2>3. ASSUME NEW d \in Charts, window'[d] = "open" PROVE InOrder(d)'
    <3>1. InOrder(d) /\ Reached(d)' = Reached(d)
      BY <2>1, <2>2, <2>3 DEF IInv, ShownInOrder, Reached, Waits
    <3> QED BY <2>1, <3>1, InOrderStays
  <2> QED BY <2>3 DEF ShownInOrder
<1>9. ASSUME NEW c \in Charts, DrawSnapshot(c) PROVE ShownInOrder'
  BY <1>9, SnapshotIsDrawn
<1>10. ASSUME NEW c \in Charts, CloseWindow(c) PROVE ShownInOrder'
  <2>1. UNCHANGED <<m_capacity, shown, opened, pc, pushed, todo>>
    BY <1>10 DEF CloseWindow, pushVars
  <2>2. \A d \in Charts : window'[d] = "open" => window[d] = "open" /\ d # c
    BY <1>10 DEF CloseWindow, IInv, Types
  <2>3. posted \in Seq(Entries)
        /\ posted' = Without(posted, [chart : {c}, value : DOMAIN TimeOf])
    BY <1>10 DEF CloseWindow, IInv, Types
  <2>4. ASSUME NEW d \in Charts, window'[d] = "open" PROVE InOrder(d)'
    <3>1. InOrder(d) /\ Reached(d)' = Reached(d) /\ d # c
      BY <2>1, <2>2, <2>4 DEF IInv, ShownInOrder, Reached, Waits
    <3>2. Without(posted', OfOthers(d)) = Without(posted, OfOthers(d))
      BY <2>3, <3>1, GoneWithItsWindow
    <3> QED BY <2>1, <3>1, <3>2, InOrderStays
  <2> QED BY <2>4 DEF ShownInOrder
<1>11. ASSUME NEW c \in Charts, Unsubscribe(c) PROVE ShownInOrder'
  <2>1. UNCHANGED <<m_capacity, shown, opened, posted, pc, pushed, todo>>
    BY <1>11 DEF Unsubscribe, pushVars
  <2>2. \A d \in Charts : window'[d] = "open" => window[d] = "open"
    BY <1>11 DEF Unsubscribe, IInv, Types
  <2>3. ASSUME NEW d \in Charts, window'[d] = "open" PROVE InOrder(d)'
    <3>1. InOrder(d) /\ Reached(d)' = Reached(d)
      BY <2>1, <2>2, <2>3 DEF IInv, ShownInOrder, Reached, Waits
    <3> QED BY <2>1, <3>1, InOrderStays
  <2> QED BY <2>3 DEF ShownInOrder
<1>12. CASE DrawIncrement
  BY <1>12, IncrementIsDrawn
<1>13. CASE DestroyChannel
  <2>1. \A c \in Charts : Reached(c)' = Reached(c)
    BY <1>13 DEF DestroyChannel, pushVars, Reached, Waits
  <2> QED BY <1>13, <2>1, AllInOrderStay DEF DestroyChannel, uiVars
<1>14. CASE UNCHANGED vars
  <2>1. \A c \in Charts : Reached(c)' = Reached(c)
    BY <1>14 DEF vars, pushVars, Reached, Waits
  <2> QED BY <1>14, <2>1, AllInOrderStay DEF vars, uiVars
<1> QED BY <1>1, <1>2, <1>3, <1>4, <1>5, <1>6, <1>7, <1>8, <1>9, <1>10, <1>11, <1>12, <1>13,
           <1>14 DEF Next, PushStep, ChartStep

-----------------------------------------------------------------------------
(* push, subscribe and the closing of windows keep at any moment what each open chart has
   been told in step with the values stored. *)
THEOREM ChartsAreInStep == Spec => []IInv
<1>1. IInv /\ [Next]_vars => IInv'
  BY TypesKept, TurnsKept, ListedKept, DataKept, OrderKept DEF IInv
<1> QED BY <1>1, InitIsInvariant, PTL DEF Spec

LEMMA InOrderIsShown ==
  ASSUME IInv
  PROVE  ChartsShowTheSeries
<1> SUFFICES ASSUME NEW c \in Charts, window[c] = "open"
             PROVE  \E again \in {0, 1} :
                      LET all == Snapshot(opened[c]) \o [k \in 1 .. pushed |-> opened[c] - again + k]
                      IN again <= opened[c] /\ IsPrefix(shown[c], all)
  BY DEF ChartsShowTheSeries
<1>1. PICK b \in Int, k \in Nat :
        /\ b \in {opened[c] - 1, opened[c]} /\ b >= 0
        /\ b + k = Reached(c)
        /\ Told(shown[c], Without(posted, OfOthers(c)), Series(opened[c], b, k))
  BY DEF IInv, ShownInOrder, InOrder
<1>2. PICK n, s, drawn, w : n = opened[c] /\ s = Snapshot(n) /\ drawn = shown[c]
                            /\ w = Without(posted, OfOthers(c))
  OBVIOUS
<1>3. n \in Nat /\ pushed \in Nat /\ drawn \in Seq(Int) /\ posted \in Seq(Entries)
  BY <1>2 DEF IInv, Types
<1>4. s \in Seq(Int) /\ w \in Seq(Entries)
  BY <1>2, <1>3, SnapshotIsList, InWithout
<1>5. k <= pushed
  BY <1>1, <1>3 DEF Reached
<1>6. PICK again : again = n - b
  OBVIOUS
<1>7. again \in {0, 1} /\ again <= n /\ n - again = b
  BY <1>1, <1>2, <1>3, <1>6
<1> DEFINE Run(m) == [i \in 1 .. m |-> b + i]
<1>8. /\ Run(k) \in Seq(Int) /\ Len(Run(k)) = k
      /\ Run(pushed) \in Seq(Int) /\ Len(Run(pushed)) = pushed
      /\ \A i \in 1 .. k : Run(k)[i] = Run(pushed)[i]
  BY <1>3, <1>5
<1>9. Told(drawn, w, s \o Run(k))
  BY <1>1, <1>2 DEF Series
<1>10. PICK short, long : short = s \o Run(k) /\ long = s \o Run(pushed)
  OBVIOUS
<1>11. PICK r, t : r = Run(k) /\ t = Run(pushed)
  OBVIOUS
<1> HIDE DEF Run
<1>12. IsList(s) /\ IsList(r) /\ IsList(t)
  BY <1>4, <1>8, <1>11 DEF IsList
<1>13. /\ Len(short) = Len(s) + k /\ Len(long) = Len(s) + pushed
       /\ \A i \in 1 .. Len(s) : short[i] = s[i] /\ long[i] = s[i]
       /\ \A i \in 1 .. k : short[Len(s) + i] = r[i]
       /\ \A i \in 1 .. pushed : long[Len(s) + i] = t[i]
  <2>1. short = s \o r /\ long = s \o t /\ Len(r) = k /\ Len(t) = pushed
    BY <1>8, <1>10, <1>11
  <2>2. /\ Len(s \o r) = Len(s) + Len(r)
        /\ \A i \in 1 .. Len(s) : (s \o r)[i] = s[i]
        /\ \A i \in 1 .. Len(r) : (s \o r)[Len(s) + i] = r[i]
    BY <1>12, ListConcat
  <2>3. /\ Len(s \o t) = Len(s) + Len(t)
        /\ \A i \in 1 .. Len(s) : (s \o t)[i] = s[i]
        /\ \A i \in 1 .. Len(t) : (s \o t)[Len(s) + i] = t[i]
    BY <1>12, ListConcat
  <2> QED BY <2>1, <2>2, <2>3
<1>14. Len(s) \in Nat
  BY <1>4
<1>15. ASSUME NEW i \in 1 .. Len(short) PROVE short[i] = long[i]
  <2>1. CASE i \in 1 .. Len(s)
    BY <1>13, <2>1
  <2>2. CASE i \notin 1 .. Len(s)
    <3>1. PICK j \in 1 .. k : i = Len(s) + j
      <4>1. i - Len(s) \in 1 .. k /\ i = Len(s) + (i - Len(s))
        BY <1>13, <1>14, <2>2
      <4> QED BY <4>1
    <3>2. j \in 1 .. pushed /\ r[j] = t[j]
      BY <1>3, <1>5, <1>8, <1>11
    <3> QED BY <1>13, <3>1, <3>2
  <2> QED BY <2>1, <2>2
<1>16. Len(drawn) \in Nat /\ Len(w) \in Nat /\ Len(drawn) <= Len(short)
  BY <1>3, <1>4, <1>9, <1>10 DEF Told
<1>17. Len(drawn) <= Len(long) /\ \A i \in 1 .. Len(drawn) : drawn[i] = long[i]
  <2>1. \A i \in 1 .. Len(drawn) : drawn[i] = short[i]
    BY <1>9, <1>10 DEF Told
  <2>2. \A i \in 1 .. Len(drawn) : i \in 1 .. Len(short)
    BY <1>16, <1>13, <1>14
  <2> QED BY <1>3, <1>5, <1>13, <1>14, <1>15, <1>16, <2>1, <2>2
<1>18. IsPrefix(drawn, long)
  <2>1. long \in Seq(Int)
    BY <1>4, <1>8, <1>10, ConcatProperties
  <2>2. PICK m \in Nat : m = Len(drawn)
    BY <1>16
  <2>3. /\ SubSeq(drawn, 1, m) \in Seq(Int) /\ Len(SubSeq(drawn, 1, m)) = m
        /\ SubSeq(long, 1, m) \in Seq(Int) /\ Len(SubSeq(long, 1, m)) = m
        /\ \A i \in 1 .. m : SubSeq(drawn, 1, m)[i] = drawn[i] /\ SubSeq(long, 1, m)[i] = long[i]
    BY <1>3, <1>17, <2>1, <2>2
  <2>4. PICK x, y : x = SubSeq(drawn, 1, m) /\ y = SubSeq(long, 1, m)
    OBVIOUS
  <2>5. x = y
    BY <1>17, <2>2, <2>3, <2>4, SeqEqual
  <2> QED BY <1>17, <2>2, <2>4, <2>5 DEF IsPrefix
<1>19. long = Snapshot(opened[c]) \o [i \in 1 .. pushed |-> opened[c] - again + i]
  BY <1>2, <1>7, <1>10 DEF Run
<1> QED BY <1>2, <1>7, <1>18, <1>19

(* A chart opened at any moment of a push shows every value that was not too old then and
   every later one in order and none missing, whatever other windows do meanwhile. *)
THEOREM ChartsShowEverything == Spec => []ChartsShowTheSeries
BY ChartsAreInStep, InOrderIsShown, PTL
=============================================================================
