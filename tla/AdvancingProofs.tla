--------------------------- MODULE AdvancingProofs ---------------------------
(***************************************************************************)
(* Proofs about Advancing, for every set of names, rows, plans and clocks, *)
(* every width of a duration, and every bound.                             *)
(*                                                                         *)
(* The loops of the code are recursive functions of the model.  That each  *)
(* exists, and what it does for every input, is shown by induction over a  *)
(* set: a non-empty set of naturals has a least element.                   *)
(***************************************************************************)
EXTENDS Advancing, WellFoundedInduction, TLAPS

-----------------------------------------------------------------------------
(* Induction, and loops.                                                   *)

Smaller == {p \in Nat \X Nat : p[1] < p[2]}

LEMMA SmallerWF == IsWellFoundedOn(Smaller, Nat)
BY NatLessThanWellFounded DEF OpToRel, Smaller

(* A set of natural numbers that is not empty has a least element.         *)
LEMMA Least ==
  ASSUME NEW T, T \subseteq Nat, T # {}
  PROVE  \E n \in T : \A m \in T : n <= m
<1>1. PICK n \in T : \A m \in T : ~(<<m, n>> \in Smaller)
  BY SmallerWF, WFMin
<1>2. ASSUME NEW m \in T PROVE n <= m
  <2>1. m \in Nat /\ n \in Nat /\ <<m, n>> \in Nat \X Nat
    OBVIOUS
  <2>2. ~(m < n)
    BY <1>1, <2>1 DEF Smaller
  <2> QED BY <2>1, <2>2
<1> QED BY <1>2

(* Induction on the natural numbers, over a set.                           *)
LEMMA SetInduction ==
  ASSUME NEW T, 0 \in T, \A n \in Nat : n \in T => n + 1 \in T
  PROVE  Nat \subseteq T
<1> SUFFICES ASSUME Nat \ T # {} PROVE FALSE
  OBVIOUS
<1>1. PICK n \in Nat \ T : \A m \in Nat \ T : n <= m
  BY Least
<1>2. n # 0 /\ n - 1 \in Nat /\ ~(n <= n - 1)
  BY <1>1
<1>3. n - 1 \in T
  BY <1>1, <1>2
<1> QED BY <1>1, <1>2, <1>3

(* The first n turns of a loop, and the whole of it.                       *)
Starts(S, first, step, n) ==
  {f \in [0..n -> S] : f[0] = first /\ \A k \in 0..(n - 1) : f[k + 1] = step[<<k, f[k]>>]}

Iterations(S, first, step) ==
  {g \in [Nat -> S] : g[0] = first /\ \A n \in Nat : g[n + 1] = step[<<n, g[n]>>]}

(* A step that may look at the turn it is repeats into a function.         *)
LEMMA Iterates ==
  ASSUME NEW S, NEW first \in S, NEW step \in [Nat \X S -> S]
  PROVE  Iterations(S, first, step) # {}
<1> DEFINE P(n) == Starts(S, first, step, n)
<1>1. \A n \in Nat : P(n) # {}
  <2> DEFINE T == {n \in Nat : P(n) # {}}
  <2>1. 0 \in T
    <3>1. [k \in 0..0 |-> first] \in P(0)
      BY DEF Starts
    <3> QED BY <3>1
  <2>2. ASSUME NEW n \in Nat, n \in T PROVE n + 1 \in T
    <3>1. PICK f \in [0..n -> S] : f \in P(n)
      BY <2>2 DEF Starts
    <3> DEFINE h == [k \in 0..(n + 1) |-> IF k = n + 1 THEN step[<<n, f[n]>>] ELSE f[k]]
    <3>2. step[<<n, f[n]>>] \in S
      OBVIOUS
    <3>3. h \in [0..(n + 1) -> S]
      BY <3>2
    <3>4. h[n + 1] = step[<<n, f[n]>>] /\ \A k \in 0..n : h[k] = f[k]
      OBVIOUS
    <3> HIDE DEF h
    <3>5. h[0] = first
      BY <3>1, <3>4 DEF Starts
    <3>6. ASSUME NEW k \in 0..n PROVE h[k + 1] = step[<<k, h[k]>>]
      <4>1. CASE k = n
        BY <3>4, <4>1
      <4>2. CASE k # n
        <5>1. k \in 0..(n - 1) /\ k + 1 \in 0..n
          BY <4>2
        <5>2. f[k + 1] = step[<<k, f[k]>>]
          BY <3>1, <5>1 DEF Starts
        <5> QED BY <3>4, <5>1, <5>2
      <4> QED BY <4>1, <4>2
    <3>7. h \in P(n + 1)
      BY <3>3, <3>5, <3>6 DEF Starts
    <3> QED BY <3>7
  <2> HIDE DEF T
  <2>3. Nat \subseteq T
    BY <2>1, <2>2, SetInduction
  <2> QED BY <2>3 DEF T
<1>2. \A k \in Nat : \A m, n \in Nat : \A f \in P(m), g \in P(n) : (k <= m /\ k <= n) => f[k] = g[k]
  <2> DEFINE T == {k \in Nat : \A m, n \in Nat : \A f \in P(m), g \in P(n) : (k <= m /\ k <= n) => f[k] = g[k]}
  <2>1. 0 \in T
    BY DEF Starts
  <2>2. ASSUME NEW k \in Nat, k \in T PROVE k + 1 \in T
    <3> SUFFICES ASSUME NEW m \in Nat, NEW n \in Nat, NEW f \in P(m), NEW g \in P(n),
                        k + 1 <= m, k + 1 <= n
                 PROVE  f[k + 1] = g[k + 1]
      OBVIOUS
    <3>1. k \in 0..(m - 1) /\ k \in 0..(n - 1) /\ k <= m /\ k <= n
      OBVIOUS
    <3>2. f[k] = g[k]
      BY <2>2, <3>1
    <3>3. f[k + 1] = step[<<k, f[k]>>] /\ g[k + 1] = step[<<k, g[k]>>]
      BY <3>1 DEF Starts
    <3> QED BY <3>2, <3>3
  <2> HIDE DEF T
  <2>3. Nat \subseteq T
    BY <2>1, <2>2, SetInduction
  <2> QED BY <2>3 DEF T
<1> DEFINE c(n) == CHOOSE f : f \in P(n)
           g == [n \in Nat |-> c(n)[n]]
<1>3. \A n \in Nat : c(n) \in P(n)
  BY <1>1
<1> HIDE DEF c
<1>4. g \in [Nat -> S]
  BY <1>3 DEF Starts
<1>5. g[0] = first
  BY <1>3 DEF Starts
<1>6. ASSUME NEW n \in Nat PROVE g[n + 1] = step[<<n, g[n]>>]
  <2>1. n \in 0..((n + 1) - 1) /\ n <= n + 1 /\ n <= n /\ n + 1 \in Nat
    OBVIOUS
  <2>2. c(n + 1)[n + 1] = step[<<n, c(n + 1)[n]>>]
    BY <1>3, <2>1 DEF Starts
  <2>3. c(n + 1)[n] = c(n)[n]
    BY <1>2, <1>3, <2>1
  <2> QED BY <2>1, <2>2, <2>3
<1> HIDE DEF g
<1> QED BY <1>4, <1>5, <1>6 DEF Iterations

-----------------------------------------------------------------------------
(* Cadence.                                                                *)

LEMMA Fits == \A n \in Durations : Wrap(n) = n
<1> SUFFICES ASSUME NEW n \in Durations PROVE Wrap(n) = n
  OBVIOUS
<1>1. /\ n + maxDuration + 1 \in Nat /\ 2 * (maxDuration + 1) \in Nat \ {0}
      /\ n + maxDuration + 1 < 2 * (maxDuration + 1)
  BY WidthAssumption DEF Durations
<1>2. \A a \in Nat, b \in Nat \ {0} : a < b => a % b = a
  OBVIOUS
<1>3. (n + maxDuration + 1) % (2 * (maxDuration + 1)) = n + maxDuration + 1
  BY <1>1, <1>2
<1> QED BY <1>3, WidthAssumption DEF Wrap, Durations

(* A product below the quotient's bound is below the bound.                *)
LEMMA Quotient ==
  \A m \in Nat, f \in Nat \ {0}, d \in Nat :
     d <= m \div f => d * f <= m
<1> SUFFICES ASSUME NEW m \in Nat, NEW f \in Nat \ {0}, NEW d \in Nat, d <= m \div f
             PROVE  d * f <= m
  OBVIOUS
<1>1. m \div f \in Nat /\ f * (m \div f) <= m
  OBVIOUS
<1>2. d * f <= f * (m \div f)
  BY <1>1
<1> QED BY <1>1, <1>2

(* The wait of a turn, as the ceiling leaves it.                           *)
Clamped(c, wait) == IF c.Max > 0 /\ wait > c.Max THEN c.Max ELSE wait

(* One more turn neither leaves the width nor shortens the wait.           *)
LEMMA OneTurn ==
  ASSUME NEW c \in Clocks, c.Factor > 1, NEW d \in 1..maxDuration
  PROVE  /\ Longer(c, d) \in 1..maxDuration
         /\ Clamped(c, d) <= Clamped(c, Longer(c, d))
<1> DEFINE F == c.Factor
<1>1. F \in Nat \ {0} /\ F > 1 /\ c.Max \in Durations /\ c.Max <= maxDuration
  BY WidthAssumption DEF Clocks, Durations
<1>2. d \in Nat \ {0} /\ maxDuration \in Nat
  BY WidthAssumption
<1> HIDE DEF F
<1>3. CASE c.Max > 0 /\ d >= c.Max \div F
  BY <1>1, <1>2, <1>3 DEF Longer, Clamped, Durations, F
<1>4. CASE ~(c.Max > 0 /\ d >= c.Max \div F) /\ d > maxDuration \div F
  BY <1>1, <1>2, <1>4 DEF Longer, Clamped, Durations, F
<1>5. CASE ~(c.Max > 0 /\ d >= c.Max \div F) /\ ~(d > maxDuration \div F)
  <2>1. maxDuration \div F \in Int
    BY <1>1, <1>2
  <2>2. d * F <= maxDuration
    BY <1>1, <1>2, <1>5, <2>1, Quotient
  <2>3. d * F >= d /\ d * F \in Nat
    BY <1>1, <1>2
  <2>4. Wrap(d * F) = d * F
    BY <1>2, <2>2, <2>3, Fits DEF Durations
  <2>5. Longer(c, d) = d * F
    BY <1>5, <2>4 DEF Longer, F
  <2> QED BY <1>1, <1>2, <2>2, <2>3, <2>5 DEF Clamped, Durations
<1> QED BY <1>3, <1>4, <1>5

(* The loop's waits exist, fit the width and come one from the other.      *)
LEMMA TurnsTaken ==
  ASSUME NEW c \in Clocks, c.Factor > 1, c.First > 0
  PROVE  /\ Turns(c) \in [Nat -> 1..maxDuration]
         /\ Turns(c)[0] = c.First
         /\ \A n \in Nat : Turns(c)[n + 1] = Longer(c, Turns(c)[n])
<1> DEFINE S == 1..maxDuration
           step == [p \in Nat \X S |-> Longer(c, p[2])]
<1>1. c.First \in S
  BY DEF Clocks, Durations
<1>2. step \in [Nat \X S -> S]
  <2>1. \A p \in Nat \X S : p[2] \in S
    OBVIOUS
  <2> QED BY <2>1, OneTurn
<1>3. \A p \in Nat \X S : step[p] = Longer(c, p[2])
  OBVIOUS
<1> HIDE DEF step
<1> HIDE DEF S
<1>4. PICK g \in [Nat -> S] : g[0] = c.First /\ \A n \in Nat : g[n + 1] = step[<<n, g[n]>>]
  <2>1. Iterations(S, c.First, step) # {}
    BY <1>1, <1>2, Iterates
  <2> QED BY <2>1 DEF Iterations
<1> USE DEF S
<1>5. \A n \in Nat : g[n + 1] = Longer(c, g[n])
  BY <1>3, <1>4
<1> DEFINE Waits(w) == [n \in Nat |-> IF n = 0 THEN c.First ELSE Longer(c, w[n - 1])]
<1>6. g = Waits(g)
  <2>1. \A n \in Nat : g[n] = Waits(g)[n]
    <3> SUFFICES ASSUME NEW n \in Nat PROVE g[n] = Waits(g)[n]
      OBVIOUS
    <3>1. CASE n = 0
      BY <1>4, <3>1
    <3>2. CASE n # 0
      <4>1. n - 1 \in Nat /\ (n - 1) + 1 = n
        BY <3>2
      <4> QED BY <1>5, <3>2, <4>1
    <3> QED BY <3>1, <3>2
  <2> QED BY <1>4, <2>1
<1>7. Turns(c) = CHOOSE w : w = Waits(w)
  BY DEF Turns
<1> HIDE DEF Waits
<1>8. Turns(c) = Waits(Turns(c))
  BY <1>6, <1>7
<1> USE DEF Waits
<1>9. Turns(c)[0] = c.First
  BY <1>8
<1>10. ASSUME NEW n \in Nat PROVE Turns(c)[n + 1] = Longer(c, Turns(c)[n])
  <2>1. n + 1 \in Nat /\ n + 1 # 0 /\ (n + 1) - 1 = n
    OBVIOUS
  <2> QED BY <1>8, <2>1
<1>11. Nat \subseteq {n \in Nat : Turns(c)[n] \in S}
  <2> DEFINE T == {n \in Nat : Turns(c)[n] \in S}
  <2>1. 0 \in T
    BY <1>1, <1>9
  <2>2. \A n \in Nat : n \in T => n + 1 \in T
    BY <1>10, OneTurn
  <2> HIDE DEF T
  <2>3. Nat \subseteq T
    BY <2>1, <2>2, SetInduction
  <2> QED BY <2>3 DEF T
<1>12. Turns(c) \in [Nat -> S]
  <2>1. Turns(c) = [n \in Nat |-> Turns(c)[n]]
    BY <1>8
  <2> QED BY <1>11, <2>1
<1> QED BY <1>9, <1>10, <1>12

(* What Delay answers, in terms of the turns taken.                        *)
LEMMA DelayIs ==
  ASSUME NEW c \in Clocks, c.First > 0, NEW n \in Nat \ {0}
  PROVE  Delay(c, n) = Clamped(c, IF c.Factor > 1 THEN Turns(c)[n - 1] ELSE c.First)
<1>1. c.First \in Int /\ ~(n <= 0 \/ c.First <= 0)
  BY WidthAssumption DEF Clocks, Durations
<1>2. CASE c.Factor > 1
  BY <1>1, <1>2 DEF Delay, Grown, Clamped
<1>3. CASE ~(c.Factor > 1)
  BY <1>1, <1>3 DEF Delay, Clamped
<1> QED BY <1>2, <1>3

(* A wait is never negative and never past the ceiling.                    *)
LEMMA DelayBounds ==
  ASSUME NEW c \in Clocks, NEW n \in Nat
  PROVE  /\ Delay(c, n) \in Nat /\ Delay(c, n) <= maxDuration
         /\ c.Max > 0 => Delay(c, n) <= c.Max
<1>1. /\ c.First \in Int /\ c.Max \in Int /\ c.Factor \in Int /\ maxDuration \in Nat
      /\ c.First <= maxDuration /\ c.Max <= maxDuration
  BY WidthAssumption DEF Clocks, Durations
<1>2. CASE n = 0 \/ c.First <= 0
  BY <1>1, <1>2 DEF Delay
<1>3. CASE n # 0 /\ c.First > 0
  <2> DEFINE w == IF c.Factor > 1 THEN Turns(c)[n - 1] ELSE c.First
  <2>1. w \in Nat /\ w <= maxDuration
    <3>1. n - 1 \in Nat
      BY <1>3
    <3>2. CASE c.Factor > 1
      <4>1. Turns(c)[n - 1] \in 1..maxDuration
        BY <1>3, <3>1, <3>2, TurnsTaken
      <4> QED BY <3>2, <4>1, WidthAssumption
    <3> QED BY <1>1, <1>3, <3>2
  <2>2. Delay(c, n) = Clamped(c, w)
    BY <1>3, DelayIs
  <2> HIDE DEF w
  <2> QED BY <1>1, <2>1, <2>2 DEF Clamped
<1> QED BY <1>1, <1>2, <1>3

(* A further failure never shortens the wait.                              *)
LEMMA DelayGrows ==
  ASSUME NEW c \in Clocks, NEW n \in Nat
  PROVE  Delay(c, n) <= Delay(c, n + 1)
<1>1. Delay(c, n) \in Nat /\ Delay(c, n + 1) \in Nat
  BY DelayBounds
<1>2. c.First \in Int /\ c.Max \in Int /\ c.Factor \in Int
  BY WidthAssumption DEF Clocks, Durations
<1>3. CASE n = 0 \/ c.First <= 0
  <2>1. Delay(c, n) = 0
    BY <1>2, <1>3 DEF Delay
  <2> QED BY <1>1, <2>1
<1>4. CASE n # 0 /\ c.First > 0 /\ c.Factor > 1
  <2>1. n - 1 \in Nat /\ (n + 1) - 1 = (n - 1) + 1 /\ n \in Nat \ {0} /\ n + 1 \in Nat \ {0}
    BY <1>4
  <2>2. /\ Turns(c)[n - 1] \in 1..maxDuration
        /\ Turns(c)[(n - 1) + 1] = Longer(c, Turns(c)[n - 1])
    BY <1>4, <2>1, TurnsTaken
  <2>3. Delay(c, n) = Clamped(c, Turns(c)[n - 1])
    BY <1>4, <2>1, DelayIs
  <2>4. Delay(c, n + 1) = Clamped(c, Turns(c)[(n + 1) - 1])
    BY <1>4, <2>1, DelayIs
  <2> QED BY <1>4, <2>1, <2>2, <2>3, <2>4, OneTurn
<1>5. CASE n # 0 /\ c.First > 0 /\ ~(c.Factor > 1)
  BY <1>1, <1>2, <1>5 DEF Delay
<1> QED BY <1>2, <1>3, <1>4, <1>5

(* No wait is below a floor that the first one and the ceiling respect.    *)
LEMMA DelayFloor ==
  ASSUME NEW c \in Clocks, Floored(c), NEW n \in Nat \ {0}
  PROVE  Delay(c, n) >= c.MinInterval
<1>1. c.First \in Int /\ c.Max \in Int /\ c.Factor \in Int /\ c.MinInterval \in Int
  BY WidthAssumption DEF Clocks, Durations
<1>2. CASE c.First <= 0
  BY <1>1, <1>2 DEF Delay, Floored
<1>3. CASE c.First > 0
  <2> DEFINE T == {k \in Nat : Delay(c, k + 1) >= c.MinInterval}
  <2>1. 0 \in T
    <3>1. 0 + 1 \in Nat \ {0} /\ (0 + 1) - 1 = 0
      OBVIOUS
    <3>2. Delay(c, 0 + 1) = Clamped(c, c.First)
      <4>1. Delay(c, 0 + 1) = Clamped(c, IF c.Factor > 1 THEN Turns(c)[0] ELSE c.First)
        BY <1>3, <3>1, DelayIs
      <4> QED BY <1>3, <4>1, TurnsTaken
    <3> QED BY <1>1, <3>1, <3>2 DEF Clamped, Floored
  <2>2. ASSUME NEW k \in Nat, k \in T PROVE k + 1 \in T
    <3>1. k + 1 \in Nat /\ (k + 1) + 1 \in Nat
      OBVIOUS
    <3>2. Delay(c, k + 1) <= Delay(c, (k + 1) + 1)
      BY <3>1, DelayGrows
    <3>3. Delay(c, k + 1) \in Nat /\ Delay(c, (k + 1) + 1) \in Nat
      BY <3>1, DelayBounds
    <3> QED BY <1>1, <2>2, <3>1, <3>2, <3>3
  <2> HIDE DEF T
  <2>3. Nat \subseteq T
    BY <2>1, <2>2, SetInduction
  <2>4. n - 1 \in Nat /\ (n - 1) + 1 = n
    OBVIOUS
  <2>5. n - 1 \in T
    BY <2>3, <2>4
  <2> QED BY <2>4, <2>5 DEF T
<1> QED BY <1>1, <1>2, <1>3

(* The offset of a registration only ever delays it, by less than the      *)
(* jitter.                                                                 *)
LEMMA SpreadBounds ==
  ASSUME NEW c \in Clocks, NEW h \in Nat
  PROVE  /\ Spread(c, h) \in Nat
         /\ c.Jitter > 0 => Spread(c, h) < c.Jitter
         /\ ~(c.Jitter > 0) => Spread(c, h) = 0
<1>1. c.Jitter \in Int
  BY WidthAssumption DEF Clocks, Durations
<1>2. CASE c.Jitter > 0
  <2>1. h % c.Jitter \in 0..(c.Jitter - 1)
    BY <1>1, <1>2
  <2> QED BY <1>1, <1>2, <2>1 DEF Spread
<1> QED BY <1>1, <1>2 DEF Spread

(* The backoff, under any clock that can be declared and for any count of  *)
(* failures a caller may hand in: a wait fits the width of a duration, is  *)
(* never negative, never past a ceiling that is set, and never shorter     *)
(* than the wait of one failure less (Backoff.Delay).                      *)
THEOREM BackoffHolds ==
  ASSUME NEW c \in Clocks, NEW attempt \in Int
  PROVE  /\ Delay(c, attempt) \in 0..maxDuration
         /\ c.Max > 0 => Delay(c, attempt) <= c.Max
         /\ Delay(c, attempt) <= Delay(c, attempt + 1)
<1>1. c.Max \in Int /\ maxDuration \in Nat
  BY WidthAssumption DEF Clocks, Durations
<1>2. CASE attempt \in Nat
  BY <1>1, <1>2, DelayBounds, DelayGrows
<1>3. CASE attempt < 0
  <2>1. attempt <= 0 /\ attempt + 1 <= 0
    BY <1>3
  <2>2. Delay(c, attempt) = 0 /\ Delay(c, attempt + 1) = 0
    BY <2>1 DEF Delay
  <2> QED BY <1>1, <2>2
<1> QED BY <1>2, <1>3

-----------------------------------------------------------------------------
(* Names.                                                                  *)

(* What a tail is, and what cutting its last mark leaves.                  *)
LEMMA TailIs ==
  ASSUME NEW t \in Tails
  PROVE  /\ Len(t) \in 0..MaxTail
         /\ t \in [1..Len(t) -> {"dot", "space"}]
         /\ t \in Seq({"dot", "space"})
<1>1. PICK n \in 0..MaxTail : t \in [1..n -> {"dot", "space"}]
  BY DEF Tails
<1>2. n \in Nat
  BY PlanBounds
<1>3. t \in Seq({"dot", "space"})
  BY <1>1, <1>2
<1>4. Len(t) = n
  BY <1>1, <1>2, <1>3
<1> QED BY <1>1, <1>3, <1>4

LEMMA TailMade ==
  ASSUME NEW n \in 0..MaxTail, NEW t \in [1..n -> {"dot", "space"}]
  PROVE  t \in Tails
BY DEF Tails

LEMMA NoTail == <<>> \in Tails /\ Len(<<>>) = 0
<1>1. <<>> \in [1..0 -> {"dot", "space"}] /\ 0 \in 0..MaxTail
  BY PlanBounds
<1> QED BY <1>1, TailMade

LEMMA CutTail ==
  ASSUME NEW t \in Tails, NEW mark, EndsIn(t, mark)
  PROVE  /\ Len(t) > 0
         /\ Cut(t) \in Tails
         /\ Len(Cut(t)) = Len(t) - 1
         /\ \A k \in 1..(Len(t) - 1) : Cut(t)[k] = t[k]
<1>1. /\ t \in Seq({"dot", "space"}) /\ Len(t) \in 0..MaxTail
      /\ t \in [1..Len(t) -> {"dot", "space"}] /\ MaxTail \in Nat
  BY TailIs, PlanBounds
<1>2. t # <<>>
  BY DEF EndsIn
<1>3. Len(t) > 0
  BY <1>1, <1>2
<1>4. Cut(t) \in [1..(Len(t) - 1) -> {"dot", "space"}]
  <2>1. Cut(t) = [k \in 1..(Len(t) - 1) |-> t[k]]
    BY <1>1, <1>3 DEF Cut
  <2>2. \A k \in 1..(Len(t) - 1) : t[k] \in {"dot", "space"}
    BY <1>1, <1>3
  <2> QED BY <2>1, <2>2
<1>5. \A k \in 1..(Len(t) - 1) : Cut(t)[k] = t[k]
  BY <1>1, <1>3 DEF Cut
<1>6. Len(t) - 1 \in 0..MaxTail
  BY <1>1, <1>3
<1>7. Cut(t) \in Tails
  BY <1>4, <1>6, TailMade
<1>8. Len(Cut(t)) = Len(t) - 1
  BY <1>1, <1>3, <1>4 DEF Cut
<1> QED BY <1>3, <1>5, <1>7, <1>8

(* A tail that ends in neither mark is none.                               *)
LEMMA Unmarked ==
  ASSUME NEW t \in Tails, ~EndsIn(t, "dot"), ~EndsIn(t, "space")
  PROVE  t = <<>>
<1> SUFFICES ASSUME t # <<>> PROVE FALSE
  OBVIOUS
<1>1. t \in Seq({"dot", "space"}) /\ Len(t) \in Nat /\ t \in [1..Len(t) -> {"dot", "space"}]
  BY TailIs
<1>2. Len(t) \in 1..Len(t)
  BY <1>1
<1>3. t[Len(t)] \in {"dot", "space"}
  BY <1>1, <1>2
<1> QED BY <1>3 DEF EndsIn

(* The prefixes of a tail that trimming its spaces could leave.            *)
Stripped(t) ==
  {s \in Tails : /\ Len(s) <= Len(t) /\ ~EndsIn(s, "space")
                 /\ \A k \in 1..Len(t) : t[k] = IF k <= Len(s) THEN s[k] ELSE "space"}

LEMMA TrimSpaceIs ==
  TrimSpace = [t \in Tails |-> IF EndsIn(t, "space") THEN TrimSpace[Cut(t)] ELSE t]
<1> DEFINE F(f) == [t \in Tails |-> IF EndsIn(t, "space") THEN f[Cut(t)] ELSE t]
           g == [t \in Tails |-> CHOOSE s : s \in Stripped(t)]
<1>1. ASSUME NEW t \in Tails, EndsIn(t, "space")
      PROVE  Stripped(t) = Stripped(Cut(t))
  <2>1. Len(t) \in Nat /\ Len(t) > 0 /\ Len(Cut(t)) = Len(t) - 1
    BY <1>1, TailIs, CutTail
  <2>2. \A k \in 1..(Len(t) - 1) : Cut(t)[k] = t[k]
    BY <1>1, CutTail
  <2>3. t[Len(t)] = "space"
    BY <1>1 DEF EndsIn
  <2>4. ASSUME NEW s \in Stripped(t) PROVE s \in Stripped(Cut(t))
    <3>1. s \in Tails /\ Len(s) \in Nat
      BY TailIs DEF Stripped
    <3>2. Len(s) # Len(t)
      <4> SUFFICES ASSUME Len(s) = Len(t) PROVE FALSE
        OBVIOUS
      <4>1. s[Len(s)] = "space"
        BY <2>1, <2>3 DEF Stripped
      <4>2. s # <<>>
        BY <2>1, NoTail
      <4> QED BY <4>1, <4>2 DEF EndsIn, Stripped
    <3> QED BY <2>1, <2>2, <3>1, <3>2 DEF Stripped
  <2>5. ASSUME NEW s \in Stripped(Cut(t)) PROVE s \in Stripped(t)
    <3>1. s \in Tails /\ Len(s) \in Nat
      BY TailIs DEF Stripped
    <3> QED BY <2>1, <2>2, <2>3, <3>1 DEF Stripped
  <2> QED BY <2>4, <2>5
<1>2. ASSUME NEW t \in Tails, ~EndsIn(t, "space")
      PROVE  Stripped(t) = {t}
  <2>1. Len(t) \in Nat
    BY TailIs
  <2>2. t \in Stripped(t)
    BY <1>2, <2>1 DEF Stripped
  <2>3. ASSUME NEW s \in Stripped(t) PROVE s = t
    <3>1. s \in Tails /\ Len(s) \in Nat /\ Len(s) <= Len(t)
      BY TailIs DEF Stripped
    <3>2. Len(s) = Len(t)
      <4> SUFFICES ASSUME Len(s) < Len(t) PROVE FALSE
        BY <2>1, <3>1
      <4>1. t[Len(t)] = "space"
        BY <2>1, <3>1 DEF Stripped
      <4>2. t # <<>>
        BY <3>1, NoTail
      <4> QED BY <1>2, <4>1, <4>2 DEF EndsIn
    <3>3. \A k \in 1..Len(t) : s[k] = t[k]
      BY <2>1, <3>1, <3>2 DEF Stripped
    <3>4. s \in [1..Len(t) -> {"dot", "space"}] /\ t \in [1..Len(t) -> {"dot", "space"}]
      BY <3>1, <3>2, TailIs
    <3> QED BY <3>3, <3>4
  <2> QED BY <2>2, <2>3
<1>3. g = F(g)
  <2>1. ASSUME NEW t \in Tails PROVE g[t] = F(g)[t]
    <3>1. CASE EndsIn(t, "space")
      BY <1>1, <3>1, CutTail
    <3>2. CASE ~EndsIn(t, "space")
      BY <1>2, <3>2
    <3> QED BY <3>1, <3>2
  <2> QED BY <2>1
<1>4. TrimSpace = CHOOSE f : f = F(f)
  BY DEF TrimSpace
<1> HIDE DEF F, g
<1>5. TrimSpace = F(TrimSpace)
  BY <1>3, <1>4
<1> QED BY <1>5 DEF F

(* Trimming the spaces leaves a tail, no longer, that ends in none.        *)
LEMMA TrimSpaced ==
  ASSUME NEW t \in Tails
  PROVE  TrimSpace[t] \in Tails /\ ~EndsIn(TrimSpace[t], "space") /\ Len(TrimSpace[t]) <= Len(t)
<1> DEFINE Good(u) == TrimSpace[u] \in Tails /\ ~EndsIn(TrimSpace[u], "space")
                      /\ Len(TrimSpace[u]) <= Len(u)
           T == {n \in Nat : \A u \in Tails : Len(u) <= n => Good(u)}
<1>1. \A u \in Tails : Len(u) \in Nat
  BY TailIs
<1>2. ASSUME NEW u \in Tails, ~EndsIn(u, "space") PROVE Good(u)
  BY <1>1, <1>2, TrimSpaceIs
<1>3. 0 \in T
  <2>1. \A u \in Tails : Len(u) <= 0 => ~EndsIn(u, "space")
    BY <1>1, CutTail
  <2> QED BY <1>2, <2>1
<1>4. ASSUME NEW n \in Nat, n \in T PROVE n + 1 \in T
  <2> SUFFICES ASSUME NEW u \in Tails, Len(u) <= n + 1 PROVE Good(u)
    OBVIOUS
  <2>1. CASE EndsIn(u, "space")
    <3>1. Cut(u) \in Tails /\ Len(Cut(u)) = Len(u) - 1 /\ Len(u) \in Nat
      BY <1>1, <2>1, CutTail
    <3>2. Good(Cut(u))
      BY <1>4, <3>1
    <3>3. TrimSpace[u] = TrimSpace[Cut(u)]
      BY <2>1, TrimSpaceIs
    <3>4. Len(TrimSpace[Cut(u)]) \in Nat
      BY <1>1, <3>2
    <3> QED BY <3>1, <3>2, <3>3, <3>4
  <2>2. CASE ~EndsIn(u, "space")
    BY <1>2, <2>2
  <2> QED BY <2>1, <2>2
<1> HIDE DEF T
<1>5. Nat \subseteq T
  BY <1>3, <1>4, SetInduction
<1> HIDE DEF Good
<1>6. Good(t)
  BY <1>1, <1>5 DEF T
<1> QED BY <1>6 DEF Good

LEMMA TrimDotsIs ==
  TrimDots = [t \in Tails |-> IF EndsIn(t, "dot") THEN TrimDots[TrimSpace[Cut(t)]] ELSE t]
<1> DEFINE F(f) == [t \in Tails |-> IF EndsIn(t, "dot") THEN f[TrimSpace[Cut(t)]] ELSE t]
           g == [t \in Tails |-> IF EndsIn(t, "space") THEN t ELSE <<>>]
<1>1. g = F(g)
  <2>1. ASSUME NEW t \in Tails PROVE g[t] = F(g)[t]
    <3>1. CASE EndsIn(t, "dot")
      <4>1. Cut(t) \in Tails
        BY <3>1, CutTail
      <4>2. TrimSpace[Cut(t)] \in Tails /\ ~EndsIn(TrimSpace[Cut(t)], "space")
        BY <4>1, TrimSpaced
      <4>3. ~EndsIn(t, "space")
        BY <3>1 DEF EndsIn
      <4> QED BY <3>1, <4>2, <4>3
    <3>2. CASE ~EndsIn(t, "dot") /\ ~EndsIn(t, "space")
      BY <3>2, Unmarked
    <3>3. CASE ~EndsIn(t, "dot") /\ EndsIn(t, "space")
      BY <3>3
    <3> QED BY <3>1, <3>2, <3>3
  <2> QED BY <2>1
<1>2. TrimDots = CHOOSE f : f = F(f)
  BY DEF TrimDots
<1> HIDE DEF F, g
<1>3. TrimDots = F(TrimDots)
  BY <1>1, <1>2
<1> QED BY <1>3 DEF F

(* The loop over the dots and the spaces between them leaves nothing.      *)
LEMMA TrimmedAway ==
  ASSUME NEW t \in Tails
  PROVE  TrimDots[TrimSpace[t]] = <<>>
<1> DEFINE T == {n \in Nat : \A u \in Tails :
                     (Len(u) <= n /\ ~EndsIn(u, "space")) => TrimDots[u] = <<>>}
<1>1. \A u \in Tails : Len(u) \in Nat
  BY TailIs
<1>2. ASSUME NEW u \in Tails, ~EndsIn(u, "space"), ~EndsIn(u, "dot") PROVE TrimDots[u] = <<>>
  BY <1>2, Unmarked, TrimDotsIs
<1>3. 0 \in T
  <2>1. \A u \in Tails : Len(u) <= 0 => ~EndsIn(u, "dot")
    BY <1>1, CutTail
  <2> QED BY <1>2, <2>1
<1>4. ASSUME NEW n \in Nat, n \in T PROVE n + 1 \in T
  <2> SUFFICES ASSUME NEW u \in Tails, Len(u) <= n + 1, ~EndsIn(u, "space")
               PROVE  TrimDots[u] = <<>>
    OBVIOUS
  <2>1. CASE EndsIn(u, "dot")
    <3> DEFINE v == TrimSpace[Cut(u)]
    <3>1. Cut(u) \in Tails /\ Len(Cut(u)) = Len(u) - 1 /\ Len(u) \in Nat
      BY <1>1, <2>1, CutTail
    <3>2. v \in Tails /\ ~EndsIn(v, "space") /\ Len(v) <= Len(Cut(u))
      BY <3>1, TrimSpaced
    <3>3. TrimDots[u] = TrimDots[v]
      BY <2>1, TrimDotsIs
    <3> HIDE DEF v
    <3>4. Len(v) <= n
      BY <1>1, <3>1, <3>2
    <3> QED BY <1>4, <3>2, <3>3, <3>4
  <2>2. CASE ~EndsIn(u, "dot")
    BY <1>2, <2>2
  <2> QED BY <2>1, <2>2
<1> HIDE DEF T
<1>5. Nat \subseteq T
  BY <1>3, <1>4, SetInduction
<1>6. TrimSpace[t] \in Tails /\ ~EndsIn(TrimSpace[t], "space") /\ Len(TrimSpace[t]) \in Nat
  BY <1>1, TrimSpaced
<1> QED BY <1>5, <1>6 DEF T

(* So a name in its canonical spelling is its core, and stays so.          *)
LEMMA Canonical ==
  ASSUME NEW name \in Names
  PROVE  /\ NormalizeName(name) = [core |-> name.core, upper |-> FALSE, tail |-> <<>>]
         /\ NormalizeName(name) \in Names
         /\ NormalizeName(NormalizeName(name)) = NormalizeName(name)
<1>1. ASSUME NEW n \in Names
      PROVE  NormalizeName(n) = [core |-> n.core, upper |-> FALSE, tail |-> <<>>]
  <2>1. n.tail \in Tails
    BY DEF Names
  <2>2. TrimDots[TrimSpace[n.tail]] = <<>>
    BY <2>1, TrimmedAway
  <2>3. NormalizeName(n) = [n EXCEPT !.upper = FALSE, !.tail = <<>>]
    BY <2>2 DEF NormalizeName
  <2> HIDE DEF NormalizeName
  <2> QED BY <2>3 DEF Names
<1>2. NormalizeName(name) \in Names
  <2>1. name.core \in Cores \union {Nothing} /\ <<>> \in Tails
    BY NoTail DEF Names
  <2>2. [core |-> name.core, upper |-> FALSE, tail |-> <<>>] \in Names
    BY <2>1, Zenon DEF Names
  <2> QED BY <1>1, <2>2
<1>3. NormalizeName(NormalizeName(name)) = NormalizeName(name)
  BY <1>1, <1>2
<1> QED BY <1>1, <1>2, <1>3

-----------------------------------------------------------------------------
(* Rows.                                                                   *)

NormalRecords == {r \in Record : NormalizeRecord(r) = r}

Canon(r) ==
  [type    |-> r.type,
   name    |-> [core |-> r.name.core, upper |-> FALSE, tail |-> <<>>],
   value   |-> [text |-> r.value.text, padded |-> FALSE],
   proxied |-> r.proxied]

LEMMA RowFields ==
  ASSUME NEW r \in Record
  PROVE  /\ r.name \in Names
         /\ r.value \in Values
         /\ r.type \in {"CNAME", "TXT", "A"}
         /\ r.proxied \in BOOLEAN
         /\ r = [type |-> r.type, name |-> r.name, value |-> r.value, proxied |-> r.proxied]
BY DEF Record

LEMMA NormalRow ==
  ASSUME NEW r \in Record
  PROVE  NormalizeRecord(r) = Canon(r) /\ NormalizeRecord(r) \in NormalRecords
<1>1. ASSUME NEW x \in Record
      PROVE  NormalizeRecord(x) = Canon(x)
  <2>1. /\ x.name \in Names /\ x.value \in Values
        /\ x = [type |-> x.type, name |-> x.name, value |-> x.value, proxied |-> x.proxied]
    BY RowFields
  <2>2. NormalizeName(x.name) = [core |-> x.name.core, upper |-> FALSE, tail |-> <<>>]
    BY <2>1, Canonical
  <2>3. [x.value EXCEPT !.padded = FALSE] = [text |-> x.value.text, padded |-> FALSE]
    <3>1. \A v \in Values : \A b : [v EXCEPT !.padded = b] = [text |-> v.text, padded |-> b]
      BY DEF Values
    <3> QED BY <2>1, <3>1
  <2> DEFINE N == NormalizeName(x.name)
             V == [x.value EXCEPT !.padded = FALSE]
  <2>4. NormalizeRecord(x) = [x EXCEPT !.name = N, !.value = V]
    BY DEF NormalizeRecord
  <2> HIDE DEF N, V
  <2>5. NormalizeRecord(x) = [type |-> x.type, name |-> N, value |-> V, proxied |-> x.proxied]
    BY <2>1, <2>4
  <2> QED BY <2>2, <2>3, <2>5 DEF Canon, N, V
<1>2. Canon(r) \in Record
  <2>1. /\ r.name \in Names /\ r.value \in Values
        /\ r.type \in {"CNAME", "TXT", "A"} /\ r.proxied \in BOOLEAN
    BY RowFields
  <2>2. [core |-> r.name.core, upper |-> FALSE, tail |-> <<>>] \in Names
    BY <2>1, Canonical
  <2>3. [text |-> r.value.text, padded |-> FALSE] \in Values
    BY <2>1 DEF Values
  <2> QED BY <2>1, <2>2, <2>3 DEF Record, Canon
<1>3. Canon(Canon(r)) = Canon(r)
  BY DEF Canon
<1> QED BY <1>1, <1>2, <1>3 DEF NormalRecords

(* Normalizing does not change what a row says, and two normal rows that   *)
(* say the same have one identity, and are one if their flags agree.       *)
LEMMA RowSays ==
  ASSUME NEW r \in Record
  PROVE  Says(NormalizeRecord(r)) = Says(r) /\ NormalizeRecord(r).proxied = r.proxied
BY NormalRow DEF Canon, Says

LEMMA SameRow ==
  ASSUME NEW r \in NormalRecords, NEW s \in NormalRecords
  PROVE  /\ Says(r) = Says(s) <=> identity(r) = identity(s)
         /\ (Says(r) = Says(s) /\ r.proxied = s.proxied) => r = s
<1>1. r = Canon(r) /\ s = Canon(s)
  BY NormalRow DEF NormalRecords
<1>2. /\ r.name = [core |-> r.name.core, upper |-> FALSE, tail |-> <<>>]
      /\ r.value = [text |-> r.value.text, padded |-> FALSE]
      /\ s.name = [core |-> s.name.core, upper |-> FALSE, tail |-> <<>>]
      /\ s.value = [text |-> s.value.text, padded |-> FALSE]
  BY <1>1 DEF Canon
<1>3. Says(r) = Says(s) <=> /\ r.type = s.type /\ r.name.core = s.name.core
                            /\ r.value.text = s.value.text
  BY DEF Says
<1>4. identity(r) = identity(s) <=> r.type = s.type /\ r.name = s.name /\ r.value = s.value
  BY DEF identity
<1>5. Says(r) = Says(s) <=> identity(r) = identity(s)
  BY <1>2, <1>3, <1>4
<1>6. (Says(r) = Says(s) /\ r.proxied = s.proxied) => r = s
  <2> SUFFICES ASSUME Says(r) = Says(s), r.proxied = s.proxied PROVE r = s
    OBVIOUS
  <2>1. Canon(r) = Canon(s)
    BY <1>3 DEF Canon
  <2> QED BY <1>1, <2>1
<1> QED BY <1>5, <1>6

(* Normalizing rows keeps their number and what each of them says.         *)
LEMMA Normalizes ==
  ASSUME NEW rows \in Seq(Record)
  PROVE  /\ Normalized(rows) \in Seq(NormalRecords)
         /\ Len(Normalized(rows)) = Len(rows)
         /\ \A k \in 1..Len(rows) : Normalized(rows)[k] = NormalizeRecord(rows[k])
         /\ Meaning(Normalized(rows)) = Meaning(rows)
<1> DEFINE N == Normalized(rows)
<1>1. DOMAIN rows = 1..Len(rows) /\ Len(rows) \in Nat /\ \A k \in 1..Len(rows) : rows[k] \in Record
  OBVIOUS
<1>2. N = [k \in 1..Len(rows) |-> NormalizeRecord(rows[k])]
  BY <1>1 DEF Normalized
<1>3. \A k \in 1..Len(rows) : NormalizeRecord(rows[k]) \in NormalRecords
  BY <1>1, NormalRow
<1>4. N \in Seq(NormalRecords)
  BY <1>1, <1>2, <1>3
<1>5. Len(N) = Len(rows) /\ DOMAIN N = DOMAIN rows
  BY <1>1, <1>2, <1>4
<1>6. \A k \in 1..Len(rows) : N[k] = NormalizeRecord(rows[k])
  BY <1>2
<1> HIDE DEF N
<1>7. \A k \in 1..Len(rows) : Says(N[k]) = Says(rows[k]) /\ N[k].proxied = rows[k].proxied
  BY <1>1, <1>6, RowSays
<1>8. ASSUME NEW k \in 1..Len(rows) PROVE Before(N, k) = Before(rows, k)
  <2>1. \A j \in 1..(k - 1) : j \in 1..Len(rows)
    BY <1>1
  <2>2. \A j \in 1..(k - 1) : Says(N[j]) = Says(rows[j])
    BY <1>7, <2>1
  <2> QED BY <2>2 DEF Before
<1>9. \A k \in 1..Len(rows) : Mentions(N, k) = Mentions(rows, k)
  BY <1>7, <1>8 DEF Mentions
<1>10. Meaning(N) = Meaning(rows)
  BY <1>1, <1>5, <1>7, <1>8, <1>9 DEF Meaning
<1> QED BY <1>4, <1>5, <1>6, <1>10 DEF N

-----------------------------------------------------------------------------
(* Distinct rows.                                                          *)

Keeps(kept, r) == IF Repeats(kept, r) THEN kept ELSE Append(kept, r)

Keepings(rows) ==
  {kept \in [0..Len(rows) -> Seq(NormalRecords)] :
     kept[0] = <<>> /\ \A n \in 1..Len(rows) : kept[n] = Keeps(kept[n - 1], rows[n])}

LEMMA KeepsRows ==
  ASSUME NEW kept \in Seq(NormalRecords), NEW r \in NormalRecords
  PROVE  Keeps(kept, r) \in Seq(NormalRecords)
BY DEF Keeps

(* The loop that skips what it has seen runs through.                      *)
LEMMA Keeping ==
  ASSUME NEW rows \in Seq(NormalRecords)
  PROVE  \E kept \in Keepings(rows) : Distinct(rows) = kept[Len(rows)]
<1> DEFINE S == Seq(NormalRecords)
           L == Len(rows)
           step == [p \in Nat \X S |->
                      IF p[1] + 1 \in 1..L THEN Keeps(p[2], rows[p[1] + 1]) ELSE p[2]]
           F(f) == [n \in 0..L |-> IF n = 0 THEN <<>>
                                   ELSE IF Repeats(f[n - 1], rows[n]) THEN f[n - 1]
                                   ELSE Append(f[n - 1], rows[n])]
<1>1. L \in Nat /\ \A n \in 1..L : rows[n] \in NormalRecords
  OBVIOUS
<1> HIDE DEF L
<1>2. step \in [Nat \X S -> S]
  <2>1. ASSUME NEW p \in Nat \X S
        PROVE  (IF p[1] + 1 \in 1..L THEN Keeps(p[2], rows[p[1] + 1]) ELSE p[2]) \in S
    <3>1. p[2] \in S
      OBVIOUS
    <3>2. CASE p[1] + 1 \in 1..L
      BY <1>1, <3>1, <3>2, KeepsRows
    <3> QED BY <3>1, <3>2
  <2> QED BY <2>1
<1>3. \A n \in Nat, s \in S : n + 1 \in 1..L => step[<<n, s>>] = Keeps(s, rows[n + 1])
  OBVIOUS
<1>4. <<>> \in S
  OBVIOUS
<1> HIDE DEF step, S
<1>5. Iterations(S, <<>>, step) # {}
  BY <1>2, <1>4, Iterates
<1>6. PICK g \in [Nat -> S] : g[0] = <<>> /\ \A n \in Nat : g[n + 1] = step[<<n, g[n]>>]
  BY <1>5 DEF Iterations
<1> DEFINE h == [n \in 0..L |-> g[n]]
<1>7. h \in [0..L -> S] /\ h[0] = <<>>
  BY <1>1, <1>6
<1>8. ASSUME NEW n \in 1..L PROVE h[n] = Keeps(h[n - 1], rows[n])
  <2>1. n - 1 \in Nat /\ (n - 1) + 1 = n /\ n - 1 \in 0..L /\ n \in 0..L
    BY <1>1
  <2>2. g[n] = step[<<n - 1, g[n - 1]>>] /\ g[n - 1] \in S
    BY <1>6, <2>1
  <2> QED BY <1>3, <2>1, <2>2
<1> HIDE DEF h
<1>9. h = F(h)
  <2>1. ASSUME NEW n \in 0..L PROVE h[n] = F(h)[n]
    <3>1. CASE n = 0
      BY <1>7, <3>1
    <3>2. CASE n # 0
      <4>1. n \in 1..L
        BY <1>1, <3>2
      <4> QED BY <1>8, <3>2, <4>1 DEF Keeps
    <3> QED BY <3>1, <3>2
  <2> QED BY <1>7, <2>1
<1> DEFINE kept == CHOOSE f : f = F(f)
<1>10. Distinct(rows) = kept[L]
  BY DEF Distinct, L
<1> HIDE DEF F
<1>11. kept = F(kept)
  BY <1>9
<1> HIDE DEF kept
<1>12. kept = [n \in 0..L |-> kept[n]] /\ kept[0] = <<>>
  BY <1>1, <1>11 DEF F
<1>13. \A n \in 1..L : kept[n] = Keeps(kept[n - 1], rows[n])
  <2>1. ASSUME NEW n \in 1..L PROVE kept[n] = Keeps(kept[n - 1], rows[n])
    <3>1. n \in 0..L /\ n # 0
      BY <1>1
    <3> QED BY <1>11, <3>1 DEF F, Keeps
  <2> QED BY <2>1
<1>14. \A n \in 0..L : kept[n] \in S
  <2> DEFINE T == {n \in Nat : n \in 0..L => kept[n] \in S}
  <2>1. 0 \in T
    BY <1>4, <1>12
  <2>2. ASSUME NEW n \in Nat, n \in T PROVE n + 1 \in T
    <3> SUFFICES ASSUME n + 1 \in 0..L PROVE kept[n + 1] \in S
      OBVIOUS
    <3>1. n + 1 \in 1..L /\ n \in 0..L /\ (n + 1) - 1 = n
      BY <1>1
    <3>2. kept[n + 1] = Keeps(kept[n], rows[n + 1])
      BY <1>13, <3>1
    <3> QED BY <1>1, <2>2, <3>1, <3>2, KeepsRows DEF S
  <2> HIDE DEF T
  <2>3. Nat \subseteq T
    BY <2>1, <2>2, SetInduction
  <2> QED BY <1>1, <2>3 DEF T
<1>15. kept \in Keepings(rows)
  <2>1. kept \in [0..L -> S]
    BY <1>12, <1>14
  <2> QED BY <1>12, <1>13, <2>1 DEF Keepings, L, S
<1> QED BY <1>10, <1>15 DEF L

NoRepeats(rows) == \A j, k \in DOMAIN rows : Says(rows[j]) = Says(rows[k]) => j = k

(* What the first n rows mean.                                             *)
News(rows, n)     == {k \in 1..n : Says(rows[k]) \notin Before(rows, k)}
Meanings(rows, n) == {Mentions(rows, k) : k \in News(rows, n)}

LEMMA MeansAll ==
  ASSUME NEW S, NEW rows \in Seq(S)
  PROVE  Meaning(rows) = Meanings(rows, Len(rows))
<1>1. DOMAIN rows = 1..Len(rows)
  OBVIOUS
<1> QED BY <1>1 DEF Meaning, Meanings, News

LEMMA BeforeNext ==
  ASSUME NEW rows, NEW n \in Nat
  PROVE  /\ Before(rows, (n + 1) + 1) = Before(rows, n + 1) \union {Says(rows[n + 1])}
         /\ Before(rows, n + 1) = {Says(rows[j]) : j \in 1..n}
BY DEF Before

LEMMA MeansNext ==
  ASSUME NEW rows, NEW n \in Nat
  PROVE  Meanings(rows, n + 1) =
           IF Says(rows[n + 1]) \in Before(rows, n + 1) THEN Meanings(rows, n)
           ELSE Meanings(rows, n) \union {Mentions(rows, n + 1)}
<1>1. News(rows, n + 1) =
        IF Says(rows[n + 1]) \in Before(rows, n + 1) THEN News(rows, n)
        ELSE News(rows, n) \union {n + 1}
  BY DEF News
<1> QED BY <1>1 DEF Meanings

(* Rows that agree on the first n mean the same there.                     *)
LEMMA MeansAgree ==
  ASSUME NEW rows, NEW others, NEW n \in Nat, \A k \in 1..n : rows[k] = others[k]
  PROVE  Meanings(rows, n) = Meanings(others, n) /\ Before(rows, n + 1) = Before(others, n + 1)
<1>1. ASSUME NEW k \in 1..(n + 1) PROVE Before(rows, k) = Before(others, k)
  <2>1. \A j \in 1..(k - 1) : j \in 1..n
    OBVIOUS
  <2> QED BY <2>1 DEF Before
<1>2. \A k \in 1..n : Mentions(rows, k) = Mentions(others, k)
  BY <1>1 DEF Mentions
<1>3. News(rows, n) = News(others, n)
  BY <1>1 DEF News
<1>4. \A k \in News(rows, n) : k \in 1..n
  BY DEF News
<1>5. Meanings(rows, n) = Meanings(others, n)
  BY <1>2, <1>3, <1>4 DEF Meanings
<1>6. n + 1 \in 1..(n + 1)
  OBVIOUS
<1> QED BY <1>1, <1>5, <1>6

LEMMA Appended ==
  ASSUME NEW S, NEW kept \in Seq(S), NEW r \in S
  PROVE  /\ Append(kept, r) \in Seq(S)
         /\ Len(Append(kept, r)) = Len(kept) + 1
         /\ Len(kept) \in Nat
         /\ Append(kept, r)[Len(kept) + 1] = r
         /\ \A k \in 1..Len(kept) : Append(kept, r)[k] = kept[k]
OBVIOUS

(* The kept rows: none twice, each of them one of the rows, and together   *)
(* they mean what the rows mean.                                           *)
Keeper(rows, kept, n) ==
  /\ kept \in Seq(NormalRecords)
  /\ NoRepeats(kept)
  /\ \A k \in 1..Len(kept) : \E m \in 1..n : kept[k] = rows[m]
  /\ Before(kept, Len(kept) + 1) = Before(rows, n + 1)
  /\ Meanings(kept, Len(kept)) = Meanings(rows, n)

LEMMA KeepsOn ==
  ASSUME NEW rows \in Seq(NormalRecords), NEW n \in Nat, n + 1 \in 1..Len(rows),
         NEW kept, Keeper(rows, kept, n)
  PROVE  Keeper(rows, Keeps(kept, rows[n + 1]), n + 1)
<1> DEFINE r == rows[n + 1]
           L == Len(kept)
<1>1. r \in NormalRecords /\ kept \in Seq(NormalRecords) /\ L \in Nat /\ DOMAIN kept = 1..L
  BY DEF Keeper
<1>2. /\ NoRepeats(kept)
      /\ \A k \in 1..L : \E m \in 1..n : kept[k] = rows[m]
      /\ Before(kept, L + 1) = Before(rows, n + 1)
      /\ Meanings(kept, L) = Meanings(rows, n)
  BY DEF Keeper
<1>3. Repeats(kept, r) <=> Says(r) \in Before(rows, n + 1)
  <2>1. \A k \in 1..L : kept[k] \in NormalRecords
    BY <1>1
  <2>2. Repeats(kept, r) <=> \E k \in 1..L : Says(kept[k]) = Says(r)
    <3>1. \A k \in 1..L : Says(kept[k]) = Says(r) <=> identity(kept[k]) = identity(r)
      BY <1>1, <2>1, SameRow
    <3>2. Repeats(kept, r) <=> \E k \in 1..L : identity(kept[k]) = identity(r)
      BY <1>1 DEF Repeats
    <3> QED BY <3>1, <3>2
  <2>3. Before(kept, L + 1) = {Says(kept[j]) : j \in 1..L}
    <3>1. (L + 1) - 1 = L
      BY <1>1
    <3> HIDE DEF L
    <3> QED BY <3>1 DEF Before
  <2> QED BY <1>2, <2>2, <2>3
<1>4. Before(rows, (n + 1) + 1) = Before(rows, n + 1) \union {Says(r)}
  BY BeforeNext
<1> HIDE DEF r, L
<1>5. CASE Repeats(kept, r)
  <2>1. Keeps(kept, r) = kept
    BY <1>5 DEF Keeps
  <2>2. Meanings(rows, n + 1) = Meanings(rows, n)
    BY <1>3, <1>5, MeansNext DEF r
  <2>3. Before(rows, (n + 1) + 1) = Before(rows, n + 1)
    BY <1>3, <1>4, <1>5
  <2>4. \A k \in 1..L : \E m \in 1..(n + 1) : kept[k] = rows[m]
    BY <1>2
  <2> QED BY <1>1, <1>2, <2>1, <2>2, <2>3, <2>4 DEF Keeper, L, r
<1>6. CASE ~Repeats(kept, r)
  <2> DEFINE more == Append(kept, r)
  <2>1. Keeps(kept, r) = more
    BY <1>6 DEF Keeps
  <2>2. /\ more \in Seq(NormalRecords) /\ Len(more) = L + 1 /\ more[L + 1] = r
        /\ \A k \in 1..L : more[k] = kept[k]
    BY <1>1, Appended DEF L
  <2>3. DOMAIN more = 1..(L + 1)
    BY <2>2
  <2> HIDE DEF more
  <2>4. /\ Meanings(more, L) = Meanings(kept, L)
        /\ Before(more, L + 1) = Before(kept, L + 1)
    BY <1>1, <2>2, MeansAgree
  <2>5. Before(more, (L + 1) + 1) = Before(more, L + 1) \union {Says(r)}
    BY <1>1, <2>2, BeforeNext
  <2>6. Before(more, (L + 1) + 1) = Before(rows, (n + 1) + 1)
    BY <1>2, <1>4, <2>4, <2>5
  <2>7. Says(r) \notin Before(rows, n + 1) /\ Says(r) \notin Before(more, L + 1)
    BY <1>2, <1>3, <1>6, <2>4
  <2>8. Meanings(more, L + 1) = Meanings(more, L) \union {Mentions(more, L + 1)}
    BY <1>1, <2>2, <2>7, MeansNext
  <2>9. Meanings(rows, n + 1) = Meanings(rows, n) \union {Mentions(rows, n + 1)}
    BY <2>7, MeansNext DEF r
  <2>10. Mentions(more, L + 1) = Mentions(rows, n + 1)
    BY <1>2, <2>2, <2>4 DEF Mentions, r
  <2>11. Meanings(more, L + 1) = Meanings(rows, n + 1)
    BY <1>2, <2>4, <2>8, <2>9, <2>10
  <2>12. \A k \in 1..(L + 1) : \E m \in 1..(n + 1) : more[k] = rows[m]
    <3>1. ASSUME NEW k \in 1..(L + 1) PROVE \E m \in 1..(n + 1) : more[k] = rows[m]
      <4>1. CASE k = L + 1
        BY <2>2, <4>1 DEF r
      <4>2. CASE k # L + 1
        <5>1. k \in 1..L
          BY <1>1, <4>2
        <5>2. PICK m \in 1..n : kept[k] = rows[m]
          BY <1>2, <5>1
        <5> QED BY <2>2, <5>1, <5>2
      <4> QED BY <4>1, <4>2
    <3> QED BY <3>1
  <2>13. NoRepeats(more)
    <3>1. \A k \in 1..L : Says(more[k]) # Says(r)
      <4>1. \A k \in 1..L : Says(kept[k]) \in Before(kept, L + 1)
        BY <1>1, BeforeNext
      <4> QED BY <2>2, <2>4, <2>7, <4>1
    <3>2. \A j, k \in 1..L : Says(more[j]) = Says(more[k]) => j = k
      BY <1>1, <1>2, <2>2 DEF NoRepeats
    <3>3. \A k \in 1..(L + 1) : k \in 1..L \/ k = L + 1
      BY <1>1
    <3> QED BY <2>2, <2>3, <3>1, <3>2, <3>3 DEF NoRepeats
  <2> QED BY <2>1, <2>2, <2>6, <2>11, <2>12, <2>13 DEF Keeper, r
<1> QED BY <1>5, <1>6 DEF r

LEMMA DistinctIs ==
  ASSUME NEW rows \in Seq(NormalRecords)
  PROVE  Keeper(rows, Distinct(rows), Len(rows))
<1>1. PICK kept \in Keepings(rows) : Distinct(rows) = kept[Len(rows)]
  BY Keeping
<1>2. Len(rows) \in Nat
  OBVIOUS
<1>3. kept[0] = <<>> /\ \A n \in 1..Len(rows) : kept[n] = Keeps(kept[n - 1], rows[n])
  BY DEF Keepings
<1> DEFINE T == {n \in Nat : n \in 0..Len(rows) => Keeper(rows, kept[n], n)}
<1>4. 0 \in T
  <2>1. <<>> \in Seq(NormalRecords) /\ Len(<<>>) = 0 /\ DOMAIN <<>> = {}
    OBVIOUS
  <2>2. NoRepeats(<<>>)
    BY <2>1 DEF NoRepeats
  <2>3. Before(<<>>, 0 + 1) = {} /\ Before(rows, 0 + 1) = {}
    BY DEF Before
  <2>4. Meanings(<<>>, 0) = {} /\ Meanings(rows, 0) = {}
    BY DEF Meanings, News
  <2>5. \A k \in 1..Len(<<>>) : \E m \in 1..0 : <<>>[k] = rows[m]
    BY <2>1
  <2>6. Before(<<>>, Len(<<>>) + 1) = Before(rows, 0 + 1)
    BY <2>1, <2>3
  <2>7. Meanings(<<>>, Len(<<>>)) = Meanings(rows, 0)
    BY <2>1, <2>4
  <2>8. Keeper(rows, <<>>, 0)
    BY <2>1, <2>2, <2>5, <2>6, <2>7 DEF Keeper
  <2> QED BY <1>3, <2>8
<1>5. ASSUME NEW n \in Nat, n \in T PROVE n + 1 \in T
  <2> SUFFICES ASSUME n + 1 \in 0..Len(rows) PROVE Keeper(rows, kept[n + 1], n + 1)
    OBVIOUS
  <2>1. n + 1 \in 1..Len(rows) /\ n \in 0..Len(rows) /\ (n + 1) - 1 = n
    BY <1>2
  <2>2. kept[n + 1] = Keeps(kept[n], rows[n + 1]) /\ Keeper(rows, kept[n], n)
    BY <1>3, <1>5, <2>1
  <2> QED BY <2>1, <2>2, KeepsOn
<1> HIDE DEF T
<1>6. Nat \subseteq T
  BY <1>4, <1>5, SetInduction
<1> QED BY <1>1, <1>2, <1>6 DEF T

(* Of two sequences without repeats that mean the same, one begins with    *)
(* the other.                                                              *)
LEMMA SameStart ==
  ASSUME NEW D \in Seq(NormalRecords), NEW E \in Seq(NormalRecords),
         NoRepeats(D), NoRepeats(E), Meaning(D) = Meaning(E)
  PROVE  Len(D) <= Len(E) /\ \A k \in 1..Len(D) : D[k] = E[k]
<1>1. /\ Len(D) \in Nat /\ Len(E) \in Nat /\ DOMAIN D = 1..Len(D) /\ DOMAIN E = 1..Len(E)
      /\ \A k \in 1..Len(D) : D[k] \in NormalRecords
      /\ \A k \in 1..Len(E) : E[k] \in NormalRecords
  OBVIOUS
<1>2. Meanings(D, Len(D)) = Meanings(E, Len(E))
  BY MeansAll
<1> DEFINE Agree(k) == k <= Len(D) => (k <= Len(E) /\ D[k] = E[k])
           T == {n \in Nat : \A k \in 1..n : Agree(k)}
<1>3. 0 \in T
  OBVIOUS
<1>4. ASSUME NEW n \in Nat, n \in T PROVE n + 1 \in T
  <2>1. \A k \in 1..n : Agree(k)
    BY <1>4
  <2>2. Agree(n + 1)
    <3> SUFFICES ASSUME n + 1 <= Len(D) PROVE n + 1 <= Len(E) /\ D[n + 1] = E[n + 1]
      OBVIOUS
    <3>1. n + 1 \in 1..Len(D) /\ \A k \in 1..n : k \in 1..Len(D)
      BY <1>1
    <3>2. \A k \in 1..n : k \in 1..Len(E) /\ D[k] = E[k]
      BY <1>1, <2>1, <3>1
    <3>3. Before(D, n + 1) = Before(E, n + 1)
      BY <3>2, MeansAgree
    <3>4. Before(D, n + 1) = {Says(D[j]) : j \in 1..n} /\ Before(E, n + 1) = {Says(E[j]) : j \in 1..n}
      BY BeforeNext
    <3>5. Says(D[n + 1]) \notin Before(D, n + 1)
      <4> SUFFICES ASSUME NEW j \in 1..n, Says(D[j]) = Says(D[n + 1]) PROVE FALSE
        BY <3>4
      <4>1. j = n + 1
        BY <1>1, <3>1 DEF NoRepeats
      <4> QED BY <4>1
    <3>6. Mentions(D, n + 1) \in Meanings(E, Len(E))
      BY <1>2, <3>1, <3>5 DEF Meanings, News
    <3>7. PICK m \in 1..Len(E) : Mentions(E, m) = Mentions(D, n + 1)
      BY <3>6 DEF Meanings, News
    <3>8. /\ Says(E[m]) = Says(D[n + 1]) /\ E[m].proxied = D[n + 1].proxied
          /\ Before(E, m) = Before(D, n + 1)
      BY <3>7 DEF Mentions
    <3>9. ~(m <= n)
      <4> SUFFICES ASSUME m <= n PROVE FALSE
        OBVIOUS
      <4>1. m \in 1..n
        BY <1>1
      <4>2. Says(D[m]) = Says(D[n + 1]) /\ m \in 1..Len(D)
        BY <3>1, <3>2, <3>8, <4>1
      <4>3. m = n + 1
        BY <1>1, <3>1, <4>2 DEF NoRepeats
      <4> QED BY <4>1, <4>3
    <3>10. ~(m > n + 1)
      <4> SUFFICES ASSUME m > n + 1 PROVE FALSE
        OBVIOUS
      <4>1. n + 1 \in 1..(m - 1) /\ n + 1 \in 1..Len(E)
        BY <1>1
      <4>2. Says(E[n + 1]) \in Before(E, m)
        BY <4>1 DEF Before
      <4>3. Says(E[n + 1]) \in Before(E, n + 1)
        BY <3>3, <3>8, <4>2
      <4>4. PICK j \in 1..n : Says(E[j]) = Says(E[n + 1])
        BY <3>4, <4>3
      <4>5. j = n + 1
        BY <1>1, <3>2, <4>1, <4>4 DEF NoRepeats
      <4> QED BY <4>5
    <3>11. m = n + 1
      BY <1>1, <3>9, <3>10
    <3>12. D[n + 1] = E[n + 1]
      BY <1>1, <3>1, <3>8, <3>11, SameRow
    <3> QED BY <1>1, <3>11, <3>12
  <2>3. \A k \in 1..(n + 1) : k \in 1..n \/ k = n + 1
    OBVIOUS
  <2> HIDE DEF Agree
  <2> QED BY <2>1, <2>2, <2>3
<1> HIDE DEF T
<1>5. Nat \subseteq T
  BY <1>3, <1>4, SetInduction
<1>6. \A k \in 1..Len(D) : k <= Len(E) /\ D[k] = E[k]
  BY <1>1, <1>5 DEF T
<1>7. Len(D) <= Len(E)
  BY <1>1, <1>6
<1> QED BY <1>6, <1>7

LEMMA SameMeaning ==
  ASSUME NEW D \in Seq(NormalRecords), NEW E \in Seq(NormalRecords),
         NoRepeats(D), NoRepeats(E), Meaning(D) = Meaning(E)
  PROVE  D = E
<1>1. Len(D) <= Len(E) /\ \A k \in 1..Len(D) : D[k] = E[k]
  BY SameStart
<1>2. Len(E) <= Len(D)
  BY SameStart
<1>3. Len(D) \in Nat /\ Len(E) \in Nat
  OBVIOUS
<1>4. Len(D) = Len(E)
  BY <1>1, <1>2, <1>3
<1> QED BY <1>1, <1>4

(* Rows that mean the same are one sequence, once normalized and distinct; *)
(* so rows that are both already are left as they are.                     *)
LEMMA OnePlan ==
  ASSUME NEW rows \in Seq(Record), NEW others \in Seq(Record), Meaning(rows) = Meaning(others)
  PROVE  Distinct(Normalized(rows)) = Distinct(Normalized(others))
<1>1. /\ Normalized(rows) \in Seq(NormalRecords) /\ Normalized(others) \in Seq(NormalRecords)
      /\ Meaning(Normalized(rows)) = Meaning(rows) /\ Meaning(Normalized(others)) = Meaning(others)
  BY Normalizes
<1>2. \A r \in Seq(NormalRecords) : /\ Distinct(r) \in Seq(NormalRecords) /\ NoRepeats(Distinct(r))
                                    /\ Meaning(Distinct(r)) = Meaning(r)
  BY DistinctIs, MeansAll DEF Keeper
<1>3. Meaning(Distinct(Normalized(rows))) = Meaning(Distinct(Normalized(others)))
  BY <1>1, <1>2
<1> QED BY <1>1, <1>2, <1>3, SameMeaning

LEMMA Settled ==
  ASSUME NEW rows \in Seq(NormalRecords), NoRepeats(rows)
  PROVE  Normalized(rows) = rows /\ Distinct(rows) = rows
<1>1. NormalRecords \subseteq Record
  BY DEF NormalRecords
<1>2. rows \in Seq(Record)
  BY <1>1
<1>3. Normalized(rows) = rows
  <2>1. \A k \in 1..Len(rows) : Normalized(rows)[k] = NormalizeRecord(rows[k])
    BY <1>2, Normalizes
  <2>2. \A k \in 1..Len(rows) : rows[k] \in NormalRecords
    OBVIOUS
  <2>3. \A k \in 1..Len(rows) : Normalized(rows)[k] = rows[k]
    BY <2>1, <2>2 DEF NormalRecords
  <2>4. Normalized(rows) \in Seq(NormalRecords) /\ Len(Normalized(rows)) = Len(rows)
    BY <1>2, Normalizes
  <2> QED BY <2>3, <2>4
<1>4. /\ Distinct(rows) \in Seq(NormalRecords) /\ NoRepeats(Distinct(rows))
      /\ Meaning(Distinct(rows)) = Meaning(rows)
  BY DistinctIs, MeansAll DEF Keeper
<1>5. Distinct(rows) = rows
  BY <1>4, SameMeaning
<1> QED BY <1>3, <1>5

-----------------------------------------------------------------------------
(* Snapshots.                                                              *)

LEMMA FirstError ==
  ASSUME NEW n \in Nat, NEW errors, DOMAIN errors = 1..n
  PROVE  /\ FirstOf(errors) = {} <=> \A k \in 1..n : errors[k] = {}
         /\ FirstOf(errors) # {} => \E k \in 1..n : FirstOf(errors) = errors[k]
<1> DEFINE bad == {k \in 1..n : errors[k] # {}}
           first == CHOOSE k \in bad : \A j \in bad : k <= j
<1>1. FirstOf(errors) = IF bad = {} THEN {} ELSE errors[first]
  BY DEF FirstOf
<1>2. CASE bad = {}
  BY <1>1, <1>2
<1>3. CASE bad # {}
  <2>1. bad \subseteq Nat
    OBVIOUS
  <2>2. \E k \in bad : \A j \in bad : k <= j
    BY <1>3, <2>1, Least
  <2>3. first \in bad
    BY <2>2
  <2> HIDE DEF first
  <2> QED BY <1>1, <1>3, <2>3
<1> QED BY <1>2, <1>3

(* A name the write bound is drawn at: canonical, and not empty.           *)
Proper(a) == a \in Names /\ NormalizeName(a) = a /\ a.core # Nothing

LEMMA ProperName ==
  ASSUME NEW a, Proper(a)
  PROVE  a = [core |-> a.core, upper |-> FALSE, tail |-> <<>>] /\ ~Empty(a)
BY Canonical DEF Proper, Empty

LEMMA ProperMade ==
  ASSUME NEW n \in Names, n.core # Nothing
  PROVE  Proper(NormalizeName(n)) /\ NormalizeName(n).core = n.core
BY Canonical DEF Proper

(* A name that escapes the anchor is nothing, or really elsewhere.         *)
LEMMA Escaping ==
  ASSUME NEW a, Proper(a), NEW n \in Names, ~Contains(a, n)
  PROVE  n.core = Nothing \/ (n.core # a.core /\ <<n.core, a.core>> \notin Under)
<1>1. a = [core |-> a.core, upper |-> FALSE, tail |-> <<>>] /\ ~Empty(a) /\ NormalizeName(a) = a
  BY ProperName DEF Proper
<1>2. NormalizeName(n) = [core |-> n.core, upper |-> FALSE, tail |-> <<>>]
  BY Canonical
<1>3. n.core = Nothing \/ ~Empty(NormalizeName(n))
  BY <1>2 DEF Empty
<1>4. NormalizeName(n) = a <=> n.core = a.core
  BY <1>1, <1>2
<1>5. NormalizeName(n).tail = a.tail /\ NormalizeName(n).core = n.core
  BY <1>1, <1>2
<1> QED BY <1>1, <1>3, <1>4, <1>5 DEF Contains

LEMMA RowErrors ==
  ASSUME NEW r
  PROVE  /\ RowError(r) \in {{}, {"ErrPlanPreparing"}, {"ErrPlanInvalid"}}
         /\ RowError(r) = {"ErrPlanInvalid"} => Unfit(r)
         /\ RowError(r) = {} => ~Incomplete(r) /\ ~Unfit(r)
BY DEF RowError

LEMMA RowsErrors ==
  ASSUME NEW S, NEW rows \in Seq(S)
  PROVE  /\ RecordsError(rows) \in {{}, {"ErrPlanPreparing"}, {"ErrPlanInvalid"}}
         /\ RecordsError(rows) = {"ErrPlanInvalid"} => \E k \in 1..Len(rows) : Unfit(rows[k])
         /\ RecordsError(rows) = {} <=> \A k \in 1..Len(rows) : RowError(rows[k]) = {}
<1> DEFINE errors == [k \in DOMAIN rows |-> RowError(rows[k])]
<1>1. Len(rows) \in Nat /\ DOMAIN errors = 1..Len(rows) /\ \A k \in 1..Len(rows) : errors[k] = RowError(rows[k])
  OBVIOUS
<1>2. RecordsError(rows) = FirstOf(errors)
  BY DEF RecordsError
<1> HIDE DEF errors
<1>3. FirstOf(errors) = {} <=> \A k \in 1..Len(rows) : errors[k] = {}
  BY <1>1, FirstError
<1>4. FirstOf(errors) # {} => \E k \in 1..Len(rows) : FirstOf(errors) = RowError(rows[k])
  BY <1>1, FirstError
<1>5. {"ErrPlanInvalid"} # {}
  OBVIOUS
<1> QED BY <1>1, <1>2, <1>3, <1>4, <1>5, RowErrors

(* Rows no plan at an anchor may hold.                                     *)
Spoiled(a, rows) == \E k \in DOMAIN rows :
  \/ rows[k].value.text \in Garbled \union Overlong
  \/ rows[k].name.core \notin {a.core, Nothing} /\ <<rows[k].name.core, a.core>> \notin Under

(* A snapshot that NewSnapshot may have made.                              *)
Sound(s) ==
  /\ Proper(s.anchor)
  /\ s = Snapshot(s.anchor, s.records)
  /\ s.records \in Seq(NormalRecords)
  /\ NoRepeats(s.records)
  /\ Len(s.records) \in 1..MaxRecords
  /\ \A k \in 1..Len(s.records) : RowError(s.records[k]) = {}
  /\ ~Escapes(s)

(* What each row of a new snapshot was made from.                          *)
LEMMA Made ==
  ASSUME NEW a, Proper(a), NEW rows \in Seq(Record)
  PROVE  LET s == NewSnapshot(a, rows) IN
         /\ s = Snapshot(a, s.records) /\ s.anchor = a
         /\ s.records = Distinct(Normalized(rows))
         /\ s.records \in Seq(NormalRecords)
         /\ NoRepeats(s.records)
         /\ Meaning(s.records) = Meaning(rows)
         /\ Before(s.records, Len(s.records) + 1) = Before(Normalized(rows), Len(rows) + 1)
         /\ \A k \in 1..Len(s.records) : \E m \in 1..Len(rows) :
              s.records[k] = Normalized(rows)[m] /\ s.records[k] = NormalizeRecord(rows[m])
<1> DEFINE s == NewSnapshot(a, rows)
           N == Normalized(rows)
<1>1. s = Snapshot(a, Distinct(N))
  BY DEF NewSnapshot, Proper
<1>2. s = Snapshot(a, s.records) /\ s.anchor = a /\ s.records = Distinct(N)
  BY <1>1 DEF Snapshot
<1>3. N \in Seq(NormalRecords) /\ Len(N) = Len(rows) /\ Meaning(N) = Meaning(rows)
  BY Normalizes
<1>4. \A k \in 1..Len(rows) : N[k] = NormalizeRecord(rows[k])
  BY Normalizes
<1> HIDE DEF N, s
<1>5. Keeper(N, s.records, Len(N))
  BY <1>2, <1>3, DistinctIs
<1>6. s.records \in Seq(NormalRecords) /\ NoRepeats(s.records)
  BY <1>5 DEF Keeper
<1>7. Meaning(s.records) = Meaning(N)
  BY <1>3, <1>5, <1>6, MeansAll DEF Keeper
<1>8. \A k \in 1..Len(s.records) : \E m \in 1..Len(rows) : s.records[k] = N[m]
  BY <1>3, <1>5 DEF Keeper
<1>9. Before(s.records, Len(s.records) + 1) = Before(N, Len(rows) + 1)
  BY <1>3, <1>5 DEF Keeper
<1> QED BY <1>2, <1>3, <1>4, <1>6, <1>7, <1>8, <1>9 DEF N, s

(* A plan is refused for good only for a row that no plan may hold.        *)
LEMMA Refusals ==
  ASSUME NEW a, Proper(a), NEW rows \in Seq(Record)
  PROVE  \/ NewSnapshotError(a, rows) \in {{}, {"ErrPlanPreparing"}}
         \/ /\ NewSnapshotError(a, rows) \in {{"ErrPlanInvalid"}, AnchorEscape}
            /\ Spoiled(a, rows)
<1> DEFINE s == NewSnapshot(a, rows)
           N == Normalized(rows)
<1>1. /\ s.anchor = a /\ ~Empty(a) /\ N \in Seq(NormalRecords) /\ Len(N) = Len(rows)
      /\ DOMAIN rows = 1..Len(rows) /\ Len(rows) \in Nat
      /\ \A k \in 1..Len(rows) : rows[k] \in Record
  BY Made, ProperName, Normalizes
<1>2. \A k \in 1..Len(rows) : N[k] = NormalizeRecord(rows[k])
  BY Normalizes
<1>3. \A k \in 1..Len(s.records) : \E m \in 1..Len(rows) : s.records[k] = N[m]
  BY Made
<1>4. s.records \in Seq(NormalRecords) /\ DOMAIN s.records = 1..Len(s.records)
  BY Made
<1>5. NewSnapshotError(a, rows) =
        IF RecordsError(N) # {} THEN RecordsError(N)
        ELSE IF Len(s.records) \notin 1..MaxRecords THEN {"ErrPlanPreparing"}
        ELSE IF Escapes(s) THEN AnchorEscape ELSE {}
  BY <1>1 DEF NewSnapshotError
<1> HIDE DEF s, N
<1>6. ASSUME RecordsError(N) = {"ErrPlanInvalid"} PROVE Spoiled(a, rows)
  <2>1. PICK k \in 1..Len(rows) : Unfit(N[k])
    BY <1>1, <1>6, RowsErrors
  <2>2. N[k].value.text = rows[k].value.text
    BY <1>1, <1>2, NormalRow DEF Canon
  <2> QED BY <1>1, <2>1, <2>2 DEF Unfit, Spoiled
<1>7. ASSUME RecordsError(N) = {}, Escapes(s) PROVE Spoiled(a, rows)
  <2>1. PICK k \in 1..Len(s.records) : ~Contains(a, s.records[k].name)
    BY <1>1, <1>4, <1>7 DEF Escapes
  <2>2. PICK m \in 1..Len(rows) : s.records[k] = N[m]
    BY <1>3
  <2>3. N[m] \in Record /\ N[m].name \in Names /\ RowError(N[m]) = {}
    <3>1. N[m] \in NormalRecords
      BY <1>1
    <3>2. N[m] \in Record
      BY <3>1 DEF NormalRecords
    <3>3. RowError(N[m]) = {}
      BY <1>1, <1>7, RowsErrors
    <3> QED BY <3>2, <3>3, RowFields
  <2>4. N[m].name = [core |-> rows[m].name.core, upper |-> FALSE, tail |-> <<>>]
    <3>1. N[m] = Canon(rows[m])
      BY <1>1, <1>2, NormalRow
    <3> QED BY <3>1 DEF Canon
  <2>5. ~Empty(N[m].name)
    BY <2>3, RowErrors DEF Incomplete
  <2>6. rows[m].name.core # Nothing
    BY <2>4, <2>5 DEF Empty
  <2>7. rows[m].name.core # a.core /\ <<rows[m].name.core, a.core>> \notin Under
    BY <2>1, <2>2, <2>3, <2>4, <2>6, Escaping
  <2> QED BY <1>1, <2>6, <2>7 DEF Spoiled
<1>8. RecordsError(N) \in {{}, {"ErrPlanPreparing"}, {"ErrPlanInvalid"}}
  BY <1>1, RowsErrors
<1> QED BY <1>5, <1>6, <1>7, <1>8

LEMMA SoundMade ==
  ASSUME NEW a, Proper(a), NEW rows \in Seq(Record), NewSnapshotError(a, rows) = {}
  PROVE  Sound(NewSnapshot(a, rows))
<1> DEFINE s == NewSnapshot(a, rows)
           N == Normalized(rows)
<1>1. /\ s = Snapshot(a, s.records) /\ s.anchor = a /\ s.records \in Seq(NormalRecords)
      /\ NoRepeats(s.records) /\ ~Empty(a)
  BY Made, ProperName
<1>2. \A k \in 1..Len(s.records) : \E m \in 1..Len(rows) : s.records[k] = N[m]
  BY Made
<1>3. N \in Seq(NormalRecords) /\ Len(N) = Len(rows)
  BY Normalizes
<1>4. {"ErrPlanPreparing"} # {} /\ AnchorEscape # {}
  BY DEF AnchorEscape
<1>5. RecordsError(N) = {} /\ Len(s.records) \in 1..MaxRecords /\ ~Escapes(s)
  BY <1>1, <1>4 DEF NewSnapshotError
<1> HIDE DEF s, N
<1>6. \A m \in 1..Len(rows) : RowError(N[m]) = {}
  BY <1>3, <1>5, RowsErrors
<1> QED BY <1>1, <1>2, <1>5, <1>6 DEF Sound, s

(* What was made is accepted when it is read back, and no text of it is    *)
(* repaired on the way into its digest.                                    *)
LEMMA Accepted ==
  ASSUME NEW s, Sound(s)
  PROVE  Digest(s) = s /\ ValidateError(s, Digest(s)) = {}
<1>1. /\ s = Snapshot(s.anchor, s.records) /\ s.records \in Seq(NormalRecords)
      /\ NoRepeats(s.records) /\ Len(s.records) \in 1..MaxRecords /\ ~Escapes(s)
      /\ \A k \in 1..Len(s.records) : RowError(s.records[k]) = {}
      /\ s.anchor = NormalizeName(s.anchor) /\ ~Empty(s.anchor)
  BY ProperName DEF Sound, Proper
<1> DEFINE R == s.records
<1>2. R = [k \in DOMAIN R |-> R[k]] /\ DOMAIN R = 1..Len(R) /\ \A k \in 1..Len(R) : R[k] \in NormalRecords
  BY <1>1
<1> HIDE DEF R
<1>3. ASSUME NEW k \in DOMAIN R
      PROVE  Marshalled(R[k]) = R[k]
  <2>1. ~Unfit(R[k])
    BY <1>1, <1>2, RowErrors DEF R
  <2>2. Marshal(R[k].value.text) = R[k].value.text
    BY <2>1 DEF Unfit, Marshal
  <2>3. R[k] \in Record /\ R[k].value \in Values
    BY <1>2, RowFields DEF NormalRecords
  <2> QED BY <2>2, <2>3 DEF Marshalled, Record, Values
<1>4. Digest(s) = s
  <2>1. [k \in DOMAIN R |-> Marshalled(R[k])] = R
    BY <1>2, <1>3
  <2> QED BY <1>1, <2>1 DEF Digest, R
<1>5. Normalized(R) = R /\ Distinct(Normalized(R)) = R
  BY <1>1, Settled DEF R
<1>6. RecordsError(R) = {}
  BY <1>1, RowsErrors DEF R
<1> QED BY <1>1, <1>4, <1>5, <1>6 DEF ValidateError, R

(* A snapshot at a name is one at the canonical spelling of that name.     *)
LEMMA AtCanonical ==
  ASSUME NEW a \in Names, NEW rows \in Seq(Record), NewSnapshotError(a, rows) = {}
  PROVE  /\ Proper(NormalizeName(a))
         /\ NewSnapshot(a, rows) = NewSnapshot(NormalizeName(a), rows)
         /\ NewSnapshotError(NormalizeName(a), rows) = {}
<1>1. NewSnapshot(a, rows) = NewSnapshot(NormalizeName(a), rows)
  BY Canonical DEF NewSnapshot
<1>2. NewSnapshotError(NormalizeName(a), rows) = {}
  BY <1>1 DEF NewSnapshotError
<1>3. NewSnapshot(a, rows).anchor = NormalizeName(a)
  BY DEF NewSnapshot, Snapshot
<1>4. ~Empty(NormalizeName(a))
  BY <1>3 DEF NewSnapshotError
<1>5. NormalizeName(a).core = a.core /\ NormalizeName(a).tail = <<>>
  BY Canonical
<1>6. a.core # Nothing
  BY <1>4, <1>5 DEF Empty
<1> QED BY <1>1, <1>2, <1>6, ProperMade

(* What one gate accepts the others do: a plan that NewSnapshot made is    *)
(* left as it is when it is made again from what was stored, is accepted   *)
(* again, and passes Validate (NewSnapshot, NormalizeRecords, Validate).   *)
THEOREM SnapshotStands ==
  ASSUME NEW a \in Names, NEW rows \in Seq(Record), NewSnapshotError(a, rows) = {}
  PROVE  LET s == NewSnapshot(a, rows) IN
         /\ NewSnapshot(s.anchor, s.records) = s
         /\ NewSnapshotError(s.anchor, s.records) = {}
         /\ ValidateError(s, Digest(s)) = {}
<1> DEFINE s == NewSnapshot(a, rows)
<1>1. Sound(s)
  BY AtCanonical, SoundMade
<1> HIDE DEF s
<1>2. /\ s = Snapshot(s.anchor, s.records) /\ s.anchor = NormalizeName(s.anchor) /\ ~Empty(s.anchor)
      /\ s.records \in Seq(NormalRecords) /\ Len(s.records) \in 1..MaxRecords /\ ~Escapes(s)
  BY <1>1, ProperName DEF Sound, Proper
<1>3. Normalized(s.records) = s.records /\ Distinct(s.records) = s.records
  BY <1>1, Settled DEF Sound
<1>4. NewSnapshot(s.anchor, s.records) = s
  BY <1>2, <1>3 DEF NewSnapshot
<1>5. RecordsError(s.records) = {}
  BY <1>1, <1>2, RowsErrors DEF Sound
<1>6. NewSnapshotError(s.anchor, s.records) = {}
  BY <1>2, <1>3, <1>4, <1>5 DEF NewSnapshotError
<1> QED BY <1>1, <1>4, <1>6, Accepted DEF s

(* The digest ties the plan: of two plans that were accepted, those and    *)
(* only those that mean the same at the same anchor have one digest,       *)
(* however each is spelled, padded or repeated - so what is written under  *)
(* a digest is what was reviewed under it (NormalizeRecords, Digest).      *)
THEOREM DigestBinds ==
  ASSUME NEW a \in Names, NEW b \in Names, NEW rows \in Seq(Record), NEW others \in Seq(Record),
         NewSnapshotError(a, rows) = {}, NewSnapshotError(b, others) = {}
  PROVE  Digest(NewSnapshot(a, rows)) = Digest(NewSnapshot(b, others))
           <=> a.core = b.core /\ Meaning(rows) = Meaning(others)
<1> DEFINE s == NewSnapshot(a, rows)
           t == NewSnapshot(b, others)
           an == NormalizeName(a)
           bn == NormalizeName(b)
<1>1. Digest(s) = s /\ Digest(t) = t
  BY AtCanonical, SoundMade, Accepted
<1>2. /\ s = Snapshot(an, s.records) /\ s.records = Distinct(Normalized(rows))
      /\ s.anchor = an /\ Meaning(s.records) = Meaning(rows)
  BY AtCanonical, Made
<1>3. /\ t = Snapshot(bn, t.records) /\ t.records = Distinct(Normalized(others))
      /\ t.anchor = bn /\ Meaning(t.records) = Meaning(others)
  BY AtCanonical, Made
<1>4. an = bn <=> a.core = b.core
  <2>1. /\ an = [core |-> a.core, upper |-> FALSE, tail |-> <<>>]
        /\ bn = [core |-> b.core, upper |-> FALSE, tail |-> <<>>]
    BY Canonical
  <2>2. an.core = a.core /\ bn.core = b.core
    BY <2>1
  <2> HIDE DEF an, bn
  <2> QED BY <2>1, <2>2
<1> HIDE DEF s, t, an, bn
<1>5. ASSUME s = t PROVE a.core = b.core /\ Meaning(rows) = Meaning(others)
  BY <1>2, <1>3, <1>4, <1>5
<1>6. ASSUME a.core = b.core, Meaning(rows) = Meaning(others) PROVE s = t
  <2>1. s.records = t.records
    BY <1>2, <1>3, <1>6, OnePlan
  <2> QED BY <1>2, <1>3, <1>4, <1>6, <2>1
<1>7. Digest(s) = Digest(t) <=> a.core = b.core /\ Meaning(rows) = Meaning(others)
  BY <1>1, <1>5, <1>6
<1> QED BY <1>7 DEF s, t

LEMMA Joined ==
  ASSUME NEW rows \in Seq(Record), NEW more \in Seq(Record)
  PROVE  /\ rows \o more \in Seq(Record)
         /\ Len(rows \o more) = Len(rows) + Len(more)
         /\ Len(rows) \in Nat /\ Len(more) \in Nat
         /\ \A k \in 1..Len(rows) : (rows \o more)[k] = rows[k]
OBVIOUS

(* Rows that are added neither change what the first ones mean nor uncover *)
(* them.                                                                   *)
LEMMA MeansMore ==
  ASSUME NEW rows \in Seq(Record), NEW more \in Seq(Record)
  PROVE  Meaning(rows) \subseteq Meaning(rows \o more)
<1> DEFINE all == rows \o more
           n == Len(rows)
<1>1. /\ all \in Seq(Record) /\ Len(all) = n + Len(more) /\ n \in Nat /\ Len(more) \in Nat
      /\ \A k \in 1..n : all[k] = rows[k]
  BY Joined
<1> HIDE DEF all, n
<1>2. Meanings(rows, n) = Meanings(all, n)
  BY <1>1, MeansAgree
<1>3. Meanings(all, n) \subseteq Meanings(all, Len(all))
  BY <1>1 DEF Meanings, News
<1>4. Meaning(rows) = Meanings(rows, n) /\ Meaning(all) = Meanings(all, Len(all))
  BY <1>1, MeansAll DEF n
<1> QED BY <1>2, <1>3, <1>4 DEF all

LEMMA Covered ==
  ASSUME NEW a, Proper(a), NEW rows \in Seq(Record), NEW more \in Seq(Record)
  PROVE  CoveredBy(NewSnapshot(a, rows), NewSnapshot(a, rows \o more))
<1> DEFINE s == NewSnapshot(a, rows)
           all == rows \o more
           t == NewSnapshot(a, all)
<1>1. /\ all \in Seq(Record) /\ Len(all) = Len(rows) + Len(more) /\ Len(rows) \in Nat /\ Len(more) \in Nat
      /\ \A k \in 1..Len(rows) : all[k] = rows[k]
  BY Joined
<1> HIDE DEF all
<1>2. /\ s.anchor = a /\ s.records \in Seq(NormalRecords)
      /\ \A k \in 1..Len(s.records) : \E m \in 1..Len(rows) : s.records[k] = NormalizeRecord(rows[m])
  BY Made
<1>3. /\ t.anchor = a /\ t.records \in Seq(NormalRecords)
      /\ Before(t.records, Len(t.records) + 1) = Before(Normalized(all), Len(all) + 1)
  BY <1>1, Made
<1>4. \A k \in 1..Len(all) : Normalized(all)[k] = NormalizeRecord(all[k])
  BY <1>1, Normalizes
<1> HIDE DEF s, t
<1>5. ASSUME NEW k \in 1..Len(s.records)
      PROVE  \E j \in 1..Len(t.records) : identity(t.records[j]) = identity(s.records[k])
  <2>1. PICK m \in 1..Len(rows) : s.records[k] = NormalizeRecord(rows[m])
    BY <1>2
  <2>2. m \in 1..Len(all) /\ Normalized(all)[m] = s.records[k]
    BY <1>1, <1>4, <2>1
  <2>3. Says(s.records[k]) \in Before(Normalized(all), Len(all) + 1)
    <3>0. Len(all) \in Nat
      BY <1>1
    <3>1. Before(Normalized(all), Len(all) + 1) = {Says(Normalized(all)[j]) : j \in 1..Len(all)}
      BY <3>0, BeforeNext
    <3> QED BY <2>2, <3>1
  <2>4. Before(t.records, Len(t.records) + 1) = {Says(t.records[j]) : j \in 1..Len(t.records)}
    <3>1. Len(t.records) \in Nat
      BY <1>3
    <3> QED BY <3>1, BeforeNext
  <2>5. PICK j \in 1..Len(t.records) : Says(t.records[j]) = Says(s.records[k])
    BY <1>3, <2>3, <2>4
  <2>6. t.records[j] \in NormalRecords /\ s.records[k] \in NormalRecords
    BY <1>2, <1>3
  <2> QED BY <2>5, <2>6, SameRow
<1>6. DOMAIN s.records = 1..Len(s.records) /\ DOMAIN t.records = 1..Len(t.records)
  BY <1>2, <1>3
<1>7. Identities(s) \subseteq Identities(t)
  BY <1>5, <1>6 DEF Identities
<1> QED BY <1>2, <1>3, <1>7 DEF CoveredBy, s, t, all

-----------------------------------------------------------------------------
(* What the caller makes of a refusal.                                     *)

LEMMA TwelveArms ==
  /\ DOMAIN Arms = 1..12
  /\ \A n \in 1..12 : \/ n = 1 \/ n = 2 \/ n = 3 \/ n = 4  \/ n = 5  \/ n = 6
                      \/ n = 7 \/ n = 8 \/ n = 9 \/ n = 10 \/ n = 11 \/ n = 12
<1>1. DOMAIN Arms = 1..12
  BY DEF Arms
<1> QED BY <1>1

LEMMA ArmsOf ==
  ASSUME NEW n \in 1..12
  PROVE  /\ "ErrObserve" \notin Arms[n].is
         /\ "ErrPlanInvalid" \in Arms[n].is <=> n = 10
         /\ "ErrPlanPreparing" \in Arms[n].is <=> n = 9
         /\ "ErrPlanChanged" \in Arms[n].is <=> n = 8
         /\ "ErrAnchorEscape" \in Arms[n].is <=> n = 7
<1>1. \/ n = 1 \/ n = 2 \/ n = 3 \/ n = 4  \/ n = 5  \/ n = 6
      \/ n = 7 \/ n = 8 \/ n = 9 \/ n = 10 \/ n = 11 \/ n = 12
  BY TwelveArms
<1>2. "ErrObserve" \notin Arms[n].is
  BY <1>1 DEF Arms, Arm
<1>3. "ErrPlanInvalid" \in Arms[n].is <=> n = 10
  BY <1>1 DEF Arms, Arm
<1>4. "ErrPlanPreparing" \in Arms[n].is <=> n = 9
  BY <1>1 DEF Arms, Arm
<1>5. "ErrPlanChanged" \in Arms[n].is <=> n = 8
  BY <1>1 DEF Arms, Arm
<1>6. "ErrAnchorEscape" \in Arms[n].is <=> n = 7
  BY <1>1 DEF Arms, Arm
<1> QED BY <1>2, <1>3, <1>4, <1>5, <1>6

(* The first arm that finds a sentinel decides.                            *)
LEMMA Decides ==
  ASSUME NEW err, NEW n \in 1..12, Finds(n, err), \A k \in 1..(n - 1) : ~Finds(k, err)
  PROVE  errorCode(err) = Arms[n].code
<1>1. DOMAIN Arms = 1..12
  BY TwelveArms
<1>2. \A m \in DOMAIN Arms :
        (Finds(m, err) /\ \A k \in 1..(m - 1) : ~Finds(k, err)) => m = n
  BY <1>1
<1>3. FirstArm(err) = n
  BY <1>1, <1>2 DEF FirstArm
<1> QED BY <1>1, <1>3 DEF errorCode

LEMMA Codes ==
  /\ errorCode({"ErrObserve"}) = "internal"
  /\ errorCode({"ErrPlanPreparing"}) = "plan_preparing"
  /\ errorCode({"ErrPlanInvalid"}) = "plan_invalid"
  /\ errorCode(AnchorEscape) = "anchor_escape"
  /\ errorCode(PlanChanged) = "plan_changed"
<1>1. \A n \in 1..12 : \A e : Finds(n, {e}) <=> e \in Arms[n].is
  BY DEF Finds
<1>2. \A n \in 1..12 : Finds(n, AnchorEscape) <=> n \in {7, 10}
  BY ArmsOf DEF Finds, AnchorEscape
<1>3. /\ Arms[7].code = "anchor_escape" /\ Arms[8].code = "plan_changed"
      /\ Arms[9].code = "plan_preparing" /\ Arms[10].code = "plan_invalid"
  BY DEF Arms, Arm
<1>4. errorCode({"ErrObserve"}) = "internal"
  BY <1>1, ArmsOf, TwelveArms DEF errorCode
<1>5. errorCode({"ErrPlanPreparing"}) = "plan_preparing"
  <2>1. \A n \in 1..12 : Finds(n, {"ErrPlanPreparing"}) <=> n = 9
    BY <1>1, ArmsOf
  <2>2. Finds(9, {"ErrPlanPreparing"}) /\ \A k \in 1..(9 - 1) : ~Finds(k, {"ErrPlanPreparing"})
    BY <2>1
  <2> QED BY <1>3, <2>2, Decides
<1>6. errorCode({"ErrPlanInvalid"}) = "plan_invalid"
  <2>1. \A n \in 1..12 : Finds(n, {"ErrPlanInvalid"}) <=> n = 10
    BY <1>1, ArmsOf
  <2>2. Finds(10, {"ErrPlanInvalid"}) /\ \A k \in 1..(10 - 1) : ~Finds(k, {"ErrPlanInvalid"})
    BY <2>1
  <2> QED BY <1>3, <2>2, Decides
<1>7. errorCode(AnchorEscape) = "anchor_escape"
  <2>1. Finds(7, AnchorEscape) /\ \A k \in 1..(7 - 1) : ~Finds(k, AnchorEscape)
    BY <1>2
  <2> QED BY <1>3, <2>1, Decides
<1>8. errorCode(PlanChanged) = "plan_changed"
  <2>1. \A n \in 1..12 : Finds(n, PlanChanged) <=> n = 8
    BY <1>1, ArmsOf DEF PlanChanged
  <2>2. Finds(8, PlanChanged) /\ \A k \in 1..(8 - 1) : ~Finds(k, PlanChanged)
    BY <2>1
  <2> QED BY <1>3, <2>2, Decides
<1> QED BY <1>4, <1>5, <1>6, <1>7, <1>8

(* A refusal that is retried, or given up for a row no plan may hold.      *)
Excused(err, rows) ==
  \/ err \in {{}, {"ErrPlanPreparing"}, {"ErrObserve"}}
  \/ err \in {{"ErrPlanInvalid"}, AnchorEscape} /\ Unfitting(rows)

LEMMA HeedsExcused ==
  ASSUME NEW err, NEW rows, Excused(err, rows), err # {}, Heeds(err)
  PROVE  phase' = phase \/ (phase' = "lost" /\ Unfitting(rows))
<1>1. CASE err \in {{"ErrPlanPreparing"}, {"ErrObserve"}}
  <2>1. Retries(errorCode(err)) /\ ~GivesUp(errorCode(err))
    BY <1>1, Codes DEF Retries, GivesUp
  <2> QED BY <2>1 DEF Heeds
<1>2. CASE err \in {{"ErrPlanInvalid"}, AnchorEscape} /\ Unfitting(rows)
  <2>1. GivesUp(errorCode(err))
    BY <1>2, Codes DEF GivesUp
  <2> QED BY <1>2, <2>1 DEF Heeds
<1> QED BY <1>1, <1>2 DEF Excused

LEMMA HeedsChanged ==
  ASSUME Heeds(PlanChanged)
  PROVE  phase' = "sealed"
<1>1. ~Retries(errorCode(PlanChanged)) /\ ~GivesUp(errorCode(PlanChanged))
  BY Codes DEF Retries, GivesUp
<1> QED BY <1>1 DEF Heeds

LEMMA SpoiledMore ==
  ASSUME NEW a, NEW rows \in Seq(Record), NEW more \in Seq(Record), Spoiled(a, rows)
  PROVE  Spoiled(a, rows \o more)
<1>1. /\ DOMAIN rows = 1..Len(rows) /\ DOMAIN (rows \o more) = 1..Len(rows \o more)
      /\ \A k \in 1..Len(rows) : k \in 1..Len(rows \o more)
  <2>1. rows \o more \in Seq(Record) /\ Len(rows \o more) = Len(rows) + Len(more)
    BY Joined
  <2> QED BY <2>1
<1>2. \A k \in 1..Len(rows) : (rows \o more)[k] = rows[k]
  BY Joined
<1> QED BY <1>1, <1>2 DEF Spoiled

(* The refusals of one call, at an anchor in its canonical spelling.       *)
LEMMA ObserveExcused ==
  ASSUME Proper(anchor), NEW rows \in Seq(Record)
  PROVE  Excused(ObserveError(rows), rows)
<1> DEFINE errors == [k \in DOMAIN rows |-> Unreadable(rows[k])]
<1>1. /\ Len(rows) \in Nat /\ DOMAIN rows = 1..Len(rows) /\ DOMAIN errors = 1..Len(rows)
      /\ \A k \in 1..Len(rows) : errors[k] = Unreadable(rows[k]) /\ rows[k] \in Record
  OBVIOUS
<1>2. ObserveError(rows) = IF Len(rows) > MaxRecords THEN {"ErrObserve"} ELSE FirstOf(errors)
  BY DEF ObserveError
<1> HIDE DEF errors
<1>3. CASE ObserveError(rows) \in {{}, {"ErrObserve"}}
  BY <1>3 DEF Excused
<1>4. CASE ObserveError(rows) \notin {{}, {"ErrObserve"}}
  <2>1. PICK k \in 1..Len(rows) : ObserveError(rows) = Unreadable(rows[k])
    BY <1>1, <1>2, <1>4, FirstError
  <2>2. rows[k].name \in Names
    BY <1>1, RowFields
  <2>3. /\ ObserveError(rows) = AnchorEscape /\ ~Contains(anchor, rows[k].name)
        /\ ~Empty(NormalizeName(rows[k].name))
    BY <1>4, <2>1 DEF Unreadable
  <2>4. rows[k].name.core # Nothing
    BY <2>2, <2>3, Canonical DEF Empty
  <2>5. rows[k].name.core # anchor.core /\ <<rows[k].name.core, anchor.core>> \notin Under
    BY <2>2, <2>3, <2>4, Escaping
  <2>6. Unfitting(rows)
    BY <1>1, <2>4, <2>5 DEF Unfitting
  <2> QED BY <2>3, <2>6 DEF Excused
<1> QED BY <1>3, <1>4

LEMMA SnapshotExcused ==
  ASSUME NEW a, Proper(a), a.core = anchor.core, NEW rows \in Seq(Record), NEW more \in Seq(Record)
  PROVE  /\ Excused(NewSnapshotError(a, rows), rows)
         /\ Excused(NewSnapshotError(a, rows), rows \o more)
<1>1. CASE NewSnapshotError(a, rows) \in {{}, {"ErrPlanPreparing"}}
  BY <1>1 DEF Excused
<1>2. CASE /\ NewSnapshotError(a, rows) \in {{"ErrPlanInvalid"}, AnchorEscape}
           /\ Spoiled(a, rows)
  <2>1. Spoiled(a, rows \o more)
    BY <1>2, SpoiledMore
  <2>2. Unfitting(rows) /\ Unfitting(rows \o more)
    BY <1>2, <2>1 DEF Spoiled, Unfitting
  <2> QED BY <1>2, <2>2 DEF Excused
<1> QED BY <1>1, <1>2, Refusals

-----------------------------------------------------------------------------
(* The inductive invariant: from the moment a domain is accepted its       *)
(* anchor is in the one canonical spelling, and what the customer was      *)
(* shown is a plan that NewSnapshot made at that anchor.                   *)

Anchored ==
  /\ phase = "typed" => reviewed = NoSnapshot /\ wrote = NoSnapshot
  /\ phase \in {"sealed", "reviewed", "looping"} => Proper(anchor)

Shown ==
  /\ reviewed = NoSnapshot \/ (Sound(reviewed) /\ reviewed.anchor = anchor)
  /\ phase = "reviewed" => reviewed # NoSnapshot

Inv == TypeOK /\ Anchored /\ Shown /\ AcceptedIsKept /\ LookedAtAgain

LEMMA Facts ==
  ASSUME TypeOK
  PROVE  /\ clock \in Clocks /\ hash \in Nat
         /\ anchor \in Names /\ anchor.core # Nothing
         /\ since \in Nat /\ failures \in Nat /\ MaxSince \in Nat /\ MaxFailures \in Nat
<1>1. clock \in Clocks /\ hash \in Nat
  BY ClocksAssumption DEF TypeOK
<1>2. anchor \in Names /\ anchor.core # Nothing
  <2>1. \A n \in Typed : n \in Names /\ n.core # Nothing
    BY OffersAssumption
  <2>2. \A n \in Typed : NormalizeName(n) \in Names /\ NormalizeName(n).core = n.core
    BY <2>1, Canonical
  <2> QED BY <2>1, <2>2 DEF TypeOK
<1>3. MaxSince \in Nat /\ MaxFailures \in Nat
  BY LoopBounds
<1> QED BY <1>1, <1>2, <1>3 DEF TypeOK

LEMMA Offers ==
  ASSUME NEW derived \in Derived
  PROVE  /\ derived \in Seq(Record)
         /\ \A relayed \in Relayed : relayed \in Seq(Record) /\ derived \o relayed \in Seq(Record)
<1>1. derived \in Seq(Record) /\ \A relayed \in Relayed : relayed \in Seq(Record)
  BY OffersAssumption
<1> QED BY <1>1, Joined

LEMMA LongestIs ==
  ASSUME NEW c \in Clocks, Gap(c) > 0, c.Max > 0
  PROVE  /\ Longest(c) \in Nat /\ Longest(c) >= c.Max /\ Longest(c) >= Gap(c) /\ Gap(c) \in Nat
         /\ c.Jitter > 0 => Longest(c) >= Gap(c) + c.Jitter
BY WidthAssumption DEF Clocks, Durations, Gap, Longest

LEMMA InitInv == Init => Inv
<1> SUFFICES ASSUME Init PROVE Inv
  OBVIOUS
<1>1. TypeOK
  <2>1. passes \in BOOLEAN /\ defect \in BOOLEAN
    BY DEF Init
  <2>2. since \in 0..MaxSince /\ failures \in 0..MaxFailures
    BY LoopBounds DEF Init
  <2> QED BY <2>1, <2>2 DEF Init, TypeOK
<1>2. Anchored /\ Shown /\ AcceptedIsKept /\ LookedAtAgain
  BY DEF Init, Anchored, Shown, AcceptedIsKept, LookedAtAgain
<1> QED BY <1>1, <1>2 DEF Inv

LEMMA TickKeeps ==
  ASSUME Inv, Tick
  PROVE  Inv'
<1> USE DEF Inv
<1>1. /\ UNCHANGED <<clock, hash, phase, anchor, reviewed, wrote, offer, failures, passes, defect>>
      /\ phase = "looping" /\ ~PassDue /\ since < MaxSince /\ since' = since + 1
  BY DEF Tick
<1>2. /\ clock \in Clocks /\ hash \in Nat /\ since \in Nat /\ failures \in Nat /\ MaxSince \in Nat
  BY Facts
<1>3. TypeOK'
  BY <1>1, <1>2 DEF TypeOK
<1>4. Anchored' /\ Shown' /\ AcceptedIsKept'
  BY <1>1 DEF Anchored, Shown, AcceptedIsKept
<1>5. LookedAtAgain'
  <2> SUFFICES ASSUME Gap(clock) > 0, clock.Max > 0 PROVE since + 1 <= Longest(clock)
    BY <1>1 DEF LookedAtAgain
  <2>1. /\ Longest(clock) \in Nat /\ Longest(clock) >= clock.Max /\ Longest(clock) >= Gap(clock)
        /\ Gap(clock) \in Nat /\ clock.Max \in Int /\ clock.Jitter \in Int
        /\ clock.Jitter > 0 => Longest(clock) >= Gap(clock) + clock.Jitter
    BY <1>2, LongestIs, WidthAssumption DEF Clocks, Durations
  <2>2. CASE failures = 0
    <3>1. ~(since - Spread(clock, hash) >= Gap(clock))
      BY <1>1, <2>2 DEF PassDue, Due
    <3>2. /\ Spread(clock, hash) \in Nat
          /\ clock.Jitter > 0 => Spread(clock, hash) < clock.Jitter
          /\ ~(clock.Jitter > 0) => Spread(clock, hash) = 0
      BY <1>2, SpreadBounds
    <3> QED BY <1>2, <2>1, <3>1, <3>2
  <2>3. CASE failures # 0
    <3>1. ~(since >= Delay(clock, failures))
      BY <1>1, <2>3 DEF PassDue
    <3>2. Delay(clock, failures) \in Nat /\ Delay(clock, failures) <= clock.Max
      BY <1>2, DelayBounds
    <3> QED BY <1>2, <2>1, <3>1, <3>2
  <2> QED BY <2>2, <2>3
<1> QED BY <1>3, <1>4, <1>5

LEMMA MiscountKeeps ==
  ASSUME Inv, Miscount
  PROVE  Inv'
<1>1. /\ UNCHANGED <<clock, hash, phase, anchor, reviewed, wrote, offer, since, passes, defect>>
      /\ failures' \in 1..MaxFailures /\ MaxFailures \in Nat
  BY LoopBounds DEF Miscount
<1>2. TypeOK'
  BY <1>1 DEF Inv, TypeOK
<1>3. Anchored' /\ Shown' /\ AcceptedIsKept' /\ LookedAtAgain'
  BY <1>1 DEF Inv, Anchored, Shown, AcceptedIsKept, LookedAtAgain
<1> QED BY <1>2, <1>3 DEF Inv

LEMMA NoSnapshotIs == ~Sound(NoSnapshot)
BY DEF NoSnapshot, Sound

(* A plan that is made at the anchor fits the types.                       *)
LEMMA ShownFits ==
  ASSUME NEW s, Sound(s)
  PROVE  s # NoSnapshot /\ Len(s.records) \in 1..MaxRecords
BY NoSnapshotIs DEF Sound

LEMMA RegisterKeeps ==
  ASSUME Inv, NEW derived \in Derived, Register(derived)
  PROVE  Inv'
<1> DEFINE name == NormalizeName(anchor)
<1>1. /\ phase = "typed" /\ reviewed = NoSnapshot /\ wrote = NoSnapshot
      /\ UNCHANGED <<wrote, loop>> /\ TypeOK /\ AcceptedIsKept
  BY DEF Register, Inv, Anchored
<1>2. UNCHANGED <<since, failures, passes>>
  BY <1>1 DEF loop
<1>3. /\ anchor \in Names /\ anchor.core # Nothing /\ derived \in Seq(Record)
  BY <1>1, Facts, Offers
<1>4. Proper(name) /\ name.core = anchor.core /\ name \in {NormalizeName(n) : n \in Typed}
  <2>1. Proper(name) /\ name.core = anchor.core /\ NormalizeName(name) = name
    BY <1>3, ProperMade DEF Proper
  <2>2. CASE anchor \in Typed
    BY <2>1, <2>2
  <2>3. CASE anchor \in {NormalizeName(n) : n \in Typed}
    <3>1. PICK n \in Typed : anchor = NormalizeName(n)
      BY <2>3
    <3>2. n \in Names
      BY OffersAssumption
    <3>3. name = NormalizeName(n)
      BY <3>1, <3>2, Canonical
    <3> QED BY <2>1, <3>3
  <2> QED BY <1>1, <2>1, <2>2, <2>3 DEF TypeOK
<1>5. CASE /\ anchor' \in Typed
           /\ UNCHANGED <<clock, hash, phase, reviewed, offer, defect>>
  <2>1. TypeOK'
    BY <1>1, <1>2, <1>5 DEF TypeOK
  <2>2. Anchored' /\ Shown' /\ AcceptedIsKept' /\ LookedAtAgain'
    BY <1>1, <1>5 DEF Anchored, Shown, AcceptedIsKept, LookedAtAgain
  <2> QED BY <2>1, <2>2 DEF Inv
<1>6. CASE /\ Meets(derived, derived)
           /\ IF NewSnapshotError(name, derived) = {}
                THEN Reviews(name, derived) /\ anchor' = name
                ELSE Heeds(NewSnapshotError(name, derived)) /\ UNCHANGED <<anchor, reviewed>>
  <2> HIDE DEF name
  <2>1. /\ UNCHANGED <<clock, hash>> /\ offer' = derived /\ defect' = (defect \/ Unfitting(derived))
    BY <1>6 DEF Meets
  <2>2. CASE NewSnapshotError(name, derived) = {}
    <3>1. /\ phase' = "reviewed" /\ reviewed' = NewSnapshot(name, derived) /\ anchor' = name
      BY <1>6, <2>2 DEF Reviews
    <3>2. Sound(reviewed') /\ reviewed'.anchor = name
      BY <1>3, <1>4, <2>2, <3>1, SoundMade, Made
    <3>3. reviewed' # NoSnapshot /\ Len(reviewed'.records) \in 1..MaxRecords
      BY <3>2, ShownFits
    <3>4. TypeOK'
      BY <1>1, <1>2, <1>4, <2>1, <3>1, <3>2, <3>3 DEF TypeOK
    <3>5. Anchored' /\ AcceptedIsKept' /\ LookedAtAgain'
      BY <1>4, <3>1 DEF Anchored, AcceptedIsKept, LookedAtAgain
    <3>6. Shown'
      BY <3>1, <3>2, <3>3 DEF Shown
    <3> QED BY <3>4, <3>5, <3>6 DEF Inv
  <2>3. CASE NewSnapshotError(name, derived) # {}
    <3>1. Heeds(NewSnapshotError(name, derived)) /\ UNCHANGED <<anchor, reviewed>>
      BY <1>6, <2>3
    <3>2. Excused(NewSnapshotError(name, derived), derived)
      BY <1>3, <1>4, SnapshotExcused
    <3>3. phase' = "typed" \/ (phase' = "lost" /\ defect')
      BY <1>1, <2>1, <2>3, <3>1, <3>2, HeedsExcused
    <3>4. TypeOK'
      BY <1>1, <1>2, <2>1, <3>1, <3>3 DEF TypeOK
    <3>5. Anchored' /\ Shown' /\ AcceptedIsKept' /\ LookedAtAgain'
      BY <1>1, <3>1, <3>3 DEF Anchored, Shown, AcceptedIsKept, LookedAtAgain
    <3> QED BY <3>4, <3>5 DEF Inv
  <2> QED BY <2>2, <2>3
<1> QED BY <1>5, <1>6 DEF Register

(* The later calls open what was sealed, and refuse a plan as NewSnapshot  *)
(* does; a plan that was reviewed is refused again only if it moved.       *)
LEMMA ReviewIs ==
  ASSUME Proper(anchor), NEW derived
  PROVE  ReviewError(derived) = NewSnapshotError(anchor, derived)
<1>1. Opens
  BY ProperName DEF Opens, Proper
<1> QED BY <1>1 DEF ReviewError

LEMMA WriteIs ==
  ASSUME Proper(anchor), NEW derived \in Seq(Record), NEW relayed \in Seq(Record)
  PROVE  WriteError(derived, relayed) = NewSnapshotError(anchor, derived \o relayed)
<1>1. CoveredBy(NewSnapshot(anchor, derived), NewSnapshot(anchor, derived \o relayed))
  BY Covered
<1> QED BY <1>1 DEF WriteError

LEMMA CompleteIs ==
  ASSUME Proper(anchor), NEW derived \in Seq(Record), Sound(reviewed), reviewed.anchor = anchor
  PROVE  CompleteError(derived) =
           IF NewSnapshotError(anchor, derived) # {} THEN NewSnapshotError(anchor, derived)
           ELSE IF NewSnapshot(anchor, derived) # reviewed THEN PlanChanged ELSE {}
<1> DEFINE review == NewSnapshot(anchor, derived)
<1>1. ReviewError(derived) = NewSnapshotError(anchor, derived)
  BY ReviewIs
<1>2. Digest(reviewed) = reviewed
  BY Accepted
<1>3. CASE NewSnapshotError(anchor, derived) # {}
  BY <1>1, <1>3 DEF CompleteError
<1>4. CASE NewSnapshotError(anchor, derived) = {}
  <2>1. Sound(review)
    BY <1>4, SoundMade
  <2>2. Digest(review) = review /\ ValidateError(review, Digest(review)) = {}
    BY <2>1, Accepted
  <2> QED BY <1>1, <1>2, <1>4, <2>2 DEF CompleteError
<1> QED BY <1>3, <1>4

(* The plan a later call writes.                                           *)
LEMMA WritesFit ==
  ASSUME Proper(anchor), NEW derived \in Seq(Record), NEW relayed \in Seq(Record),
         NewSnapshotError(anchor, derived \o relayed) = {}, Writes(derived, relayed)
  PROVE  /\ phase' = "looping" /\ failures' \in {0, OneMore}
         /\ Sound(wrote') /\ wrote'.anchor = anchor
         /\ Len(wrote'.records) \in 1..MaxRecords
<1>1. derived \o relayed \in Seq(Record)
  BY Joined
<1>2. /\ phase' = "looping" /\ wrote' = NewSnapshot(anchor, derived \o relayed)
      /\ failures' \in {0, OneMore}
  BY DEF Writes
<1>3. Sound(wrote') /\ wrote'.anchor = anchor
  BY <1>1, <1>2, SoundMade, Made
<1> QED BY <1>2, <1>3, ShownFits

LEMMA DescribeKeeps ==
  ASSUME Inv, NEW derived \in Derived, NEW relayed \in Relayed, Describe(derived, relayed)
  PROVE  Inv'
<1> DEFINE rows == derived \o relayed
           err == IF ReviewError(derived) # {} THEN ReviewError(derived) ELSE ObserveError(rows)
<1>1. /\ phase = "sealed" /\ UNCHANGED <<anchor, wrote, loop, clock, hash>>
      /\ offer' = derived /\ defect' = (defect \/ Unfitting(rows))
      /\ TypeOK /\ AcceptedIsKept /\ Shown /\ Proper(anchor)
  BY DEF Describe, Meets, Inv, Anchored
<1>2. IF err = {} THEN Reviews(anchor, derived) ELSE Heeds(err) /\ UNCHANGED reviewed
  BY DEF Describe
<1>3. UNCHANGED <<since, failures, passes>>
  BY <1>1 DEF loop
<1>4. derived \in Seq(Record) /\ relayed \in Seq(Record) /\ rows \in Seq(Record)
  BY Offers
<1>5. ReviewError(derived) = NewSnapshotError(anchor, derived)
  BY <1>1, ReviewIs
<1>6. Excused(err, rows)
  BY <1>1, <1>4, <1>5, SnapshotExcused, ObserveExcused
<1> HIDE DEF rows
<1>7. CASE err = {}
  <2>1. phase' = "reviewed" /\ reviewed' = NewSnapshot(anchor, derived)
    BY <1>2, <1>7 DEF Reviews
  <2>2. NewSnapshotError(anchor, derived) = {}
    BY <1>5, <1>7
  <2>3. Sound(reviewed') /\ reviewed'.anchor = anchor
    BY <1>1, <1>4, <2>1, <2>2, SoundMade, Made
  <2>4. reviewed' # NoSnapshot /\ Len(reviewed'.records) \in 1..MaxRecords
    BY <2>3, ShownFits
  <2>5. TypeOK'
    BY <1>1, <1>3, <2>1, <2>3, <2>4 DEF TypeOK
  <2>6. Anchored' /\ AcceptedIsKept' /\ LookedAtAgain'
    BY <1>1, <2>1 DEF Anchored, AcceptedIsKept, LookedAtAgain
  <2>7. Shown'
    BY <1>1, <2>1, <2>3, <2>4 DEF Shown
  <2> QED BY <2>5, <2>6, <2>7 DEF Inv
<1>8. CASE err # {}
  <2>1. Heeds(err) /\ UNCHANGED reviewed
    BY <1>2, <1>8
  <2> HIDE DEF err
  <2>2. phase' = "sealed" \/ (phase' = "lost" /\ defect')
    BY <1>1, <1>6, <1>8, <2>1, HeedsExcused
  <2>3. TypeOK'
    BY <1>1, <1>3, <2>1, <2>2 DEF TypeOK
  <2>4. Anchored' /\ Shown' /\ AcceptedIsKept' /\ LookedAtAgain'
    BY <1>1, <2>1, <2>2 DEF Anchored, Shown, AcceptedIsKept, LookedAtAgain
  <2> QED BY <2>3, <2>4 DEF Inv
<1> QED BY <1>7, <1>8

LEMMA OneMoreFits ==
  ASSUME TypeOK
  PROVE  0 \in 0..MaxFailures /\ OneMore \in 0..MaxFailures /\ 0 \in 0..MaxSince
BY Facts DEF OneMore, TypeOK

(* A pass that writes leaves the registration looked at just now.          *)
LEMMA WroteKeeps ==
  ASSUME TypeOK, Proper(anchor), NEW derived \in Derived,
         /\ phase' = "looping" /\ failures' \in {0, OneMore}
         /\ Sound(wrote') /\ wrote'.anchor = anchor /\ Len(wrote'.records) \in 1..MaxRecords,
         Passed, offer' = derived, UNCHANGED <<clock, hash, anchor>>,
         defect' \in BOOLEAN
  PROVE  Inv'
<1>1. since' = 0 /\ passes' = ~passes /\ reviewed' = NoSnapshot
  BY DEF Passed
<1>2. passes' \in BOOLEAN
  BY <1>1
<1>3. failures' \in 0..MaxFailures /\ since' \in 0..MaxSince
  BY <1>1, OneMoreFits
<1>4. TypeOK'
  BY <1>1, <1>2, <1>3 DEF TypeOK
<1>5. Anchored' /\ Shown' /\ AcceptedIsKept'
  BY <1>1 DEF Anchored, Shown, AcceptedIsKept
<1>6. LookedAtAgain'
  <2>1. (Gap(clock) > 0 /\ clock.Max > 0) => Longest(clock) \in Nat
    BY Facts, LongestIs
  <2> QED BY <1>1, <2>1 DEF LookedAtAgain
<1> QED BY <1>4, <1>5, <1>6 DEF Inv

LEMMA CompleteKeeps ==
  ASSUME Inv, NEW derived \in Derived, NEW relayed \in Relayed, Complete(derived, relayed)
  PROVE  Inv'
<1> DEFINE rows == derived \o relayed
           err == IF CompleteError(derived) # {} THEN CompleteError(derived)
                  ELSE WriteError(derived, relayed)
<1>1. /\ phase = "reviewed" /\ UNCHANGED <<anchor, clock, hash>>
      /\ offer' = derived /\ defect' = (defect \/ Unfitting(rows))
      /\ TypeOK /\ AcceptedIsKept /\ Shown /\ Proper(anchor)
  BY DEF Complete, Meets, Inv, Anchored
<1>2. IF err = {} THEN Writes(derived, relayed) /\ Passed
      ELSE Heeds(err) /\ UNCHANGED <<wrote, reviewed, loop>>
  BY DEF Complete
<1>3. derived \in Seq(Record) /\ relayed \in Seq(Record) /\ rows \in Seq(Record)
  BY Offers
<1>4. Sound(reviewed) /\ reviewed.anchor = anchor
  BY <1>1 DEF Shown
<1>5. /\ CompleteError(derived) \in {NewSnapshotError(anchor, derived), PlanChanged, {}}
      /\ WriteError(derived, relayed) = NewSnapshotError(anchor, rows)
  BY <1>1, <1>3, <1>4, CompleteIs, WriteIs
<1>6. err = PlanChanged \/ Excused(err, rows)
  <2>1. Excused(NewSnapshotError(anchor, derived), rows)
    BY <1>1, <1>3, SnapshotExcused
  <2>2. Excused(NewSnapshotError(anchor, rows), rows)
    BY <1>1, <1>3, SnapshotExcused
  <2> QED BY <1>5, <2>1, <2>2
<1>7. defect' \in BOOLEAN
  BY <1>1 DEF TypeOK
<1>8. CASE err = {}
  <2>1. NewSnapshotError(anchor, rows) = {} /\ Writes(derived, relayed) /\ Passed
    BY <1>2, <1>5, <1>8
  <2>2. /\ phase' = "looping" /\ failures' \in {0, OneMore}
        /\ Sound(wrote') /\ wrote'.anchor = anchor /\ Len(wrote'.records) \in 1..MaxRecords
    BY <1>1, <1>3, <2>1, WritesFit
  <2> QED BY <1>1, <1>7, <2>1, <2>2, WroteKeeps
<1>9. CASE err # {}
  <2>1. Heeds(err) /\ UNCHANGED <<wrote, reviewed, loop>>
    BY <1>2, <1>9
  <2> HIDE DEF err, rows
  <2>2. phase' \in {"reviewed", "sealed"} \/ (phase' = "lost" /\ defect')
    BY <1>1, <1>6, <1>9, <2>1, HeedsExcused, HeedsChanged
  <2>3. UNCHANGED <<since, failures, passes>>
    BY <2>1 DEF loop
  <2>4. TypeOK'
    BY <1>1, <1>7, <2>1, <2>2, <2>3 DEF TypeOK
  <2>5. Anchored' /\ Shown' /\ AcceptedIsKept' /\ LookedAtAgain'
    BY <1>1, <2>1, <2>2 DEF Anchored, Shown, AcceptedIsKept, LookedAtAgain
  <2> QED BY <2>4, <2>5 DEF Inv
<1> QED BY <1>8, <1>9

LEMMA AdvanceKeeps ==
  ASSUME Inv, NEW derived \in Derived, NEW relayed \in Relayed, Advance(derived, relayed)
  PROVE  Inv' /\ phase' # "sealed"
<1> DEFINE rows == derived \o relayed
           err == IF ReviewError(derived) # {} THEN ReviewError(derived)
                  ELSE WriteError(derived, relayed)
<1>1. /\ phase = "looping" /\ UNCHANGED <<anchor, clock, hash>> /\ Passed
      /\ offer' = derived /\ defect' = (defect \/ Unfitting(rows))
      /\ TypeOK /\ AcceptedIsKept /\ Shown /\ Proper(anchor)
  BY DEF Advance, Meets, Inv, Anchored
<1>2. IF err = {} THEN Writes(derived, relayed)
      ELSE Heeds(err) /\ failures' = OneMore /\ UNCHANGED wrote
  BY DEF Advance
<1>3. derived \in Seq(Record) /\ relayed \in Seq(Record) /\ rows \in Seq(Record)
  BY Offers
<1>4. /\ ReviewError(derived) = NewSnapshotError(anchor, derived)
      /\ WriteError(derived, relayed) = NewSnapshotError(anchor, rows)
  BY <1>1, <1>3, ReviewIs, WriteIs
<1>5. Excused(err, rows)
  BY <1>1, <1>3, <1>4, SnapshotExcused
<1>6. defect' \in BOOLEAN
  BY <1>1 DEF TypeOK
<1>7. CASE err = {}
  <2>1. NewSnapshotError(anchor, rows) = {} /\ Writes(derived, relayed)
    BY <1>2, <1>4, <1>7
  <2>2. /\ phase' = "looping" /\ failures' \in {0, OneMore}
        /\ Sound(wrote') /\ wrote'.anchor = anchor /\ Len(wrote'.records) \in 1..MaxRecords
    BY <1>1, <1>3, <2>1, WritesFit
  <2> QED BY <1>1, <1>6, <2>2, WroteKeeps
<1>8. CASE err # {}
  <2>1. Heeds(err) /\ failures' = OneMore /\ UNCHANGED wrote
    BY <1>2, <1>8
  <2> HIDE DEF err, rows
  <2>2. phase' = "looping" \/ (phase' = "lost" /\ defect')
    BY <1>1, <1>5, <1>8, <2>1, HeedsExcused
  <2>3. since' = 0 /\ passes' = ~passes /\ reviewed' = NoSnapshot
    BY <1>1 DEF Passed
  <2>4. passes' \in BOOLEAN
    BY <2>3
  <2>5. failures' \in 0..MaxFailures /\ since' \in 0..MaxSince
    BY <1>1, <2>1, <2>3, OneMoreFits
  <2>6. TypeOK'
    BY <1>1, <1>6, <2>1, <2>2, <2>3, <2>4, <2>5 DEF TypeOK
  <2>7. Anchored' /\ Shown' /\ AcceptedIsKept'
    BY <1>1, <2>1, <2>2, <2>3 DEF Anchored, Shown, AcceptedIsKept
  <2>8. LookedAtAgain'
    <3>1. (Gap(clock) > 0 /\ clock.Max > 0) => Longest(clock) \in Nat
      BY <1>1, Facts, LongestIs
    <3> QED BY <1>1, <2>3, <3>1 DEF LookedAtAgain
  <2> QED BY <2>2, <2>6, <2>7, <2>8 DEF Inv
<1> QED BY <1>7, <1>8

LEMMA NextInv == Inv /\ [Next]_vars => Inv'
<1> SUFFICES ASSUME Inv, [Next]_vars PROVE Inv'
  OBVIOUS
<1>1. CASE Tick
  BY <1>1, TickKeeps
<1>2. CASE Miscount
  BY <1>2, MiscountKeeps
<1>3. ASSUME NEW derived \in Derived, Register(derived) PROVE Inv'
  BY <1>3, RegisterKeeps
<1>4. ASSUME NEW derived \in Derived, NEW relayed \in Relayed, Describe(derived, relayed)
      PROVE  Inv'
  BY <1>4, DescribeKeeps
<1>5. ASSUME NEW derived \in Derived, NEW relayed \in Relayed, Complete(derived, relayed)
      PROVE  Inv'
  BY <1>5, CompleteKeeps
<1>6. ASSUME NEW derived \in Derived, NEW relayed \in Relayed, Advance(derived, relayed)
      PROVE  Inv'
  BY <1>6, AdvanceKeeps
<1>7. CASE UNCHANGED vars
  BY <1>7 DEF Inv, TypeOK, Anchored, Shown, AcceptedIsKept, LookedAtAgain, vars, loop
<1> QED BY <1>1, <1>2, <1>3, <1>4, <1>5, <1>6, <1>7 DEF Next

(* What the calls and the caller keep, whatever is derived, relayed and    *)
(* miscounted: the types, the anchor's spelling, the plan shown, and the   *)
(* two invariants the registration depends on.                             *)
THEOREM Invariance == Spec => []Inv
BY InitInv, NextInv, PTL DEF Spec

(* Every variable keeps its type.                                          *)
THEOREM TypeCorrect == Spec => []TypeOK
<1>1. Inv => TypeOK
  BY DEF Inv
<1> QED BY <1>1, Invariance, PTL

(* No spelling of a domain or of a row gets an accepted registration       *)
(* given up: only a row no plan may hold does (NormalizeName, NewSnapshot, *)
(* Validate, Contains).                                                    *)
THEOREM AcceptedIsKeptHolds == Spec => []AcceptedIsKept
<1>1. Inv => AcceptedIsKept
  BY DEF Inv
<1> QED BY <1>1, Invariance, PTL

(* Under a clock with a gap and a ceiling, no count of failures leaves a   *)
(* registration longer than the ceiling or a gap and its jitter (Delay,    *)
(* Due, Spread).                                                           *)
THEOREM LookedAtAgainHolds == Spec => []LookedAtAgain
<1>1. Inv => LookedAtAgain
  BY DEF Inv
<1> QED BY <1>1, Invariance, PTL

(* A further failure never shortens the wait, at the width of a duration   *)
(* either (Backoff.Delay).                                                 *)
THEOREM WaitsGrowHolds == Spec => []WaitsGrow
<1>1. Inv => WaitsGrow
  <2> SUFFICES ASSUME TypeOK PROVE Delay(clock, failures) <= Delay(clock, failures + 1)
    BY DEF Inv, WaitsGrow
  <2>1. clock \in Clocks /\ failures \in Nat
    BY Facts
  <2> QED BY <2>1, DelayGrows
<1> QED BY <1>1, Invariance, PTL

-----------------------------------------------------------------------------
(* What completing a plan shows.                                           *)

LEMMA Completes ==
  ASSUME Inv, NEW derived \in Derived, NEW relayed \in Relayed, Complete(derived, relayed)
  PROVE  /\ phase' = "sealed" => /\ Meaning(offer') # Meaning(reviewed.records)
         /\ phase' = "looping" => Meaning(reviewed.records) \subseteq Meaning(wrote'.records)
<1> DEFINE rows == derived \o relayed
           err == IF CompleteError(derived) # {} THEN CompleteError(derived)
                  ELSE WriteError(derived, relayed)
           review == NewSnapshot(anchor, derived)
<1>1. /\ phase = "reviewed" /\ offer' = derived /\ Proper(anchor)
      /\ Sound(reviewed) /\ reviewed.anchor = anchor
  BY DEF Complete, Meets, Inv, Anchored, Shown
<1>2. IF err = {} THEN Writes(derived, relayed) ELSE Heeds(err)
  BY DEF Complete
<1>3. derived \in Seq(Record) /\ relayed \in Seq(Record) /\ rows \in Seq(Record)
  BY Offers
<1>4. /\ CompleteError(derived) =
           IF NewSnapshotError(anchor, derived) # {} THEN NewSnapshotError(anchor, derived)
           ELSE IF review # reviewed THEN PlanChanged ELSE {}
      /\ WriteError(derived, relayed) = NewSnapshotError(anchor, rows)
  BY <1>1, <1>3, CompleteIs, WriteIs
<1>5. /\ Excused(NewSnapshotError(anchor, derived), rows)
      /\ Excused(NewSnapshotError(anchor, rows), rows)
  BY <1>1, <1>3, SnapshotExcused
<1>6. /\ review.anchor = anchor /\ review = Snapshot(anchor, review.records)
      /\ review.records = Distinct(Normalized(derived))
      /\ Meaning(review.records) = Meaning(derived)
  BY <1>1, <1>3, Made
<1>7. PlanChanged # {}
  BY DEF PlanChanged
<1> HIDE DEF rows, review
<1>8. ASSUME phase' = "sealed" PROVE Meaning(derived) # Meaning(reviewed.records)
  <2>1. err # {}
    BY <1>2, <1>8 DEF Writes
  <2>2. ~Excused(err, rows)
    BY <1>1, <1>2, <1>8, <2>1, HeedsExcused
  <2>3. review # reviewed
    BY <1>4, <1>5, <2>2
  <2>4. reviewed.records \in Seq(NormalRecords) /\ NoRepeats(reviewed.records)
    BY <1>1 DEF Sound
  <2>5. reviewed.records \in Seq(Record)
    BY <2>4 DEF NormalRecords
  <2>6. reviewed.records = Distinct(Normalized(reviewed.records))
    BY <2>4, Settled
  <2>7. Meaning(derived) = Meaning(reviewed.records) => review.records = reviewed.records
    BY <1>3, <1>6, <2>5, <2>6, OnePlan
  <2>8. reviewed = Snapshot(anchor, reviewed.records)
    BY <1>1 DEF Sound
  <2> QED BY <1>6, <2>3, <2>7, <2>8
<1>9. ASSUME phase' = "looping" PROVE Meaning(reviewed.records) \subseteq Meaning(wrote'.records)
  <2>1. err = {}
    <3> SUFFICES ASSUME err # {} PROVE FALSE
      OBVIOUS
    <3>1. Heeds(err)
      BY <1>2
    <3> QED BY <1>9, <1>1, <3>1 DEF Heeds
  <2>2. review = reviewed
    BY <1>4, <1>7, <2>1
  <2>3. wrote' = NewSnapshot(anchor, rows)
    BY <1>2, <2>1 DEF Writes, rows
  <2>4. Meaning(wrote'.records) = Meaning(rows)
    BY <1>1, <1>3, <2>3, Made
  <2>5. Meaning(derived) \subseteq Meaning(rows)
    BY <1>3, MeansMore DEF rows
  <2> QED BY <1>6, <2>2, <2>4, <2>5
<1> QED BY <1>1, <1>8, <1>9

LEMMA NextSeen ==
  Inv /\ [Next]_vars =>
    /\ phase = "reviewed" /\ phase' = "sealed" => Meaning(offer') # Meaning(reviewed.records)
    /\ phase = "looping" => phase' # "sealed"
    /\ phase = "reviewed" /\ phase' = "looping"
         => Meaning(reviewed.records) \subseteq Meaning(wrote'.records)
<1> SUFFICES ASSUME Inv, [Next]_vars,
                    \/ phase \in {"reviewed", "looping"} /\ phase' = "sealed"
                    \/ phase = "reviewed" /\ phase' = "looping"
             PROVE  \E derived \in Derived, relayed \in Relayed : Complete(derived, relayed)
  BY Completes DEF Complete
<1>1. phase # phase'
  OBVIOUS
<1>2. ~Tick /\ ~Miscount
  BY <1>1 DEF Tick, Miscount
<1>3. \A derived \in Derived : ~Register(derived)
  BY DEF Register
<1>4. \A derived \in Derived, relayed \in Relayed : ~Describe(derived, relayed)
  BY DEF Describe
<1>5. \A derived \in Derived, relayed \in Relayed : ~Advance(derived, relayed)
  <2> SUFFICES ASSUME NEW derived \in Derived, NEW relayed \in Relayed, Advance(derived, relayed)
               PROVE  FALSE
    OBVIOUS
  <2>1. phase = "looping"
    BY DEF Advance
  <2> QED BY <2>1, AdvanceKeeps
<1>6. Next
  BY <1>1 DEF vars
<1> QED BY <1>2, <1>3, <1>4, <1>5, <1>6 DEF Next

(* A customer who is sent back to the plan is shown another one: spelling, *)
(* padding and repetition do not move the digest; and no pass sends one    *)
(* back, whatever the upstreams add (NormalizeRecords, Digest, CoveredBy). *)
THEOREM SentBackForAReasonHolds == Spec => SentBackForAReason
<1>1. Inv /\ [Next]_vars =>
        [(/\ phase = "reviewed" /\ phase' = "sealed" => Meaning(offer') # Meaning(reviewed.records)
          /\ phase = "looping" => phase' # "sealed")]_vars
  BY NextSeen
<1> QED BY <1>1, Invariance, PTL DEF Spec, SentBackForAReason

(* Completing writes what the customer looked at, in that order and before *)
(* any other row: no two plans share a digest (Digest, writeSnapshot).     *)
THEOREM SeenIsWrittenHolds == Spec => SeenIsWritten
<1>1. Inv /\ [Next]_vars =>
        [(phase = "reviewed" /\ phase' = "looping"
           => Meaning(reviewed.records) \subseteq Meaning(wrote'.records))]_vars
  BY NextSeen
<1> QED BY <1>1, Invariance, PTL DEF Spec, SeenIsWritten

(* A pass that is due is due after the floor.                              *)
LEMMA PassesSpaced ==
  ASSUME TypeOK, PassDue, Floored(clock)
  PROVE  since >= clock.MinInterval
<1>1. clock \in Clocks /\ hash \in Nat /\ since \in Nat /\ failures \in Nat
  BY Facts
<1>2. clock.MinInterval \in Int /\ clock.Interval \in Int
  BY <1>1, WidthAssumption DEF Clocks, Durations
<1>3. CASE failures = 0
  <2>1. since - Spread(clock, hash) >= Gap(clock)
    BY <1>3 DEF PassDue, Due
  <2>2. Spread(clock, hash) \in Nat
    BY <1>1, SpreadBounds
  <2>3. Gap(clock) >= clock.MinInterval /\ Gap(clock) \in Int
    BY <1>2 DEF Gap
  <2> QED BY <1>1, <1>2, <2>1, <2>2, <2>3
<1>4. CASE failures # 0
  <2>1. since >= Delay(clock, failures)
    BY <1>4 DEF PassDue
  <2>2. Delay(clock, failures) >= clock.MinInterval /\ Delay(clock, failures) \in Nat
    BY <1>1, <1>4, DelayFloor, DelayBounds
  <2> QED BY <1>1, <1>2, <2>1, <2>2
<1> QED BY <1>3, <1>4

(* Whatever the count of failures, no wait wraps around into one that is   *)
(* shorter than the declared floor (Due, Spread, Delay).                   *)
THEOREM SpacedHolds == Spec => Spaced
<1>1. Inv /\ [Next]_vars =>
        [(phase = "looping" /\ passes' # passes /\ Floored(clock)
           => since >= clock.MinInterval)]_vars
  <2> SUFFICES ASSUME Inv, Next, phase = "looping", passes' # passes, Floored(clock)
               PROVE  since >= clock.MinInterval
    OBVIOUS
  <2>1. ~Tick /\ ~Miscount
    BY DEF Tick, Miscount
  <2>2. \A derived \in Derived : ~Register(derived)
    BY DEF Register
  <2>3. \A derived \in Derived, relayed \in Relayed :
          ~Describe(derived, relayed) /\ ~Complete(derived, relayed)
    BY DEF Describe, Complete
  <2>4. PICK derived \in Derived, relayed \in Relayed : Advance(derived, relayed)
    BY <2>1, <2>2, <2>3 DEF Next
  <2>5. PassDue
    BY <2>4 DEF Advance
  <2> QED BY <2>5, PassesSpaced DEF Inv
<1> QED BY <1>1, Invariance, PTL DEF Spec, Spaced
=============================================================================
