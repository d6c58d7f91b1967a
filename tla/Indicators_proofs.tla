------------------------- MODULE Indicators_proofs -------------------------
(***************************************************************************)
(* For every period, every feed and every width of an int: what the        *)
(* calculators carry from tick to tick is what their definitions give of   *)
(* all the ticks since the last reset.  The definitions are sums, so the   *)
(* first part is about those: the library's induction takes an operator,   *)
(* and here a predicate is the set of what it holds for (NatInduct,        *)
(* SeqInduct), which the well-foundedness of the numbers and of the finite *)
(* sets is enough for.                                                     *)
(***************************************************************************)
EXTENDS Indicators, FiniteSets, FiniteSetTheorems, SequenceTheorems,
        WellFoundedInduction, TLAPS

-----------------------------------------------------------------------------
(* Induction.                                                              *)

\* A set of numbers with 0 and with the successor of each of its members is
\* the set of all.
LEMMA NatInduct ==
  ASSUME NEW Good, 0 \in Good, \A n \in Nat : n \in Good => n + 1 \in Good
  PROVE  Nat \subseteq Good
<1> SUFFICES ASSUME ~ (Nat \subseteq Good) PROVE FALSE
  OBVIOUS
<1>1. PICK R : R = OpToRel(<, Nat)
  OBVIOUS
<1>2. IsWellFoundedOn(R, Nat)
  BY <1>1, NatLessThanWellFounded
<1>3. \E n \in Nat \ Good : \A m \in Nat \ Good : ~ (<<m, n>> \in R)
  BY <1>2, WFMin
<1>4. PICK n \in Nat \ Good : \A m \in Nat \ Good : ~ (<<m, n>> \in R)
  BY <1>3
<1>5. n - 1 \in Nat
  OBVIOUS
<1>6. n - 1 \in Nat \ Good
  BY <1>5
<1>7. <<n - 1, n>> \in Nat \X Nat /\ n - 1 < n
  BY <1>5
<1>8. <<n - 1, n>> \in R
  BY <1>1, <1>7 DEF OpToRel
<1>. QED BY <1>4, <1>6, <1>8

\* So is a set of sequences with the empty one and with all that are one
\* element longer than a member.
LEMMA SeqInduct ==
  ASSUME NEW S, NEW Good, <<>> \in Good,
         \A s \in Seq(S), x \in S : s \in Good => Append(s, x) \in Good
  PROVE  Seq(S) \subseteq Good
<1>1. PICK G : G = {n \in Nat : \A s \in Seq(S) : Len(s) = n => s \in Good}
  OBVIOUS
<1>2. 0 \in G
  BY <1>1, EmptySeq
<1>3. ASSUME NEW n \in Nat, n \in G PROVE n + 1 \in G
  <2>1. SUFFICES ASSUME NEW s \in Seq(S), Len(s) = n + 1 PROVE s \in Good
    BY <1>1
  <2>2. PICK t : t = SubSeq(s, 1, n)
    OBVIOUS
  <2>3. t \in Seq(S) /\ Len(t) = n /\ s[n + 1] \in S
    BY <2>1, <2>2, ElementOfSeq
  <2>4. s = Append(t, s[n + 1])
    BY <2>1, <2>2
  <2>. QED BY <1>1, <1>3, <2>3, <2>4
<1>4. Nat \subseteq G
  BY <1>2, <1>3, NatInduct
<1>. QED BY <1>1, <1>4, LenProperties

Below(t, s) == t \subseteq s /\ t # s

\* And among sets of parts of a finite set some member has no other below it.
LEMMA SmallestPart ==
  ASSUME NEW D, IsFiniteSet(D), NEW T, T \subseteq SUBSET D, T # {}
  PROVE  \E s \in T : \A t \in T : ~ Below(t, s)
<1>1. PICK R : R = StrictSubsetOrdering(D)
  OBVIOUS
<1>2. IsWellFoundedOn(R, SUBSET D)
  BY <1>1, FS_StrictSubsetOrderingWellFounded, FS_FiniteSubsetsOfFinite
<1>3. \E s \in T : \A t \in T : ~ (<<t, s>> \in R)
  BY <1>2, WFMin
<1>4. PICK s \in T : \A t \in T : ~ (<<t, s>> \in R)
  BY <1>3
<1>5. ASSUME NEW t \in T, Below(t, s) PROVE <<t, s>> \in R
  <2>1. <<t, s>> \in (SUBSET D) \X (SUBSET D)
    OBVIOUS
  <2>2. PICK p : p = <<t, s>>
    OBVIOUS
  <2>3. p \in (SUBSET D) \X (SUBSET D) /\ p[1] \subseteq p[2] /\ p[1] # p[2]
    BY <1>5, <2>1, <2>2 DEF Below
  <2>4. p \in StrictSubsetOrdering(D)
    BY <2>3 DEF StrictSubsetOrdering
  <2>. QED BY <1>1, <2>2, <2>4
<1>. QED BY <1>4, <1>5

-----------------------------------------------------------------------------
(* SumFunction is a recursion on the subsets of the domain.                *)

Pick(s) == CHOOSE x \in s : TRUE

OnInt(f, D) == \A x \in D : f[x] \in Int

\* The function that SumFunction evaluates, on all parts of D.
Sums(part, f, D) ==
  part = [s \in SUBSET D |-> IF s = {} THEN 0 ELSE f[Pick(s)] + part[s \ {Pick(s)}]]
Partial(f, D) == CHOOSE part : Sums(part, f, D)

Adds(g, f, D) ==
  /\ g \in [SUBSET D -> Int]
  /\ g[{}] = 0
  /\ \A s \in SUBSET D : s # {} => g[s] = f[Pick(s)] + g[s \ {Pick(s)}]

LEMMA SumIsPartial ==
  ASSUME NEW f PROVE SumFunction(f) = Partial(f, DOMAIN f)[DOMAIN f]
BY DEF SumFunction, SumFunctionOnSet, FoldFunctionOnSet, MapThenFoldSet, Partial, Sums, Pick

\* The recursion has a solution: one for the parts with up to n elements, for
\* each n.
LEMMA PartialExists ==
  ASSUME NEW D, IsFiniteSet(D), NEW f, OnInt(f, D)
  PROVE  \E g \in [SUBSET D -> Int] : Sums(g, f, D)
<1> DEFINE Next1(g) == [s \in SUBSET D |->
                          IF s = {} THEN 0 ELSE f[Pick(s)] + g[s \ {Pick(s)}]]
           Good == {n \in Nat : \E g \in [SUBSET D -> Int] :
                      \A s \in SUBSET D : Cardinality(s) =< n => g[s] = Next1(g)[s]}
<1>1. ASSUME NEW s \in SUBSET D, s # {}
      PROVE  Pick(s) \in s /\ f[Pick(s)] \in Int /\ s \ {Pick(s)} \in SUBSET D
  BY <1>1 DEF Pick, OnInt
<1>2. ASSUME NEW g \in [SUBSET D -> Int] PROVE Next1(g) \in [SUBSET D -> Int]
  BY <1>1
<1>3. 0 \in Good
  <2>1. PICK g : g = [s \in SUBSET D |-> 0]
    OBVIOUS
  <2>2. ASSUME NEW s \in SUBSET D, Cardinality(s) =< 0 PROVE s = {}
    BY <2>2, FS_Subset, FS_EmptySet, FS_CardinalityType
  <2>3. g \in [SUBSET D -> Int] /\ \A s \in SUBSET D : Cardinality(s) =< 0 => g[s] = Next1(g)[s]
    BY <2>1, <2>2
  <2>. QED BY <2>3
<1>4. ASSUME NEW n \in Nat, n \in Good PROVE n + 1 \in Good
  <2>1. PICK g \in [SUBSET D -> Int] :
          \A s \in SUBSET D : Cardinality(s) =< n => g[s] = Next1(g)[s]
    BY <1>4
  <2>2. PICK h : h = Next1(g)
    OBVIOUS
  <2>3. h \in [SUBSET D -> Int]
    BY <1>2, <2>2
  <2>4. ASSUME NEW s \in SUBSET D, Cardinality(s) =< n + 1, s # {}
        PROVE  h[s] = f[Pick(s)] + h[s \ {Pick(s)}]
    <3>1. PICK t : t = s \ {Pick(s)}
      OBVIOUS
    <3>2. t \in SUBSET D /\ Pick(s) \in s
      BY <1>1, <2>4, <3>1
    <3>3. IsFiniteSet(s) /\ Cardinality(s) \in Nat
      BY FS_Subset, FS_CardinalityType
    <3>4. Cardinality(t) = Cardinality(s) - 1
      BY ZenonT(30), <3>1, <3>2, <3>3, FS_RemoveElement
    <3>5. Cardinality(t) =< n
      BY <2>4, <3>3, <3>4
    <3>6. g[t] = h[t]
      BY <2>1, <2>2, <3>2, <3>5
    <3>. QED BY <2>2, <2>4, <3>1, <3>6
  <2>5. ASSUME NEW s \in SUBSET D, Cardinality(s) =< n + 1 PROVE h[s] = Next1(h)[s]
    BY <2>2, <2>4, <2>5
  <2>6. \E g1 \in [SUBSET D -> Int] :
          \A s \in SUBSET D : Cardinality(s) =< n + 1 => g1[s] = Next1(g1)[s]
    <3> USE <2>3
    <3> HIDE DEF Next1
    <3> WITNESS h \in [SUBSET D -> Int]
    <3>. QED BY <2>5
  <2>. HIDE DEF Next1
  <2>. QED BY <2>6
<1>5. Cardinality(D) \in Good
  <2>1. Nat \subseteq Good
    <3> HIDE DEF Good
    <3>. QED BY <1>3, <1>4, NatInduct
  <2>. QED BY <2>1, FS_CardinalityType
<1>6. PICK g \in [SUBSET D -> Int] :
        \A s \in SUBSET D : Cardinality(s) =< Cardinality(D) => g[s] = Next1(g)[s]
  BY <1>5
<1>7. \A s \in SUBSET D : Cardinality(s) =< Cardinality(D)
  BY FS_Subset
<1>8. g = Next1(g)
  BY <1>6, <1>7
<1>. QED BY <1>8 DEF Sums

LEMMA PartialUnfolds ==
  ASSUME NEW D, IsFiniteSet(D), NEW f, OnInt(f, D),
         NEW g, g = Partial(f, D)
  PROVE  Adds(g, f, D)
<1>2. \E h : Sums(h, f, D)
  BY PartialExists
<1>3. Sums(g, f, D)
  BY <1>2 DEF Partial
<1>4. ASSUME NEW s \in SUBSET D, s # {} PROVE g[s] = f[Pick(s)] + g[s \ {Pick(s)}]
  BY <1>3, <1>4 DEF Sums
<1>5. g[{}] = 0
  BY <1>3 DEF Sums
<1>6. g \in [SUBSET D -> Int]
  <2>1. PICK Bad : Bad = {s \in SUBSET D : g[s] \notin Int}
    OBVIOUS
  <2>2. SUFFICES ASSUME Bad # {} PROVE FALSE
    BY <1>3, <2>1 DEF Sums
  <2>. Bad \subseteq SUBSET D
    BY <2>1
  <2>3. PICK s \in Bad : \A t \in Bad : ~ Below(t, s)
    BY <2>2, SmallestPart
  <2>4. s # {}
    BY <1>5, <2>1
  <2>. Pick(s) \in s
    BY <2>4 DEF Pick
  <2>5. g[s \ {Pick(s)}] \in Int /\ f[Pick(s)] \in Int
    BY <2>1, <2>3, <2>4 DEF OnInt, Below
  <2>6. g[s] = f[Pick(s)] + g[s \ {Pick(s)}]
    BY <1>4, <2>1, <2>4
  <2>. QED BY <2>1, <2>5, <2>6
<1>. QED BY <1>4, <1>5, <1>6 DEF Adds

\* Any element may be the one that is taken out first: addition commutes.
LEMMA PickAny ==
  ASSUME NEW D, IsFiniteSet(D), NEW f, OnInt(f, D),
         NEW s \in SUBSET D, NEW x \in s
  PROVE  Partial(f, D)[s] = f[x] + Partial(f, D)[s \ {x}]
<1>1. PICK g : g = Partial(f, D)
  OBVIOUS
<1>2. Adds(g, f, D)
  BY <1>1, PartialUnfolds
<1>3. PICK Bad : Bad = {t \in SUBSET D : \E y \in t : g[t] # f[y] + g[t \ {y}]}
  OBVIOUS
<1>4. Bad = {}
  <2>1. SUFFICES ASSUME Bad # {} PROVE FALSE
    OBVIOUS
  <2>. Bad \subseteq SUBSET D
    BY <1>3
  <2>2. PICK t \in Bad : \A u \in Bad : ~ Below(u, t)
    BY <2>1, SmallestPart
  <2>3. PICK y \in t : g[t] # f[y] + g[t \ {y}]
    BY <1>3
  <2>4. PICK p : p = Pick(t)
    OBVIOUS
  <2>5. p \in t /\ g[t] = f[p] + g[t \ {p}] /\ p # y
    BY <1>2, <1>3, <2>3, <2>4 DEF Pick, Adds
  <2>6. t \ {p} \notin Bad /\ t \ {y} \notin Bad
    BY <2>2, <2>3, <2>5 DEF Below
  <2>7. g[t \ {p}] = f[y] + g[(t \ {p}) \ {y}]
    BY <1>3, <2>3, <2>5, <2>6
  <2>8. g[t \ {y}] = f[p] + g[(t \ {y}) \ {p}]
    BY <1>3, <2>3, <2>5, <2>6
  <2>9. (t \ {p}) \ {y} = (t \ {y}) \ {p}
    OBVIOUS
  <2>10. PICK a : a = g[(t \ {p}) \ {y}]
    OBVIOUS
  <2>11. f[p] \in Int /\ f[y] \in Int /\ a \in Int
    BY <1>2, <2>2, <2>3, <2>5, <2>10 DEF OnInt, Adds
  <2>12. g[t \ {p}] = f[y] + a /\ g[t \ {y}] = f[p] + a
    BY <2>7, <2>8, <2>9, <2>10
  <2>. QED BY <2>3, <2>5, <2>11, <2>12
<1>. QED BY <1>1, <1>3, <1>4

\* The sum of a part depends on what the function is on that part only.
LEMMA PartialAgrees ==
  ASSUME NEW D, IsFiniteSet(D), NEW f, OnInt(f, D),
         NEW E, IsFiniteSet(E), NEW h, OnInt(h, E),
         D \subseteq E, \A x \in D : f[x] = h[x]
  PROVE  Partial(f, D)[D] = Partial(h, E)[D]
<1>1. PICK g1, g2 : g1 = Partial(f, D) /\ g2 = Partial(h, E)
  OBVIOUS
<1>2. Adds(g1, f, D)
  BY <1>1, PartialUnfolds
<1>3. Adds(g2, h, E)
  BY <1>1, PartialUnfolds
<1>4. PICK Bad : Bad = {t \in SUBSET D : g1[t] # g2[t]}
  OBVIOUS
<1>5. Bad = {}
  <2>1. SUFFICES ASSUME Bad # {} PROVE FALSE
    OBVIOUS
  <2>. Bad \subseteq SUBSET D
    BY <1>4
  <2>2. PICK t \in Bad : \A u \in Bad : ~ Below(u, t)
    BY <2>1, SmallestPart
  <2>3. t # {} /\ t \in SUBSET D /\ t \in SUBSET E
    BY <1>2, <1>3, <1>4 DEF Adds
  <2>4. Pick(t) \in t
    BY <2>3 DEF Pick
  <2>5. g1[t \ {Pick(t)}] = g2[t \ {Pick(t)}]
    BY <1>4, <2>2, <2>3, <2>4 DEF Below
  <2>. QED BY <1>2, <1>3, <1>4, <2>3, <2>4, <2>5 DEF Adds
<1>. QED BY <1>1, <1>4, <1>5

-----------------------------------------------------------------------------
(* Sums of sequences.                                                      *)

LEMMA SumOfEmpty == SumFunction(<<>>) = 0
<1>1. DOMAIN <<>> = {} /\ IsFiniteSet({})
  BY FS_EmptySet
<1>2. OnInt(<<>>, {})
  BY DEF OnInt
<1>3. PICK g : g = Partial(<<>>, {})
  OBVIOUS
<1>4. g[{}] = 0
  BY <1>1, <1>2, <1>3, PartialUnfolds DEF Adds
<1>. QED BY <1>1, <1>3, <1>4, SumIsPartial

LEMMA SumOfAppended ==
  ASSUME NEW s \in Seq(Int), NEW x \in Int
  PROVE  SumFunction(Append(s, x)) = SumFunction(s) + x
<1>1. PICK n, t, D, E : /\ n = Len(s) /\ t = Append(s, x)
                        /\ D = 1 .. n /\ E = 1 .. n + 1
  OBVIOUS
<1>2. /\ n \in Nat /\ DOMAIN s = D /\ DOMAIN t = E
      /\ t[n + 1] = x /\ \A i \in D : t[i] = s[i] /\ s[i] \in Int
  BY <1>1
<1>3. IsFiniteSet(D) /\ IsFiniteSet(E)
  BY <1>1, <1>2, FS_Interval
<1>4. OnInt(s, D) /\ OnInt(t, D) /\ OnInt(t, E)
  BY <1>1, <1>2 DEF OnInt
<1>5. Partial(t, E)[E] = t[n + 1] + Partial(t, E)[E \ {n + 1}]
  <2>1. E \in SUBSET E /\ n + 1 \in E
    BY <1>1, <1>2
  <2>. QED BY <1>3, <1>4, <2>1, PickAny
<1>6. E \ {n + 1} = D
  BY <1>1, <1>2
<1>7. Partial(s, D)[D] = Partial(t, E)[D]
  <2>1. D \subseteq E /\ \A i \in D : s[i] = t[i]
    BY <1>1, <1>2
  <2>. QED BY <1>3, <1>4, <2>1, PartialAgrees
<1>8. SumFunction(s) = Partial(s, D)[D] /\ SumFunction(t) = Partial(t, E)[E]
  BY <1>1, <1>2, SumIsPartial
<1>9. SumFunction(t) = x + SumFunction(s)
  BY <1>2, <1>5, <1>6, <1>7, <1>8
<1>10. SumFunction(s) \in Int
  <2>1. PICK g : g = Partial(s, D)
    OBVIOUS
  <2>2. Adds(g, s, D)
    BY <1>3, <1>4, <2>1, PartialUnfolds
  <2>. QED BY <1>8, <2>1, <2>2 DEF Adds
<1>. QED BY <1>1, <1>9, <1>10

LEMMA SumIsInt ==
  ASSUME NEW s \in Seq(Int) PROVE SumFunction(s) \in Int
<1>1. PICK D : D = 1 .. Len(s)
  OBVIOUS
<1>2. IsFiniteSet(D) /\ D = DOMAIN s /\ OnInt(s, D)
  BY <1>1, FS_Interval DEF OnInt
<1>3. PICK g : g = Partial(s, D)
  OBVIOUS
<1>4. Adds(g, s, D)
  BY <1>2, <1>3, PartialUnfolds
<1>. QED BY <1>2, <1>3, <1>4, SumIsPartial DEF Adds

LEMMA SumIsNat ==
  ASSUME NEW s \in Seq(Nat) PROVE SumFunction(s) \in Nat
<1>1. PICK Good : Good = {t \in Seq(Nat) : SumFunction(t) \in Nat}
  OBVIOUS
<1>2. <<>> \in Good
  BY <1>1, SumOfEmpty, EmptySeq
<1>3. ASSUME NEW t \in Seq(Nat), NEW x \in Nat, t \in Good
      PROVE  Append(t, x) \in Good
  <2>1. t \in Seq(Int) /\ x \in Int
    BY SeqMonotonic
  <2>2. SumFunction(Append(t, x)) = SumFunction(t) + x
    BY <2>1, SumOfAppended
  <2>. QED BY <1>1, <1>3, <2>2
<1>. QED BY <1>1, <1>2, <1>3, SeqInduct

\* What leaves at the front leaves the sum.
LEMMA SumOfTail ==
  ASSUME NEW s \in Seq(Int), s # <<>>
  PROVE  SumFunction(Tail(s)) = SumFunction(s) - Head(s)
<1>1. PICK Good : Good = {t \in Seq(Int) : t # <<>> =>
                            SumFunction(Tail(t)) = SumFunction(t) - Head(t)}
  OBVIOUS
<1>2. <<>> \in Good
  BY <1>1, EmptySeq
<1>3. ASSUME NEW t \in Seq(Int), NEW x \in Int, t \in Good
      PROVE  Append(t, x) \in Good
  <2>1. SumFunction(Append(t, x)) = SumFunction(t) + x /\ SumFunction(t) \in Int
    BY SumOfAppended, SumIsInt
  <2>2. CASE t = <<>>
    <3>1. Tail(Append(t, x)) = <<>> /\ Head(Append(t, x)) = x
      BY <2>2
    <3>. QED BY <1>1, <2>1, <2>2, <3>1, SumOfEmpty
  <2>3. CASE t # <<>>
    <3>1. /\ Tail(t) \in Seq(Int) /\ Head(t) \in Int
          /\ Head(Append(t, x)) = Head(t)
          /\ Tail(Append(t, x)) = Append(Tail(t), x)
      BY <2>3
    <3>2. SumFunction(Tail(t)) = SumFunction(t) - Head(t)
      BY <1>1, <1>3, <2>3
    <3>3. SumFunction(Append(Tail(t), x)) = SumFunction(Tail(t)) + x
      BY <3>1, SumOfAppended
    <3>4. PICK u : u = Append(t, x)
      OBVIOUS
    <3>5. /\ Tail(u) = Append(Tail(t), x) /\ Head(u) = Head(t) /\ u \in Seq(Int)
          /\ SumFunction(u) = SumFunction(t) + x
      <4>1. Tail(u) = Append(Tail(t), x) /\ Head(u) = Head(t)
        BY <3>1, <3>4
      <4>2. u \in Seq(Int)
        BY <3>4
      <4>3. SumFunction(u) = SumFunction(t) + x
        BY <2>1, <3>4
      <4>. QED BY <4>1, <4>2, <4>3
    <3>6. SumFunction(Tail(u)) = SumFunction(t) - Head(t) + x
      BY <3>2, <3>3, <3>5
    <3>7. SumFunction(Tail(u)) = SumFunction(u) - Head(u)
      BY <2>1, <3>1, <3>5, <3>6
    <3>. QED BY <1>1, <3>4, <3>5, <3>7
  <2>. QED BY <2>2, <2>3
<1>. QED BY <1>1, <1>2, <1>3, SeqInduct

\* A factor of all terms is a factor of the sum.
LEMMA SumOfScaled ==
  ASSUME NEW s \in Seq(Int), NEW c \in Int
  PROVE  SumFunction([i \in 1 .. Len(s) |-> c * s[i]]) = c * SumFunction(s)
<1> DEFINE Scaled(t) == [i \in 1 .. Len(t) |-> c * t[i]]
<1>1. PICK Good : Good = {t \in Seq(Int) : SumFunction(Scaled(t)) = c * SumFunction(t)}
  OBVIOUS
<1>2. <<>> \in Good
  <2>1. Scaled(<<>>) = <<>>
    OBVIOUS
  <2>. QED BY <1>1, <2>1, SumOfEmpty, EmptySeq
<1>3. ASSUME NEW t \in Seq(Int), NEW x \in Int, t \in Good
      PROVE  Append(t, x) \in Good
  <2>1. Scaled(Append(t, x)) = Append(Scaled(t), c * x)
    OBVIOUS
  <2>2. Scaled(t) \in Seq(Int) /\ c * x \in Int
    OBVIOUS
  <2>. HIDE DEF Scaled
  <2>3. SumFunction(Scaled(Append(t, x))) = SumFunction(Scaled(t)) + c * x
    BY <2>1, <2>2, SumOfAppended
  <2>4. SumFunction(Append(t, x)) = SumFunction(t) + x /\ SumFunction(t) \in Int
    BY SumOfAppended, SumIsInt
  <2>. QED BY <1>1, <1>3, <2>3, <2>4
<1>. QED BY <1>1, <1>2, <1>3, SeqInduct

-----------------------------------------------------------------------------
(* The moving average.                                                     *)

LEMMA Constants ==
  /\ SmaPeriod \in Nat /\ SmaPeriod > 0 /\ RsiPeriod \in Nat /\ RsiPeriod > 0
  /\ IntRange \in Nat /\ IntRange > 0 /\ MaxUpdates \in Nat
BY PeriodAssumption, RangeAssumption

LEMMA BarType ==
  ASSUME NEW bar \in Bar
  PROVE  /\ bar.price \in Nat /\ bar.price > 0 /\ bar.high \in Nat /\ bar.low \in Nat
         /\ bar.volume \in Int
BY BarAssumption

\* The last SmaPeriod of the elements, by their places.
IsLatest(w, s) ==
  /\ w \in Seq(Nat)
  /\ Len(w) = IF Len(s) > SmaPeriod THEN SmaPeriod ELSE Len(s)
  /\ \A i \in 1 .. Len(w) : w[i] = s[Len(s) - Len(w) + i]

LEMMA LatestIsSubSeq ==
  ASSUME NEW s \in Seq(Nat), NEW w
  PROVE  IsLatest(w, s) <=>
           w = SubSeq(s, IF Len(s) > SmaPeriod THEN Len(s) - SmaPeriod + 1 ELSE 1, Len(s))
<1>1. PICK n, k : n = Len(s) /\ k = IF n > SmaPeriod THEN n - SmaPeriod + 1 ELSE 1
  OBVIOUS
<1>2. PICK v : v = SubSeq(s, k, n)
  OBVIOUS
<1>3. n \in Nat /\ k \in 1 .. n + 1
  BY <1>1, Constants
<1>4. /\ v \in Seq(Nat) /\ Len(v) = n - k + 1
      /\ \A i \in 1 .. n - k + 1 : v[i] = s[k - 1 + i]
  <2>1. k \in Nat /\ k - 1 \in Nat /\ n - k + 1 \in Nat
    BY <1>3
  <2>2. v \in Seq(Nat) /\ Len(v) = n - k + 1
    BY SMTT(30), <1>1, <1>2, <1>3, <2>1
  <2>3. ASSUME NEW i \in 1 .. n - k + 1 PROVE v[i] = s[k - 1 + i]
    BY SMTT(30), <1>1, <1>2, <1>3, <2>1
  <2>. QED BY <2>2, <2>3
<1>5. n - k + 1 = IF n > SmaPeriod THEN SmaPeriod ELSE n
  BY <1>1, <1>3, Constants
<1>6. n - (n - k + 1) = k - 1
  BY <1>3
<1>7. IsLatest(v, s)
  <2>1. Len(s) - Len(v) = k - 1
    BY <1>1, <1>4, <1>6
  <2>2. \A i \in 1 .. Len(v) : v[i] = s[Len(s) - Len(v) + i]
    BY <1>4, <2>1
  <2>3. Len(v) = IF Len(s) > SmaPeriod THEN SmaPeriod ELSE Len(s)
    BY <1>1, <1>4, <1>5
  <2>. QED BY <1>4, <2>2, <2>3 DEF IsLatest
<1>8. ASSUME IsLatest(w, s) PROVE w = v
  <2>1. w \in Seq(Nat) /\ Len(w) = n - k + 1
    BY <1>1, <1>5, <1>8 DEF IsLatest
  <2>2. ASSUME NEW i \in 1 .. n - k + 1 PROVE w[i] = v[i]
    <3>1. w[i] = s[n - (n - k + 1) + i]
      BY <1>1, <1>8, <2>1 DEF IsLatest
    <3>. QED BY <1>4, <1>6, <3>1
  <2>. QED BY <1>4, <2>1, <2>2, SeqEqual
<1>. QED BY <1>1, <1>2, <1>7, <1>8

\* One more element, and one less at the front once there are enough.
LEMMA LatestMoves ==
  ASSUME NEW s \in Seq(Nat), NEW w, IsLatest(w, s), NEW x \in Nat
  PROVE  /\ Len(s) >= SmaPeriod => IsLatest(Tail(Append(w, x)), Append(s, x))
         /\ Len(s) < SmaPeriod => IsLatest(Append(w, x), Append(s, x))
<1>1. PICK n, m, t, v : n = Len(s) /\ m = Len(w) /\ t = Append(s, x) /\ v = Append(w, x)
  OBVIOUS
<1>2. /\ n \in Nat /\ m \in Nat /\ m = IF n > SmaPeriod THEN SmaPeriod ELSE n
      /\ \A i \in 1 .. m : w[i] = s[n - m + i]
  BY <1>1 DEF IsLatest
<1>3. t \in Seq(Nat) /\ Len(t) = n + 1 /\ t[n + 1] = x /\ \A i \in 1 .. n : t[i] = s[i]
  BY <1>1
<1>4. v \in Seq(Nat) /\ Len(v) = m + 1 /\ v[m + 1] = x /\ \A i \in 1 .. m : v[i] = w[i]
  BY <1>1 DEF IsLatest
<1>5. ASSUME NEW i \in 1 .. m + 1 PROVE v[i] = t[n - m + i]
  <2>1. CASE i = m + 1
    BY <1>2, <1>3, <1>4, <2>1
  <2>2. CASE i \in 1 .. m
    <3>1. n - m + i \in 1 .. n
      BY <1>2, <2>2, Constants
    <3>. QED BY <1>2, <1>3, <1>4, <2>2, <3>1
  <2>. QED BY <1>2, <2>1, <2>2
<1>6. ASSUME n >= SmaPeriod PROVE IsLatest(Tail(v), t)
  <2>1. m = SmaPeriod /\ Len(v) # 0 /\ v # <<>>
    BY <1>2, <1>4, <1>6, Constants
  <2>2. PICK u : u = Tail(v)
    OBVIOUS
  <2>3. u \in Seq(Nat) /\ Len(u) = m /\ \A i \in 1 .. m : u[i] = v[i + 1]
    BY <1>2, <1>4, <2>1, <2>2
  <2>4. ASSUME NEW i \in 1 .. m PROVE u[i] = t[n + 1 - m + i]
    <3>1. PICK j : j = i + 1
      OBVIOUS
    <3>2. j \in 1 .. m + 1 /\ n - m + j = n + 1 - m + i
      BY <1>2, <3>1
    <3>3. v[j] = t[n + 1 - m + i]
      BY <1>5, <3>2
    <3>. QED BY <2>3, <3>1, <3>3
  <2>5. Len(t) - Len(u) = n + 1 - m /\ Len(t) > SmaPeriod
    BY <1>2, <1>3, <1>6, <2>3, Constants
  <2>6. \A i \in 1 .. Len(u) : u[i] = t[Len(t) - Len(u) + i]
    BY <2>3, <2>4, <2>5
  <2>7. IsLatest(u, t)
    BY <2>1, <2>3, <2>5, <2>6 DEF IsLatest
  <2>. QED BY <2>2, <2>7
<1>7. ASSUME n < SmaPeriod PROVE IsLatest(v, t)
  <2>1. m = n
    BY <1>2, <1>7, Constants
  <2>2. \A i \in 1 .. m + 1 : v[i] = t[(n + 1) - (m + 1) + i]
    BY <1>2, <1>5
  <2>. QED BY <1>2, <1>3, <1>4, <1>7, <2>1, <2>2, Constants DEF IsLatest
<1>. QED BY <1>1, <1>6, <1>7

\* The window holds the last prices, and the sum is the sum of the window.
WindowInv ==
  smaFed \in Seq(Nat) /\ IsLatest(window_, smaFed) /\ running_sum_ = SumFunction(window_)

LEMMA WindowType ==
  ASSUME WindowInv
  PROVE  /\ smaFed \in Seq(Nat) /\ window_ \in Seq(Nat) /\ window_ \in Seq(Int)
         /\ Len(window_) =< SmaPeriod /\ running_sum_ \in Nat
<1>1. window_ \in Seq(Nat) /\ Len(window_) =< SmaPeriod /\ smaFed \in Seq(Nat)
  BY Constants DEF WindowInv, IsLatest
<1>2. running_sum_ \in Nat
  BY <1>1, SumIsNat DEF WindowInv
<1>3. window_ \in Seq(Int)
  BY <1>1, SeqMonotonic
<1>. QED BY <1>1, <1>2, <1>3

LEMMA WindowKept ==
  ASSUME WindowInv, NEW price \in Nat, UpdateSma(price)
  PROVE  WindowInv'
<1>1. PICK w, s, v : w = window_ /\ s = smaFed /\ v = Append(w, price)
  OBVIOUS
<1>2. /\ w \in Seq(Nat) /\ w \in Seq(Int) /\ running_sum_ \in Nat
      /\ s \in Seq(Nat) /\ IsLatest(w, s) /\ running_sum_ = SumFunction(w)
  BY <1>1, WindowType DEF WindowInv
<1>3. smaFed' = Append(s, price) /\ Append(s, price) \in Seq(Nat)
  BY <1>1, <1>2 DEF UpdateSma
<1>4. v \in Seq(Int) /\ v # <<>> /\ Len(v) = Len(w) + 1
  BY <1>1, <1>2
<1>5. SumFunction(v) = running_sum_ + price
  BY <1>1, <1>2, SumOfAppended
<1>6. Overfull(v) <=> Len(s) >= SmaPeriod
  BY <1>2, <1>4, Constants DEF Overfull, IsLatest
<1>7. CASE Len(s) >= SmaPeriod
  <2>. Overfull(v) /\ v = Append(window_, price)
    BY <1>1, <1>6, <1>7
  <2>1. window_' = Tail(v) /\ running_sum_' = (running_sum_ + price) - Head(v)
    BY DEF UpdateSma, SumWithout
  <2>2. SumFunction(Tail(v)) = SumFunction(v) - Head(v)
    BY <1>4, SumOfTail
  <2>3. IsLatest(Tail(v), Append(s, price))
    BY <1>1, <1>2, <1>7, LatestMoves
  <2>4. IsLatest(window_, smaFed)'
    BY <1>3, <2>1, <2>3 DEF IsLatest
  <2>. QED BY <1>3, <1>5, <2>1, <2>2, <2>4 DEF WindowInv
<1>8. CASE ~ (Len(s) >= SmaPeriod)
  <2>1. window_' = v /\ running_sum_' = running_sum_ + price
    BY <1>1, <1>6, <1>8 DEF UpdateSma
  <2>2. Len(s) < SmaPeriod
    BY <1>2, <1>8, Constants
  <2>3. IsLatest(v, Append(s, price))
    BY <1>1, <1>2, <2>2, LatestMoves
  <2>4. IsLatest(window_, smaFed)'
    BY <1>3, <2>1, <2>3 DEF IsLatest
  <2>. QED BY <1>3, <1>5, <2>1, <2>4 DEF WindowInv
<1>. QED BY <1>7, <1>8

-----------------------------------------------------------------------------
(* Powers.                                                                 *)

Powers(power, base) ==
  power = [n \in Nat |-> IF n = 0 THEN 1 ELSE base * power[n - 1]]

\* The first n values of such a function.
PowersUpTo(g, base, n) ==
  g[0] = 1 /\ \A k \in Nat : k < n => g[k + 1] = base * g[k]

LEMMA PowersUpToExist ==
  ASSUME NEW base \in Int, NEW n \in Nat
  PROVE  \E g \in [Nat -> Int] : PowersUpTo(g, base, n)
<1>1. PICK Good : Good = {m \in Nat : \E g \in [Nat -> Int] : PowersUpTo(g, base, m)}
  OBVIOUS
<1>2. 0 \in Good
  <2>1. PICK g : g = [k \in Nat |-> 1]
    OBVIOUS
  <2>2. g \in [Nat -> Int] /\ PowersUpTo(g, base, 0)
    BY <2>1 DEF PowersUpTo
  <2>. QED BY <1>1, <2>2
<1>3. ASSUME NEW m \in Nat, m \in Good PROVE m + 1 \in Good
  <2>1. PICK g \in [Nat -> Int] : PowersUpTo(g, base, m)
    BY <1>1, <1>3
  <2>2. PICK h : h = [k \in Nat |-> IF k = m + 1 THEN base * g[m] ELSE g[k]]
    OBVIOUS
  <2>3. h \in [Nat -> Int]
    BY <2>2
  <2>4. h[0] = 1
    BY <2>1, <2>2 DEF PowersUpTo
  <2>5. ASSUME NEW k \in Nat, k < m + 1 PROVE h[k + 1] = base * h[k]
    <3>1. CASE k = m
      BY <2>2, <3>1
    <3>2. CASE k < m
      BY <2>1, <2>2, <3>2 DEF PowersUpTo
    <3>. QED BY <2>5, <3>1, <3>2
  <2>6. PowersUpTo(h, base, m + 1)
    BY <2>4, <2>5 DEF PowersUpTo
  <2>. QED BY <1>1, <2>3, <2>6
<1>4. Nat \subseteq Good
  BY <1>2, <1>3, NatInduct
<1>. QED BY <1>1, <1>4

LEMMA PowersUpToUnique ==
  ASSUME NEW base \in Int, NEW m \in Nat, NEW n \in Nat, m =< n,
         NEW g, NEW h, PowersUpTo(g, base, m), PowersUpTo(h, base, n)
  PROVE  g[m] = h[m]
<1>1. PICK Good : Good = {k \in Nat : k =< m => g[k] = h[k]}
  OBVIOUS
<1>2. 0 \in Good
  BY <1>1 DEF PowersUpTo
<1>3. ASSUME NEW k \in Nat, k \in Good PROVE k + 1 \in Good
  <2>1. SUFFICES ASSUME k + 1 =< m PROVE g[k + 1] = h[k + 1]
    BY <1>1
  <2>2. g[k] = h[k] /\ k < m /\ k < n
    BY <1>1, <1>3, <2>1
  <2>. QED BY <2>2 DEF PowersUpTo
<1>4. Nat \subseteq Good
  BY <1>2, <1>3, NatInduct
<1>. QED BY <1>1, <1>4

LEMMA PowersExist ==
  ASSUME NEW base \in Int
  PROVE  \E p \in [Nat -> Int] : Powers(p, base)
<1>1. PICK G : G = [n \in Nat |-> CHOOSE g \in [Nat -> Int] : PowersUpTo(g, base, n)]
  OBVIOUS
<1>2. ASSUME NEW n \in Nat PROVE G[n] \in [Nat -> Int] /\ PowersUpTo(G[n], base, n)
  <2>1. G[n] = CHOOSE g \in [Nat -> Int] : PowersUpTo(g, base, n)
    BY <1>1
  <2>. QED BY <2>1, PowersUpToExist
<1>3. PICK p : p = [n \in Nat |-> G[n][n]]
  OBVIOUS
<1>4. p \in [Nat -> Int]
  BY <1>2, <1>3
<1>5. p[0] = 1
  BY <1>2, <1>3 DEF PowersUpTo
<1>6. ASSUME NEW n \in Nat \ {0} PROVE p[n] = base * p[n - 1]
  <2>1. PICK k \in Nat : n = k + 1
    BY <1>6
  <2>2. G[n][n] = base * G[n][k]
    BY <1>2, <2>1 DEF PowersUpTo
  <2>3. PowersUpTo(G[n], base, n) /\ PowersUpTo(G[k], base, k) /\ k =< n
    BY <1>2, <2>1
  <2>4. G[k][k] = G[n][k]
    BY <2>3, PowersUpToUnique
  <2>. QED BY <1>3, <2>1, <2>2, <2>4
<1>7. Powers(p, base)
  BY <1>3, <1>5, <1>6 DEF Powers
<1>. QED BY <1>4, <1>7

LEMMA PowerUnfolds ==
  ASSUME NEW base \in Int
  PROVE  Power(base, 0) = 1 /\ \A k \in Nat : Power(base, k + 1) = base * Power(base, k)
<1>1. PICK p : p = CHOOSE power : Powers(power, base)
  OBVIOUS
<1>2. \A k : Power(base, k) = p[k]
  BY <1>1 DEF Power, Powers
<1>3. Powers(p, base)
  BY <1>1, PowersExist
<1>4. p[0] = 1 /\ \A k \in Nat : p[k + 1] = base * p[k]
  BY <1>3 DEF Powers
<1>. QED BY <1>2, <1>4

LEMMA PowerIsInt ==
  ASSUME NEW base \in Int, NEW n \in Nat PROVE Power(base, n) \in Int
<1>1. PICK Good : Good = {k \in Nat : Power(base, k) \in Int}
  OBVIOUS
<1>2. 0 \in Good
  BY <1>1, PowerUnfolds
<1>3. ASSUME NEW k \in Nat, k \in Good PROVE k + 1 \in Good
  BY <1>1, <1>3, PowerUnfolds
<1>4. Nat \subseteq Good
  BY <1>2, <1>3, NatInduct
<1>. QED BY <1>1, <1>4

-----------------------------------------------------------------------------
(* Wilder's averages.                                                      *)

LEMMA Weights ==
  ASSUME NEW n \in Nat
  PROVE  Power(RsiPeriod, n) \in Int /\ Power(RsiPeriod - 1, n) \in Int
<1>1. RsiPeriod \in Int /\ RsiPeriod - 1 \in Int
  BY Constants
<1>. QED BY <1>1, PowerIsInt

\* What size(i) is in Wilder, of one change.
Size(sign, change) == IF sign * change > 0 THEN sign * change ELSE 0

\* The terms of Wilder, for a sequence of sizes.
Terms(z) == [i \in 1 .. Len(z) |->
               z[i] * Power(RsiPeriod, i - 1) * Power(RsiPeriod - 1, Len(z) - i)]

LEMMA TermsType ==
  ASSUME NEW z \in Seq(Nat) PROVE Terms(z) \in Seq(Int) /\ Len(Terms(z)) = Len(z)
<1>1. ASSUME NEW i \in 1 .. Len(z)
      PROVE  z[i] * Power(RsiPeriod, i - 1) * Power(RsiPeriod - 1, Len(z) - i) \in Int
  <2>1. z[i] \in Int /\ i - 1 \in Nat /\ Len(z) - i \in Nat
    OBVIOUS
  <2>2. Power(RsiPeriod, i - 1) \in Int /\ Power(RsiPeriod - 1, Len(z) - i) \in Int
    BY <2>1, Weights
  <2>. QED BY <2>1, <2>2
<1>. QED BY <1>1 DEF Terms

\* One step of the smoothing: every term is taken once more by the factor of
\* its age, and the new one has the weight of its place.
LEMMA TermsSmooth ==
  ASSUME NEW z \in Seq(Nat), NEW x \in Nat
  PROVE  SumFunction(Terms(Append(z, x))) =
           SumFunction(Terms(z)) * (RsiPeriod - 1) + x * Power(RsiPeriod, Len(z))
<1>1. PICK n, t, b : n = Len(z) /\ t = Terms(z) /\ b = RsiPeriod - 1
  OBVIOUS
<1>2. n \in Nat /\ b \in Int /\ t \in Seq(Int) /\ Len(t) = n
  BY <1>1, TermsType, Constants
<1>3. PICK s : s = [i \in 1 .. Len(t) |-> b * t[i]]
  OBVIOUS
<1>4. s \in Seq(Int) /\ Len(s) = n
  BY <1>2, <1>3
<1>5. PICK last : last = x * Power(RsiPeriod, n)
  OBVIOUS
<1>6. last \in Int /\ Power(RsiPeriod, n) \in Int
  BY <1>2, <1>5, Weights
<1>7. Terms(Append(z, x)) = Append(s, last)
  <2>1. PICK u, v : u = Terms(Append(z, x)) /\ v = Append(s, last)
    OBVIOUS
  <2>2. /\ Append(z, x) \in Seq(Nat) /\ Len(Append(z, x)) = n + 1
        /\ Append(z, x)[n + 1] = x /\ \A i \in 1 .. n : Append(z, x)[i] = z[i]
    BY <1>1
  <2>3. u \in Seq(Int) /\ Len(u) = n + 1
    BY <2>1, <2>2, TermsType
  <2>4. v \in Seq(Int) /\ Len(v) = n + 1 /\ v[n + 1] = last /\ \A i \in 1 .. n : v[i] = s[i]
    BY <1>4, <1>6, <2>1
  <2>5. \A i \in 1 .. n + 1 :
          u[i] = Append(z, x)[i] * Power(RsiPeriod, i - 1) * Power(b, (n + 1) - i)
    BY <1>1, <2>1, <2>2 DEF Terms
  <2>6. \A i \in 1 .. n : t[i] = z[i] * Power(RsiPeriod, i - 1) * Power(b, n - i)
    BY <1>1 DEF Terms
  <2>7. u[n + 1] = v[n + 1]
    <3>1. Power(b, 0) = 1
      BY <1>2, PowerUnfolds
    <3>2. (n + 1) - (n + 1) = 0 /\ (n + 1) - 1 = n /\ n + 1 \in 1 .. n + 1
      BY <1>2
    <3>3. u[n + 1] = x * Power(RsiPeriod, n) * 1
      BY <2>2, <2>5, <3>1, <3>2
    <3>. QED BY <1>5, <1>6, <2>4, <3>3
  <2>8. ASSUME NEW i \in 1 .. n PROVE u[i] = v[i]
    <3>1. PICK j \in Nat : n = i + j
      <4>1. n - i \in Nat /\ n = i + (n - i)
        BY <1>2
      <4>. QED BY <4>1
    <3>2. n - i = j /\ (n + 1) - i = j + 1 /\ i - 1 \in Nat
      BY <1>2, <3>1
    <3>3. Power(b, j + 1) = b * Power(b, j)
      BY <1>2, PowerUnfolds
    <3>4. PICK q, r, y : q = Power(RsiPeriod, i - 1) /\ r = Power(b, j) /\ y = z[i]
      OBVIOUS
    <3>. q \in Int /\ r \in Int
      BY <1>1, <3>2, <3>4, Weights
    <3>5. y \in Int
      BY <1>1, <3>4, ElementOfSeq
    <3>6. t[i] = y * q * r /\ u[i] = y * q * (b * r)
      BY SMTT(30), <1>2, <2>2, <2>5, <2>6, <3>2, <3>3, <3>4
    <3>7. v[i] = b * t[i]
      BY <1>2, <1>3, <2>4
    <3>8. y * q * (b * r) = b * (y * q * r)
      BY <1>2, <3>5
    <3>. QED BY <3>6, <3>7, <3>8
  <2>9. \A i \in 1 .. n + 1 : u[i] = v[i]
    BY <1>2, <2>7, <2>8
  <2>. QED BY <2>1, <2>3, <2>4, <2>9, SeqEqual
<1>8. SumFunction(s) = b * SumFunction(t) /\ SumFunction(t) \in Int
  BY <1>2, <1>3, SumOfScaled, SumIsInt
<1>9. SumFunction(Append(s, last)) = SumFunction(s) + last
  BY <1>4, <1>6, SumOfAppended
<1>10. b * SumFunction(t) = SumFunction(t) * b
  BY <1>2, <1>8
<1>. QED BY <1>1, <1>5, <1>7, <1>8, <1>9, <1>10

\* The changes of a sequence of prices, those that are smoothed, and Wilder of
\* them.
ChangesOf(fed) == [i \in 1 .. Len(fed) - 1 |-> fed[i + 1] - fed[i]]
Smoothed(changes) == SubSeq(changes, RsiPeriod, Len(changes))
Sizes(sign, s) == [i \in 1 .. Len(s) |-> Size(sign, s[i])]
WilderOf(sign, fed) == SumFunction(Terms(Sizes(sign, Smoothed(ChangesOf(fed)))))

LEMMA ChangesType ==
  ASSUME NEW fed \in Seq(Nat)
  PROVE  /\ ChangesOf(fed) \in Seq(Int)
         /\ Len(ChangesOf(fed)) = IF fed = <<>> THEN 0 ELSE Len(fed) - 1
<1>1. CASE fed = <<>>
  <2>1. ChangesOf(fed) = <<>>
    BY <1>1 DEF ChangesOf
  <2>. QED BY <1>1, <2>1, EmptySeq
<1>2. CASE fed # <<>>
  <2>1. Len(fed) - 1 \in Nat
    BY <1>2
  <2>2. \A i \in 1 .. Len(fed) - 1 : fed[i + 1] - fed[i] \in Int
    OBVIOUS
  <2>. QED BY <1>2, <2>1, <2>2 DEF ChangesOf
<1>. QED BY <1>1, <1>2

LEMMA SmoothedType ==
  ASSUME NEW ch \in Seq(Int)
  PROVE  /\ Smoothed(ch) \in Seq(Int)
         /\ Len(ch) + 1 >= RsiPeriod => Len(Smoothed(ch)) = Len(ch) + 1 - RsiPeriod
<1>1. CASE Len(ch) + 1 >= RsiPeriod
  BY <1>1, Constants DEF Smoothed
<1>2. CASE ~ (Len(ch) + 1 >= RsiPeriod)
  BY <1>2, Constants DEF Smoothed
<1>. QED BY <1>1, <1>2

LEMMA SizesType ==
  ASSUME NEW sign \in {1, -1}, NEW s \in Seq(Int)
  PROVE  Sizes(sign, s) \in Seq(Nat) /\ Len(Sizes(sign, s)) = Len(s)
<1>1. \A i \in 1 .. Len(s) : Size(sign, s[i]) \in Nat
  BY DEF Size
<1>. QED BY <1>1 DEF Sizes

LEMMA WilderIsWilderOf ==
  ASSUME rsiFed \in Seq(Nat), NEW sign \in {1, -1}
  PROVE  Wilder(sign) = WilderOf(sign, rsiFed)
<1>1. PICK s, z : s = Smoothed(ChangesOf(rsiFed)) /\ z = Sizes(sign, s)
  OBVIOUS
<1>2. s \in Seq(Int) /\ Len(z) = Len(s)
  BY <1>1, ChangesType, SmoothedType, SizesType
<1>3. \A i \in 1 .. Len(s) : z[i] = IF sign * s[i] > 0 THEN sign * s[i] ELSE 0
  BY <1>1 DEF Sizes, Size
<1>4. PICK t : t = [i \in 1 .. Len(s) |->
          (IF sign * s[i] > 0 THEN sign * s[i] ELSE 0)
            * Power(RsiPeriod, i - 1) * Power(RsiPeriod - 1, Len(s) - i)]
  OBVIOUS
<1>5. t = Terms(z)
  BY <1>2, <1>3, <1>4 DEF Terms
<1>6. s = SubSeq(Changes, RsiPeriod, Len(Changes))
  BY <1>1 DEF Changes, ChangesOf, Smoothed
<1>7. Wilder(sign) = SumFunction(t)
  BY <1>4, <1>6 DEF Wilder
<1>. QED BY <1>1, <1>5, <1>7 DEF WilderOf

\* Before there are enough changes the average is 0; each one after counts.
LEMMA WilderOfFew ==
  ASSUME NEW sign \in {1, -1}, NEW fed \in Seq(Nat), Len(fed) = RsiPeriod
  PROVE  WilderOf(sign, fed) = 0
<1>1. PICK s, z : s = Smoothed(ChangesOf(fed)) /\ z = Sizes(sign, s)
  OBVIOUS
<1>2. fed # <<>>
  BY Constants
<1>3. ChangesOf(fed) \in Seq(Int) /\ Len(ChangesOf(fed)) + 1 = RsiPeriod
  BY <1>2, ChangesType, Constants
<1>. s \in Seq(Int) /\ Len(s) = 0
  BY <1>1, <1>3, SmoothedType, Constants
<1>4. Len(z) = 0
  BY <1>1, SizesType
<1>5. Terms(z) = <<>>
  BY <1>4 DEF Terms
<1>. QED BY <1>1, <1>5, SumOfEmpty DEF WilderOf

LEMMA WilderOfMore ==
  ASSUME NEW sign \in {1, -1}, NEW fed \in Seq(Nat), Len(fed) >= RsiPeriod,
         NEW price \in Nat
  PROVE  WilderOf(sign, Append(fed, price)) =
           WilderOf(sign, fed) * (RsiPeriod - 1)
             + Size(sign, price - fed[Len(fed)]) * Power(RsiPeriod, Len(fed) - RsiPeriod)
<1>1. PICK n, more, c : /\ n = Len(fed) /\ more = Append(fed, price)
                        /\ c = price - fed[n]
  OBVIOUS
<1>2. /\ n \in Nat /\ n > 0 /\ n >= RsiPeriod /\ more \in Seq(Nat) /\ Len(more) = n + 1
      /\ c \in Int /\ more[n + 1] = price /\ \A i \in 1 .. n : more[i] = fed[i]
  BY <1>1, Constants
<1>3. PICK ch : ch = ChangesOf(fed)
  OBVIOUS
<1>4. ch \in Seq(Int) /\ Len(ch) = n - 1
  BY <1>1, <1>2, <1>3, ChangesType
<1>5. ChangesOf(more) = Append(ch, c)
  <2>1. PICK u, v : u = ChangesOf(more) /\ v = Append(ch, c)
    OBVIOUS
  <2>2. more # <<>>
    BY <1>2
  <2>3. u \in Seq(Int) /\ Len(u) = n
    BY <1>2, <2>1, <2>2, ChangesType
  <2>4. v \in Seq(Int) /\ Len(v) = n /\ v[n] = c /\ \A i \in 1 .. n - 1 : v[i] = ch[i]
    BY <1>2, <1>4, <2>1
  <2>5. \A i \in 1 .. n : u[i] = more[i + 1] - more[i]
    BY <1>2, <2>1 DEF ChangesOf
  <2>6. \A i \in 1 .. n - 1 : ch[i] = fed[i + 1] - fed[i]
    BY <1>1, <1>3 DEF ChangesOf
  <2>7. u[n] = v[n]
    BY <1>1, <1>2, <2>4, <2>5
  <2>8. ASSUME NEW i \in 1 .. n - 1 PROVE u[i] = v[i]
    <3>1. i \in 1 .. n /\ i + 1 \in 1 .. n
      BY <1>2
    <3>2. more[i] = fed[i] /\ more[i + 1] = fed[i + 1]
      BY <1>2, <3>1
    <3>. QED BY <2>4, <2>5, <2>6, <3>1, <3>2
  <2>9. \A i \in 1 .. n : u[i] = v[i]
    BY <1>2, <2>7, <2>8
  <2>. QED BY <2>1, <2>3, <2>4, <2>9, SeqEqual
<1>6. PICK s : s = Smoothed(ch)
  OBVIOUS
<1>7. s \in Seq(Int) /\ Len(s) = n - RsiPeriod
  <2>1. Len(ch) + 1 = n /\ Len(ch) + 1 >= RsiPeriod
    BY <1>2, <1>4
  <2>2. s \in Seq(Int) /\ Len(s) = Len(ch) + 1 - RsiPeriod
    BY <1>4, <1>6, <2>1, SmoothedType
  <2>. QED BY <1>2, <1>4, <2>1, <2>2, Constants
<1>8. Smoothed(Append(ch, c)) = Append(s, c)
  <2>1. PICK d, u, v : d = Append(ch, c) /\ u = Smoothed(d) /\ v = Append(s, c)
    OBVIOUS
  <2>2. /\ d \in Seq(Int) /\ Len(d) = n /\ d[n] = c
        /\ \A i \in 1 .. n - 1 : d[i] = ch[i]
    BY <1>2, <1>4, <2>1
  <2>. u \in Seq(Int) /\ Len(u) = n - RsiPeriod + 1
    <3>1. Len(d) + 1 >= RsiPeriod /\ Len(d) + 1 - RsiPeriod = n - RsiPeriod + 1
      BY <1>2, <2>2, Constants
    <3>. QED BY <2>1, <2>2, <3>1, SmoothedType
  <2>3. \A i \in 1 .. n - RsiPeriod + 1 : u[i] = d[RsiPeriod + i - 1]
    <3>1. u = SubSeq(d, RsiPeriod, n)
      BY <2>1, <2>2 DEF Smoothed
    <3>. QED BY <1>2, <2>2, <3>1, Constants
  <2>4. /\ v \in Seq(Int) /\ Len(v) = n - RsiPeriod + 1 /\ v[n - RsiPeriod + 1] = c
        /\ \A i \in 1 .. n - RsiPeriod : v[i] = s[i]
    BY <1>2, <1>7, <2>1
  <2>5. \A i \in 1 .. n - RsiPeriod : s[i] = ch[RsiPeriod + i - 1]
    BY <1>2, <1>4, <1>6, Constants DEF Smoothed
  <2>6. u[n - RsiPeriod + 1] = c
    <3>1. PICK j : j = n - RsiPeriod + 1
      OBVIOUS
    <3>2. j \in 1 .. n - RsiPeriod + 1 /\ RsiPeriod + j - 1 = n
      BY <1>2, <3>1, Constants
    <3>. QED BY <2>2, <2>3, <3>1, <3>2
  <2>7. ASSUME NEW i \in 1 .. n - RsiPeriod PROVE u[i] = v[i]
    <3>1. i \in 1 .. n - RsiPeriod + 1 /\ RsiPeriod + i - 1 \in 1 .. n - 1
      BY <1>2, Constants
    <3>. QED BY <2>2, <2>3, <2>4, <2>5, <3>1
  <2>8. ASSUME NEW i \in 1 .. n - RsiPeriod + 1 PROVE u[i] = v[i]
    <3>1. i \in 1 .. n - RsiPeriod \/ i = n - RsiPeriod + 1
      BY <1>2, Constants
    <3>. QED BY <2>4, <2>6, <2>7, <3>1
  <2>. QED BY <2>1, <2>3, <2>4, <2>8, SeqEqual
<1>9. PICK z, x : z = Sizes(sign, s) /\ x = Size(sign, c)
  OBVIOUS
<1>10. z \in Seq(Nat) /\ Len(z) = n - RsiPeriod /\ x \in Nat
  BY <1>2, <1>7, <1>9, SizesType DEF Size
<1>11. Sizes(sign, Append(s, c)) = Append(z, x)
  <2>1. PICK u, v : u = Sizes(sign, Append(s, c)) /\ v = Append(z, x)
    OBVIOUS
  <2>2. Append(s, c) \in Seq(Int) /\ Len(Append(s, c)) = Len(s) + 1
    BY <1>2, <1>7
  <2>3. u \in Seq(Nat) /\ Len(u) = Len(s) + 1
    BY <2>1, <2>2, SizesType
  <2>4. /\ v \in Seq(Nat) /\ Len(v) = Len(s) + 1 /\ v[Len(s) + 1] = x
        /\ \A i \in 1 .. Len(s) : v[i] = z[i]
    BY <1>7, <1>10, <2>1
  <2>5. \A i \in 1 .. Len(s) + 1 : u[i] = Size(sign, Append(s, c)[i])
    BY <2>1, <2>2 DEF Sizes
  <2>6. \A i \in 1 .. Len(s) : z[i] = Size(sign, s[i])
    BY <1>9 DEF Sizes
  <2>7. ASSUME NEW i \in 1 .. Len(s) PROVE u[i] = v[i]
    <3>1. i \in 1 .. Len(s) + 1 /\ Append(s, c)[i] = s[i]
      BY <1>2, <1>7
    <3>. QED BY <2>4, <2>5, <2>6, <3>1
  <2>8. u[Len(s) + 1] = v[Len(s) + 1]
    BY <1>7, <1>9, <2>4, <2>5
  <2>9. \A i \in 1 .. Len(s) + 1 : u[i] = v[i]
    BY <1>7, <2>7, <2>8
  <2>. QED BY <2>1, <2>3, <2>4, <2>9, SeqEqual
<1>12. WilderOf(sign, more) = SumFunction(Terms(Append(z, x)))
  BY <1>3, <1>5, <1>8, <1>11 DEF WilderOf
<1>13. WilderOf(sign, fed) = SumFunction(Terms(z))
  BY <1>3, <1>6, <1>9 DEF WilderOf
<1>14. WilderOf(sign, more) =
         WilderOf(sign, fed) * (RsiPeriod - 1) + x * Power(RsiPeriod, n - RsiPeriod)
  BY <1>10, <1>12, <1>13, TermsSmooth
<1>. QED BY <1>1, <1>9, <1>14

-----------------------------------------------------------------------------
(* The RSI.                                                                *)

RsiType ==
  /\ rsiFed \in Seq(Nat) /\ prices_seen_ = Len(rsiFed)
  /\ prev_price_ \in Nat /\ initial_changes_ \in Seq(Int)
  /\ prices_seen_ > 0 => prev_price_ = rsiFed[prices_seen_]
  /\ avg_gain_ \in Nat /\ avg_loss_ \in Nat /\ scale \in Nat \ {0}
  /\ rsi_ \in Nat \X (Nat \ {0})

\* The averages start from 0 with the RsiPeriod-th price, and are Wilder's from
\* there on; scale is their common denominator.
WilderInv ==
  /\ prices_seen_ =< RsiPeriod => avg_gain_ = 0 /\ avg_loss_ = 0 /\ scale = 1
  /\ prices_seen_ >= RsiPeriod =>
       /\ avg_gain_ = WilderOf(1, rsiFed) /\ avg_loss_ = WilderOf(-1, rsiFed)
       /\ scale = Power(RsiPeriod, prices_seen_ - RsiPeriod)

\* What the averages are while the prices go one way only.
TrendInv ==
  /\ prices_seen_ > RsiPeriod => rsi_ = RsiOf(avg_gain_, avg_loss_)
  /\ (\A i \in 1 .. Len(rsiFed) - 1 : rsiFed[i + 1] >= rsiFed[i]) => avg_loss_ = 0
  /\ (\A i \in 1 .. Len(rsiFed) - 1 : rsiFed[i + 1] < rsiFed[i]) =>
       avg_gain_ = 0 /\ (prices_seen_ > RsiPeriod => avg_loss_ > 0)

RsiInv == RsiType /\ WilderInv /\ TrendInv

\* The branch of the seed is not reached: a step of UpdateRsi changes the
\* averages only by smoothing.
LEMMA NoSeed ==
  ASSUME RsiInv, NEW price \in Nat, UpdateRsi(price)
  PROVE  /\ rsiFed' = Append(rsiFed, price) /\ prices_seen_' = prices_seen_ + 1
         /\ prev_price_' = price /\ initial_changes_' \in Seq(Int)
         /\ prices_seen_ < RsiPeriod => UNCHANGED <<avg_gain_, avg_loss_, scale, rsi_>>
         /\ prices_seen_ >= RsiPeriod => Smooth(price - prev_price_)
<1>1. /\ prices_seen_ \in Nat /\ prev_price_ \in Nat /\ initial_changes_ \in Seq(Int)
  BY DEF RsiInv, RsiType
<1>2. PICK change, seen : change = price - prev_price_ /\ seen = prices_seen_ + 1
  OBVIOUS
<1>3. change \in Int /\ seen \in Nat
  BY <1>1, <1>2
<1>4. /\ rsiFed' = Append(rsiFed, price) /\ prices_seen_' = prices_seen_ + 1
      /\ prev_price_' = price
  BY DEF UpdateRsi
<1>5. CASE seen = 1 /\ UNCHANGED <<initial_changes_, avg_gain_, avg_loss_, scale, rsi_>>
  BY <1>1, <1>2, <1>4, <1>5, Constants
<1>6. CASE seen > 1 /\ seen =< RsiPeriod /\ Collect(change)
  <2>1. prices_seen_ + 1 # RsiPeriod + 1
    BY <1>1, <1>2, <1>6, Constants
  <2>2. initial_changes_' = Append(initial_changes_, change)
          /\ UNCHANGED <<avg_gain_, avg_loss_, scale, rsi_>>
    BY <1>6, <2>1 DEF Collect
  <2>3. initial_changes_' \in Seq(Int)
    BY <1>1, <1>3, <2>2
  <2>4. prices_seen_ < RsiPeriod
    BY <1>1, <1>2, <1>6, Constants
  <2>. QED BY <1>1, <1>4, <2>2, <2>3, <2>4, Constants
<1>7. CASE seen > 1 /\ seen > RsiPeriod /\ Smooth(change)
  <2>1. prices_seen_ >= RsiPeriod
    BY <1>1, <1>2, <1>7, Constants
  <2>2. initial_changes_' = initial_changes_
    BY <1>7 DEF Smooth
  <2>. QED BY <1>1, <1>2, <1>4, <1>7, <2>1, <2>2, Constants
<1>8. \/ seen = 1 /\ UNCHANGED <<initial_changes_, avg_gain_, avg_loss_, scale, rsi_>>
      \/ seen > 1 /\ seen =< RsiPeriod /\ Collect(change)
      \/ seen > 1 /\ seen > RsiPeriod /\ Smooth(change)
  BY <1>2 DEF UpdateRsi
<1>. QED BY <1>5, <1>6, <1>7, <1>8

LEMMA RsiOfType ==
  ASSUME NEW gain \in Nat, NEW loss \in Nat
  PROVE  /\ RsiOf(gain, loss) \in Nat \X (Nat \ {0})
         /\ loss = 0 => RsiOf(gain, loss) = Hundred
         /\ loss # 0 /\ gain = 0 => RsiOf(gain, loss)[1] = 0
BY DEF RsiOf, Hundred

LEMMA SmoothType ==
  ASSUME RsiType, NEW change \in Int, Smooth(change)
  PROVE  /\ avg_gain_' = avg_gain_ * (RsiPeriod - 1) + Gain(change) * scale
         /\ avg_loss_' = avg_loss_ * (RsiPeriod - 1) + Loss(change) * scale
         /\ scale' = scale * RsiPeriod
         /\ Gain(change) \in Nat /\ Loss(change) \in Nat
         /\ avg_gain_' \in Nat /\ avg_loss_' \in Nat /\ scale' \in Nat \ {0}
         /\ rsi_' = RsiOf(avg_gain_', avg_loss_') /\ rsi_' \in Nat \X (Nat \ {0})
<1>1. /\ avg_gain_' = avg_gain_ * (RsiPeriod - 1) + Gain(change) * scale
      /\ avg_loss_' = avg_loss_ * (RsiPeriod - 1) + Loss(change) * scale
      /\ scale' = scale * RsiPeriod
      /\ rsi_' = RsiOf(avg_gain_', avg_loss_')
  BY DEF Smooth
<1>2. Gain(change) \in Nat /\ Loss(change) \in Nat
  BY DEF Gain, Loss
<1>3. /\ \A a, b \in Nat : a * b \in Nat
      /\ \A a, b \in Nat \ {0} : a * b \in Nat \ {0}
  OBVIOUS
<1>4. /\ avg_gain_ \in Nat /\ avg_loss_ \in Nat /\ RsiPeriod - 1 \in Nat
      /\ scale \in Nat \ {0} /\ scale \in Nat /\ RsiPeriod \in Nat \ {0}
  BY Constants DEF RsiType
<1>5. /\ avg_gain_ * (RsiPeriod - 1) \in Nat /\ avg_loss_ * (RsiPeriod - 1) \in Nat
      /\ Gain(change) * scale \in Nat /\ Loss(change) * scale \in Nat
      /\ scale * RsiPeriod \in Nat \ {0}
  BY <1>2, <1>3, <1>4
<1>6. avg_gain_' \in Nat /\ avg_loss_' \in Nat /\ scale' \in Nat \ {0}
  BY <1>1, <1>5
<1>. QED BY <1>1, <1>2, <1>6, RsiOfType

LEMMA RsiTypeKept ==
  ASSUME RsiInv, NEW price \in Nat, UpdateRsi(price)
  PROVE  RsiType'
<1>1. RsiType /\ prices_seen_ \in Nat
  BY DEF RsiInv, RsiType
<1>2. /\ rsiFed' \in Seq(Nat) /\ prices_seen_' = Len(rsiFed') /\ prev_price_' \in Nat
      /\ prev_price_' = rsiFed'[prices_seen_'] /\ initial_changes_' \in Seq(Int)
  <2>1. PICK fed, more : fed = rsiFed /\ more = Append(fed, price)
    OBVIOUS
  <2>2. fed \in Seq(Nat) /\ prices_seen_ = Len(fed)
    BY <1>1, <2>1 DEF RsiType
  <2>3. more \in Seq(Nat) /\ Len(more) = Len(fed) + 1 /\ more[Len(fed) + 1] = price
    BY <2>1, <2>2
  <2>. QED BY <2>1, <2>2, <2>3, NoSeed
<1>3. CASE prices_seen_ < RsiPeriod
  BY <1>1, <1>2, <1>3, NoSeed DEF RsiType
<1>4. CASE prices_seen_ >= RsiPeriod
  <2>1. Smooth(price - prev_price_) /\ price - prev_price_ \in Int
    BY <1>1, <1>4, NoSeed DEF RsiType
  <2>. QED BY <1>1, <1>2, <2>1, SmoothType DEF RsiType
<1>. QED BY <1>1, <1>3, <1>4, Constants

LEMMA WilderKept ==
  ASSUME RsiInv, NEW price \in Nat, UpdateRsi(price)
  PROVE  WilderInv'
<1>1. PICK n, fed, more : n = prices_seen_ /\ fed = rsiFed /\ more = Append(rsiFed, price)
  OBVIOUS
<1>2. /\ RsiType /\ n \in Nat /\ fed \in Seq(Nat) /\ n = Len(fed) /\ prices_seen_' = n + 1
      /\ rsiFed' = more /\ more \in Seq(Nat) /\ Len(more) = n + 1
  <2>1. RsiType /\ rsiFed' = Append(rsiFed, price) /\ prices_seen_' = prices_seen_ + 1
    BY NoSeed DEF RsiInv
  <2>2. fed \in Seq(Nat) /\ n = Len(fed)
    BY <1>1, <2>1 DEF RsiType
  <2>3. n \in Nat /\ more \in Seq(Nat) /\ Len(more) = n + 1
    BY <1>1, <2>2
  <2>. QED BY <1>1, <2>1, <2>2, <2>3
<1>3. CASE n < RsiPeriod
  <2>1. avg_gain_' = 0 /\ avg_loss_' = 0 /\ scale' = 1
    BY <1>1, <1>2, <1>3, NoSeed, Constants DEF RsiInv, WilderInv
  <2>2. CASE n + 1 = RsiPeriod
    <3>1. WilderOf(1, more) = 0 /\ WilderOf(-1, more) = 0
      BY <1>2, <2>2, WilderOfFew
    <3>2. Power(RsiPeriod, 0) = 1
      BY Constants, PowerUnfolds
    <3>4. /\ WilderOf(1, rsiFed)' = 0 /\ WilderOf(-1, rsiFed)' = 0
      BY <1>2, <3>1
    <3>5. Power(RsiPeriod, prices_seen_ - RsiPeriod)' = 1
      <4>1. PICK k : k = prices_seen_'
        OBVIOUS
      <4>2. k - RsiPeriod = 0
        BY <1>2, <2>2, <4>1, Constants
      <4>3. Power(RsiPeriod, k - RsiPeriod) = 1
        BY <3>2, <4>2
      <4>. QED BY <4>1, <4>3
    <3>. QED BY <1>2, <2>1, <3>4, <3>5 DEF WilderInv
  <2>3. CASE n + 1 < RsiPeriod
    BY <1>2, <2>1, <2>3, Constants DEF WilderInv
  <2>. QED BY <1>2, <1>3, <2>2, <2>3, Constants
<1>4. CASE n >= RsiPeriod
  <2>1. PICK c : c = price - prev_price_
    OBVIOUS
  <2>2. Smooth(c) /\ c \in Int
    BY <1>1, <1>2, <1>4, <2>1, NoSeed DEF RsiType
  <2>3. prev_price_ = fed[Len(fed)]
    BY <1>1, <1>2, <1>4, Constants DEF RsiType
  <2>4. PICK w : w = Power(RsiPeriod, n - RsiPeriod)
    OBVIOUS
  <2>5. scale = w /\ avg_gain_ = WilderOf(1, fed) /\ avg_loss_ = WilderOf(-1, fed)
    BY <1>1, <1>4, <2>4 DEF RsiInv, WilderInv
  <2>6. /\ WilderOf(1, more) = WilderOf(1, fed) * (RsiPeriod - 1) + Size(1, c) * w
        /\ WilderOf(-1, more) = WilderOf(-1, fed) * (RsiPeriod - 1) + Size(-1, c) * w
    BY <1>1, <1>2, <1>4, <2>1, <2>3, <2>4, WilderOfMore
  <2>7. Size(1, c) = Gain(c) /\ Size(-1, c) = Loss(c)
    BY <2>2 DEF Size, Gain, Loss
  <2>8. avg_gain_' = WilderOf(1, more) /\ avg_loss_' = WilderOf(-1, more)
    BY <1>2, <2>2, <2>5, <2>6, <2>7, SmoothType
  <2>9. PICK m : m = n + 1
    OBVIOUS
  <2>10. scale' = Power(RsiPeriod, m - RsiPeriod)
    <3>1. PICK k \in Nat : n = RsiPeriod + k
      <4>1. n - RsiPeriod \in Nat /\ n = RsiPeriod + (n - RsiPeriod)
        BY <1>2, <1>4, Constants
      <4>. QED BY <4>1
    <3>2. n - RsiPeriod = k /\ m - RsiPeriod = k + 1
      BY <2>9, <3>1, Constants
    <3>3. Power(RsiPeriod, k + 1) = RsiPeriod * Power(RsiPeriod, k)
      BY Constants, PowerUnfolds
    <3>4. scale' = scale * RsiPeriod /\ scale \in Int /\ RsiPeriod \in Int
      BY <1>2, <2>2, SmoothType, Constants DEF RsiType
    <3>5. scale * RsiPeriod = RsiPeriod * scale
      BY <3>4
    <3>. QED BY <2>4, <2>5, <3>2, <3>3, <3>4, <3>5
  <2>11. Power(RsiPeriod, prices_seen_ - RsiPeriod)' = Power(RsiPeriod, m - RsiPeriod)
    <3>1. prices_seen_' = m
      BY <1>2, <2>9
    <3>. QED BY <3>1
  <2>12. (prices_seen_ =< RsiPeriod)' = FALSE
    BY <1>2, <1>4, Constants
  <2>13. /\ WilderOf(1, rsiFed)' = WilderOf(1, more)
         /\ WilderOf(-1, rsiFed)' = WilderOf(-1, more)
    BY <1>2
  <2>. QED BY <2>8, <2>10, <2>11, <2>12, <2>13 DEF WilderInv
<1>. QED BY <1>2, <1>3, <1>4, Constants

LEMMA TrendKept ==
  ASSUME RsiInv, NEW price \in Nat, UpdateRsi(price)
  PROVE  TrendInv'
<1>1. PICK n, fed, more : n = prices_seen_ /\ fed = rsiFed /\ more = Append(rsiFed, price)
  OBVIOUS
<1>2. /\ RsiType /\ n \in Nat /\ fed \in Seq(Nat) /\ n = Len(fed) /\ prices_seen_' = n + 1
      /\ rsiFed' = more /\ more \in Seq(Nat) /\ Len(more) = n + 1 /\ more[n + 1] = price
      /\ \A i \in 1 .. n : more[i] = fed[i]
  <2>1. RsiType /\ rsiFed' = Append(rsiFed, price) /\ prices_seen_' = prices_seen_ + 1
    BY NoSeed DEF RsiInv
  <2>2. fed \in Seq(Nat) /\ n = Len(fed)
    BY <1>1, <2>1 DEF RsiType
  <2>3. /\ n \in Nat /\ more \in Seq(Nat) /\ Len(more) = n + 1 /\ more[n + 1] = price
        /\ \A i \in 1 .. n : more[i] = fed[i]
    BY <1>1, <2>2
  <2>. QED BY <1>1, <2>1, <2>2, <2>3
<1>3. CASE n < RsiPeriod
  <2>1. avg_gain_ = 0 /\ avg_loss_ = 0 /\ UNCHANGED <<avg_gain_, avg_loss_>>
    BY <1>1, <1>2, <1>3, NoSeed, Constants DEF RsiInv, WilderInv
  <2>. QED BY <1>2, <1>3, <2>1, Constants DEF TrendInv
<1>4. CASE n >= RsiPeriod
  <2>1. PICK c : c = price - prev_price_
    OBVIOUS
  <2>2. Smooth(c) /\ c \in Int
    BY <1>1, <1>2, <1>4, <2>1, NoSeed DEF RsiType
  <2>3. n \in 1 .. n /\ n > 0 /\ c = more[n + 1] - more[n]
    BY <1>1, <1>2, <1>4, <2>1, Constants DEF RsiType
  <2>4. \A i \in 1 .. n - 1 : more[i] = fed[i] /\ more[i + 1] = fed[i + 1]
    BY <1>2
  <2>5. /\ avg_gain_ \in Nat /\ avg_loss_ \in Nat /\ scale \in Nat /\ scale > 0
        /\ price \in Nat
    BY <1>2 DEF RsiType
  <2>. more[n] \in Nat
    <3>1. n \in 1 .. Len(more)
      BY <1>2, <2>3
    <3>. QED BY <1>2, <3>1, ElementOfSeq
  <2>6. ASSUME \A i \in 1 .. n : more[i + 1] >= more[i] PROVE avg_loss_' = 0
    <3>1. \A i \in 1 .. Len(rsiFed) - 1 : rsiFed[i + 1] >= rsiFed[i]
      BY <1>1, <1>2, <2>4, <2>6
    <3>2. avg_loss_ = 0
      BY <3>1 DEF RsiInv, TrendInv
    <3>3. Loss(c) = 0
      <4>1. more[n + 1] >= more[n]
        BY <2>3, <2>6
      <4>. QED BY <1>2, <2>3, <2>5, <4>1 DEF Loss
    <3>. QED BY <1>2, <2>2, <2>5, <3>2, <3>3, SmoothType, Constants
  <2>7. ASSUME \A i \in 1 .. n : more[i + 1] < more[i] PROVE avg_gain_' = 0 /\ avg_loss_' > 0
    <3>1. \A i \in 1 .. Len(rsiFed) - 1 : rsiFed[i + 1] < rsiFed[i]
      BY <1>1, <1>2, <2>4, <2>7
    <3>2. avg_gain_ = 0
      BY <3>1 DEF RsiInv, TrendInv
    <3>3. Gain(c) = 0 /\ Loss(c) \in Nat \ {0}
      <4>1. more[n + 1] < more[n]
        BY <2>3, <2>7
      <4>2. c < 0
        BY <1>2, <2>3, <2>5, <4>1
      <4>. QED BY <2>2, <4>2 DEF Loss, Gain
    <3>4. avg_gain_' = 0
      BY <1>2, <2>2, <2>5, <3>2, <3>3, SmoothType, Constants
    <3>5. Loss(c) * scale > 0 /\ Loss(c) * scale \in Int
      BY <2>5, <3>3
    <3>6. avg_loss_ * (RsiPeriod - 1) \in Nat
      <4>1. RsiPeriod - 1 \in Nat /\ \A a, b \in Nat : a * b \in Nat
        BY Constants
      <4>. QED BY <2>5, <4>1
    <3>. QED BY <1>2, <2>2, <3>4, <3>5, <3>6, SmoothType
  <2>8. rsi_' = RsiOf(avg_gain_', avg_loss_')
    BY <1>2, <2>2, SmoothType
  <2>9. Len(rsiFed') - 1 = n
    BY <1>2
  <2>. QED BY <1>2, <2>6, <2>7, <2>8, <2>9 DEF TrendInv, RsiOf
<1>. QED BY <1>2, <1>3, <1>4, Constants

-----------------------------------------------------------------------------
(* The VWAP.                                                               *)

IsExact == owner = "batch" \/ \A i \in 1 .. Len(weighed) :
                                weighed[i].volume = Narrow(weighed[i].volume)
Volumes(taken) == [i \in 1 .. Len(taken) |-> taken[i].volume]

\* Some tick taken bounds the average from below, some from above; and the
\* volumes are those of the feed, while an int holds them.
VwapInv ==
  /\ owner \in {"stream", "batch"}
  /\ weighed \in Seq(Bar)
  /\ cumulative_tp_volume_ \in Nat /\ cumulative_volume_ \in Nat
  /\ weighed # <<>> =>
       /\ \E i \in 1 .. Len(weighed) :
            ThriceTypical(weighed[i]) * cumulative_volume_ =< cumulative_tp_volume_
       /\ \E i \in 1 .. Len(weighed) :
            cumulative_tp_volume_ =< ThriceTypical(weighed[i]) * cumulative_volume_
  /\ weighed = <<>> => cumulative_volume_ = 0 /\ cumulative_tp_volume_ = 0
  /\ IsExact => cumulative_volume_ = SumFunction(Volumes(weighed))

\* The tick further from the average than the others, or the new one.
LEMMA LowerBound ==
  ASSUME NEW low \in Nat, NEW vol \in Nat, NEW tp \in Nat, low * vol =< tp,
         NEW t \in Nat, NEW v \in Nat, v > 0
  PROVE  low * (vol + v) =< tp + t * v \/ t * (vol + v) =< tp + t * v
<1>1. CASE low =< t
  <2>1. low * v =< t * v
    BY <1>1
  <2>2. low * (vol + v) = low * vol + low * v
    OBVIOUS
  <2>. QED BY <2>1, <2>2
<1>2. CASE t < low
  <2>1. t * vol =< low * vol
    BY <1>2
  <2>2. t * (vol + v) = t * vol + t * v
    OBVIOUS
  <2>. QED BY <2>1, <2>2
<1>. QED BY <1>1, <1>2

LEMMA UpperBound ==
  ASSUME NEW high \in Nat, NEW vol \in Nat, NEW tp \in Nat, tp =< high * vol,
         NEW t \in Nat, NEW v \in Nat, v > 0
  PROVE  tp + t * v =< high * (vol + v) \/ tp + t * v =< t * (vol + v)
<1>1. CASE t =< high
  <2>1. t * v =< high * v
    BY <1>1
  <2>2. high * (vol + v) = high * vol + high * v
    OBVIOUS
  <2>. QED BY <2>1, <2>2
<1>2. CASE high < t
  <2>1. high * vol =< t * vol
    BY <1>2
  <2>2. t * (vol + v) = t * vol + t * v
    OBVIOUS
  <2>. QED BY <2>1, <2>2
<1>. QED BY <1>1, <1>2

LEMMA NarrowType == ASSUME NEW v \in Int PROVE Narrow(v) \in Int
<1>1. PICK half : half = IntRange \div 2
  OBVIOUS
<1>2. half \in Int
  BY <1>1, Constants
<1>3. v + half \in Int /\ (v + half) % IntRange \in Int
  BY <1>2, Constants
<1>. QED BY <1>1, <1>2, <1>3 DEF Narrow

LEMMA VwapKept ==
  ASSUME VwapInv, NEW bar \in Bar, UpdateVwap(bar), UNCHANGED owner
  PROVE  VwapInv'
<1>1. PICK taken, vol, tp : /\ taken = weighed /\ vol = cumulative_volume_
                            /\ tp = cumulative_tp_volume_
  OBVIOUS
<1>2. taken \in Seq(Bar) /\ vol \in Nat /\ tp \in Nat
  BY <1>1 DEF VwapInv
<1>3. CASE ~ Usable(bar)
  BY <1>3 DEF UpdateVwap, VwapInv, vwap, IsExact
<1>4. CASE Usable(bar)
  <2>1. PICK t, v, more : /\ t = ThriceTypical(bar) /\ v = VolumeOf(bar)
                          /\ more = Append(taken, bar)
    OBVIOUS
  <2>2. /\ weighed' = more /\ cumulative_volume_' = vol + v
        /\ cumulative_tp_volume_' = tp + t * v
    BY <1>1, <1>4, <2>1 DEF UpdateVwap
  <2>3. bar.volume \in Int /\ t \in Nat
    BY <2>1, BarType DEF ThriceTypical
  <2>4. v \in Nat /\ v > 0
    <3>1. v \in Int
      BY <2>1, <2>3, NarrowType DEF VolumeOf
    <3>. QED BY <1>4, <2>1, <3>1 DEF Usable
  <2>5. /\ more \in Seq(Bar) /\ more # <<>> /\ Len(more) = Len(taken) + 1
        /\ more[Len(more)] = bar /\ Len(more) \in 1 .. Len(more)
        /\ \A i \in 1 .. Len(taken) : i \in 1 .. Len(more) /\ more[i] = taken[i]
    BY <1>2, <2>1
  <2>6. vol + v \in Nat /\ tp + t * v \in Nat
    BY <1>2, <2>3, <2>4
  <2>7. \E i \in 1 .. Len(more) : ThriceTypical(more[i]) * (vol + v) =< tp + t * v
    <3>1. CASE taken = <<>>
      <4>1. vol = 0 /\ tp = 0
        BY <1>1, <3>1 DEF VwapInv
      <4>2. t * (vol + v) =< tp + t * v
        BY <2>3, <2>4, <4>1
      <4>. QED BY <2>1, <2>5, <4>2
    <3>2. CASE taken # <<>>
      <4>1. PICK i \in 1 .. Len(taken) : ThriceTypical(taken[i]) * vol =< tp
        BY <1>1, <3>2 DEF VwapInv
      <4>2. PICK low : low = ThriceTypical(taken[i])
        OBVIOUS
      <4>3. low \in Nat
        BY <1>2, <4>2, BarType, ElementOfSeq DEF ThriceTypical
      <4>4. low * (vol + v) =< tp + t * v \/ t * (vol + v) =< tp + t * v
        BY <1>2, <2>3, <2>4, <4>1, <4>2, <4>3, LowerBound
      <4>. QED BY <2>1, <2>5, <4>2, <4>4
    <3>. QED BY <3>1, <3>2
  <2>8. \E i \in 1 .. Len(more) : tp + t * v =< ThriceTypical(more[i]) * (vol + v)
    <3>1. CASE taken = <<>>
      <4>1. vol = 0 /\ tp = 0
        BY <1>1, <3>1 DEF VwapInv
      <4>2. tp + t * v =< t * (vol + v)
        BY <2>3, <2>4, <4>1
      <4>. QED BY <2>1, <2>5, <4>2
    <3>2. CASE taken # <<>>
      <4>1. PICK i \in 1 .. Len(taken) : tp =< ThriceTypical(taken[i]) * vol
        BY <1>1, <3>2 DEF VwapInv
      <4>2. PICK high : high = ThriceTypical(taken[i])
        OBVIOUS
      <4>3. high \in Nat
        BY <1>2, <4>2, BarType, ElementOfSeq DEF ThriceTypical
      <4>4. tp + t * v =< high * (vol + v) \/ tp + t * v =< t * (vol + v)
        BY <1>2, <2>3, <2>4, <4>1, <4>2, <4>3, UpperBound
      <4>. QED BY <2>1, <2>5, <4>2, <4>4
    <3>. QED BY <3>1, <3>2
  <2>9. ASSUME IsExact' PROVE cumulative_volume_' = SumFunction(Volumes(more))
    <3>1. IsExact /\ v = bar.volume
      <4>1. CASE owner = "batch"
        BY <2>1, <4>1 DEF IsExact, VolumeOf
      <4>2. CASE owner # "batch"
        <5>1. \A i \in 1 .. Len(more) : more[i].volume = Narrow(more[i].volume)
          BY <2>2, <2>9, <4>2 DEF IsExact
        <5>2. \A i \in 1 .. Len(taken) : taken[i].volume = Narrow(taken[i].volume)
          BY <2>5, <5>1
        <5>3. bar.volume = Narrow(bar.volume)
          BY <2>5, <5>1
        <5>. QED BY <1>1, <2>1, <4>2, <5>2, <5>3 DEF IsExact, VolumeOf, VwapInv
      <4>. QED BY <4>1, <4>2
    <3>2. vol = SumFunction(Volumes(taken))
      BY <1>1, <3>1 DEF VwapInv
    <3>3. Volumes(taken) \in Seq(Int)
      <4>1. \A i \in 1 .. Len(taken) : taken[i].volume \in Int
        BY <1>2, BarType, ElementOfSeq
      <4>. QED BY <1>2, <4>1 DEF Volumes
    <3>4. Volumes(more) = Append(Volumes(taken), bar.volume)
      <4>1. Volumes(more) = [i \in 1 .. Len(taken) + 1 |-> more[i].volume]
        BY <2>5 DEF Volumes
      <4>2. Append(Volumes(taken), bar.volume) =
              [i \in 1 .. Len(taken) + 1 |->
                 IF i = Len(taken) + 1 THEN bar.volume ELSE taken[i].volume]
        BY <1>2, <2>3, <3>3 DEF Volumes
      <4>3. \A i \in 1 .. Len(taken) + 1 : more[i].volume =
              IF i = Len(taken) + 1 THEN bar.volume ELSE taken[i].volume
        BY <1>2, <2>5
      <4>. QED BY <4>1, <4>2, <4>3
    <3>. QED BY <2>2, <2>3, <3>1, <3>2, <3>3, <3>4, SumOfAppended
  <2>10. owner' \in {"stream", "batch"}
    BY DEF VwapInv
  <2>. QED BY <2>2, <2>5, <2>6, <2>7, <2>8, <2>9, <2>10 DEF VwapInv
<1>. QED BY <1>3, <1>4

-----------------------------------------------------------------------------
(* The invariant.                                                          *)

IInv == WindowInv /\ RsiInv /\ VwapInv /\ updates \in 0 .. MaxUpdates

LEMMA InvInit == Init => IInv
<1> SUFFICES ASSUME Init PROVE IInv
  OBVIOUS
<1>1. <<>> \in Seq(Nat) /\ <<>> \in Seq(Int) /\ <<>> \in Seq(Bar) /\ Len(<<>>) = 0
  BY EmptySeq
<1>2. WindowInv
  BY <1>1, SumOfEmpty, Constants DEF Init, WindowInv, IsLatest
<1>3. RsiType
  BY <1>1 DEF Init, RsiType, Zero
<1>4. WilderInv
  BY <1>1, Constants DEF Init, WilderInv
<1>5. TrendInv
  BY <1>1, Constants DEF Init, TrendInv
<1>6. VwapInv
  <2>1. Volumes(<<>>) = <<>>
    BY DEF Volumes
  <2>. QED BY <1>1, <2>1, SumOfEmpty DEF Init, VwapInv
<1>. QED BY <1>2, <1>3, <1>4, <1>5, <1>6, Constants DEF IInv, RsiInv, Init

LEMMA WindowSame == WindowInv /\ UNCHANGED sma => WindowInv'
BY DEF WindowInv, IsLatest, sma

LEMMA RsiSame == RsiInv /\ UNCHANGED rsi => RsiInv'
<1> SUFFICES ASSUME RsiInv, UNCHANGED rsi PROVE RsiInv'
  OBVIOUS
<1>1. /\ UNCHANGED <<prices_seen_, prev_price_, initial_changes_, avg_gain_, avg_loss_>>
      /\ UNCHANGED <<scale, rsi_, rsiFed>>
  BY DEF rsi
<1>2. RsiType'
  BY <1>1 DEF RsiInv, RsiType
<1>3. WilderInv'
  BY <1>1 DEF RsiInv, WilderInv
<1>4. TrendInv'
  BY <1>1 DEF RsiInv, TrendInv
<1>. QED BY <1>2, <1>3, <1>4 DEF RsiInv

LEMMA VwapSame == VwapInv /\ UNCHANGED <<owner, vwap>> => VwapInv'
BY DEF VwapInv, vwap, IsExact

LEMMA InvNext == IInv /\ [Next]_vars => IInv'
<1> SUFFICES ASSUME IInv, [Next]_vars PROVE IInv'
  OBVIOUS
<1>0. WindowInv /\ RsiInv /\ VwapInv /\ updates \in 0 .. MaxUpdates
  BY DEF IInv
<1>1. ASSUME NEW bar \in Bar, Update(bar) PROVE IInv'
  <2>1. bar.price \in Nat
    BY BarType
  <2>2. UpdateSma(bar.price) /\ UpdateRsi(bar.price) /\ UpdateVwap(bar) /\ UNCHANGED owner
    BY <1>1 DEF Update
  <2>3. WindowInv'
    BY <1>0, <2>1, <2>2, WindowKept
  <2>4. RsiInv'
    BY <1>0, <2>1, <2>2, RsiTypeKept, WilderKept, TrendKept DEF RsiInv
  <2>5. VwapInv'
    BY <1>0, <2>2, VwapKept
  <2>6. updates' \in 0 .. MaxUpdates
    BY <1>0, <1>1, Constants DEF Update
  <2>. QED BY <2>3, <2>4, <2>5, <2>6 DEF IInv
<1>2. CASE ResetSma
  <2>1. RsiInv' /\ VwapInv' /\ updates' \in 0 .. MaxUpdates
    BY <1>0, <1>2, RsiSame, VwapSame DEF ResetSma
  <2>2. WindowInv'
    BY <1>2, SumOfEmpty, EmptySeq, Constants DEF ResetSma, WindowInv, IsLatest
  <2>. QED BY <2>1, <2>2 DEF IInv
<1>3. CASE ResetRsi
  <2>1. WindowInv' /\ VwapInv' /\ updates' \in 0 .. MaxUpdates
    BY <1>0, <1>3, WindowSame, VwapSame DEF ResetRsi
  <2>2. RsiType'
    BY <1>3, EmptySeq DEF ResetRsi, RsiType, Zero
  <2>3. WilderInv' /\ TrendInv'
    BY <1>3, Constants DEF ResetRsi, WilderInv, TrendInv
  <2>. QED BY <2>1, <2>2, <2>3 DEF IInv, RsiInv
<1>4. CASE ResetVwap
  <2>1. WindowInv' /\ RsiInv' /\ updates' \in 0 .. MaxUpdates
    BY <1>0, <1>4, WindowSame, RsiSame DEF ResetVwap
  <2>2. Volumes(<<>>) = <<>>
    BY DEF Volumes
  <2>3. VwapInv'
    BY <1>0, <1>4, <2>2, SumOfEmpty, EmptySeq DEF ResetVwap, VwapInv
  <2>. QED BY <2>1, <2>3 DEF IInv
<1>5. CASE UNCHANGED vars
  BY <1>0, <1>5, WindowSame, RsiSame, VwapSame DEF vars, IInv
<1>. QED BY <1>1, <1>2, <1>3, <1>4, <1>5 DEF Next

LEMMA InvHolds == Spec => []IInv
BY InvInit, InvNext, PTL DEF Spec

-----------------------------------------------------------------------------
(* What the invariant says of the properties.                              *)

LEMMA InvType == IInv => TypeOK
<1> SUFFICES ASSUME IInv PROVE TypeOK
  OBVIOUS
<1>1. /\ window_ \in Seq(Nat) /\ Len(window_) =< SmaPeriod /\ running_sum_ \in Nat
      /\ smaFed \in Seq(Nat)
  BY WindowType DEF IInv
<1>2. /\ prices_seen_ \in Nat /\ prev_price_ \in Nat /\ initial_changes_ \in Seq(Int)
      /\ avg_gain_ \in Nat /\ avg_loss_ \in Nat /\ scale \in Nat \ {0}
      /\ rsi_ \in Nat \X (Nat \ {0}) /\ rsiFed \in Seq(Nat)
  BY DEF IInv, RsiInv, RsiType
<1>3. /\ owner \in {"stream", "batch"} /\ weighed \in Seq(Bar)
      /\ cumulative_tp_volume_ \in Nat /\ cumulative_volume_ \in Nat
  BY DEF IInv, VwapInv
<1>. QED BY <1>1, <1>2, <1>3 DEF TypeOK, IInv

(***************************************************************************)
(* For every period and every feed, with as many resets as there may be:   *)
(* the window of a moving average is that of the last SmaPeriod prices,    *)
(* and the sum that update() keeps by adding and subtracting is theirs.    *)
(***************************************************************************)
THEOREM SmaIsAverage == Spec => []SmaIsWindowAverage
<1>1. IInv => SmaIsWindowAverage
  <2> SUFFICES ASSUME IInv PROVE SmaIsWindowAverage
    OBVIOUS
  <2>1. PICK last : last = SubSeq(smaFed,
                      IF Len(smaFed) > SmaPeriod THEN Len(smaFed) - SmaPeriod + 1 ELSE 1,
                      Len(smaFed))
    OBVIOUS
  <2>2. window_ = last
    BY <2>1, LatestIsSubSeq DEF IInv, WindowInv
  <2>3. running_sum_ = SumFunction(last)
    BY <2>2 DEF IInv, WindowInv
  <2>. QED BY <2>1, <2>2, <2>3, InvType DEF SmaIsWindowAverage
<1>. QED BY <1>1, InvHolds, PTL

(***************************************************************************)
(* For every period and every feed: the code that seeds the RSI with the   *)
(* mean of the first changes is never reached, and once is_ready() its     *)
(* averages are Wilder's of the later changes, started from 0.             *)
(***************************************************************************)
THEOREM RsiStartsFromZero == Spec => []RsiIsUnseeded
<1>1. IInv => RsiIsUnseeded
  <2> SUFFICES ASSUME IInv, prices_seen_ > RsiPeriod PROVE RsiIsUnseeded
    BY DEF RsiIsUnseeded
  <2>1. /\ RsiType /\ WilderInv /\ TrendInv /\ rsiFed \in Seq(Nat)
        /\ avg_gain_ \in Nat /\ avg_loss_ \in Nat /\ prices_seen_ \in Nat
    BY DEF IInv, RsiInv, RsiType
  <2>2. avg_gain_ = Wilder(1) /\ avg_loss_ = Wilder(-1)
    BY <2>1, WilderIsWilderOf, Constants DEF WilderInv
  <2>3. rsi_ = RsiOf(avg_gain_, avg_loss_)
    BY <2>1 DEF TrendInv
  <2>4. DOMAIN Changes = 1 .. Len(rsiFed) - 1
    BY DEF Changes
  <2>5. \A i \in 1 .. Len(rsiFed) - 1 : /\ rsiFed[i] \in Nat /\ rsiFed[i + 1] \in Nat
                                        /\ Changes[i] = rsiFed[i + 1] - rsiFed[i]
    BY <2>1, ElementOfSeq DEF Changes
  <2>6. ASSUME \A i \in DOMAIN Changes : Changes[i] >= 0 PROVE rsi_ = Hundred
    <3>1. ASSUME NEW i \in 1 .. Len(rsiFed) - 1 PROVE rsiFed[i + 1] >= rsiFed[i]
      <4>1. rsiFed[i + 1] - rsiFed[i] >= 0
        BY <2>4, <2>5, <2>6
      <4>. QED BY <2>5, <4>1
    <3>. QED BY <2>1, <2>3, <3>1, RsiOfType DEF TrendInv
  <2>7. ASSUME \A i \in DOMAIN Changes : Changes[i] < 0 PROVE rsi_[1] = 0
    <3>1. ASSUME NEW i \in 1 .. Len(rsiFed) - 1 PROVE rsiFed[i + 1] < rsiFed[i]
      <4>1. rsiFed[i + 1] - rsiFed[i] < 0
        BY <2>4, <2>5, <2>7
      <4>. QED BY <2>5, <4>1
    <3>2. avg_gain_ = 0 /\ avg_loss_ > 0
      BY <2>1, <3>1 DEF TrendInv
    <3>3. avg_loss_ # 0
      BY <2>1, <3>2
    <3>. QED BY <2>1, <2>3, <3>2, <3>3, RsiOfType
  <2>. QED BY <2>2, <2>6, <2>7 DEF RsiIsUnseeded
<1>. QED BY <1>1, InvHolds, PTL

(***************************************************************************)
(* For every feed and every width of an int: the VWAP lies between two of  *)
(* the typical prices it has taken, and is weighted by the volumes of the  *)
(* feed in a batch, and in the stream while each of them fits in an int.   *)
(***************************************************************************)
THEOREM VwapIsAverage == Spec => []VwapIsWeightedAverage
<1>1. VwapInv => VwapIsWeightedAverage
  <2> SUFFICES ASSUME VwapInv PROVE VwapIsWeightedAverage
    OBVIOUS
  <2>1. PICK taken, typical : /\ taken = 1 .. Len(weighed)
                              /\ typical = {ThriceTypical(weighed[i]) : i \in taken}
    OBVIOUS
  <2>2. ASSUME weighed # <<>>
        PROVE  /\ \E low \in typical : low * cumulative_volume_ =< cumulative_tp_volume_
               /\ \E high \in typical : cumulative_tp_volume_ =< high * cumulative_volume_
    BY <2>1, <2>2 DEF VwapInv
  <2>3. ASSUME \/ owner = "batch"
               \/ \A i \in taken : weighed[i].volume = Narrow(weighed[i].volume)
        PROVE  cumulative_volume_ = SumFunction([i \in taken |-> weighed[i].volume])
    BY <2>1, <2>3 DEF VwapInv, IsExact, Volumes
  <2>. QED BY <2>1, <2>2, <2>3 DEF VwapIsWeightedAverage
<1>. QED BY <1>1, InvHolds, PTL DEF IInv
=============================================================================
