------------------------- MODULE StockBalanceProofs -------------------------
(***************************************************************************)
(* For every set of handlers, lots, boxes and requests: the ledger is well *)
(* typed, and every balance is the sum of its movements but for what       *)
(* damage markings have counted and not recorded.                          *)
(*                                                                         *)
(* Sums are folds over sets.  That their recursion is well founded, and    *)
(* the order of summation of no matter, is proved first; the inductions    *)
(* are over sets (the elements that satisfy the claim), so that no theorem *)
(* has to be instantiated with an operator.                                *)
(***************************************************************************)
EXTENDS StockLedgerProofs, FiniteSetTheorems, WellFoundedInduction

-----------------------------------------------------------------------------
(* Sums over finite sets.                                                  *)

(* A set that has 0, and n + 1 with n, has the naturals.                   *)
LEMMA NatInduces ==
  ASSUME NEW P, 0 \in P, \A n \in Nat : n \in P => n + 1 \in P
  PROVE  Nat \subseteq P
<1>1. IsWellFoundedOn(OpToRel(<, Nat), Nat)
  BY NatLessThanWellFounded
<1> DEFINE T == {n \in Nat : n \notin P}
<1> SUFFICES ASSUME T # {} PROVE FALSE
  OBVIOUS
<1>2. PICK x \in T : \A y \in T : ~(<<y, x>> \in OpToRel(<, Nat))
  BY <1>1, WFMin
<1>3. \A y \in Nat : y < x => y \in P
  BY <1>2 DEF OpToRel
<1> QED BY <1>3

(* A set that has a subset of S if it has what remains when any element is *)
(* taken out of that, has S and all its subsets.                           *)
LEMMA SubsetInduces ==
  ASSUME NEW S, IsFiniteSet(S), NEW P,
         \A T \in SUBSET S : (\A x \in T : T \ {x} \in P) => T \in P
  PROVE  SUBSET S \subseteq P
<1>1. /\ IsWellFoundedOn(StrictSubsetOrdering(S), FiniteSubsetsOf(S))
      /\ FiniteSubsetsOf(S) = SUBSET S
  BY FS_StrictSubsetOrderingWellFounded, FS_FiniteSubsetsOfFinite
<1> DEFINE Q == {T \in SUBSET S : T \notin P}
<1> SUFFICES ASSUME Q # {} PROVE FALSE
  OBVIOUS
<1>2. Q \subseteq FiniteSubsetsOf(S)
  BY <1>1
<1>3. PICK T \in Q : \A U \in Q : ~(<<U, T>> \in StrictSubsetOrdering(S))
  <2> HIDE DEF Q
  <2> QED BY <1>1, <1>2, WFMin
<1>4. ASSUME NEW x \in T PROVE T \ {x} \in P
  <2>1. <<T \ {x}, T>> \in StrictSubsetOrdering(S)
    BY DEF StrictSubsetOrdering
  <2> QED BY <1>3, <2>1
<1> QED BY <1>4

\* The recursion of a sum: take out an element and add it to the sum of the others.
Ch(s) == CHOOSE x \in s : TRUE
Body(f, g, s) == IF s = {} THEN 0 ELSE f[Ch(s)] + g[s \ {Ch(s)}]
Fix(f, D, g) == g = [s \in D |-> Body(f, g, s)]

(* A sum is the value for S of a function that satisfies the recursion.    *)
LEMMA SumIter ==
  ASSUME NEW f, NEW S
  PROVE  SumFunctionOnSet(f, S) = (CHOOSE g : Fix(f, SUBSET S, g))[S]
BY DEF SumFunctionOnSet, FoldFunctionOnSet, MapThenFoldSet, Fix, Body, Ch

(* Such a function exists: one for the subsets of at most n elements gives *)
(* one for those of n + 1.                                                 *)
LEMMA FixExists ==
  ASSUME NEW f, NEW S, IsFiniteSet(S)
  PROVE  Fix(f, SUBSET S, CHOOSE g : Fix(f, SUBSET S, g))
<1> DEFINE Sized(n) == {s \in SUBSET S : Cardinality(s) <= n}
           P == {n \in Nat : \E g : Fix(f, Sized(n), g)}
<1>1. \A s \in SUBSET S : IsFiniteSet(s) /\ Cardinality(s) \in Nat /\ Cardinality(s) <= Cardinality(S)
  BY FS_Subset, FS_CardinalityType
<1>2. 0 \in P
  <2>1. Sized(0) = {{}}
    BY <1>1, FS_EmptySet
  <2> DEFINE g == [s \in {{}} |-> 0]
  <2>2. g = [s \in {{}} |-> Body(f, g, s)]
    BY DEF Body
  <2> HIDE DEF Sized
  <2>3. Fix(f, Sized(0), g)
    BY <2>1, <2>2 DEF Fix
  <2> QED BY <2>3
<1>3. ASSUME NEW n \in Nat, n \in P PROVE n + 1 \in P
  <2>1. PICK g : Fix(f, Sized(n), g)
    BY <1>3
  <2> DEFINE h == [s \in Sized(n + 1) |-> Body(f, g, s)]
  <2>2. ASSUME NEW s \in Sized(n + 1) PROVE Body(f, h, s) = Body(f, g, s)
    <3>1. CASE s = {}
      BY <3>1 DEF Body
    <3>2. CASE s # {}
      <4> DEFINE t == s \ {Ch(s)}
      <4>1. Ch(s) \in s
        BY <3>2 DEF Ch
      <4>2. t \in Sized(n)
        BY <1>1, <4>1, FS_RemoveElement
      <4>3. t \in Sized(n + 1)
        BY <1>1, <4>2
      <4> HIDE DEF Sized, t
      <4>4. h[t] = Body(f, g, t) /\ g[t] = Body(f, g, t)
        BY <2>1, <4>2, <4>3 DEF Fix
      <4> HIDE DEF h
      <4> QED BY <3>2, <4>4 DEF Body, t
    <3> QED BY <3>1, <3>2
  <2> HIDE DEF Sized
  <2>3. h = [s \in Sized(n + 1) |-> Body(f, h, s)]
    BY <2>2
  <2> HIDE DEF h
  <2>4. Fix(f, Sized(n + 1), h)
    BY <2>3 DEF Fix
  <2> QED BY <2>4
<1>4. Cardinality(S) \in P
  <2> HIDE DEF P
  <2>1. Nat \subseteq P
    BY <1>2, <1>3, NatInduces
  <2> QED BY <1>1, <2>1
<1>5. Sized(Cardinality(S)) = SUBSET S
  BY <1>1
<1> HIDE DEF Sized
<1>6. \E g : Fix(f, SUBSET S, g)
  BY <1>4, <1>5
<1> QED BY <1>6

(* Two of them agree where both are defined, if they sum the same values.  *)
LEMMA FixUnique ==
  ASSUME NEW f, NEW g, NEW S, IsFiniteSet(S), NEW D, NEW a, NEW E, NEW b,
         SUBSET S \subseteq D, SUBSET S \subseteq E, Fix(f, D, a), Fix(g, E, b),
         \A x \in S : f[x] = g[x]
  PROVE  a[S] = b[S]
<1> DEFINE P == {T \in SUBSET S : a[T] = b[T]}
<1>1. ASSUME NEW T \in SUBSET S, \A x \in T : T \ {x} \in P PROVE T \in P
  <2>1. a[T] = Body(f, a, T) /\ b[T] = Body(g, b, T)
    BY DEF Fix
  <2>2. CASE T = {}
    BY <2>1, <2>2 DEF Body
  <2>3. CASE T # {}
    <3>1. Ch(T) \in T
      BY <2>3 DEF Ch
    <3>2. a[T \ {Ch(T)}] = b[T \ {Ch(T)}] /\ f[Ch(T)] = g[Ch(T)]
      BY <1>1, <3>1
    <3> QED BY <2>1, <2>3, <3>2 DEF Body
  <2> QED BY <2>2, <2>3
<1>2. SUBSET S \subseteq P
  <2> HIDE DEF P
  <2> QED BY <1>1, SubsetInduces
<1> QED BY <1>2

(* The recursion holds of sums.                                            *)
LEMMA SumStep ==
  ASSUME NEW f, NEW S, IsFiniteSet(S)
  PROVE  SumFunctionOnSet(f, S) =
           IF S = {} THEN 0 ELSE f[Ch(S)] + SumFunctionOnSet(f, S \ {Ch(S)})
<1> DEFINE It(T) == CHOOSE g : Fix(f, SUBSET T, g)
           T == S \ {Ch(S)}
<1>1. IsFiniteSet(T)
  BY FS_RemoveElement
<1>2. Fix(f, SUBSET S, It(S)) /\ Fix(f, SUBSET T, It(T))
  BY <1>1, FixExists
<1>3. SumFunctionOnSet(f, S) = It(S)[S] /\ SumFunctionOnSet(f, T) = It(T)[T]
  BY SumIter
<1> HIDE DEF It
<1>4. It(S)[T] = It(T)[T]
  BY <1>1, <1>2, FixUnique
<1>5. It(S)[S] = Body(f, It(S), S)
  BY <1>2 DEF Fix
<1> QED BY <1>3, <1>4, <1>5 DEF Body

(* The sum of nothing is 0.                                                *)
LEMMA SumEmpty == \A f : SumFunctionOnSet(f, {}) = 0
  BY SumStep, FS_EmptySet

(* Sums of equal values are equal.                                         *)
LEMMA SumSame ==
  ASSUME NEW f, NEW g, NEW S, IsFiniteSet(S), \A x \in S : f[x] = g[x]
  PROVE  SumFunctionOnSet(f, S) = SumFunctionOnSet(g, S)
<1>1. /\ Fix(f, SUBSET S, CHOOSE h : Fix(f, SUBSET S, h))
      /\ Fix(g, SUBSET S, CHOOSE h : Fix(g, SUBSET S, h))
  BY FixExists
<1> QED BY <1>1, FixUnique, SumIter

(* Sums of integers are integers.                                          *)
LEMMA SumInt ==
  ASSUME NEW f, NEW S, IsFiniteSet(S), \A x \in S : f[x] \in Int
  PROVE  SumFunctionOnSet(f, S) \in Int
<1> DEFINE P == {T \in SUBSET S : SumFunctionOnSet(f, T) \in Int}
<1>1. ASSUME NEW T \in SUBSET S, \A x \in T : T \ {x} \in P PROVE T \in P
  <2>1. IsFiniteSet(T)
    BY FS_Subset
  <2>2. SumFunctionOnSet(f, T) =
          IF T = {} THEN 0 ELSE f[Ch(T)] + SumFunctionOnSet(f, T \ {Ch(T)})
    BY <2>1, SumStep
  <2>3. T # {} => Ch(T) \in T
    BY DEF Ch
  <2> QED BY <1>1, <2>2, <2>3
<1>2. SUBSET S \subseteq P
  <2> HIDE DEF P
  <2> QED BY <1>1, SubsetInduces
<1> QED BY <1>2

(* Any element may be taken out first: the order of summation does not     *)
(* matter.                                                                 *)
LEMMA SumTake ==
  ASSUME NEW f, NEW S, IsFiniteSet(S), \A x \in S : f[x] \in Int, NEW x \in S
  PROVE  SumFunctionOnSet(f, S) = f[x] + SumFunctionOnSet(f, S \ {x})
<1> DEFINE Sum(T) == SumFunctionOnSet(f, T)
           P == {T \in SUBSET S : \A z \in T : Sum(T) = f[z] + Sum(T \ {z})}
<1>1. \A T \in SUBSET S : IsFiniteSet(T)
  BY FS_Subset
<1>2. ASSUME NEW T \in SUBSET S PROVE Sum(T) \in Int
  BY <1>1, SumInt
<1>3. ASSUME NEW T \in SUBSET S, \A z \in T : T \ {z} \in P PROVE T \in P
  <2>1. Sum(T) = IF T = {} THEN 0 ELSE f[Ch(T)] + Sum(T \ {Ch(T)})
    BY <1>1, SumStep
  <2>2. ASSUME NEW z \in T PROVE Sum(T) = f[z] + Sum(T \ {z})
    <3>1. PICK y \in T : Sum(T) = f[y] + Sum(T \ {y})
      BY <2>1 DEF Ch
    <3>2. CASE z = y
      BY <3>1, <3>2
    <3>3. CASE z # y
      <4>1. Sum(T \ {y}) = f[z] + Sum((T \ {y}) \ {z})
        BY <1>3, <3>1, <3>3
      <4>2. Sum(T \ {z}) = f[y] + Sum((T \ {z}) \ {y})
        BY <1>3, <3>1, <3>3
      <4>3. (T \ {z}) \ {y} = (T \ {y}) \ {z}
        OBVIOUS
      <4>4. PICK a \in Int : a = Sum((T \ {y}) \ {z})
        BY <1>2
      <4>5. Sum(T \ {y}) = f[z] + a /\ Sum(T \ {z}) = f[y] + a
        BY <4>1, <4>2, <4>3, <4>4
      <4>6. PICK b \in Int : b = f[y]
        OBVIOUS
      <4>7. PICK c \in Int : c = f[z]
        OBVIOUS
      <4>8. Sum(T) = b + (c + a) /\ Sum(T \ {z}) = b + a
        BY <3>1, <4>5, <4>6, <4>7
      <4>9. b + (c + a) = c + (b + a)
        OBVIOUS
      <4> QED BY <4>7, <4>8, <4>9
    <3> QED BY <3>2, <3>3
  <2> QED BY <2>2
<1>4. SUBSET S \subseteq P
  <2> HIDE DEF P
  <2> QED BY <1>3, SubsetInduces
<1> QED BY <1>4

(* One more element adds its value.                                        *)
LEMMA SumAdd ==
  ASSUME NEW f, NEW S, IsFiniteSet(S), NEW x, x \notin S, \A y \in S \cup {x} : f[y] \in Int
  PROVE  SumFunctionOnSet(f, S \cup {x}) = f[x] + SumFunctionOnSet(f, S)
<1>1. IsFiniteSet(S \cup {x}) /\ (S \cup {x}) \ {x} = S
  BY FS_AddElement
<1> QED BY <1>1, SumTake

(* Disjoint sets add up.                                                   *)
LEMMA SumJoin ==
  ASSUME NEW f, NEW S, NEW T, IsFiniteSet(S), IsFiniteSet(T), S \cap T = {},
         \A x \in S \cup T : f[x] \in Int
  PROVE  SumFunctionOnSet(f, S \cup T) = SumFunctionOnSet(f, S) + SumFunctionOnSet(f, T)
<1> DEFINE Sum(U) == SumFunctionOnSet(f, U)
           P == {U \in SUBSET T : Sum(S \cup U) = Sum(S) + Sum(U)}
<1>0. \A U \in SUBSET T : IsFiniteSet(U) /\ IsFiniteSet(S \cup U)
  BY FS_Subset, FS_Union
<1>1. ASSUME NEW U \in SUBSET T, \A x \in U : U \ {x} \in P PROVE U \in P
  <2>1. CASE U = {}
    <3>1. S \cup U = S
      BY <2>1
    <3>2. Sum(U) = 0 /\ Sum(S) \in Int
      BY <2>1, SumEmpty, SumInt
    <3>3. Sum(S \cup U) = Sum(S) + Sum(U)
      <4>1. Sum(S \cup U) = Sum(S)
        BY <3>1, Zenon
      <4> QED BY <3>2, <4>1
    <3> QED BY <3>3
  <2>2. CASE U # {}
    <3>1. PICK x \in U : TRUE
      BY <2>2
    <3>0. /\ IsFiniteSet(U) /\ IsFiniteSet(S \cup U) /\ IsFiniteSet(U \ {x})
          /\ x \in S \cup U
          /\ \A y \in S \cup U : f[y] \in Int
      BY <1>0, <3>1
    <3>2. Sum(U) = f[x] + Sum(U \ {x}) /\ Sum(U \ {x}) \in Int
      BY <3>0, <3>1, SumTake, SumInt
    <3>3. Sum(S \cup U) = f[x] + Sum((S \cup U) \ {x})
      BY <3>0, SumTake
    <3>4. (S \cup U) \ {x} = S \cup (U \ {x})
      BY <3>1
    <3>5. Sum(S \cup (U \ {x})) = Sum(S) + Sum(U \ {x})
      BY <1>1, <3>1
    <3>6. Sum(S) \in Int /\ f[x] \in Int
      BY <3>1, SumInt
    <3>7. PICK a \in Int : a = Sum(S)
      BY <3>6
    <3>8. PICK b \in Int : b = Sum(U \ {x})
      BY <3>2
    <3>9. Sum(S \cup U) = f[x] + (a + b) /\ Sum(U) = f[x] + b
      BY <3>2, <3>3, <3>4, <3>5, <3>7, <3>8
    <3>10. Sum(S \cup U) = Sum(S) + Sum(U)
      BY <3>6, <3>7, <3>9
    <3> QED BY <3>10
  <2> QED BY <2>1, <2>2
<1>2. SUBSET T \subseteq P
  <2> HIDE DEF P
  <2> QED BY <1>1, SubsetInduces
<1> QED BY <1>2

(* Elements may be renamed.                                                *)
LEMMA SumImage ==
  ASSUME NEW m, NEW f, NEW g, NEW S, IsFiniteSet(S),
         \A i, j \in S : m[i] = m[j] => i = j,
         \A i \in S : f[m[i]] = g[i] /\ g[i] \in Int
  PROVE  /\ IsFiniteSet({m[i] : i \in S})
         /\ SumFunctionOnSet(f, {m[i] : i \in S}) = SumFunctionOnSet(g, S)
<1> DEFINE Up(T) == {m[i] : i \in T}
           P == {T \in SUBSET S : /\ IsFiniteSet(Up(T))
                                  /\ SumFunctionOnSet(f, Up(T)) = SumFunctionOnSet(g, T)}
<1>1. ASSUME NEW T \in SUBSET S, \A x \in T : T \ {x} \in P PROVE T \in P
  <2>0. IsFiniteSet(T)
    BY FS_Subset
  <2>1. CASE T = {}
    <3>1. Up(T) = {}
      BY <2>1
    <3> QED BY <2>1, <3>1, SumEmpty, FS_EmptySet
  <2>2. CASE T # {}
    <3>1. PICK x \in T : TRUE
      BY <2>2
    <3>2. /\ Up(T) = Up(T \ {x}) \cup {m[x]} /\ m[x] \notin Up(T \ {x})
          /\ \A y \in Up(T) : f[y] \in Int
      BY <3>1
    <3>3. /\ IsFiniteSet(Up(T \ {x}))
          /\ SumFunctionOnSet(f, Up(T \ {x})) = SumFunctionOnSet(g, T \ {x})
      BY <1>1, <3>1
    <3> HIDE DEF Up
    <3>4. SumFunctionOnSet(f, Up(T)) = f[m[x]] + SumFunctionOnSet(f, Up(T \ {x}))
      BY <3>2, <3>3, SumAdd
    <3>5. SumFunctionOnSet(g, T) = g[x] + SumFunctionOnSet(g, T \ {x})
      <4>1. \A y \in T : g[y] \in Int
        OBVIOUS
      <4> HIDE DEF P
      <4>2. x \in T
        OBVIOUS
      <4> QED BY <2>0, <4>2, <4>1, SumTake
    <3>6. IsFiniteSet(Up(T))
      <4>1. IsFiniteSet(Up(T \ {x}) \cup {m[x]})
        BY <3>3, FS_AddElement
      <4> QED BY <3>2, <4>1
    <3> QED BY <3>1, <3>3, <3>4, <3>5, <3>6
  <2> QED BY <2>1, <2>2
<1>2. SUBSET S \subseteq P
  <2> HIDE DEF P
  <2> QED BY <1>1, SubsetInduces
<1> QED BY <1>2

-----------------------------------------------------------------------------
(* What movements add to a box.                                            *)

Signs == {OnHandSign, ReservedSign}

(* A movement has a place and an integer effect.                           *)
LEMMA LegEffect ==
  ASSUME NEW leg \in Leg, NEW sign \in Signs
  PROVE  /\ leg.lot \in Lots /\ leg.qty \in Int /\ BoxOf(leg) \in Places
         /\ Effect(sign, leg) \in Int
<1>1. /\ leg.lot \in Lots /\ leg.qty \in Int /\ leg.to \in Places /\ leg.from \in Places
      /\ leg.type \in {"inbound", "outbound", "reservation", "release", "adjustment"}
  BY DEF Leg, OnHandSign
<1>2. sign[leg.type] \in Int
  BY <1>1 DEF Signs, OnHandSign, ReservedSign
<1>3. Effect(sign, leg) \in Int
  BY <1>1, <1>2 DEF Effect
<1> QED BY <1>1, <1>3 DEF BoxOf

(* The movements of a box are finitely many, and their values integers.    *)
LEMMA TotalTerms ==
  ASSUME NEW s \in Seq(Movement), NEW l, NEW b, NEW sign \in Signs
  PROVE  /\ IsFiniteSet(At(s, l, b))
         /\ \A i \in At(s, l, b) : Effect(sign, s[i].leg) \in Int
         /\ Total(s, l, b, sign) =
              SumFunctionOnSet([i \in At(s, l, b) |-> Effect(sign, s[i].leg)], At(s, l, b))
<1>1. DOMAIN s = 1 .. Len(s) /\ Len(s) \in Nat
  OBVIOUS
<1>2. IsFiniteSet(DOMAIN s)
  BY <1>1, FS_Interval
<1>3. At(s, l, b) \subseteq DOMAIN s
  BY DEF At
<1>4. IsFiniteSet(At(s, l, b))
  BY <1>2, <1>3, FS_Subset
<1>5. ASSUME NEW i \in At(s, l, b) PROVE s[i].leg \in Leg
  <2>1. s[i] \in Movement
    BY <1>1, <1>3
  <2> QED BY <2>1 DEF Movement
<1>6. \A i \in At(s, l, b) : Effect(sign, s[i].leg) \in Int
  BY <1>5, LegEffect
<1> QED BY <1>4, <1>6 DEF Total, SumFunction

(* Totals are integers.                                                    *)
LEMMA TotalInt ==
  ASSUME NEW s \in Seq(Movement), NEW l, NEW b, NEW sign \in Signs
  PROVE  Total(s, l, b, sign) \in Int
<1> DEFINE f == [i \in At(s, l, b) |-> Effect(sign, s[i].leg)]
<1>1. /\ IsFiniteSet(At(s, l, b)) /\ \A i \in At(s, l, b) : f[i] \in Int
      /\ Total(s, l, b, sign) = SumFunctionOnSet(f, At(s, l, b))
  BY TotalTerms
<1> HIDE DEF f
<1> QED BY <1>1, SumInt

(* No movements add nothing.                                               *)
LEMMA TotalEmpty ==
  ASSUME NEW l, NEW b, NEW sign \in Signs
  PROVE  Total(<<>>, l, b, sign) = 0
<1> DEFINE f == [i \in At(<<>>, l, b) |-> Effect(sign, <<>>[i].leg)]
<1>1. <<>> \in Seq(Movement) /\ At(<<>>, l, b) = {}
  BY DEF At
<1>2. Total(<<>>, l, b, sign) = SumFunctionOnSet(f, At(<<>>, l, b))
  BY <1>1, TotalTerms
<1> HIDE DEF f
<1> QED BY <1>1, <1>2, SumEmpty

(* One movement adds its effect to its box.                                *)
LEMMA TotalOne ==
  ASSUME NEW m \in Movement, NEW l, NEW b, NEW sign \in Signs
  PROVE  Total(<<m>>, l, b, sign) =
           IF m.leg.lot = l /\ BoxOf(m.leg) = b THEN Effect(sign, m.leg) ELSE 0
<1> DEFINE s == <<m>>
           f == [i \in At(s, l, b) |-> Effect(sign, s[i].leg)]
<1>1. s \in Seq(Movement) /\ DOMAIN s = {1} /\ s[1] = m
  OBVIOUS
<1>2. /\ IsFiniteSet(At(s, l, b)) /\ \A i \in At(s, l, b) : f[i] \in Int
      /\ Total(s, l, b, sign) = SumFunctionOnSet(f, At(s, l, b))
  BY <1>1, TotalTerms
<1>3. CASE m.leg.lot = l /\ BoxOf(m.leg) = b
  <2>1. At(s, l, b) = {1}
    BY <1>1, <1>3 DEF At
  <2>2. f[1] = Effect(sign, m.leg)
    BY <1>1, <2>1
  <2> HIDE DEF f
  <2>3. SumFunctionOnSet(f, {1}) = f[1] + SumFunctionOnSet(f, {1} \ {1})
    BY <1>2, <2>1, SumTake
  <2>4. SumFunctionOnSet(f, {1} \ {1}) = 0
    BY SumEmpty
  <2>5. Total(s, l, b, sign) = f[1]
    BY <1>2, <2>1, <2>3, <2>4
  <2> QED BY <1>3, <2>2, <2>5
<1>4. CASE ~(m.leg.lot = l /\ BoxOf(m.leg) = b)
  <2>1. At(s, l, b) = {}
    BY <1>1, <1>4 DEF At
  <2> HIDE DEF f
  <2> QED BY <1>2, <1>4, <2>1, SumEmpty
<1> QED BY <1>3, <1>4

(* Movements that are appended add their total.                            *)
LEMMA TotalConcat ==
  ASSUME NEW s \in Seq(Movement), NEW t \in Seq(Movement), NEW l, NEW b, NEW sign \in Signs
  PROVE  Total(s \o t, l, b, sign) = Total(s, l, b, sign) + Total(t, l, b, sign)
<1> DEFINE u == s \o t
           S == At(s, l, b)
           T == At(t, l, b)
           U == At(u, l, b)
           f == [i \in S |-> Effect(sign, s[i].leg)]
           g == [i \in T |-> Effect(sign, t[i].leg)]
           h == [i \in U |-> Effect(sign, u[i].leg)]
           m == [i \in T |-> Len(s) + i]
           Late == {m[i] : i \in T}
<1>1. /\ u \in Seq(Movement) /\ Len(u) = Len(s) + Len(t)
      /\ \A i \in 1 .. Len(s) + Len(t) : u[i] = IF i <= Len(s) THEN s[i] ELSE t[i - Len(s)]
      /\ Len(s) \in Nat /\ Len(t) \in Nat
  BY ConcatProperties
<1>2. /\ DOMAIN u = 1 .. Len(s) + Len(t) /\ DOMAIN s = 1 .. Len(s) /\ DOMAIN t = 1 .. Len(t)
  BY <1>1
<1> HIDE DEF u
<1>3. \A i \in S : i \in U /\ i <= Len(s) /\ i \in Nat /\ h[i] = f[i]
  BY <1>1, <1>2 DEF At
<1>4. ASSUME NEW i \in T
      PROVE  /\ i \in Int /\ i > 0 /\ m[i] = Len(s) + i
             /\ m[i] \in U /\ h[m[i]] = g[i]
  <2>1. i \in 1 .. Len(t) /\ t[i].leg.lot = l /\ BoxOf(t[i].leg) = b
    BY <1>2 DEF At
  <2>2. PICK k \in Int : k = Len(s) + i
    BY <1>1, <2>1
  <2>3. k \in 1 .. Len(s) + Len(t) /\ ~(k <= Len(s)) /\ k - Len(s) = i
    BY <1>1, <2>1, <2>2
  <2>4. u[k] = t[i]
    BY <1>1, <2>3
  <2>5. k \in U
    BY <1>2, <2>1, <2>3, <2>4 DEF At
  <2>6. m[i] = k /\ h[k] = g[i]
    BY <2>2, <2>4, <2>5
  <2> HIDE DEF m, h, g, U, T
  <2> QED BY <2>1, <2>2, <2>5, <2>6
<1>5. U = S \cup Late
  <2>1. ASSUME NEW i \in U PROVE i \in 1 .. Len(s) + Len(t)
    BY <1>2 DEF At
  <2>2. ASSUME NEW i \in U, i <= Len(s) PROVE i \in S
    <3>1. i \in 1 .. Len(s) /\ u[i] = s[i]
      BY <1>1, <2>1, <2>2
    <3> QED BY <1>2, <3>1 DEF At
  <2>3. ASSUME NEW i \in U, ~(i <= Len(s)) PROVE i \in Late
    <3>1. PICK k \in Int : k = i - Len(s)
      BY <1>1, <2>1
    <3>2. k \in 1 .. Len(t) /\ u[i] = t[k] /\ i = Len(s) + k
      BY <1>1, <2>1, <2>3, <3>1
    <3>3. k \in T
      BY <1>2, <3>2 DEF At
    <3>4. m[k] = i
      BY <3>2, <3>3
    <3> HIDE DEF T, m
    <3> QED BY <3>3, <3>4
  <2>4. S \subseteq U
    BY <1>3
  <2>5. Late \subseteq U
    <3> HIDE DEF T, U, m, h, g
    <3> QED BY <1>4
  <2> HIDE DEF S, T, U, m, Late
  <2> QED BY <2>2, <2>3, <2>4, <2>5
<1>6. S \cap Late = {}
  <2>1. ASSUME NEW i \in T PROVE m[i] \notin S
    <3> HIDE DEF S, T, m, f, g, h, U
    <3>1. m[i] = Len(s) + i /\ i > 0 /\ i \in Int
      BY <1>4
    <3>2. ~(m[i] <= Len(s))
      BY <1>1, <3>1
    <3> QED BY <1>3, <3>2
  <2> HIDE DEF S, T, m
  <2> QED BY <2>1
<1>7. /\ IsFiniteSet(S) /\ IsFiniteSet(T)
      /\ \A i \in S : f[i] \in Int
      /\ \A i \in T : g[i] \in Int
      /\ \A i \in U : h[i] \in Int
      /\ Total(s, l, b, sign) = SumFunctionOnSet(f, S)
      /\ Total(t, l, b, sign) = SumFunctionOnSet(g, T)
      /\ Total(u, l, b, sign) = SumFunctionOnSet(h, U)
  BY <1>1, TotalTerms
<1> HIDE DEF S, T, U, f, g, h, m
<1>8. ASSUME NEW i \in T, NEW j \in T, m[i] = m[j] PROVE i = j
  <2>1. /\ i \in Int /\ m[i] = Len(s) + i
        /\ j \in Int /\ m[j] = Len(s) + j
    BY <1>4
  <2>2. Len(s) + i = Len(s) + j
    BY <1>8, <2>1
  <2> QED BY <1>1, <2>1, <2>2
<1>9. IsFiniteSet(Late) /\ SumFunctionOnSet(h, Late) = SumFunctionOnSet(g, T)
  <2>1. \A i \in T : h[m[i]] = g[i] /\ g[i] \in Int
    BY <1>4, <1>7, Zenon
  <2>2. \A i, j \in T : m[i] = m[j] => i = j
    BY <1>8, Zenon
  <2>3. IsFiniteSet(T)
    BY <1>7
  <2>4. /\ IsFiniteSet({m[i] : i \in T})
        /\ SumFunctionOnSet(h, {m[i] : i \in T}) = SumFunctionOnSet(g, T)
    BY <2>1, <2>2, <2>3, SumImage
  <2> QED BY <2>4
<1>10. SumFunctionOnSet(h, S) = SumFunctionOnSet(f, S)
  BY <1>3, <1>7, SumSame
<1> HIDE DEF Late
<1>11. SumFunctionOnSet(h, S \cup Late) =
         SumFunctionOnSet(h, S) + SumFunctionOnSet(h, Late)
  BY <1>5, <1>6, <1>7, <1>9, SumJoin
<1> QED BY <1>5, <1>7, <1>9, <1>10, <1>11 DEF u
-----------------------------------------------------------------------------
(* Types.                                                                  *)

\* What a damage marking counts down, and records afterwards.
DamageLeg(r) == [lot |-> r.lot, type |-> "adjustment", qty |-> -r.qty, from |-> NoBox,
                 to |-> NoBox, amends |-> 0, aim |-> 0]

\* The request a handler serves is of the kind its step is for, with n movements
\* in the ledger.
Fits(rec, n) ==
    /\ rec.pc = "read" => \/ rec.req.op = "correct"
                          \/ rec.req.op = "amend" /\ rec.req.of \in 1 .. n
    /\ rec.pc \in {"count", "log"} => rec.req.op = "damage" /\ rec.at = 1
    /\ rec.pc = "log" => rec.moves = <<[ref |-> NoRef, legs |-> <<DamageLeg(rec.req)>>]>>

Typed == TypeOK /\ \A h \in Handlers : Fits(hs[h], Len(movements))

\* A handler between the receipt and the end of a request that moves stock.
Moving(rec) == rec \in Handler /\ rec.pc \in Working \cup {"idle"}

(* Such a handler fits any ledger.                                         *)
LEMMA MovingFits ==
  ASSUME NEW rec, Moving(rec), NEW n
  PROVE  rec \in Handler /\ Fits(rec, n)
  BY DEF Moving, Fits, Working

(* An idle handler is typed.                                               *)
LEMMA IdleMoving == Moving(Idle)
<1>1. <<>> \in Seq(Move) /\ <<>> \in Seq(Movement) /\ {} \in SUBSET Refs /\ {} \in SUBSET Lots
  OBVIOUS
<1>2. 1 \in 1 .. MaxTries
  BY RequestsAssumption
<1>3. [op |-> "none"] \in Request
  BY DEF Request
<1> HIDE DEF Request
<1> QED BY <1>1, <1>2, <1>3 DEF Moving, Idle, Handler, Working

(* The fields of a typed handler.                                          *)
LEMMA HandlerFields ==
  ASSUME NEW rec \in Handler
  PROVE  /\ rec.req \in Request /\ rec.shared \in BOOLEAN /\ rec.moves \in Seq(Move)
         /\ rec.at \in Nat /\ rec.leg \in Nat /\ rec.try \in 1 .. MaxTries
         /\ rec.open \in BOOLEAN /\ rec.view \in SUBSET Refs /\ rec.buf \in Seq(Movement)
         /\ rec.clash \in SUBSET Lots
  BY DEF Handler

(* A request that starts over, or goes on with a move, is typed.           *)
LEMMA RestartMoving ==
  ASSUME NEW rec \in Handler, NEW n \in 1 .. MaxTries, NEW k \in Nat,
         NEW pc \in {"open", "check", "commit"}
  PROVE  Moving(Restart(rec, n, k, pc)) /\ Moving(Advance(rec, k, pc))
<1>1. <<>> \in Seq(Movement) /\ {} \in SUBSET Refs /\ {} \in SUBSET Lots
  OBVIOUS
<1>2. Restart(rec, n, k, pc) \in Handler /\ Restart(rec, n, k, pc).pc = pc
  BY <1>1 DEF Restart, Handler
<1>3. Advance(rec, k, pc) \in Handler /\ Advance(rec, k, pc).pc = pc
  BY DEF Advance, Handler
<1> QED BY <1>2, <1>3 DEF Moving, Working

(* So are the next move, and another try.                                  *)
LEMMA NextMoveMoving ==
  ASSUME NEW rec \in Handler
  PROVE  Moving(NextMove(rec)) /\ Moving(Abort(rec))
<1>1. /\ rec.at \in Nat /\ rec.at + 1 \in Nat /\ 1 \in Nat
      /\ 1 \in 1 .. MaxTries
      /\ rec.try # MaxTries => rec.try + 1 \in 1 .. MaxTries
  BY HandlerFields, RequestsAssumption
<1>2. Moving(NextMove(rec))
  BY <1>1, IdleMoving, RestartMoving DEF NextMove
<1>3. Moving(Abort(rec))
  BY <1>1, IdleMoving, RestartMoving DEF Abort
<1> QED BY <1>2, <1>3

(* The references of movements are references.                             *)
LEMMA RefsTyped ==
  ASSUME NEW s \in Seq(Movement)
  PROVE  RefsOf(s) \in SUBSET Refs /\ LotsOf(s) \in SUBSET Lots
<1>1. ASSUME NEW i \in DOMAIN s PROVE s[i].ref \in Refs \cup {NoRef} /\ s[i].leg.lot \in Lots
  <2>1. s[i] \in Movement
    OBVIOUS
  <2> QED BY <2>1 DEF Movement, Leg
<1> QED BY <1>1 DEF RefsOf, LotsOf

(* A handler with a snapshot is typed.                                     *)
LEMMA SnapshotTyped ==
  ASSUME Typed, NEW h \in Handlers
  PROVE  /\ WithSnapshot(h) \in Handler
         /\ WithSnapshot(h).pc = hs[h].pc /\ WithSnapshot(h).leg = hs[h].leg
         /\ WithSnapshot(h).buf = hs[h].buf
<1>1. hs[h] \in Handler /\ movements \in Seq(Movement)
  BY DEF Typed, TypeOK
<1>2. View(h) \in SUBSET Refs
  BY <1>1, RefsTyped, HandlerFields DEF View
<1> QED BY <1>1, <1>2 DEF WithSnapshot, Handler

\* A handler after others have written lots.
Touched(rec, lots) == IF ~rec.open THEN rec ELSE [rec EXCEPT !.clash = @ \cup lots]

(* Writes of others leave a handler typed.                                 *)
LEMMA TouchTyped ==
  ASSUME NEW rec \in Handler, NEW lots \in SUBSET Lots, NEW m \in Nat, NEW n \in Nat, m <= n,
         Fits(rec, m), NEW r, r = Touched(rec, lots)
  PROVE  r \in Handler /\ Fits(r, n) /\ r.pc = rec.pc /\ r.req = rec.req
<1>1. /\ r \in Handler /\ r.pc = rec.pc /\ r.req = rec.req /\ r.at = rec.at
      /\ r.moves = rec.moves
  BY DEF Handler, Touched
<1>2. Fits(r, n)
  <2>1. \A i \in 1 .. m : i \in 1 .. n
    OBVIOUS
  <2> QED BY <1>1, <2>1 DEF Fits
<1> QED BY <1>1, <1>2

(* A step of h that leaves the ledger and the other handlers alone.        *)
LEMMA AloneTyped ==
  ASSUME Typed, NEW h \in Handlers, NEW rec, rec \in Handler, Fits(rec, Len(movements)),
         hs' = [hs EXCEPT ![h] = rec], movements' = movements, balance' = balance,
         answered' \subseteq Refs, torn' \in [Lots -> Nat], received' \in Nat
  PROVE  Typed'
<1>1. hs' \in [Handlers -> Handler]
  BY DEF Typed, TypeOK
<1>2. \A g \in Handlers : Fits(hs'[g], Len(movements'))
  BY DEF Typed, TypeOK
<1> QED BY <1>1, <1>2 DEF Typed, TypeOK

(* A request that is received is typed.                                    *)
LEMMA ReceiveTyped ==
  ASSUME Typed, NEW h \in Handlers, NEW req \in Request, NEW pc, NEW moves \in Seq(Move),
         NEW shared \in BOOLEAN, Receive(h, req, pc, moves, shared),
         \/ pc \in {"open", "check"}
         \/ pc = "read" /\ req.op = "correct"
         \/ pc = "read" /\ req.op = "amend" /\ req.of \in 1 .. Len(movements)
         \/ pc = "count" /\ req.op = "damage"
  PROVE  Typed'
<1>1. PICK r : r = [Idle EXCEPT !.pc = pc, !.req = req, !.moves = moves, !.shared = shared]
  OBVIOUS
<1>2. Idle \in Handler /\ Idle.at = 1
  BY IdleMoving DEF Moving, Idle
<1>3. /\ r \in Handler /\ r.pc = pc /\ r.req = req /\ r.at = 1
  <2> HIDE DEF Idle, Request
  <2> QED BY <1>1, <1>2 DEF Handler
<1>4. Fits(r, Len(movements))
  BY <1>3 DEF Fits
<1>5. /\ hs' = [hs EXCEPT ![h] = r] /\ movements' = movements /\ balance' = balance
      /\ answered' \subseteq Refs /\ torn' \in [Lots -> Nat] /\ received' \in Nat
  BY <1>1 DEF Receive, Typed, TypeOK
<1> QED BY <1>3, <1>4, <1>5, AloneTyped

(* Every kind of request is received with what it needs.                   *)
LEMMA ReceivesTyped ==
  ASSUME Typed, NEW h \in Handlers,
         ReceivePost(h) \/ ReceiveAmend(h) \/ ReceiveCorrection(h) \/ ReceiveDamage(h)
  PROVE  Typed'
<1>1. CASE ReceivePost(h)
  <2>1. PICK p \in Posts :
          Receive(h, [op |-> "post"], IF p.shared THEN "open" ELSE "check", p.moves, p.shared)
    BY <1>1 DEF ReceivePost
  <2>2. p.moves \in Seq(Move) /\ p.shared \in BOOLEAN
    BY RequestsAssumption
  <2>3. [op |-> "post"] \in Request
    BY DEF Request
  <2>4. (IF p.shared THEN "open" ELSE "check") \in {"open", "check"}
    OBVIOUS
  <2> QED BY <2>1, <2>2, <2>3, <2>4, ReceiveTyped
<1>2. CASE ReceiveAmend(h)
  <2>1. PICK n \in DOMAIN movements, q \in Aims :
          Receive(h, [op |-> "amend", of |-> n, aim |-> q], "read", <<>>, FALSE)
    BY <1>2 DEF ReceiveAmend
  <2>2. n \in 1 .. Len(movements) /\ n \in Nat /\ q \in Int
    BY RequestsAssumption DEF Typed, TypeOK
  <2>3. PICK r : r = [op |-> "amend", of |-> n, aim |-> q]
    OBVIOUS
  <2>4. r \in Request /\ r.op = "amend" /\ r.of = n
    BY <2>2, <2>3 DEF Request
  <2>5. <<>> \in Seq(Move)
    OBVIOUS
  <2> QED BY <2>1, <2>2, <2>3, <2>4, <2>5, ReceiveTyped
<1>3. CASE ReceiveCorrection(h)
  <2>1. PICK r \in Corrections : Receive(h, r, "read", <<>>, FALSE)
    BY <1>3 DEF ReceiveCorrection
  <2>2. r \in [op : {"correct"}, lot : Lots, target : Int]
    BY RequestsAssumption
  <2>3. r \in Request /\ r.op = "correct"
    BY <2>2 DEF Request
  <2>4. <<>> \in Seq(Move) /\ FALSE \in BOOLEAN
    OBVIOUS
  <2> HIDE DEF Request
  <2> QED BY <2>1, <2>3, <2>4, ReceiveTyped
<1>4. CASE ReceiveDamage(h)
  <2>1. PICK r \in Damages : Receive(h, r, "count", <<>>, FALSE)
    BY <1>4 DEF ReceiveDamage
  <2>2. r \in [op : {"damage"}, lot : Lots, qty : Nat]
    BY RequestsAssumption
  <2>3. r \in Request /\ r.op = "damage"
    BY <2>2 DEF Request
  <2>4. <<>> \in Seq(Move) /\ FALSE \in BOOLEAN
    OBVIOUS
  <2> HIDE DEF Request
  <2> QED BY <2>1, <2>3, <2>4, ReceiveTyped
<1> QED BY <1>1, <1>2, <1>3, <1>4

(* An adjustment is a move.                                                *)
LEMMA AdjustmentTyped ==
  ASSUME NEW l \in Lots, NEW qty \in Int, NEW box \in Places, NEW of \in Nat, NEW aim \in Int
  PROVE  Adjustment(l, qty, box, of, aim) \in Seq(Move)
<1>1. PICK leg : leg = [lot |-> l, type |-> "adjustment", qty |-> qty, from |-> NoBox,
                        to |-> box, amends |-> of, aim |-> aim]
  OBVIOUS
<1>2. leg \in Leg
  BY <1>1 DEF Leg, OnHandSign, Places
<1>3. PICK move : move = [ref |-> NoRef, legs |-> <<leg>>]
  OBVIOUS
<1>4. move \in Move
  BY <1>2, <1>3 DEF Move
<1> QED BY <1>1, <1>3, <1>4 DEF Adjustment

(* The movement that is amended exists.                                    *)
LEMMA ReadMovementTyped ==
  ASSUME Typed, NEW h \in Handlers, ReadMovement(h)
  PROVE  Typed'
<1>1. PICK rec : rec = hs[h]
  OBVIOUS
<1>2. rec \in Handler /\ Fits(rec, Len(movements)) /\ rec.pc = "read" /\ rec.req.op = "amend"
  BY <1>1 DEF ReadMovement, Typed, TypeOK
<1>3. PICK of \in Nat : of = rec.req.of
  BY <1>2, HandlerFields DEF Request
<1>4. PICK aim \in Int : aim = rec.req.aim
  BY <1>2, HandlerFields DEF Request
<1>5. PICK orig : orig = movements[of].leg
  OBVIOUS
<1>6. orig \in Leg
  <2>1. of \in 1 .. Len(movements)
    BY <1>2, <1>3 DEF Fits
  <2>2. movements[of] \in Movement
    BY <2>1 DEF Typed, TypeOK
  <2> QED BY <1>5, <2>2 DEF Movement
<1>7. PICK other : other = [orig EXCEPT !.qty = aim]
  OBVIOUS
<1>8. other \in Leg
  BY <1>6, <1>7 DEF Leg
<1>9. PICK diff \in Int : diff = OnHand(other) - OnHand(orig)
  <2>1. OnHand(other) \in Int /\ OnHand(orig) \in Int
    BY <1>6, <1>8, LegEffect DEF Signs, OnHand
  <2> QED BY <2>1
<1>10. PICK moves : moves = Adjustment(orig.lot, diff, BoxOf(orig), of, aim)
  OBVIOUS
<1>11. moves \in Seq(Move)
  <2>1. orig.lot \in Lots /\ BoxOf(orig) \in Places
    BY <1>6, LegEffect DEF Signs
  <2> QED BY <1>10, <2>1, AdjustmentTyped
<1>12. PICK r : r = [rec EXCEPT !.pc = "check", !.moves = moves]
  OBVIOUS
<1>13. Moving(r)
  BY <1>2, <1>11, <1>12 DEF Moving, Handler, Working
<1>14. hs' = [hs EXCEPT ![h] = r]
  BY <1>1, <1>3, <1>4, <1>5, <1>7, <1>9, <1>10, <1>12 DEF ReadMovement
<1> QED BY <1>13, <1>14, MovingFits, AloneTyped DEF ReadMovement, Typed, TypeOK

(* What a lot has on hand is an integer.                                   *)
LEMMA LotOnHandInt ==
  ASSUME Typed, NEW l \in Lots
  PROVE  LotOnHand(l) \in Int
<1>1. IsFiniteSet(Places)
  BY FinitenessAssumption, FS_AddElement DEF Places
<1> DEFINE f == [b \in Places |-> balance[l][b].onHand]
<1>2. \A b \in Places : f[b] \in Int
  BY DEF Typed, TypeOK
<1>3. LotOnHand(l) = SumFunctionOnSet(f, Places)
  BY DEF LotOnHand, SumFunction
<1> HIDE DEF f
<1> QED BY <1>1, <1>2, <1>3, SumInt

(* A correction posts what is missing, if anything.                        *)
LEMMA ReadOnHandTyped ==
  ASSUME Typed, NEW h \in Handlers, ReadOnHand(h)
  PROVE  Typed'
<1>1. PICK rec : rec = hs[h]
  OBVIOUS
<1>2. rec \in Handler /\ rec.pc = "read" /\ rec.req.op = "correct"
  BY <1>1 DEF ReadOnHand, Typed, TypeOK
<1>3. PICK l \in Lots : l = rec.req.lot
  BY <1>2, HandlerFields DEF Request
<1>4. PICK target \in Int : target = rec.req.target
  BY <1>2, HandlerFields DEF Request
<1>5. PICK diff \in Int : diff = target - LotOnHand(l)
  BY LotOnHandInt
<1>6. PICK moves : moves = Adjustment(l, diff, NoBox, 0, 0)
  OBVIOUS
<1>7. moves \in Seq(Move)
  <2>1. NoBox \in Places /\ 0 \in Nat /\ 0 \in Int
    BY DEF Places
  <2> QED BY <1>6, <2>1, AdjustmentTyped
<1>8. PICK r : r = [rec EXCEPT !.pc = "check", !.moves = moves]
  OBVIOUS
<1>9. Moving(r)
  BY <1>2, <1>7, <1>8 DEF Moving, Handler, Working
<1>10. hs' = [hs EXCEPT ![h] = IF diff = 0 THEN Idle ELSE r]
  BY <1>1, <1>3, <1>4, <1>5, <1>6, <1>8 DEF ReadOnHand
<1>11. PICK next : next = IF diff = 0 THEN Idle ELSE r
  OBVIOUS
<1>12. Moving(next)
  BY <1>9, <1>11, IdleMoving
<1>13. hs' = [hs EXCEPT ![h] = next]
  BY <1>10, <1>11
<1> QED BY <1>12, <1>13, MovingFits, AloneTyped DEF ReadOnHand, Typed, TypeOK
(* The move and the leg a handler is at.                                   *)
LEMMA CurrentTyped ==
  ASSUME Inv, Typed, NEW h \in Handlers, hs[h].pc \in Working
  PROVE  /\ CurrentMove(h) \in Move /\ CurrentMove(h).ref \in Refs \cup {NoRef}
         /\ CurrentMove(h).legs[hs[h].leg] \in Leg
<1>1. PICK rec : rec = hs[h]
  OBVIOUS
<1>2. Placed(rec) /\ rec \in Handler
  BY <1>1 DEF Inv, Sound, Formed, Typed, TypeOK
<1>3. rec.moves \in Seq(Move) /\ rec.at \in DOMAIN rec.moves
  BY <1>2, HandlerFields DEF Placed
<1>4. PICK move \in Move : move = rec.moves[rec.at]
  BY <1>3
<1>5. rec.leg \in DOMAIN move.legs
  BY <1>2, <1>4 DEF Placed
<1>6. move.legs \in Seq(Leg) /\ move.ref \in Refs \cup {NoRef}
  BY <1>4 DEF Move
<1>7. move.legs[rec.leg] \in Leg
  BY <1>5, <1>6
<1> QED BY <1>1, <1>4, <1>6, <1>7 DEF CurrentMove

(* The shared transaction starts.                                          *)
LEMMA OpenTyped ==
  ASSUME Typed, NEW h \in Handlers, Open(h)
  PROVE  Typed'
<1>1. PICK w : w = WithSnapshot(h)
  OBVIOUS
<1>2. w \in Handler
  BY <1>1, SnapshotTyped
<1>3. PICK q \in Posts : hs' = [hs EXCEPT ![h] = [w EXCEPT !.pc = "check", !.moves = q.moves]]
  BY <1>1 DEF Open, Resolved
<1>4. q.moves \in Seq(Move)
  BY RequestsAssumption
<1>5. PICK r : r = [w EXCEPT !.pc = "check", !.moves = q.moves]
  OBVIOUS
<1>6. Moving(r)
  BY <1>2, <1>4, <1>5 DEF Moving, Handler, Working
<1>7. hs' = [hs EXCEPT ![h] = r]
  BY <1>3, <1>5
<1> QED BY <1>6, <1>7, MovingFits, AloneTyped DEF Open, Typed, TypeOK

(* A reference is checked: a handler goes on to write, or to its next move.*)
LEMMA CheckReferenceTyped ==
  ASSUME Inv, Typed, NEW h \in Handlers, CheckReference(h)
  PROVE  Typed'
<1>1. PICK ref : ref = CurrentMove(h).ref
  OBVIOUS
<1>2. PICK w : w = WithSnapshot(h)
  OBVIOUS
<1>3. hs[h].pc = "check" /\ hs[h] \in Handler /\ answered \subseteq Refs
  BY DEF CheckReference, Typed, TypeOK
<1>4. ref \in Refs \cup {NoRef}
  BY <1>1, <1>3, CurrentTyped DEF Working
<1>5. w \in Handler
  BY <1>2, SnapshotTyped
<1>6. PICK a : a = [hs[h] EXCEPT !.pc = "write"]
  OBVIOUS
<1>7. PICK b : b = [w EXCEPT !.pc = "write"]
  OBVIOUS
<1>8. Moving(a) /\ Moving(b)
  BY <1>3, <1>5, <1>6, <1>7 DEF Moving, Handler, Working
<1>9. Moving(NextMove(w))
  BY <1>5, NextMoveMoving
<1>10. /\ \E r \in {a, b, NextMove(w)} : hs' = [hs EXCEPT ![h] = r]
       /\ answered' \subseteq Refs
  <2>1. CASE ref = NoRef
    <3>1. hs' = [hs EXCEPT ![h] = a] /\ answered' = answered
      BY <1>1, <1>6, <2>1 DEF CheckReference
    <3> QED BY <1>3, <3>1
  <2>2. CASE ref # NoRef /\ ReferenceExists(h, ref)
    <3>1. hs' = [hs EXCEPT ![h] = NextMove(w)]
          /\ answered' = IF hs[h].shared THEN answered ELSE answered \cup {ref}
      BY <1>1, <1>2, <2>2 DEF CheckReference
    <3> QED BY <1>3, <1>4, <2>2, <3>1
  <2>3. CASE ref # NoRef /\ ~ReferenceExists(h, ref)
    <3>1. hs' = [hs EXCEPT ![h] = b] /\ answered' = answered
      BY <1>1, <1>2, <1>7, <2>3 DEF CheckReference
    <3> QED BY <1>3, <3>1
  <2> QED BY <2>1, <2>2, <2>3
<1>11. PICK r : Moving(r) /\ hs' = [hs EXCEPT ![h] = r]
  BY <1>8, <1>9, <1>10
<1> QED BY <1>10, <1>11, MovingFits, AloneTyped DEF CheckReference, Typed, TypeOK

(* A leg is written into the transaction.                                  *)
LEMMA WriteLegTyped ==
  ASSUME Inv, Typed, NEW h \in Handlers, WriteLeg(h)
  PROVE  Typed'
<1>1. PICK move : move = CurrentMove(h)
  OBVIOUS
<1>2. PICK leg : leg = move.legs[hs[h].leg]
  OBVIOUS
<1>3. PICK x : x = [ref |-> IF hs[h].leg = Len(move.legs) THEN move.ref ELSE NoRef,
                    leg |-> leg]
  OBVIOUS
<1>4. hs[h].pc = "write" /\ hs[h] \in Handler
  BY DEF WriteLeg, Typed, TypeOK
<1>5. x \in Movement
  BY <1>1, <1>2, <1>3, <1>4, CurrentTyped DEF Working, Movement
<1>6. PICK w : w = WithSnapshot(h)
  OBVIOUS
<1>7. w \in Handler /\ w.pc = "write"
  BY <1>4, <1>6, SnapshotTyped
<1>8. PICK buf : buf = Append(w.buf, x)
  OBVIOUS
<1>9. buf \in Seq(Movement)
  BY <1>5, <1>7, <1>8, HandlerFields
<1>10. PICK made : made = [w EXCEPT !.buf = buf]
  OBVIOUS
<1>11. made \in Handler /\ made.pc = "write"
  BY <1>7, <1>9, <1>10 DEF Handler
<1>12. PICK a : a = [made EXCEPT !.leg = made.leg + 1]
  OBVIOUS
<1>13. PICK b : b = [made EXCEPT !.pc = "commit"]
  OBVIOUS
<1>14. Moving(a) /\ Moving(b)
  <2>1. made.leg + 1 \in Nat
    BY <1>11, HandlerFields
  <2>2. Moving(a)
    BY <1>11, <1>12, <2>1 DEF Moving, Handler, Working
  <2>3. Moving(b)
    BY <1>11, <1>13 DEF Moving, Handler, Working
  <2> QED BY <2>2, <2>3
<1>15. Moving(NextMove(made)) /\ Moving(Abort(hs[h]))
  BY <1>4, <1>11, NextMoveMoving
<1>16. hs' = [hs EXCEPT ![h] =
                IF Conflict(h, leg.lot) THEN Abort(hs[h])
                ELSE IF hs[h].leg # Len(move.legs) THEN a
                ELSE IF hs[h].shared THEN NextMove(made)
                ELSE b]
  <2>1. \A m : [m EXCEPT !.leg = @ + 1] = [m EXCEPT !.leg = m.leg + 1]
    OBVIOUS
  <2>2. [w EXCEPT !.buf = Append(@, x)] = made
    BY <1>8, <1>10
  <2> QED BY <1>1, <1>2, <1>3, <1>6, <1>12, <1>13, <2>1, <2>2 DEF WriteLeg
<1>17. PICK r : Moving(r) /\ hs' = [hs EXCEPT ![h] = r]
  BY <1>14, <1>15, <1>16
<1> QED BY <1>17, MovingFits, AloneTyped DEF WriteLeg, Typed, TypeOK

(* Balances stay integers.                                                 *)
LEMMA IncrementTyped ==
  ASSUME Typed, NEW s \in Seq(Movement)
  PROVE  Increment(s) \in [Lots -> [Places -> [onHand : Int, reserved : Int]]]
<1>1. ASSUME NEW l \in Lots, NEW b \in Places
      PROVE  /\ balance[l][b].onHand + Total(s, l, b, OnHandSign) \in Int
             /\ balance[l][b].reserved + Total(s, l, b, ReservedSign) \in Int
  <2>1. Total(s, l, b, OnHandSign) \in Int /\ Total(s, l, b, ReservedSign) \in Int
    BY TotalInt DEF Signs
  <2>2. balance[l][b].onHand \in Int /\ balance[l][b].reserved \in Int
    BY DEF Typed, TypeOK
  <2> QED BY <2>1, <2>2
<1> QED BY <1>1 DEF Increment

(* The other handlers after a write, and the one that wrote.               *)
LEMMA TouchesTyped ==
  ASSUME Typed, NEW h \in Handlers, NEW rec \in Handler, NEW lots \in SUBSET Lots,
         hs' = Touch(h, rec, lots), movements' \in Seq(Movement),
         Len(movements) <= Len(movements'), Fits(rec, Len(movements'))
  PROVE  /\ hs' \in [Handlers -> Handler] /\ hs'[h] = rec
         /\ \A g \in Handlers : Fits(hs'[g], Len(movements'))
         /\ \A g \in Handlers \ {h} : hs'[g].pc = hs[g].pc /\ hs'[g].req = hs[g].req
<1>1. Len(movements) \in Nat /\ Len(movements') \in Nat
  BY DEF Typed, TypeOK
<1>2. ASSUME NEW g \in Handlers, g # h
      PROVE  /\ hs'[g] \in Handler /\ Fits(hs'[g], Len(movements'))
             /\ hs'[g].pc = hs[g].pc /\ hs'[g].req = hs[g].req
  <2>1. PICK q : q = hs[g]
    OBVIOUS
  <2>2. q \in Handler /\ Fits(q, Len(movements))
    BY <2>1 DEF Typed, TypeOK
  <2>3. hs'[g] = Touched(q, lots)
    BY <1>2, <2>1 DEF Touch, Touched
  <2>4. PICK n \in Nat : n = Len(movements')
    BY <1>1
  <2>5. PICK m \in Nat : m = Len(movements)
    BY <1>1
  <2>6. m <= n /\ Fits(q, m)
    BY <2>2, <2>4, <2>5
  <2>7. PICK r : r = hs'[g]
    OBVIOUS
  <2>8. r \in Handler /\ Fits(r, n) /\ r.pc = q.pc /\ r.req = q.req
    <3>1. q \in Handler /\ m <= n /\ Fits(q, m)
      BY <2>2, <2>6
    <3>2. r = Touched(q, lots)
      BY <2>3, <2>7
    <3> QED BY <3>1, <3>2, TouchTyped
  <2> QED BY <2>1, <2>4, <2>7, <2>8
<1>3. DOMAIN hs' = Handlers /\ hs'[h] = rec /\ hs' = [g \in Handlers |-> hs'[g]]
  BY DEF Touch
<1>4. \A g \in Handlers : hs'[g] \in Handler
  BY <1>2, <1>3
<1> QED BY <1>2, <1>3, <1>4
(* A commit: the movements are appended and the balances incremented.      *)
LEMMA CommitTyped ==
  ASSUME Inv, Typed, NEW h \in Handlers, Commit(h) \/ CommitUnknown(h)
  PROVE  /\ Typed' /\ hs[h].buf \in Seq(Movement) /\ hs'[h].pc # "log"
         /\ \A g \in Handlers \ {h} : hs'[g].pc = hs[g].pc /\ hs'[g].req = hs[g].req
<1>1. hs[h] \in Handler /\ movements \in Seq(Movement) /\ hs[h].pc = "commit"
  BY DEF Typed, TypeOK, Commit, CommitUnknown, Store
<1>2. PICK rec : Moving(rec) /\ Store(h, rec)
  <2>1. CASE Commit(h)
    <3>1. Moving(IF hs[h].shared THEN Idle ELSE NextMove(hs[h]))
      BY <1>1, IdleMoving, NextMoveMoving
    <3> QED BY <2>1, <3>1 DEF Commit
  <2>2. CASE CommitUnknown(h)
    BY <2>2, IdleMoving DEF CommitUnknown
  <2> QED BY <2>1, <2>2
<1>3. PICK buf \in Seq(Movement) : buf = hs[h].buf
  BY <1>1, HandlerFields
<1>4. /\ movements' = movements \o buf /\ balance' = Increment(buf)
      /\ hs' = Touch(h, rec, LotsOf(buf)) /\ torn' = torn /\ received' = received
  BY <1>2, <1>3 DEF Store
<1>5. /\ movements' \in Seq(Movement) /\ Len(movements) <= Len(movements')
      /\ Len(movements') \in Nat
  <2>1. /\ movements' \in Seq(Movement) /\ Len(movements') = Len(movements) + Len(buf)
        /\ Len(movements) \in Nat /\ Len(buf) \in Nat
    BY <1>1, <1>3, <1>4, ConcatProperties
  <2> QED BY <2>1
<1>6. LotsOf(buf) \in SUBSET Lots
  BY RefsTyped
<1>7. rec \in Handler /\ Fits(rec, Len(movements'))
  BY <1>2, MovingFits
<1>8. /\ hs' \in [Handlers -> Handler] /\ hs'[h] = rec
      /\ \A g \in Handlers : Fits(hs'[g], Len(movements'))
      /\ \A g \in Handlers \ {h} : hs'[g].pc = hs[g].pc /\ hs'[g].req = hs[g].req
  BY <1>4, <1>5, <1>6, <1>7, TouchesTyped
<1>9. answered' \subseteq Refs
  <2>1. answered' \subseteq RefsOf(movements')
    BY CommitInv DEF Inv
  <2>2. PICK s \in Seq(Movement) : s = movements'
    BY <1>5
  <2>3. RefsOf(s) \in SUBSET Refs
    BY RefsTyped
  <2> QED BY <2>1, <2>2, <2>3
<1>10. balance' \in [Lots -> [Places -> [onHand : Int, reserved : Int]]]
  BY <1>4, IncrementTyped
<1>11. torn' \in [Lots -> Nat] /\ received' \in Nat
  BY <1>4 DEF Typed, TypeOK
<1>12. Typed'
  BY <1>5, <1>8, <1>9, <1>10, <1>11 DEF Typed, TypeOK
<1>13. hs'[h].pc # "log"
  BY <1>2, <1>8 DEF Moving, Working
<1> QED BY <1>3, <1>8, <1>12, <1>13

(* What a damage marking counts down is a movement of its lot, in no box.  *)
LEMMA DamageTyped ==
  ASSUME NEW r \in [op : {"damage"}, lot : Lots, qty : Nat]
  PROVE  /\ [ref |-> NoRef, leg |-> DamageLeg(r)] \in Movement
         /\ <<[ref |-> NoRef, legs |-> <<DamageLeg(r)>>]>> \in Seq(Move)
         /\ DamageLeg(r).lot = r.lot /\ BoxOf(DamageLeg(r)) = NoBox
         /\ OnHand(DamageLeg(r)) = -r.qty /\ Effect(ReservedSign, DamageLeg(r)) = 0
<1>1. PICK leg : leg = DamageLeg(r)
  OBVIOUS
<1>2. leg \in Leg
  <2>1. r.lot \in Lots /\ -r.qty \in Int
    OBVIOUS
  <2>2. "adjustment" \in DOMAIN OnHandSign
    BY DEF OnHandSign
  <2>3. NoBox \in Places /\ 0 \in Nat /\ 0 \in Int
    BY DEF Places
  <2> QED BY <1>1, <2>1, <2>2, <2>3 DEF DamageLeg, Leg
<1>3. [ref |-> NoRef, leg |-> leg] \in Movement
  BY <1>2 DEF Movement
<1>4. <<[ref |-> NoRef, legs |-> <<leg>>]>> \in Seq(Move)
  <2>1. PICK move : move = [ref |-> NoRef, legs |-> <<leg>>]
    OBVIOUS
  <2>2. move \in Move
    BY <1>2, <2>1 DEF Move
  <2> QED BY <2>1, <2>2
<1>5. /\ leg.lot = r.lot /\ leg.type = "adjustment" /\ leg.qty = -r.qty
      /\ leg.from = NoBox /\ leg.to = NoBox
  BY <1>1 DEF DamageLeg
<1>6. BoxOf(leg) = NoBox
  BY <1>5 DEF BoxOf
<1>7. OnHandSign["adjustment"] = 1 /\ ReservedSign["adjustment"] = 0
  BY DEF OnHandSign, ReservedSign
<1>8. r.qty \in Int /\ leg.qty \in Int
  BY <1>5
<1>9. OnHand(leg) = -r.qty /\ Effect(ReservedSign, leg) = 0
  BY <1>5, <1>7, <1>8 DEF OnHand, Effect
<1> QED BY <1>1, <1>3, <1>4, <1>5, <1>6, <1>9

(* The request of a damage marking.                                        *)
LEMMA DamageRequest ==
  ASSUME Typed, NEW h \in Handlers, hs[h].pc \in {"count", "log"}
  PROVE  hs[h].req \in [op : {"damage"}, lot : Lots, qty : Nat] /\ hs[h].at = 1
<1>1. hs[h].req \in Request /\ hs[h].req.op = "damage" /\ hs[h].at = 1
  BY HandlerFields DEF Typed, TypeOK, Fits
<1> QED BY <1>1 DEF Request

(* The balance is counted down, the movement not yet recorded.             *)
LEMMA CountDamageTyped ==
  ASSUME Inv, Typed, NEW h \in Handlers, CountDamage(h)
  PROVE  /\ Typed' /\ hs'[h].pc = "log" /\ hs'[h].req = hs[h].req
         /\ \A g \in Handlers \ {h} : hs'[g].pc = hs[g].pc /\ hs'[g].req = hs[g].req
<1>1. hs[h].pc = "count" /\ hs[h] \in Handler
  BY DEF CountDamage, Typed, TypeOK
<1>2. PICK r \in [op : {"damage"}, lot : Lots, qty : Nat] : r = hs[h].req
  BY <1>1, DamageRequest
<1>3. PICK leg : leg = DamageLeg(r)
  OBVIOUS
<1>4. PICK moves : moves = <<[ref |-> NoRef, legs |-> <<leg>>]>>
  OBVIOUS
<1>5. PICK rec : rec = [hs[h] EXCEPT !.pc = "log", !.moves = moves]
  OBVIOUS
<1>6. moves \in Seq(Move) /\ [ref |-> NoRef, leg |-> leg] \in Movement
  BY <1>3, <1>4, DamageTyped
<1>7. rec \in Handler /\ rec.pc = "log" /\ rec.moves = moves /\ rec.req = r /\ rec.at = 1
  <2>1. hs[h].at = 1
    BY <1>1, DamageRequest
  <2> QED BY <1>1, <1>2, <1>5, <1>6, <2>1 DEF Handler
<1>8. \A n : Fits(rec, n)
  BY <1>3, <1>4, <1>7 DEF Fits
<1>9. PICK s : s = <<[ref |-> NoRef, leg |-> leg]>>
  OBVIOUS
<1>10. s \in Seq(Movement)
  BY <1>6, <1>9
<1>11. PICK lots : lots = {r.lot}
  OBVIOUS
<1>12. lots \in SUBSET Lots
  BY <1>11
<1>13. /\ movements' = movements /\ balance' = Increment(s) /\ hs' = Touch(h, rec, lots)
       /\ answered' = answered /\ torn' = torn /\ received' = received
  BY <1>2, <1>3, <1>4, <1>5, <1>9, <1>11 DEF CountDamage, DamageLeg
<1>14. movements' \in Seq(Movement) /\ Len(movements) <= Len(movements')
  <2>1. movements \in Seq(Movement) /\ Len(movements) \in Nat
    BY DEF Typed, TypeOK
  <2> QED BY <1>13, <2>1
<1>15. /\ hs' \in [Handlers -> Handler] /\ hs'[h] = rec
       /\ \A g \in Handlers : Fits(hs'[g], Len(movements'))
       /\ \A g \in Handlers \ {h} : hs'[g].pc = hs[g].pc /\ hs'[g].req = hs[g].req
  BY <1>7, <1>8, <1>12, <1>13, <1>14, TouchesTyped
<1>16. balance' \in [Lots -> [Places -> [onHand : Int, reserved : Int]]]
  BY <1>10, <1>13, IncrementTyped
<1>17. answered' \subseteq Refs /\ torn' \in [Lots -> Nat] /\ received' \in Nat
  BY <1>13 DEF Typed, TypeOK
<1>18. Typed'
  BY <1>14, <1>15, <1>16, <1>17 DEF Typed, TypeOK
<1> QED BY <1>2, <1>7, <1>15, <1>18

(* The movement that is recorded is the one that was counted down.         *)
LEMMA LogDamageTyped ==
  ASSUME Inv, Typed, NEW h \in Handlers, LogDamage(h)
  PROVE  /\ Typed' /\ hs' = [hs EXCEPT ![h] = Idle]
         /\ movements' = Append(movements, [ref |-> NoRef, leg |-> DamageLeg(hs[h].req)])
<1>1. hs[h].pc = "log" /\ hs[h] \in Handler /\ movements \in Seq(Movement)
  BY DEF LogDamage, Typed, TypeOK
<1>2. PICK r \in [op : {"damage"}, lot : Lots, qty : Nat] : r = hs[h].req
  BY <1>1, DamageRequest
<1>3. CurrentMove(h).legs[1] = DamageLeg(r)
  <2>1. hs[h].moves = <<[ref |-> NoRef, legs |-> <<DamageLeg(r)>>]>> /\ hs[h].at = 1
    BY <1>1, <1>2 DEF Typed, Fits
  <2> QED BY <2>1 DEF CurrentMove
<1>4. PICK x \in Movement : x = [ref |-> NoRef, leg |-> DamageLeg(r)]
  BY DamageTyped
<1>5. /\ movements' = Append(movements, x) /\ hs' = [hs EXCEPT ![h] = Idle]
      /\ answered' = answered /\ torn' = torn /\ received' = received /\ balance' = balance
  BY <1>3, <1>4 DEF LogDamage
<1>6. /\ movements' \in Seq(Movement) /\ Len(movements') = Len(movements) + 1
      /\ Len(movements) \in Nat
  BY <1>1, <1>5, AppendProperties
<1>7. hs' \in [Handlers -> Handler]
  BY <1>5, IdleMoving DEF Moving, Typed, TypeOK
<1>8. ASSUME NEW g \in Handlers PROVE Fits(hs'[g], Len(movements'))
  <2>1. CASE g = h
    BY <1>5, <2>1, IdleMoving, MovingFits DEF Typed, TypeOK
  <2>2. CASE g # h
    <3>1. hs'[g] = hs[g] /\ Fits(hs[g], Len(movements))
      BY <1>5, <2>2 DEF Typed, TypeOK
    <3>2. \A i \in 1 .. Len(movements) : i \in 1 .. Len(movements')
      BY <1>6
    <3> QED BY <3>1, <3>2 DEF Fits
  <2> QED BY <2>1, <2>2
<1>9. Typed'
  BY <1>5, <1>6, <1>7, <1>8 DEF Typed, TypeOK
<1> QED BY <1>2, <1>4, <1>5, <1>9

(* A marking that dies half way leaves what it counted down.               *)
LEMMA CrashTyped ==
  ASSUME Typed, NEW h \in Handlers, Crash(h)
  PROVE  Typed'
<1>1. torn' \in [Lots -> Nat]
  <2>1. torn \in [Lots -> Nat]
    BY DEF Typed, TypeOK
  <2>2. CASE hs[h].pc = "log"
    <3>1. PICK r \in [op : {"damage"}, lot : Lots, qty : Nat] : r = hs[h].req
      BY <2>2, DamageRequest
    <3>2. torn' = [torn EXCEPT ![r.lot] = torn[r.lot] + r.qty]
      BY <2>2, <3>1 DEF Crash
    <3>3. r.lot \in Lots /\ torn[r.lot] + r.qty \in Nat
      BY <2>1
    <3> QED BY <2>1, <3>2, <3>3
  <2>3. CASE hs[h].pc # "log"
    BY <2>1, <2>3 DEF Crash
  <2> QED BY <2>2, <2>3
<1>2. Idle \in Handler /\ Fits(Idle, Len(movements))
  BY IdleMoving, MovingFits
<1> QED BY <1>1, <1>2, AloneTyped DEF Crash, Typed, TypeOK

(* At the start nothing is counted and nobody works.                       *)
LEMMA InitTyped == Init => Typed
<1> HAVE Init
<1>1. movements \in Seq(Movement) /\ answered \subseteq Refs /\ received \in Nat
  BY DEF Init
<1>2. balance \in [Lots -> [Places -> [onHand : Int, reserved : Int]]]
  BY DEF Init
<1>3. hs \in [Handlers -> Handler] /\ \A h \in Handlers : Fits(hs[h], Len(movements))
  BY IdleMoving, MovingFits DEF Init
<1>4. torn \in [Lots -> Nat]
  BY DEF Init
<1> QED BY <1>1, <1>2, <1>3, <1>4 DEF Typed, TypeOK

(* Every step keeps the types.                                             *)
LEMMA NextTyped == Inv /\ Typed /\ [Next]_vars => Typed'
<1> SUFFICES ASSUME Inv, Typed, [Next]_vars PROVE Typed'
  OBVIOUS
<1>1. CASE UNCHANGED vars
  BY <1>1 DEF Typed, TypeOK, vars
<1>2. ASSUME NEW h \in Handlers,
             \/ ReceivePost(h) \/ ReceiveAmend(h) \/ ReceiveCorrection(h) \/ ReceiveDamage(h)
             \/ Serve(h) \/ CommitUnknown(h) \/ Crash(h)
      PROVE  Typed'
  <2>1. CASE ReceivePost(h) \/ ReceiveAmend(h) \/ ReceiveCorrection(h) \/ ReceiveDamage(h)
    BY <2>1, ReceivesTyped
  <2>2. CASE ReadMovement(h)
    BY <2>2, ReadMovementTyped
  <2>3. CASE ReadOnHand(h)
    BY <2>3, ReadOnHandTyped
  <2>4. CASE Open(h)
    BY <2>4, OpenTyped
  <2>5. CASE CheckReference(h)
    BY <2>5, CheckReferenceTyped
  <2>6. CASE WriteLeg(h)
    BY <2>6, WriteLegTyped
  <2>7. CASE Commit(h) \/ CommitUnknown(h)
    BY <2>7, CommitTyped
  <2>8. CASE CountDamage(h)
    BY <2>8, CountDamageTyped
  <2>9. CASE LogDamage(h)
    BY <2>9, LogDamageTyped
  <2>10. CASE Crash(h)
    BY <2>10, CrashTyped
  <2> QED BY <1>2, <2>1, <2>2, <2>3, <2>4, <2>5, <2>6, <2>7, <2>8, <2>9, <2>10 DEF Serve
<1> QED BY <1>1, <1>2 DEF Next

(* Every variable has its type in every reachable state, whatever requests *)
(* are received: no step reads a movement, a move or a leg that is not     *)
(* there, and no sum is taken of what are not numbers.                     *)
THEOREM WellTyped == Spec => []TypeOK
<1>1. Spec => [](Inv /\ Typed)
  <2>1. Init => Inv /\ Typed
    BY InitInv, InitTyped
  <2>2. Inv /\ Typed /\ [Next]_vars => Inv' /\ Typed'
    BY NextInv, NextTyped
  <2> QED BY <2>1, <2>2, PTL DEF Spec
<1>2. Typed => TypeOK
  BY DEF Typed
<1> QED BY <1>1, <1>2, PTL
-----------------------------------------------------------------------------
(* Balances.                                                               *)

\* Marking(l), and the units of l those markings have counted, of handlers q.
Held(q, l) == {h \in Handlers : q[h].pc = "log" /\ q[h].req.lot = l}
Owed(q, l) == SumFunction([h \in Held(q, l) |-> q[h].req.qty])

\* Whoever has a movement to record is marking damage.
Marks(q) == \A h \in Handlers :
    q[h].pc = "log" => q[h].req \in [op : {"damage"}, lot : Lots, qty : Nat]

\* Two states of a handler that owe the same.
OwesAlike(a, b) == (a.pc = "log" <=> b.pc = "log") /\ (a.pc = "log" => a.req = b.req)

(* Finitely many markings owe numbers.                                     *)
LEMMA OwedTerms ==
  ASSUME NEW q, Marks(q), NEW l
  PROVE  /\ IsFiniteSet(Held(q, l))
         /\ \A h \in Held(q, l) : q[h].req.qty \in Int
         /\ Owed(q, l) = SumFunctionOnSet([h \in Held(q, l) |-> q[h].req.qty], Held(q, l))
         /\ Owed(q, l) \in Int
<1> DEFINE f == [h \in Held(q, l) |-> q[h].req.qty]
<1>1. IsFiniteSet(Held(q, l))
  BY FinitenessAssumption, FS_Subset DEF Held
<1>2. ASSUME NEW h \in Held(q, l) PROVE q[h].req.qty \in Int /\ f[h] = q[h].req.qty
  <2>1. q[h].req \in [op : {"damage"}, lot : Lots, qty : Nat]
    BY DEF Held, Marks
  <2> QED BY <2>1
<1>3. Owed(q, l) = SumFunctionOnSet(f, Held(q, l))
  BY DEF Owed, SumFunction
<1>4. SumFunctionOnSet(f, Held(q, l)) \in Int
  <2>1. \A h \in Held(q, l) : f[h] \in Int
    BY <1>2
  <2> HIDE DEF f
  <2> QED BY <1>1, <2>1, SumInt
<1> QED BY <1>1, <1>2, <1>3, <1>4

(* A step that neither starts nor ends a marking leaves what is owed.      *)
LEMMA OwedSame ==
  ASSUME NEW q, NEW r, \A h \in Handlers : OwesAlike(q[h], r[h]), NEW l
  PROVE  Owed(q, l) = Owed(r, l)
<1>1. Held(q, l) = Held(r, l)
  BY DEF Held, OwesAlike
<1>2. \A h \in Held(q, l) : q[h].req.qty = r[h].req.qty
  BY DEF Held, OwesAlike
<1>3. [h \in Held(q, l) |-> q[h].req.qty] = [h \in Held(r, l) |-> r[h].req.qty]
  BY <1>1, <1>2
<1> QED BY <1>3 DEF Owed

(* One more marking owes its units, of its lot.                            *)
LEMMA OwedMore ==
  ASSUME NEW q, NEW r, Marks(q), Marks(r), NEW h \in Handlers,
         q[h].pc # "log", r[h].pc = "log",
         \A g \in Handlers \ {h} : OwesAlike(q[g], r[g]), NEW l
  PROVE  Owed(r, l) = IF r[h].req.lot = l THEN r[h].req.qty + Owed(q, l) ELSE Owed(q, l)
<1> DEFINE f == [g \in Held(q, l) |-> q[g].req.qty]
           k == [g \in Held(r, l) |-> r[g].req.qty]
           S == Held(q, l)
<1>1. h \notin S /\ IsFiniteSet(S)
  <2>1. IsFiniteSet(S)
    BY OwedTerms
  <2>2. h \notin S
    BY DEF Held
  <2> QED BY <2>1, <2>2
<1>2. \A g \in S : g \in Held(r, l) /\ q[g].req.qty = r[g].req.qty
  BY DEF Held, OwesAlike
<1>3. Held(r, l) \subseteq S \cup {h}
  BY DEF Held, OwesAlike
<1>4. h \in Held(r, l) <=> r[h].req.lot = l
  BY DEF Held
<1>5. \A g \in S : f[g] = k[g]
  BY <1>2
<1>6. /\ Owed(q, l) = SumFunctionOnSet(f, S)
      /\ Owed(r, l) = SumFunctionOnSet(k, Held(r, l))
  BY OwedTerms
<1>7. CASE r[h].req.lot = l
  <2>1. Held(r, l) = S \cup {h}
    BY <1>2, <1>3, <1>4, <1>7
  <2>2. \A g \in S \cup {h} : k[g] \in Int
    BY <2>1, OwedTerms
  <2>3. k[h] = r[h].req.qty
    BY <1>4, <1>7
  <2> HIDE DEF S, f, k
  <2>4. SumFunctionOnSet(k, S \cup {h}) = k[h] + SumFunctionOnSet(k, S)
    BY <1>1, <2>2, SumAdd
  <2>5. SumFunctionOnSet(k, S) = SumFunctionOnSet(f, S)
    BY <1>1, <1>5, SumSame
  <2>6. Owed(r, l) = r[h].req.qty + Owed(q, l)
    BY <1>6, <2>1, <2>3, <2>4, <2>5
  <2> QED BY <1>7, <2>6
<1>8. CASE r[h].req.lot # l
  <2>1. Held(r, l) = S
    BY <1>2, <1>3, <1>4, <1>8
  <2> HIDE DEF S, f, k
  <2>2. SumFunctionOnSet(k, S) = SumFunctionOnSet(f, S)
    BY <1>1, <1>5, SumSame
  <2>3. Owed(r, l) = Owed(q, l)
    BY <1>6, <2>1, <2>2
  <2> QED BY <1>8, <2>3
<1> QED BY <1>7, <1>8

(* The invariant in these terms.                                           *)
LEMMA BalanceInOwed ==
  /\ OnlyDamageMarkingDiverges <=>
       \A l \in Lots, b \in Places :
         /\ balance[l][b].onHand + (IF b = NoBox THEN torn[l] + Owed(hs, l) ELSE 0) =
              Total(movements, l, b, OnHandSign)
         /\ balance[l][b].reserved = Total(movements, l, b, ReservedSign)
  /\ OnlyDamageMarkingDiverges' <=>
       \A l \in Lots, b \in Places :
         /\ balance'[l][b].onHand + (IF b = NoBox THEN torn'[l] + Owed(hs', l) ELSE 0) =
              Total(movements', l, b, OnHandSign)
         /\ balance'[l][b].reserved = Total(movements', l, b, ReservedSign)
<1>1. \A l : Unrecorded(l) = torn[l] + Owed(hs, l)
  BY DEF Unrecorded, Marking, Owed, Held
<1>2. \A l : Unrecorded(l)' = torn'[l] + Owed(hs', l)
  BY DEF Unrecorded, Marking, Owed, Held
<1>3. OnlyDamageMarkingDiverges <=>
       \A l \in Lots, b \in Places :
         /\ balance[l][b].onHand + (IF b = NoBox THEN torn[l] + Owed(hs, l) ELSE 0) =
              Total(movements, l, b, OnHandSign)
         /\ balance[l][b].reserved = Total(movements, l, b, ReservedSign)
  BY <1>1, Zenon DEF OnlyDamageMarkingDiverges
<1>4. OnlyDamageMarkingDiverges' <=>
       \A l \in Lots, b \in Places :
         /\ balance'[l][b].onHand + (IF b = NoBox THEN torn'[l] + Owed(hs', l) ELSE 0) =
              Total(movements', l, b, OnHandSign)
         /\ balance'[l][b].reserved = Total(movements', l, b, ReservedSign)
  BY <1>2, Zenon DEF OnlyDamageMarkingDiverges
<1> QED BY <1>3, <1>4

(* Typed handlers that fit their requests are such.                        *)
LEMMA FitMarks ==
  ASSUME NEW q \in [Handlers -> Handler], NEW n, \A h \in Handlers : Fits(q[h], n)
  PROVE  Marks(q)
<1>1. ASSUME NEW h \in Handlers, q[h].pc = "log"
      PROVE  q[h].req \in [op : {"damage"}, lot : Lots, qty : Nat]
  <2>1. q[h].req \in Request /\ q[h].req.op = "damage"
    BY <1>1, HandlerFields DEF Fits
  <2> QED BY <2>1 DEF Request
<1> QED BY <1>1 DEF Marks

(* They are before and after every step.                                   *)
LEMMA TypedMarks == (Typed => Marks(hs)) /\ (Typed' => Marks(hs'))
<1>1. Typed => Marks(hs)
  BY FitMarks DEF Typed, TypeOK
<1>2. Typed' => Marks(hs')
  BY FitMarks DEF Typed, TypeOK
<1> QED BY <1>1, <1>2

(* The numbers of the invariant.                                           *)
LEMMA TypedNumbers ==
  ASSUME Typed, NEW l \in Lots, NEW b \in Places
  PROVE  /\ balance[l][b].onHand \in Int /\ balance[l][b].reserved \in Int
         /\ torn[l] \in Int /\ Owed(hs, l) \in Int
         /\ Total(movements, l, b, OnHandSign) \in Int
         /\ Total(movements, l, b, ReservedSign) \in Int
<1>1. /\ balance[l][b].onHand \in Int /\ balance[l][b].reserved \in Int /\ torn[l] \in Int
  BY DEF Typed, TypeOK
<1>2. Owed(hs, l) \in Int
  BY TypedMarks, OwedTerms
<1>3. movements \in Seq(Movement)
  BY DEF Typed, TypeOK
<1>4. Total(movements, l, b, OnHandSign) \in Int /\ Total(movements, l, b, ReservedSign) \in Int
  BY <1>3, TotalInt DEF Signs
<1> QED BY <1>1, <1>2, <1>4

(* A step that neither moves stock nor starts or ends a marking.           *)
LEMMA OtherBalanced ==
  ASSUME OnlyDamageMarkingDiverges, movements' = movements, balance' = balance, torn' = torn,
         \A g \in Handlers : OwesAlike(hs[g], hs'[g])
  PROVE  OnlyDamageMarkingDiverges'
<1>1. \A l : Owed(hs', l) = Owed(hs, l)
  BY OwedSame
<1> QED BY <1>1, BalanceInOwed

(* A commit appends what it adds to the balances.                          *)
LEMMA CommitBalanced ==
  ASSUME Inv, Typed, OnlyDamageMarkingDiverges, NEW h \in Handlers,
         Commit(h) \/ CommitUnknown(h)
  PROVE  OnlyDamageMarkingDiverges'
<1>1. PICK buf \in Seq(Movement) : buf = hs[h].buf
  BY CommitTyped
<1>2. /\ hs[h].pc # "log" /\ movements' = movements \o buf /\ balance' = Increment(buf)
      /\ torn' = torn /\ movements \in Seq(Movement)
  BY <1>1 DEF Commit, CommitUnknown, Store, Typed, TypeOK
<1>3. \A l : Owed(hs', l) = Owed(hs, l)
  <2>1. \A g \in Handlers : OwesAlike(hs[g], hs'[g])
    BY <1>2, CommitTyped DEF OwesAlike
  <2> QED BY <2>1, OwedSame
<1>4. ASSUME NEW l \in Lots, NEW b \in Places
      PROVE  /\ balance'[l][b].onHand + (IF b = NoBox THEN torn'[l] + Owed(hs', l) ELSE 0) =
                  Total(movements', l, b, OnHandSign)
             /\ balance'[l][b].reserved = Total(movements', l, b, ReservedSign)
  <2>1. /\ balance[l][b].onHand + (IF b = NoBox THEN torn[l] + Owed(hs, l) ELSE 0) =
             Total(movements, l, b, OnHandSign)
        /\ balance[l][b].reserved = Total(movements, l, b, ReservedSign)
    BY BalanceInOwed
  <2>2. /\ Total(movements', l, b, OnHandSign) =
             Total(movements, l, b, OnHandSign) + Total(buf, l, b, OnHandSign)
        /\ Total(movements', l, b, ReservedSign) =
             Total(movements, l, b, ReservedSign) + Total(buf, l, b, ReservedSign)
    BY <1>2, TotalConcat DEF Signs
  <2>3. Total(buf, l, b, OnHandSign) \in Int /\ Total(buf, l, b, ReservedSign) \in Int
    BY TotalInt DEF Signs
  <2>4. /\ balance'[l][b].onHand = balance[l][b].onHand + Total(buf, l, b, OnHandSign)
        /\ balance'[l][b].reserved = balance[l][b].reserved + Total(buf, l, b, ReservedSign)
    BY <1>2 DEF Increment
  <2>5. PICK o \in Int : /\ o = IF b = NoBox THEN torn[l] + Owed(hs, l) ELSE 0
                         /\ o = IF b = NoBox THEN torn'[l] + Owed(hs', l) ELSE 0
    <3>1. torn'[l] = torn[l] /\ Owed(hs', l) = Owed(hs, l)
      BY <1>2, <1>3
    <3>2. torn[l] + Owed(hs, l) \in Int
      <4>1. torn[l] \in Int /\ Owed(hs, l) \in Int
        BY TypedNumbers
      <4> QED BY <4>1
    <3> QED BY <3>1, <3>2
  <2>6. PICK x \in Int : x = balance[l][b].onHand
    BY TypedNumbers
  <2>7. PICK d \in Int : d = Total(buf, l, b, OnHandSign)
    BY <2>3
  <2>8. x + o = Total(movements, l, b, OnHandSign)
    BY <2>1, <2>5, <2>6
  <2>9. Total(movements', l, b, OnHandSign) = (x + o) + d /\ balance'[l][b].onHand = x + d
    BY <2>2, <2>4, <2>6, <2>7, <2>8
  <2>10. balance'[l][b].onHand + o = Total(movements', l, b, OnHandSign)
    BY <2>9
  <2>11. balance'[l][b].reserved = Total(movements', l, b, ReservedSign)
    BY <2>1, <2>2, <2>4
  <2> QED BY <2>5, <2>10, <2>11
<1> QED BY <1>4, BalanceInOwed

(* What the movement of a damage marking adds.                             *)
LEMMA DamageTotal ==
  ASSUME NEW r \in [op : {"damage"}, lot : Lots, qty : Nat], NEW s,
         s = <<[ref |-> NoRef, leg |-> DamageLeg(r)]>>, NEW l \in Lots, NEW b \in Places
  PROVE  /\ s \in Seq(Movement)
         /\ Total(s, l, b, OnHandSign) = IF r.lot = l /\ b = NoBox THEN -r.qty ELSE 0
         /\ Total(s, l, b, ReservedSign) = 0
<1>1. PICK x \in Movement : x = [ref |-> NoRef, leg |-> DamageLeg(r)]
  BY DamageTyped
<1>2. s = <<x>> /\ s \in Seq(Movement)
  BY <1>1
<1>3. /\ x.leg.lot = r.lot /\ BoxOf(x.leg) = NoBox
      /\ Effect(OnHandSign, x.leg) = -r.qty /\ Effect(ReservedSign, x.leg) = 0
  BY <1>1, DamageTyped DEF OnHand
<1>4. /\ Total(s, l, b, OnHandSign) =
           IF x.leg.lot = l /\ BoxOf(x.leg) = b THEN Effect(OnHandSign, x.leg) ELSE 0
      /\ Total(s, l, b, ReservedSign) =
           IF x.leg.lot = l /\ BoxOf(x.leg) = b THEN Effect(ReservedSign, x.leg) ELSE 0
  BY <1>2, TotalOne DEF Signs
<1> QED BY <1>2, <1>3, <1>4

(* Units that are counted down are owed until they are recorded.           *)
LEMMA CountDamageBalanced ==
  ASSUME Inv, Typed, OnlyDamageMarkingDiverges, NEW h \in Handlers, CountDamage(h)
  PROVE  OnlyDamageMarkingDiverges'
<1>1. hs[h].pc = "count"
  BY DEF CountDamage
<1>2. PICK r \in [op : {"damage"}, lot : Lots, qty : Nat] : r = hs[h].req
  BY <1>1, DamageRequest
<1>3. PICK s : s = <<[ref |-> NoRef, leg |-> DamageLeg(r)]>>
  OBVIOUS
<1>4. /\ movements' = movements /\ torn' = torn /\ balance' = Increment(s)
  BY <1>2, <1>3 DEF CountDamage, DamageLeg
<1>5. Marks(hs) /\ Marks(hs')
  BY CountDamageTyped, TypedMarks
<1>6. \A l : Owed(hs', l) = IF r.lot = l THEN r.qty + Owed(hs, l) ELSE Owed(hs, l)
  <2>1. hs'[h].pc = "log" /\ hs'[h].req = r
    BY <1>2, CountDamageTyped
  <2>2. \A g \in Handlers \ {h} : OwesAlike(hs[g], hs'[g])
    BY CountDamageTyped DEF OwesAlike
  <2> QED BY <1>1, <1>5, <2>1, <2>2, OwedMore
<1>7. ASSUME NEW l \in Lots, NEW b \in Places
      PROVE  /\ balance'[l][b].onHand + (IF b = NoBox THEN torn'[l] + Owed(hs', l) ELSE 0) =
                  Total(movements', l, b, OnHandSign)
             /\ balance'[l][b].reserved = Total(movements', l, b, ReservedSign)
  <2>1. /\ balance[l][b].onHand + (IF b = NoBox THEN torn[l] + Owed(hs, l) ELSE 0) =
             Total(movements, l, b, OnHandSign)
        /\ balance[l][b].reserved = Total(movements, l, b, ReservedSign)
    BY BalanceInOwed
  <2>2. /\ balance'[l][b].onHand = balance[l][b].onHand + Total(s, l, b, OnHandSign)
        /\ balance'[l][b].reserved = balance[l][b].reserved + Total(s, l, b, ReservedSign)
    BY <1>4 DEF Increment
  <2>3. /\ Total(s, l, b, OnHandSign) = IF r.lot = l /\ b = NoBox THEN -r.qty ELSE 0
        /\ Total(s, l, b, ReservedSign) = 0
    BY <1>3, DamageTotal
  <2>4. torn'[l] = torn[l] /\ r.qty \in Int
    BY <1>4
  <2> QED BY <1>4, <1>6, <2>1, <2>2, <2>3, <2>4, TypedNumbers
<1> QED BY <1>7, BalanceInOwed

(* The end of a marking: what it owed is recorded, or lost in a crash.     *)
LEMMA EndBalanced ==
  ASSUME Inv, Typed, Typed', OnlyDamageMarkingDiverges, NEW h \in Handlers,
         hs[h].pc = "log", LogDamage(h) \/ Crash(h)
  PROVE  OnlyDamageMarkingDiverges'
<1>1. PICK r \in [op : {"damage"}, lot : Lots, qty : Nat] : r = hs[h].req
  BY DamageRequest
<1>2. PICK s : s = <<[ref |-> NoRef, leg |-> DamageLeg(r)]>>
  OBVIOUS
<1>3. hs' = [hs EXCEPT ![h] = Idle] /\ balance' = balance /\ movements \in Seq(Movement)
  BY DEF LogDamage, Crash, Typed, TypeOK
<1>4. \A l : Owed(hs, l) = IF r.lot = l THEN r.qty + Owed(hs', l) ELSE Owed(hs', l)
  <2>1. Marks(hs) /\ Marks(hs')
    BY TypedMarks
  <2>2. hs'[h].pc # "log" /\ \A g \in Handlers \ {h} : OwesAlike(hs'[g], hs[g])
    BY <1>3 DEF OwesAlike, Idle, Typed, TypeOK
  <2> QED BY <1>1, <2>1, <2>2, OwedMore
<1>5. ASSUME NEW l \in Lots, NEW b \in Places
      PROVE  /\ balance'[l][b].onHand + (IF b = NoBox THEN torn'[l] + Owed(hs', l) ELSE 0) =
                  Total(movements', l, b, OnHandSign)
             /\ balance'[l][b].reserved = Total(movements', l, b, ReservedSign)
  <2>1. /\ balance[l][b].onHand + (IF b = NoBox THEN torn[l] + Owed(hs, l) ELSE 0) =
             Total(movements, l, b, OnHandSign)
        /\ balance[l][b].reserved = Total(movements, l, b, ReservedSign)
    BY BalanceInOwed
  <2>2. PICK o \in Int : o = Owed(hs', l)
    <3>1. Marks(hs')
      BY TypedMarks
    <3> QED BY <3>1, OwedTerms
  <2>3. CASE LogDamage(h)
    <3>1. movements' = movements \o s /\ torn' = torn
      <4>1. PICK x \in Movement : x = [ref |-> NoRef, leg |-> DamageLeg(r)]
        BY DamageTyped
      <4>2. movements' = Append(movements, x)
        BY <1>1, <2>3, <4>1, LogDamageTyped
      <4>3. Append(movements, x) = movements \o <<x>>
        BY <1>3, AppendIsConcat
      <4> QED BY <1>2, <2>3, <4>1, <4>2, <4>3 DEF LogDamage
    <3>2. /\ s \in Seq(Movement)
          /\ Total(s, l, b, OnHandSign) = IF r.lot = l /\ b = NoBox THEN -r.qty ELSE 0
          /\ Total(s, l, b, ReservedSign) = 0
      BY <1>2, DamageTotal
    <3>3. /\ Total(movements', l, b, OnHandSign) =
               Total(movements, l, b, OnHandSign) + Total(s, l, b, OnHandSign)
          /\ Total(movements', l, b, ReservedSign) =
               Total(movements, l, b, ReservedSign) + Total(s, l, b, ReservedSign)
      BY <1>3, <3>1, <3>2, TotalConcat DEF Signs
    <3>4. torn'[l] = torn[l] /\ balance'[l][b] = balance[l][b]
      BY <1>3, <3>1
    <3>5. Total(movements', l, b, ReservedSign) = balance'[l][b].reserved
      <4>1. PICK x \in Int : x = Total(movements, l, b, ReservedSign)
        BY TypedNumbers
      <4> QED BY <2>1, <3>2, <3>3, <3>4, <4>1
    <3>6. CASE b = NoBox
      <4>1. PICK x \in Int : x = balance[l][b].onHand
        BY TypedNumbers
      <4>2. PICK t \in Int : t = torn[l]
        BY TypedNumbers
      <4>3. PICK d \in Int : d = IF r.lot = l THEN r.qty ELSE 0
        OBVIOUS
      <4>4. Owed(hs, l) = d + o /\ Total(s, l, b, OnHandSign) = -d
        BY <1>4, <2>2, <3>2, <3>6, <4>3
      <4>5. Total(movements, l, b, OnHandSign) = x + (t + (d + o))
        BY <2>1, <3>6, <4>1, <4>2, <4>4
      <4>6. Total(movements', l, b, OnHandSign) = (x + (t + (d + o))) + (-d)
        BY <3>3, <4>4, <4>5
      <4>7. balance'[l][b].onHand + (torn'[l] + Owed(hs', l)) = x + (t + o)
        BY <2>2, <3>4, <4>1, <4>2
      <4>8. (x + (t + (d + o))) + (-d) = x + (t + o)
        OBVIOUS
      <4> QED BY <3>5, <3>6, <4>6, <4>7, <4>8
    <3>7. CASE b # NoBox
      <4>1. PICK x \in Int : x = Total(movements, l, b, OnHandSign)
        BY TypedNumbers
      <4>2. Total(s, l, b, OnHandSign) = 0
        BY <3>2, <3>7
      <4>3. balance[l][b].onHand = x
        <5>1. balance[l][b].onHand \in Int
          BY TypedNumbers
        <5> QED BY <2>1, <3>7, <4>1, <5>1
      <4>4. Total(movements', l, b, OnHandSign) = x
        BY <3>3, <4>1, <4>2
      <4> QED BY <3>4, <3>5, <3>7, <4>3, <4>4
    <3> QED BY <3>6, <3>7
  <2>4. CASE Crash(h)
    <3>1. movements' = movements /\ torn' = [torn EXCEPT ![r.lot] = torn[r.lot] + r.qty]
      BY <1>1, <2>4 DEF Crash
    <3>2. torn'[l] = IF r.lot = l THEN torn[l] + r.qty ELSE torn[l]
      BY <3>1 DEF Typed, TypeOK
    <3>3. balance'[l][b] = balance[l][b]
      BY <1>3
    <3> QED BY <1>4, <2>1, <2>2, <3>1, <3>2, <3>3, TypedNumbers
  <2> QED BY <2>3, <2>4
<1> QED BY <1>5, BalanceInOwed

(* The invariant is inductive for typed states.                            *)
LEMMA InitBalanced == Init => OnlyDamageMarkingDiverges
<1> HAVE Init
<1>1. \A l \in Lots, b \in Places :
        balance[l][b].onHand = 0 /\ balance[l][b].reserved = 0 /\ torn[l] = 0
  BY DEF Init
<1>2. movements = <<>>
  BY DEF Init
<1>3. \A l \in Lots, b \in Places :
        Total(movements, l, b, OnHandSign) = 0 /\ Total(movements, l, b, ReservedSign) = 0
  BY <1>2, TotalEmpty DEF Signs
<1>4. \A l \in Lots : Owed(hs, l) = 0
  <2>1. \A h \in Handlers : hs[h].pc # "log"
    BY DEF Init, Idle
  <2>2. \A l \in Lots : Held(hs, l) = {}
    BY <2>1 DEF Held
  <2>3. Marks(hs)
    BY <2>1 DEF Marks
  <2>4. ASSUME NEW l \in Lots PROVE Owed(hs, l) = 0
    <3> DEFINE f == [h \in Held(hs, l) |-> hs[h].req.qty]
    <3>1. Owed(hs, l) = SumFunctionOnSet(f, Held(hs, l))
      BY <2>3, OwedTerms
    <3> HIDE DEF f
    <3>2. SumFunctionOnSet(f, {}) = 0
      BY SumEmpty
    <3> QED BY <2>2, <3>1, <3>2
  <2> QED BY <2>4
<1> QED BY <1>1, <1>3, <1>4, BalanceInOwed

(* A step that only changes a handler, before or after which it marks      *)
(* nothing it has counted.                                                 *)
LEMMA AloneBalanced ==
  ASSUME Typed, OnlyDamageMarkingDiverges, NEW h \in Handlers, NEW rec,
         hs' = [hs EXCEPT ![h] = rec], hs[h].pc # "log", rec.pc # "log",
         movements' = movements, balance' = balance, torn' = torn
  PROVE  OnlyDamageMarkingDiverges'
<1>1. \A g \in Handlers : OwesAlike(hs[g], hs'[g])
  BY DEF OwesAlike, Typed, TypeOK
<1> QED BY <1>1, OtherBalanced

\* A step that changes handler h alone, and neither starts nor ends a marking.
Quiet(h) ==
    /\ UNCHANGED <<movements, balance, torn>>
    /\ hs[h].pc # "log"
    /\ \E rec : hs' = [hs EXCEPT ![h] = rec] /\ rec.pc # "log"

(* Receiving, reading, checking and writing into a transaction are such.   *)
LEMMA ReceiveQuiet ==
  ASSUME Typed, NEW h \in Handlers,
         ReceivePost(h) \/ ReceiveAmend(h) \/ ReceiveCorrection(h) \/ ReceiveDamage(h)
  PROVE  Quiet(h)
<1>1. ASSUME NEW req, NEW pc, NEW moves, NEW shared, Receive(h, req, pc, moves, shared),
             pc # "log"
      PROVE  Quiet(h)
  <2>1. PICK r : r = [Idle EXCEPT !.pc = pc, !.req = req, !.moves = moves, !.shared = shared]
    OBVIOUS
  <2>2. r.pc = pc
    BY <2>1 DEF Idle
  <2>3. hs' = [hs EXCEPT ![h] = r] /\ hs[h].pc = "idle" /\ UNCHANGED <<movements, balance, torn>>
    BY <1>1, <2>1 DEF Receive
  <2> QED BY <1>1, <2>2, <2>3 DEF Quiet
<1>2. CASE ReceivePost(h)
  <2>1. PICK p \in Posts :
          Receive(h, [op |-> "post"], IF p.shared THEN "open" ELSE "check", p.moves, p.shared)
    BY <1>2 DEF ReceivePost
  <2>2. (IF p.shared THEN "open" ELSE "check") # "log"
    OBVIOUS
  <2> QED BY <1>1, <2>1, <2>2
<1>3. CASE ReceiveAmend(h)
  BY <1>1, <1>3 DEF ReceiveAmend
<1>4. CASE ReceiveCorrection(h)
  BY <1>1, <1>4 DEF ReceiveCorrection
<1>5. CASE ReceiveDamage(h)
  BY <1>1, <1>5 DEF ReceiveDamage
<1> QED BY <1>2, <1>3, <1>4, <1>5

(* So are the steps of a request up to its commit.                         *)
LEMMA WorkQuiet ==
  ASSUME Typed, NEW h \in Handlers,
         ReadMovement(h) \/ ReadOnHand(h) \/ Open(h) \/ CheckReference(h) \/ WriteLeg(h)
  PROVE  Quiet(h)
<1>1. PICK a : a = hs[h]
  OBVIOUS
<1>2. PICK w : w = WithSnapshot(h)
  OBVIOUS
<1>3. a \in Handler /\ w \in Handler /\ w.pc = a.pc
  BY <1>1, <1>2, SnapshotTyped DEF Typed, TypeOK
<1>4. a.pc # "log" /\ UNCHANGED <<movements, balance, torn>>
  BY <1>1 DEF ReadMovement, ReadOnHand, Open, CheckReference, WriteLeg
<1>5. Idle.pc # "log" /\ NextMove(w).pc # "log" /\ Abort(a).pc # "log"
  BY <1>3, IdleMoving, NextMoveMoving DEF Moving, Working
<1>6. CASE ReadMovement(h)
  <2>1. PICK moves : hs' = [hs EXCEPT ![h].pc = "check", ![h].moves = moves]
    BY <1>6 DEF ReadMovement
  <2>2. PICK r : r = [a EXCEPT !.pc = "check", !.moves = moves]
    OBVIOUS
  <2>3. r.pc = "check" /\ hs' = [hs EXCEPT ![h] = r]
    BY <1>1, <1>3, <2>1, <2>2 DEF Handler
  <2> QED BY <1>1, <1>4, <2>3 DEF Quiet
<1>7. CASE ReadOnHand(h)
  <2>1. PICK l, diff : hs' = [hs EXCEPT ![h] = IF diff = 0 THEN Idle
                 ELSE [a EXCEPT !.pc = "check", !.moves = Adjustment(l, diff, NoBox, 0, 0)]]
    BY <1>1, <1>7 DEF ReadOnHand
  <2>2. PICK r : r = [a EXCEPT !.pc = "check", !.moves = Adjustment(l, diff, NoBox, 0, 0)]
    OBVIOUS
  <2>3. r.pc = "check"
    BY <1>3, <2>2 DEF Handler
  <2> QED BY <1>1, <1>4, <1>5, <2>1, <2>2, <2>3 DEF Quiet
<1>8. CASE Open(h)
  <2>1. PICK moves : hs' = [hs EXCEPT ![h] = [w EXCEPT !.pc = "check", !.moves = moves]]
    BY <1>2, <1>8 DEF Open
  <2>2. PICK r : r = [w EXCEPT !.pc = "check", !.moves = moves]
    OBVIOUS
  <2>3. r.pc = "check" /\ hs' = [hs EXCEPT ![h] = r]
    BY <1>3, <2>1, <2>2 DEF Handler
  <2> QED BY <1>1, <1>4, <2>3 DEF Quiet
<1>9. CASE CheckReference(h)
  <2>1. PICK r : r = [a EXCEPT !.pc = "write"]
    OBVIOUS
  <2>2. PICK q : q = [w EXCEPT !.pc = "write"]
    OBVIOUS
  <2>3. r.pc = "write" /\ q.pc = "write"
    BY <1>3, <2>1, <2>2 DEF Handler
  <2>4. \E n \in {r, q, NextMove(w)} : hs' = [hs EXCEPT ![h] = n]
    BY <1>1, <1>2, <1>9, <2>1, <2>2 DEF CheckReference
  <2> QED BY <1>1, <1>4, <1>5, <2>3, <2>4 DEF Quiet
<1>10. CASE WriteLeg(h)
  <2>1. PICK x : x = [ref |-> IF a.leg = Len(CurrentMove(h).legs)
                              THEN CurrentMove(h).ref ELSE NoRef,
                      leg |-> CurrentMove(h).legs[a.leg]]
    OBVIOUS
  <2>2. PICK buf : buf = Append(w.buf, x)
    OBVIOUS
  <2>3. PICK made : made = [w EXCEPT !.buf = buf]
    OBVIOUS
  <2>4. PICK r : r = [made EXCEPT !.leg = made.leg + 1]
    OBVIOUS
  <2>5. PICK q : q = [made EXCEPT !.pc = "commit"]
    OBVIOUS
  <2>6. made.pc = a.pc /\ r.pc = a.pc /\ q.pc = "commit"
    BY <1>3, <2>3, <2>4, <2>5 DEF Handler
  <2>7. NextMove(made).pc \in {"idle", "check", "commit"}
    BY <1>3, <2>3 DEF NextMove, Advance, Restart, Idle, Handler
  <2>8. \E n \in {Abort(a), r, q, NextMove(made)} : hs' = [hs EXCEPT ![h] = n]
    <3>1. \A m : [m EXCEPT !.leg = @ + 1] = [m EXCEPT !.leg = m.leg + 1]
      OBVIOUS
    <3>2. [w EXCEPT !.buf = Append(@, x)] = made
      BY <2>2, <2>3
    <3> QED BY <1>1, <1>2, <1>10, <2>1, <2>4, <2>5, <3>1, <3>2 DEF WriteLeg
  <2> QED BY <1>1, <1>4, <1>5, <2>6, <2>7, <2>8 DEF Quiet
<1> QED BY <1>6, <1>7, <1>8, <1>9, <1>10

(* Every step keeps the balances.                                          *)
LEMMA NextBalanced ==
  Inv /\ Typed /\ Typed' /\ OnlyDamageMarkingDiverges /\ [Next]_vars =>
    OnlyDamageMarkingDiverges'
<1> SUFFICES ASSUME Inv, Typed, Typed', OnlyDamageMarkingDiverges, [Next]_vars
             PROVE  OnlyDamageMarkingDiverges'
  OBVIOUS
<1>1. CASE UNCHANGED vars
  BY <1>1, BalanceInOwed DEF vars
<1>2. ASSUME NEW h \in Handlers, Quiet(h) PROVE OnlyDamageMarkingDiverges'
  <2>1. PICK rec : hs' = [hs EXCEPT ![h] = rec] /\ rec.pc # "log"
    BY <1>2 DEF Quiet
  <2> QED BY <1>2, <2>1, AloneBalanced DEF Quiet
<1>3. ASSUME NEW h \in Handlers, Crash(h) \/ LogDamage(h)
      PROVE  OnlyDamageMarkingDiverges'
  <2>1. CASE hs[h].pc = "log"
    BY <1>3, <2>1, EndBalanced
  <2>2. CASE hs[h].pc # "log"
    <3>1. Crash(h)
      BY <1>3, <2>2 DEF LogDamage
    <3>2. Idle.pc # "log"
      BY DEF Idle
    <3>3. hs' = [hs EXCEPT ![h] = Idle] /\ movements' = movements /\ balance' = balance
          /\ torn' = torn
      BY <2>2, <3>1 DEF Crash
    <3> QED BY <2>2, <3>2, <3>3, AloneBalanced
  <2> QED BY <2>1, <2>2
<1>4. ASSUME NEW h \in Handlers,
             \/ ReceivePost(h) \/ ReceiveAmend(h) \/ ReceiveCorrection(h) \/ ReceiveDamage(h)
             \/ Serve(h) \/ CommitUnknown(h) \/ Crash(h)
      PROVE  OnlyDamageMarkingDiverges'
  <2>1. CASE ReceivePost(h) \/ ReceiveAmend(h) \/ ReceiveCorrection(h) \/ ReceiveDamage(h)
    BY <1>2, <2>1, ReceiveQuiet
  <2>2. CASE ReadMovement(h) \/ ReadOnHand(h) \/ Open(h) \/ CheckReference(h) \/ WriteLeg(h)
    BY <1>2, <2>2, WorkQuiet
  <2>3. CASE Commit(h) \/ CommitUnknown(h)
    BY <2>3, CommitBalanced
  <2>4. CASE CountDamage(h)
    BY <2>4, CountDamageBalanced
  <2>5. CASE Crash(h) \/ LogDamage(h)
    BY <1>3, <2>5
  <2> QED BY <1>4, <2>1, <2>2, <2>3, <2>4, <2>5 DEF Serve
<1> QED BY <1>1, <1>4 DEF Next

(* Every balance is the sum of the movements of its lot and box, but for   *)
(* the units that markUnitsAsDamaged has counted down and not recorded     *)
(* (yet, or because the process died): however transactions interleave,    *)
(* conflict, are retried or lose their reply.                              *)
THEOREM Balanced == Spec => []OnlyDamageMarkingDiverges
<1>1. Spec => [](Inv /\ Typed /\ OnlyDamageMarkingDiverges)
  <2>1. Init => Inv /\ Typed /\ OnlyDamageMarkingDiverges
    BY InitInv, InitTyped, InitBalanced
  <2>2. Inv /\ Typed /\ OnlyDamageMarkingDiverges /\ [Next]_vars =>
          Inv' /\ Typed' /\ OnlyDamageMarkingDiverges'
    BY NextInv, NextTyped, NextBalanced
  <2> QED BY <2>1, <2>2, PTL DEF Spec
<1> QED BY <1>1, PTL
=============================================================================
