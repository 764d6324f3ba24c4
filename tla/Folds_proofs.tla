----------------------------- MODULE Folds_proofs ----------------------------
(***************************************************************************)
(* Lemmas about the folds the models are written with.                     *)
(*                                                                         *)
(* Sums: SumFunction and SumFunctionOnSet, in which the models keep their  *)
(* books, and what a sum is when one summand changes, joins or leaves.     *)
(* Sequences: what FoldLeft computes, for any operator; the fold of an     *)
(* empty sequence is the base, one more element is one more application,   *)
(* and a fold has a trace of intermediate results.  A module that folds    *)
(* takes these lemmas by INSTANCE with its own operator; its fold is       *)
(* Folded by definition.                                                   *)
(*                                                                         *)
(* The operators fold by a recursive function on subsets.  That the        *)
(* function exists is shown from the least cardinality without one, and    *)
(* what holds of it from a minimal subset without it.                      *)
(***************************************************************************)
EXTENDS Integers, Sequences, FiniteSets, Functions, FiniteSetTheorems, WellFoundedInduction, TLAPS

CONSTANT op(_, _, _)    \* the operator folded over a sequence, with a parameter of it first

-----------------------------------------------------------------------------
(* Induction *)

(* A set of naturals that is not empty has a least element. *)
LEMMA LeastNat ==
    ASSUME NEW T, T \subseteq Nat, T # {}
    PROVE  \E x \in T : \A y \in T : x <= y
<1> DEFINE R == {p \in Nat \X Nat : p[1] < p[2]}
<1>1. IsWellFoundedOn(R, Nat)
    BY NatLessThanWellFounded, Zenon DEF OpToRel
<1>2. \A x, y \in Nat : y < x => <<y, x>> \in R
    OBVIOUS
<1> HIDE DEF R
<1>3. PICK x \in T : \A y \in T : ~(<<y, x>> \in R)
    BY <1>1, WFMin
<1>4. \A y \in T : ~(y < x)
    BY <1>2, <1>3, T \subseteq Nat, Zenon
<1>5. \A y \in T : x <= y
    BY <1>4
<1> QED
    BY <1>5

(* What 0 has, and every number up to n passes on, n has. *)
LEMMA CountUp ==
    ASSUME NEW n \in Nat, NEW good, 0 \in good,
           \A k \in 1..n : k - 1 \in good => k \in good
    PROVE  n \in good
<1> DEFINE bad == {k \in 0..n : k \notin good}
<1>1. SUFFICES ASSUME bad # {} PROVE FALSE
    OBVIOUS
<1>2. bad \subseteq Nat
    OBVIOUS
<1>3. PICK k \in bad : \A j \in bad : k <= j
    BY <1>1, <1>2, LeastNat
<1>4. k \in 0..n /\ k \notin good /\ k # 0
    BY <1>3
<1>5. k \in 1..n /\ k - 1 \in 0..n /\ ~(k <= k - 1)
    BY <1>4
<1>6. k - 1 \in good
    BY <1>3, <1>5
<1> QED
    BY <1>4, <1>5, <1>6

(* Among subsets of a finite set there is one from which no element can be
   taken. *)
LEMMA MinimalSubset ==
    ASSUME NEW S, IsFiniteSet(S), NEW Q, Q \subseteq SUBSET S, Q # {}
    PROVE  \E q \in Q : \A x \in q : q \ {x} \notin Q
<1> DEFINE sizes == {Cardinality(q) : q \in Q}
<1>1. \A q \in Q : IsFiniteSet(q) /\ Cardinality(q) \in Nat
    BY FS_Subset, FS_CardinalityType
<1>2. sizes \subseteq Nat /\ sizes # {}
    BY <1>1
<1>3. PICK n \in sizes : \A m \in sizes : n <= m
    BY <1>2, LeastNat
<1>4. PICK q \in Q : n = Cardinality(q)
    BY <1>3
<1>5. ASSUME NEW x \in q PROVE q \ {x} \notin Q
  <2>1. Cardinality(q \ {x}) = Cardinality(q) - 1
      BY <1>1, FS_RemoveElement
  <2>2. SUFFICES ASSUME q \ {x} \in Q PROVE FALSE
      OBVIOUS
  <2>3. Cardinality(q) <= Cardinality(q \ {x})
      BY <1>3, <1>4, <2>2
  <2> QED BY <1>1, <2>1, <2>3
<1> QED
    BY <1>5

-----------------------------------------------------------------------------
(* The recursive function under a sum *)

Pick(s) == CHOOSE x \in s : TRUE

IsFold(fold, f, S) ==
    fold = [s \in SUBSET S |-> IF s = {} THEN 0 ELSE f[Pick(s)] + fold[s \ {Pick(s)}]]

Fold(f, S) == CHOOSE fold : IsFold(fold, f, S)

Summands(f, S) == IsFiniteSet(S) /\ \A x \in S : f[x] \in Int

LEMMA PickIn == ASSUME NEW s, s # {} PROVE Pick(s) \in s
BY DEF Pick

LEMMA SumIsFold ==
    ASSUME NEW f, NEW S
    PROVE  SumFunctionOnSet(f, S) = Fold(f, S)[S]
BY DEF SumFunctionOnSet, FoldFunctionOnSet, MapThenFoldSet, Fold, IsFold, Pick

LEMMA FoldExists ==
    ASSUME NEW f, NEW S, Summands(f, S)
    PROVE  \E fold : IsFold(fold, f, S)
<1> DEFINE Small(n) == {s \in SUBSET S : Cardinality(s) <= n}
           Good(g, n) == \A s \in Small(n) :
                            g[s] = IF s = {} THEN 0 ELSE f[Pick(s)] + g[s \ {Pick(s)}]
           bad == {n \in Nat : ~ \E g \in [Small(n) -> Int] : Good(g, n)}
<1>1. \A s \in SUBSET S : /\ IsFiniteSet(s) /\ Cardinality(s) \in Nat
                          /\ s # {} => Pick(s) \in s /\ Pick(s) \in S
                          /\ s # {} => Cardinality(s \ {Pick(s)}) = Cardinality(s) - 1
                          /\ Cardinality(s) = 0 <=> s = {}
  <2> TAKE s \in SUBSET S
  <2>1. IsFiniteSet(s) /\ Cardinality(s) \in Nat
      BY FS_Subset, FS_CardinalityType DEF Summands
  <2>2. s # {} => Pick(s) \in s /\ Pick(s) \in S
      BY PickIn
  <2>3. s # {} => Cardinality(s \ {Pick(s)}) = Cardinality(s) - 1
      BY <2>1, <2>2, FS_RemoveElement
  <2>4. Cardinality(s) = 0 <=> s = {}
      BY <2>1, FS_EmptySet
  <2> QED BY <2>1, <2>2, <2>3, <2>4
<1> HIDE DEF bad, Good
<1>a. \A s \in Small(0) : s = {}
  <2> TAKE s \in Small(0)
  <2>1. Cardinality(s) \in Nat /\ (Cardinality(s) = 0 <=> s = {})
      BY <1>1
  <2>2. Cardinality(s) <= 0
      OBVIOUS
  <2> QED BY <2>1, <2>2
<1>b. \A n \in Nat : \A t \in Small(n) : t \in Small(n + 1)
  <2> TAKE n \in Nat
  <2> TAKE t \in Small(n)
  <2>1. Cardinality(t) \in Nat /\ Cardinality(t) <= n
      BY <1>1
  <2>2. Cardinality(t) <= n + 1
      BY <2>1
  <2> QED BY <2>2
<1>c. \A n \in Nat : n \in bad <=> ~ \E g \in [Small(n) -> Int] : Good(g, n)
    BY DEF bad
<1>2. bad = {}
  <2> SUFFICES ASSUME bad # {} PROVE FALSE
      OBVIOUS
  <2>0. bad \subseteq Nat
      BY DEF bad
  <2>1. PICK n \in bad : \A m \in bad : n <= m
      BY <2>0, LeastNat
  <2>2. CASE n = 0
    <3> DEFINE g == [s \in Small(0) |-> 0]
    <3>2. g \in [Small(0) -> Int] /\ Good(g, 0)
        BY <1>a DEF Good
    <3> QED BY <1>c, <2>0, <2>2, <3>2
  <2>3. CASE n # 0
    <3>1. n - 1 \in Nat /\ n - 1 \notin bad
        BY <2>0, <2>1, <2>3
    <3>2. PICK g \in [Small(n - 1) -> Int] : Good(g, n - 1)
        BY <1>c, <3>1
    <3> DEFINE h == [s \in Small(n) |-> IF s = {} THEN 0 ELSE f[Pick(s)] + g[s \ {Pick(s)}]]
    <3>3. \A s \in Small(n) : s # {} => s \ {Pick(s)} \in Small(n - 1)
      <4> TAKE s \in Small(n)
      <4> HAVE s # {}
      <4>1. /\ s \in SUBSET S /\ Cardinality(s) <= n
            /\ Cardinality(s) \in Nat
            /\ Cardinality(s \ {Pick(s)}) = Cardinality(s) - 1
          BY <1>1
      <4>2. Cardinality(s \ {Pick(s)}) <= n - 1
          BY <2>0, <4>1
      <4> QED BY <4>1, <4>2
    <3>4. h \in [Small(n) -> Int]
      <4>1. \A s \in Small(n) : s # {} => f[Pick(s)] \in Int /\ g[s \ {Pick(s)}] \in Int
          BY <1>1, <3>3 DEF Summands
      <4> QED BY <4>1
    <3>5. \A t \in Small(n - 1) : t \in Small(n) /\ h[t] = g[t]
      <4>1. \A t \in Small(n - 1) : t \in Small(n)
        <5>1. (n - 1) + 1 = n
            BY <2>0
        <5> QED BY <1>b, <3>1, <5>1
      <4> QED BY <4>1, <3>2 DEF Good
    <3>6. Good(h, n)
        BY <3>3, <3>5 DEF Good
    <3> QED BY <1>c, <2>0, <3>4, <3>6
  <2> QED BY <2>2, <2>3
<1>3. Cardinality(S) \in Nat /\ Small(Cardinality(S)) = SUBSET S
  <2>1. \A s \in SUBSET S : Cardinality(s) <= Cardinality(S)
      BY FS_Subset DEF Summands
  <2> QED BY <1>1, <2>1
<1>4. PICK g \in [Small(Cardinality(S)) -> Int] : Good(g, Cardinality(S))
    BY <1>2, <1>3, <1>c
<1>5. IsFold(g, f, S)
    BY <1>3, <1>4 DEF IsFold, Good
<1> QED
    BY <1>5

LEMMA FoldStep ==
    ASSUME NEW f, NEW S, Summands(f, S)
    PROVE  /\ Fold(f, S) \in [SUBSET S -> Int]
           /\ \A s \in SUBSET S :
                 Fold(f, S)[s] = IF s = {} THEN 0 ELSE f[Pick(s)] + Fold(f, S)[s \ {Pick(s)}]
<1>1. IsFold(Fold(f, S), f, S)
    BY FoldExists DEF Fold
<1> DEFINE fold == Fold(f, S)
<1> HIDE DEF fold
<1>2. /\ fold = [s \in SUBSET S |-> fold[s]]
      /\ \A s \in SUBSET S :
            fold[s] = IF s = {} THEN 0 ELSE f[Pick(s)] + fold[s \ {Pick(s)}]
    BY <1>1 DEF IsFold, fold
<1> DEFINE Q == {s \in SUBSET S : fold[s] \notin Int}
<1>3. Q = {}
  <2> SUFFICES ASSUME Q # {} PROVE FALSE
      OBVIOUS
  <2>1. PICK q \in Q : \A x \in q : q \ {x} \notin Q
      BY MinimalSubset DEF Summands
  <2>a. fold[{}] = 0
      BY <1>2
  <2>2. q \in SUBSET S /\ fold[q] \notin Int /\ q # {}
    <3>1. q \in SUBSET S /\ fold[q] \notin Int
        BY <2>1, Zenon
    <3>2. 0 \in Int
        OBVIOUS
    <3> QED BY <2>a, <3>1, <3>2, Zenon
  <2>3. Pick(q) \in q
      BY <2>2, PickIn
  <2>4. fold[q \ {Pick(q)}] \in Int /\ f[Pick(q)] \in Int
      BY <2>1, <2>2, <2>3 DEF Summands
  <2>5. fold[q] = f[Pick(q)] + fold[q \ {Pick(q)}]
      BY <1>2, <2>2, Zenon
  <2>6. f[Pick(q)] + fold[q \ {Pick(q)}] \in Int
      BY <2>4
  <2> QED BY <2>2, <2>5, <2>6, Zenon
<1>4. fold \in [SUBSET S -> Int]
    BY <1>2, <1>3
<1> QED
    BY <1>2, <1>4 DEF fold

LEMMA FoldType ==
    ASSUME NEW f, NEW S, Summands(f, S), NEW s \in SUBSET S
    PROVE  Fold(f, S)[s] \in Int
<1>1. Fold(f, S) \in [SUBSET S -> Int]
    BY FoldStep, Zenon
<1> QED
    BY <1>1

LEMMA FoldEmpty ==
    ASSUME NEW f, NEW S, Summands(f, S)
    PROVE  Fold(f, S)[{}] = 0
BY FoldStep

LEMMA FoldPick ==
    \A f, S, s : (Summands(f, S) /\ s \subseteq S /\ s # {}) =>
        Fold(f, S)[s] = f[Pick(s)] + Fold(f, S)[s \ {Pick(s)}]
<1> TAKE f, S, s
<1> HAVE Summands(f, S) /\ s \subseteq S /\ s # {}
<1>1. \A t \in SUBSET S :
         Fold(f, S)[t] = IF t = {} THEN 0 ELSE f[Pick(t)] + Fold(f, S)[t \ {Pick(t)}]
    BY FoldStep
<1>2. s \in SUBSET S
    OBVIOUS
<1> QED
    BY <1>1, <1>2, Zenon

(* Any element may be taken first. *)
LEMMA FoldAny ==
    ASSUME NEW f, NEW S, Summands(f, S), NEW s \in SUBSET S, NEW x \in s
    PROVE  Fold(f, S)[s] = f[x] + Fold(f, S)[s \ {x}]
<1> DEFINE fold == Fold(f, S)
           Q == {t \in SUBSET S : \E y \in t : fold[t] # f[y] + fold[t \ {y}]}
<1>1. /\ fold \in [SUBSET S -> Int]
      /\ \A t \in SUBSET S : fold[t] = IF t = {} THEN 0 ELSE f[Pick(t)] + fold[t \ {Pick(t)}]
    BY FoldStep
<1> HIDE DEF fold
<1>2. Q = {}
  <2> SUFFICES ASSUME Q # {} PROVE FALSE
      OBVIOUS
  <2>1. PICK q \in Q : \A y \in q : q \ {y} \notin Q
      BY MinimalSubset DEF Summands
  <2>2. PICK y \in q : fold[q] # f[y] + fold[q \ {y}]
      BY <2>1
  <2> DEFINE c == Pick(q)
  <2>3. c \in q /\ fold[q] = f[c] + fold[q \ {c}]
      BY <1>1, <2>1, <2>2, PickIn
  <2>4. c # y
      BY <2>2, <2>3
  <2> HIDE DEF c
  <2>5. fold[q \ {c}] = f[y] + fold[(q \ {c}) \ {y}]
      BY <2>1, <2>3, <2>4
  <2>6. fold[q \ {y}] = f[c] + fold[(q \ {y}) \ {c}]
      BY <2>1, <2>3, <2>4
  <2>7. (q \ {y}) \ {c} = (q \ {c}) \ {y}
      OBVIOUS
  <2>8. f[c] \in Int /\ f[y] \in Int /\ fold[(q \ {c}) \ {y}] \in Int
    <3>1. (q \ {c}) \ {y} \in SUBSET S /\ c \in S /\ y \in S
        BY <2>1, <2>2, <2>3
    <3> QED BY <1>1, <3>1 DEF Summands
  <2> HIDE DEF Q
  <2>9. fold[q] = f[c] + (f[y] + fold[(q \ {c}) \ {y}])
      BY <2>3, <2>5
  <2>10. fold[q \ {y}] = f[c] + fold[(q \ {c}) \ {y}]
      BY <2>6, <2>7
  <2> QED BY <2>2, <2>8, <2>9, <2>10
<1>3. s \notin Q
    BY <1>2
<1> QED
    BY <1>3 DEF fold

(* The fold of a part does not depend on the whole. *)
LEMMA FoldPartStep ==
    ASSUME NEW f, NEW g, NEW S, NEW T, Summands(f, S), Summands(g, T),
           NEW q, q \subseteq S, q \subseteq T, q # {}, f[Pick(q)] = g[Pick(q)],
           Fold(f, S)[q \ {Pick(q)}] = Fold(g, T)[q \ {Pick(q)}]
    PROVE  Fold(f, S)[q] = Fold(g, T)[q]
<1>1. Fold(f, S)[q] = f[Pick(q)] + Fold(f, S)[q \ {Pick(q)}]
    BY FoldPick
<1>2. Fold(g, T)[q] = g[Pick(q)] + Fold(g, T)[q \ {Pick(q)}]
    BY FoldPick
<1> QED
    BY <1>1, <1>2

LEMMA FoldPart ==
    ASSUME NEW f, NEW g, NEW S, NEW T, T \subseteq S, Summands(f, S), Summands(g, T),
           \A x \in T : f[x] = g[x]
    PROVE  Fold(f, S)[T] = Fold(g, T)[T]
<1> DEFINE Q == {t \in SUBSET T : Fold(f, S)[t] # Fold(g, T)[t]}
<1>1. Q = {}
  <2> SUFFICES ASSUME Q # {} PROVE FALSE
      OBVIOUS
  <2>1. PICK q \in Q : \A y \in q : q \ {y} \notin Q
      BY MinimalSubset DEF Summands
  <2>2. q \subseteq T /\ q \subseteq S /\ Fold(f, S)[q] # Fold(g, T)[q]
      BY <2>1
  <2>3. q # {}
      BY <2>2, FoldEmpty
  <2>4. Pick(q) \in q
      BY <2>3, PickIn
  <2>5. Fold(f, S)[q \ {Pick(q)}] = Fold(g, T)[q \ {Pick(q)}]
      BY <2>1, <2>2, <2>4
  <2>6. f[Pick(q)] = g[Pick(q)]
      BY <2>2, <2>4
  <2> QED BY <2>2, <2>3, <2>5, <2>6, FoldPartStep
<1> QED
    BY <1>1

-----------------------------------------------------------------------------
(* Sums over a set of indices *)

LEMMA SumEmpty == ASSUME NEW f PROVE SumFunctionOnSet(f, {}) = 0
<1>1. Summands(f, {})
    BY FS_EmptySet DEF Summands
<1> QED
    BY <1>1, FoldStep, SumIsFold

LEMMA SumType ==
    ASSUME NEW f, NEW S, Summands(f, S)
    PROVE  SumFunctionOnSet(f, S) \in Int
<1>1. Fold(f, S)[S] \in Int
    BY FoldType
<1> QED
    BY <1>1, SumIsFold, Zenon

LEMMA SumSame ==
    ASSUME NEW f, NEW g, NEW S, Summands(f, S), \A x \in S : f[x] = g[x]
    PROVE  SumFunctionOnSet(f, S) = SumFunctionOnSet(g, S)
<1>1. Summands(g, S)
    BY DEF Summands
<1>2. Fold(f, S)[S] = Fold(g, S)[S]
    BY <1>1, FoldPart
<1> QED
    BY <1>2, SumIsFold

(* Any summand may be set apart. *)
LEMMA SumSplit ==
    ASSUME NEW f, NEW S, Summands(f, S), NEW x \in S
    PROVE  SumFunctionOnSet(f, S) = f[x] + SumFunctionOnSet(f, S \ {x})
<1>1. Summands(f, S \ {x})
    BY FS_RemoveElement DEF Summands
<1>2. Fold(f, S)[S \ {x}] = Fold(f, S \ {x})[S \ {x}]
  <2>1. S \ {x} \subseteq S
      OBVIOUS
  <2> QED BY <1>1, <2>1, FoldPart
<1>3. Fold(f, S)[S] = f[x] + Fold(f, S)[S \ {x}]
    BY FoldAny
<1> QED
    BY <1>2, <1>3, SumIsFold

(* One summand more. *)
LEMMA SumAdd ==
    ASSUME NEW f, NEW S, NEW x, x \notin S, Summands(f, S), f[x] \in Int
    PROVE  SumFunctionOnSet(f, S \cup {x}) = SumFunctionOnSet(f, S) + f[x]
<1>1. Summands(f, S \cup {x})
    BY FS_AddElement DEF Summands
<1>2. (S \cup {x}) \ {x} = S
    OBVIOUS
<1>3. SumFunctionOnSet(f, S \cup {x}) = f[x] + SumFunctionOnSet(f, S)
    BY <1>1, <1>2, SumSplit
<1>4. SumFunctionOnSet(f, S) \in Int
    BY SumType
<1> QED
    BY <1>3, <1>4

(* One summand changes. *)
LEMMA SumChange ==
    ASSUME NEW f, NEW g, NEW S, NEW x \in S, Summands(f, S), g[x] \in Int,
           \A y \in S \ {x} : f[y] = g[y]
    PROVE  SumFunctionOnSet(g, S) = SumFunctionOnSet(f, S) + (g[x] - f[x])
<1>1. Summands(f, S \ {x}) /\ Summands(g, S)
    BY FS_RemoveElement DEF Summands
<1>2. SumFunctionOnSet(f, S \ {x}) = SumFunctionOnSet(g, S \ {x})
    BY <1>1, SumSame
<1>3. /\ SumFunctionOnSet(f, S) = f[x] + SumFunctionOnSet(f, S \ {x})
      /\ SumFunctionOnSet(g, S) = g[x] + SumFunctionOnSet(g, S \ {x})
    BY <1>1, SumSplit
<1>4. f[x] \in Int /\ SumFunctionOnSet(f, S \ {x}) \in Int
    BY <1>1, SumType DEF Summands
<1> QED
    BY <1>2, <1>3, <1>4

(* Two summands change. *)
LEMMA SumChange2 ==
    ASSUME NEW f, NEW g, NEW S, NEW x \in S, NEW z \in S, x # z, Summands(f, S),
           g[x] \in Int, g[z] \in Int,
           \A y \in S \ {x, z} : f[y] = g[y]
    PROVE  SumFunctionOnSet(g, S) = SumFunctionOnSet(f, S) + (g[x] - f[x]) + (g[z] - f[z])
<1> DEFINE R == S \ {x}
           U == R \ {z}
<1>1. /\ Summands(f, R) /\ Summands(f, U) /\ Summands(g, S) /\ Summands(g, R)
      /\ \A y \in U : f[y] = g[y]
      /\ z \in R
    BY FS_RemoveElement DEF Summands
<1>2. /\ SumFunctionOnSet(f, S) = f[x] + SumFunctionOnSet(f, R)
      /\ SumFunctionOnSet(g, S) = g[x] + SumFunctionOnSet(g, R)
    BY <1>1, SumSplit
<1> HIDE DEF R
<1>3. /\ SumFunctionOnSet(f, R) = f[z] + SumFunctionOnSet(f, U)
      /\ SumFunctionOnSet(g, R) = g[z] + SumFunctionOnSet(g, U)
    BY <1>1, SumSplit
<1> HIDE DEF U
<1>4. SumFunctionOnSet(f, U) = SumFunctionOnSet(g, U)
    BY <1>1, SumSame
<1>5. f[x] \in Int /\ f[z] \in Int /\ SumFunctionOnSet(f, U) \in Int
    BY <1>1, SumType DEF Summands
<1> QED
    BY <1>2, <1>3, <1>4, <1>5

(* No summand is negative. *)
LEMMA SumNat ==
    ASSUME NEW f, NEW S, IsFiniteSet(S), \A x \in S : f[x] \in Nat
    PROVE  SumFunctionOnSet(f, S) \in Nat
<1> DEFINE Q == {s \in SUBSET S : SumFunctionOnSet(f, s) \notin Nat}
<1>1. \A s \in SUBSET S : Summands(f, s)
    BY FS_Subset DEF Summands
<1>2. Q = {}
  <2> SUFFICES ASSUME Q # {} PROVE FALSE
      OBVIOUS
  <2>1. PICK q \in Q : \A x \in q : q \ {x} \notin Q
      BY MinimalSubset
  <2>2. q \in SUBSET S /\ SumFunctionOnSet(f, q) \notin Nat
      BY <2>1, Zenon
  <2>3. q # {}
      BY <2>2, SumEmpty
  <2>4. PICK x \in q : TRUE
      BY <2>3
  <2>5. SumFunctionOnSet(f, q) = f[x] + SumFunctionOnSet(f, q \ {x})
      BY <1>1, <2>2, SumSplit
  <2>6. SumFunctionOnSet(f, q \ {x}) \in Nat /\ f[x] \in Nat
      BY <2>1, <2>2
  <2> QED BY <2>2, <2>5, <2>6
<1> QED
    BY <1>2

(* Sums add up. *)
LEMMA SumPlus ==
    ASSUME NEW f, NEW g, NEW h, NEW S, Summands(f, S), Summands(g, S),
           \A x \in S : h[x] = f[x] + g[x]
    PROVE  SumFunctionOnSet(h, S) = SumFunctionOnSet(f, S) + SumFunctionOnSet(g, S)
<1> DEFINE Q == {s \in SUBSET S : SumFunctionOnSet(h, s)
                                    # SumFunctionOnSet(f, s) + SumFunctionOnSet(g, s)}
<1>1. \A s \in SUBSET S : Summands(f, s) /\ Summands(g, s) /\ Summands(h, s)
    BY FS_Subset DEF Summands
<1>2. Q = {}
  <2> SUFFICES ASSUME Q # {} PROVE FALSE
      OBVIOUS
  <2>1. PICK q \in Q : \A x \in q : q \ {x} \notin Q
      BY MinimalSubset DEF Summands
  <2>2. /\ q \in SUBSET S
        /\ SumFunctionOnSet(h, q) # SumFunctionOnSet(f, q) + SumFunctionOnSet(g, q)
      BY <2>1, Zenon
  <2>3. q # {}
      BY <2>2, SumEmpty
  <2>4. PICK x \in q : TRUE
      BY <2>3
  <2> DEFINE r == q \ {x}
  <2>5. r \in SUBSET S /\ SumFunctionOnSet(h, r) = SumFunctionOnSet(f, r) + SumFunctionOnSet(g, r)
      BY <2>1, <2>2, <2>4
  <2> HIDE DEF r, Q
  <2>6. /\ SumFunctionOnSet(f, q) = f[x] + SumFunctionOnSet(f, r)
        /\ SumFunctionOnSet(g, q) = g[x] + SumFunctionOnSet(g, r)
        /\ SumFunctionOnSet(h, q) = h[x] + SumFunctionOnSet(h, r)
      BY <1>1, <2>2, SumSplit DEF r
  <2>7. SumFunctionOnSet(f, r) \in Int /\ SumFunctionOnSet(g, r) \in Int
      BY <1>1, <2>5, SumType
  <2>8. f[x] \in Int /\ g[x] \in Int /\ h[x] = f[x] + g[x]
      BY <2>2 DEF Summands
  <2> QED BY <2>2, <2>5, <2>6, <2>7, <2>8
<1> QED
    BY <1>2

(* The sum over two sets that do not meet. *)
LEMMA SumUnion ==
    ASSUME NEW f, NEW S, NEW T, Summands(f, S), Summands(f, T), S \cap T = {}
    PROVE  SumFunctionOnSet(f, S \cup T) = SumFunctionOnSet(f, S) + SumFunctionOnSet(f, T)
<1> DEFINE Q == {t \in SUBSET T : SumFunctionOnSet(f, S \cup t)
                                    # SumFunctionOnSet(f, S) + SumFunctionOnSet(f, t)}
<1>1. \A t \in SUBSET T : Summands(f, t) /\ Summands(f, S \cup t)
    BY FS_Subset, FS_Union DEF Summands
<1>2. SumFunctionOnSet(f, S) \in Int
    BY SumType
<1>3. Q = {}
  <2> SUFFICES ASSUME Q # {} PROVE FALSE
      OBVIOUS
  <2>1. PICK q \in Q : \A x \in q : q \ {x} \notin Q
      BY MinimalSubset DEF Summands
  <2>2. /\ q \in SUBSET T
        /\ SumFunctionOnSet(f, S \cup q) # SumFunctionOnSet(f, S) + SumFunctionOnSet(f, q)
      BY <2>1, Zenon
  <2>3. q # {}
    <3> SUFFICES ASSUME q = {} PROVE FALSE
        OBVIOUS
    <3>1. SumFunctionOnSet(f, q) = 0 /\ S \cup q = S
        BY SumEmpty
    <3> QED BY <1>2, <2>2, <3>1
  <2>4. PICK x \in q : TRUE
      BY <2>3
  <2> DEFINE r == q \ {x}
             U == S \cup q
             V == S \cup r
  <2>5. r \in SUBSET T /\ SumFunctionOnSet(f, V) = SumFunctionOnSet(f, S) + SumFunctionOnSet(f, r)
      BY <2>1, <2>2, <2>4
  <2>6. U \ {x} = V /\ x \in U /\ Summands(f, U) /\ Summands(f, q) /\ Summands(f, r)
      BY <1>1, <2>2, <2>4, <2>5
  <2>7. SumFunctionOnSet(f, q) = f[x] + SumFunctionOnSet(f, r)
      BY <2>6, SumSplit
  <2> HIDE DEF r, Q, U, V
  <2>8. SumFunctionOnSet(f, U) = f[x] + SumFunctionOnSet(f, V)
    <3>1. SumFunctionOnSet(f, U) = f[x] + SumFunctionOnSet(f, U \ {x})
        BY <2>6, SumSplit
    <3> QED BY <2>6, <3>1
  <2>9. SumFunctionOnSet(f, r) \in Int /\ f[x] \in Int
      BY <2>2, <2>6, SumType DEF Summands
  <2>10. SumFunctionOnSet(f, U) # SumFunctionOnSet(f, S) + SumFunctionOnSet(f, q)
      BY <2>2 DEF U
  <2> QED BY <1>2, <2>5, <2>7, <2>8, <2>9, <2>10
<1>4. T \in SUBSET T
    OBVIOUS
<1> QED
    BY <1>3, <1>4

(* A part of a sum of naturals is no more than the sum. *)
LEMMA SumLess ==
    ASSUME NEW f, NEW S, NEW T, IsFiniteSet(S), T \subseteq S, \A x \in S : f[x] \in Nat
    PROVE  SumFunctionOnSet(f, T) <= SumFunctionOnSet(f, S)
<1> DEFINE U == S \ T
<1>1. IsFiniteSet(T) /\ IsFiniteSet(U)
    BY FS_Subset
<1>2. Summands(f, T) /\ Summands(f, U) /\ T \cap U = {} /\ S = T \cup U
    BY <1>1 DEF Summands
<1>3. \A x \in U : f[x] \in Nat
    OBVIOUS
<1> HIDE DEF U
<1>4. SumFunctionOnSet(f, T \cup U) = SumFunctionOnSet(f, T) + SumFunctionOnSet(f, U)
    BY <1>2, SumUnion
<1>5. SumFunctionOnSet(f, T) \in Nat /\ SumFunctionOnSet(f, U) \in Nat
    BY <1>1, <1>3, SumNat
<1>6. SumFunctionOnSet(f, S) = SumFunctionOnSet(f, T) + SumFunctionOnSet(f, U)
    BY <1>2, <1>4
<1> QED
    BY <1>5, <1>6

(* Greater summands, greater sum. *)
LEMMA SumMonotone ==
    ASSUME NEW f, NEW g, NEW S, Summands(f, S), Summands(g, S), \A x \in S : f[x] <= g[x]
    PROVE  SumFunctionOnSet(f, S) <= SumFunctionOnSet(g, S)
<1> DEFINE h == [x \in S |-> g[x] - f[x]]
<1>1. \A x \in S : h[x] \in Nat /\ g[x] = f[x] + h[x]
    BY DEF Summands
<1> HIDE DEF h
<1>2. Summands(h, S) /\ IsFiniteSet(S)
    BY <1>1 DEF Summands
<1>3. SumFunctionOnSet(g, S) = SumFunctionOnSet(f, S) + SumFunctionOnSet(h, S)
    BY <1>1, <1>2, SumPlus
<1>4. SumFunctionOnSet(h, S) \in Nat /\ SumFunctionOnSet(f, S) \in Int
    BY <1>1, <1>2, SumNat, SumType
<1> QED
    BY <1>3, <1>4

LEMMA Distributes ==
    ASSUME NEW k \in Int, NEW i \in Int, NEW j \in Int
    PROVE  k * (i + j) = k * i + k * j /\ k * i \in Int
OBVIOUS

(* A factor comes out of a sum. *)
LEMMA SumScale ==
    ASSUME NEW f, NEW h, NEW S, NEW k \in Int, Summands(f, S), \A x \in S : h[x] = k * f[x]
    PROVE  SumFunctionOnSet(h, S) = k * SumFunctionOnSet(f, S)
<1> DEFINE Q == {s \in SUBSET S : SumFunctionOnSet(h, s) # k * SumFunctionOnSet(f, s)}
<1>0. \A x \in S : f[x] \in Int /\ h[x] \in Int
    BY Distributes DEF Summands
<1>1. \A s \in SUBSET S : Summands(f, s) /\ Summands(h, s)
    BY <1>0, FS_Subset DEF Summands
<1>2. Q = {}
  <2> SUFFICES ASSUME Q # {} PROVE FALSE
      OBVIOUS
  <2>1. PICK q \in Q : \A x \in q : q \ {x} \notin Q
      BY MinimalSubset DEF Summands
  <2>2. q \in SUBSET S /\ SumFunctionOnSet(h, q) # k * SumFunctionOnSet(f, q)
      BY <2>1, Zenon
  <2>3. q # {}
    <3> SUFFICES ASSUME q = {} PROVE FALSE
        OBVIOUS
    <3>1. SumFunctionOnSet(f, q) = 0 /\ SumFunctionOnSet(h, q) = 0
        BY SumEmpty
    <3>2. k * 0 = 0
        OBVIOUS
    <3> QED BY <2>2, <3>1, <3>2
  <2>4. PICK x \in q : TRUE
      BY <2>3
  <2> DEFINE r == q \ {x}
  <2>5. r \in SUBSET S /\ SumFunctionOnSet(h, r) = k * SumFunctionOnSet(f, r)
      BY <2>1, <2>2, <2>4
  <2> HIDE DEF r, Q
  <2>6. /\ SumFunctionOnSet(f, q) = f[x] + SumFunctionOnSet(f, r)
        /\ SumFunctionOnSet(h, q) = h[x] + SumFunctionOnSet(h, r)
      BY <1>1, <2>2, SumSplit DEF r
  <2>7. SumFunctionOnSet(f, r) \in Int /\ f[x] \in Int /\ h[x] = k * f[x]
      BY <1>1, <2>2, <2>5, SumType DEF Summands
  <2>8. k * (f[x] + SumFunctionOnSet(f, r)) = k * f[x] + k * SumFunctionOnSet(f, r)
      BY <2>7, Distributes
  <2> QED BY <2>2, <2>5, <2>6, <2>7, <2>8
<1> QED
    BY <1>2

(* A sum taken group by group. *)
LEMMA SumGroups ==
    ASSUME NEW f, NEW S, Summands(f, S), NEW key, NEW A, IsFiniteSet(A),
           \A x \in S : key[x] \in A,
           NEW g, \A a \in A : g[a] = SumFunctionOnSet(f, {x \in S : key[x] = a})
    PROVE  SumFunctionOnSet(g, A) = SumFunctionOnSet(f, S)
<1> DEFINE Of(B) == {x \in S : key[x] \in B}
           Q == {B \in SUBSET A : SumFunctionOnSet(g, B) # SumFunctionOnSet(f, Of(B))}
<1>1. \A U \in SUBSET S : Summands(f, U)
    BY FS_Subset DEF Summands
<1>2. \A a \in A : g[a] \in Int
  <2> TAKE a \in A
  <2> DEFINE U == {x \in S : key[x] = a}
  <2>1. g[a] = SumFunctionOnSet(f, U) /\ U \in SUBSET S
      OBVIOUS
  <2> HIDE DEF U
  <2> QED BY <1>1, <2>1, SumType
<1>3. \A B \in SUBSET A : Summands(g, B)
    BY <1>2, FS_Subset DEF Summands
<1>4. Q = {}
  <2> SUFFICES ASSUME Q # {} PROVE FALSE
      OBVIOUS
  <2>1. PICK q \in Q : \A x \in q : q \ {x} \notin Q
      BY MinimalSubset
  <2>2. q \in SUBSET A /\ SumFunctionOnSet(g, q) # SumFunctionOnSet(f, Of(q))
      BY <2>1, Zenon
  <2>3. q # {}
    <3> SUFFICES ASSUME q = {} PROVE FALSE
        OBVIOUS
    <3>1. SumFunctionOnSet(g, q) = 0 /\ Of(q) = {}
        BY SumEmpty
    <3> QED BY <2>2, <3>1, SumEmpty
  <2>4. PICK a \in q : TRUE
      BY <2>3
  <2> DEFINE r == q \ {a}
             U == {x \in S : key[x] = a}
             V == Of(r)
             W == Of(q)
  <2>5. r \in SUBSET A /\ SumFunctionOnSet(g, r) = SumFunctionOnSet(f, V)
      BY <2>1, <2>2, <2>4
  <2>6. W = U \cup V /\ U \cap V = {} /\ U \in SUBSET S /\ V \in SUBSET S
      BY <2>4
  <2>7. SumFunctionOnSet(g, q) = g[a] + SumFunctionOnSet(g, r)
      BY <1>3, <2>2, <2>4, SumSplit
  <2>8. g[a] = SumFunctionOnSet(f, U)
      BY <2>2, <2>4
  <2>9. SumFunctionOnSet(g, q) # SumFunctionOnSet(f, W)
      BY <2>2
  <2> HIDE DEF r, U, V, W, Q
  <2>10. SumFunctionOnSet(f, U \cup V) = SumFunctionOnSet(f, U) + SumFunctionOnSet(f, V)
      BY <1>1, <2>6, SumUnion
  <2> QED BY <2>5, <2>6, <2>7, <2>8, <2>9, <2>10
<1>5. Of(A) = S /\ A \in SUBSET A
    OBVIOUS
<1> QED
    BY <1>4, <1>5

-----------------------------------------------------------------------------
(* The recursive function under a fold of a sequence *)

Greatest(t) == CHOOSE x \in t : \A y \in t : x >= y

IsIter(iter, p, base, s) ==
    iter = [t \in SUBSET DOMAIN s |->
              IF t = {} THEN base ELSE op(p, iter[t \ {Greatest(t)}], s[Greatest(t)])]

Iter(p, base, s) == CHOOSE iter : IsIter(iter, p, base, s)

Folded(p, base, s) == Iter(p, base, s)[DOMAIN s]

LEMMA GreatestIn ==
    ASSUME NEW n \in Nat, NEW t, t \subseteq 1..n, t # {}
    PROVE  Greatest(t) \in t /\ \A y \in t : y <= Greatest(t)
<1> DEFINE T == {n - x : x \in t}
<1>0. \A x \in t : x \in Int /\ n - x \in Nat
    OBVIOUS
<1>1. T \subseteq Nat /\ T # {}
    BY <1>0
<1>2. PICK d \in T : \A e \in T : d <= e
    BY <1>1, LeastNat
<1>3. PICK x \in t : d = n - x
    BY <1>2
<1>4. \A y \in t : x >= y
  <2> TAKE y \in t
  <2>1. n - y \in T /\ x \in Int /\ y \in Int
      OBVIOUS
  <2>2. n - x <= n - y
      BY <1>2, <1>3, <2>1
  <2> QED BY <2>1, <2>2
<1>5. \E z \in t : \A y \in t : z >= y
    BY <1>4
<1>6. Greatest(t) \in t /\ \A y \in t : Greatest(t) >= y
    BY <1>5, Zenon DEF Greatest
<1>7. \A y \in t : y \in Int
    OBVIOUS
<1> QED
    BY <1>6, <1>7

LEMMA IterExists ==
    ASSUME NEW p, NEW base, NEW n \in Nat, NEW s, DOMAIN s = 1..n
    PROVE  \E iter : IsIter(iter, p, base, s)
<1> DEFINE S == 1..n
           Small(m) == {t \in SUBSET S : Cardinality(t) <= m}
           Good(g, m) == g = [t \in Small(m) |->
                                IF t = {} THEN base
                                ELSE op(p, g[t \ {Greatest(t)}], s[Greatest(t)])]
           bad == {m \in Nat : ~ \E g : Good(g, m)}
<1>0. IsFiniteSet(S) /\ Cardinality(S) \in Nat
    BY FS_Interval, FS_CardinalityType
<1>1. \A t \in SUBSET S : /\ IsFiniteSet(t) /\ Cardinality(t) \in Nat
                          /\ t # {} => Greatest(t) \in t
                          /\ t # {} => Cardinality(t \ {Greatest(t)}) = Cardinality(t) - 1
                          /\ Cardinality(t) = 0 <=> t = {}
                          /\ Cardinality(t) <= Cardinality(S)
  <2> TAKE t \in SUBSET S
  <2>1. IsFiniteSet(t) /\ Cardinality(t) \in Nat /\ Cardinality(t) <= Cardinality(S)
      BY <1>0, FS_Subset, FS_CardinalityType
  <2>2. t # {} => Greatest(t) \in t
      BY GreatestIn
  <2>3. t # {} => Cardinality(t \ {Greatest(t)}) = Cardinality(t) - 1
      BY <2>1, <2>2, FS_RemoveElement
  <2>4. Cardinality(t) = 0 <=> t = {}
      BY <2>1, FS_EmptySet
  <2> QED BY <2>1, <2>2, <2>3, <2>4
<1> HIDE DEF S, bad, Good
<1>c. \A m \in Nat : m \in bad <=> ~ \E g : Good(g, m)
    BY DEF bad
<1>2. bad = {}
  <2> SUFFICES ASSUME bad # {} PROVE FALSE
      OBVIOUS
  <2>0. bad \subseteq Nat
      BY DEF bad
  <2>1. PICK m \in bad : \A k \in bad : m <= k
      BY <2>0, LeastNat
  <2>2. CASE m = 0
    <3> DEFINE g == [t \in Small(0) |-> base]
    <3>1. \A t \in Small(0) : t = {}
      <4> TAKE t \in Small(0)
      <4>1. Cardinality(t) \in Nat /\ Cardinality(t) <= 0 /\ (Cardinality(t) = 0 <=> t = {})
          BY <1>1
      <4> QED BY <4>1
    <3>2. Good(g, 0)
        BY <3>1 DEF Good
    <3> QED BY <1>c, <2>0, <2>2, <3>2
  <2>3. CASE m # 0
    <3>1. m \in Nat /\ m - 1 \in Nat /\ m - 1 \notin bad
        BY <2>0, <2>1, <2>3
    <3>2. PICK g : Good(g, m - 1)
        BY <1>c, <3>1
    <3> DEFINE h == [t \in Small(m) |->
                       IF t = {} THEN base ELSE op(p, g[t \ {Greatest(t)}], s[Greatest(t)])]
    <3>3. \A t \in Small(m) : t # {} => t \ {Greatest(t)} \in Small(m - 1)
      <4> TAKE t \in Small(m)
      <4> HAVE t # {}
      <4>1. /\ t \in SUBSET S /\ Cardinality(t) <= m /\ Cardinality(t) \in Nat
            /\ Cardinality(t \ {Greatest(t)}) = Cardinality(t) - 1
          BY <1>1
      <4>2. Cardinality(t \ {Greatest(t)}) <= m - 1
          BY <3>1, <4>1
      <4> QED BY <4>1, <4>2
    <3>4. \A t \in Small(m - 1) : t \in Small(m)
      <4> TAKE t \in Small(m - 1)
      <4>1. Cardinality(t) \in Nat /\ Cardinality(t) <= m - 1
          BY <1>1
      <4>2. Cardinality(t) <= m
          BY <3>1, <4>1
      <4> QED BY <4>2
    <3>5. \A t \in Small(m - 1) :
             g[t] = IF t = {} THEN base ELSE op(p, g[t \ {Greatest(t)}], s[Greatest(t)])
        BY <3>2 DEF Good
    <3>6. \A t \in Small(m - 1) : h[t] = g[t]
        BY <3>4, <3>5
    <3>7. Good(h, m)
      <4>1. \A t \in Small(m) : t # {} => h[t \ {Greatest(t)}] = g[t \ {Greatest(t)}]
          BY <3>3, <3>6
      <4>2. h = [t \in Small(m) |-> IF t = {} THEN base
                                    ELSE op(p, h[t \ {Greatest(t)}], s[Greatest(t)])]
          BY <4>1
      <4> QED BY <4>2 DEF Good
    <3> QED BY <1>c, <3>1, <3>7
  <2> QED BY <2>2, <2>3
<1>3. Small(Cardinality(S)) = SUBSET S
    BY <1>1
<1>4. PICK g : Good(g, Cardinality(S))
    BY <1>0, <1>2, <1>c
<1>5. IsIter(g, p, base, s)
    BY <1>3, <1>4 DEF IsIter, Good, S
<1> QED
    BY <1>5

-----------------------------------------------------------------------------
(* Folds *)

(* The intermediate results of a fold. *)
Trace(tr, p, base, s, n) ==
    /\ tr[0] = base
    /\ \A k \in 1..n : tr[k] = op(p, tr[k - 1], s[k])
    /\ Folded(p, base, s) = tr[n]

LEMMA FoldedTrace ==
    ASSUME NEW p, NEW base, NEW n \in Nat, NEW s, DOMAIN s = 1..n
    PROVE  \E tr : Trace(tr, p, base, s, n)
<1> DEFINE iter == Iter(p, base, s)
           tr == [k \in 0..n |-> iter[1..k]]
<1>1. IsIter(iter, p, base, s)
    BY IterExists DEF Iter
<1>2. Folded(p, base, s) = iter[1..n]
    BY DEF Folded, iter
<1> HIDE DEF iter
<1>3. \A t \in SUBSET (1..n) :
         iter[t] = IF t = {} THEN base ELSE op(p, iter[t \ {Greatest(t)}], s[Greatest(t)])
    BY <1>1 DEF IsIter
<1>4. tr[0] = base
  <2>1. 1..0 = {} /\ {} \in SUBSET (1..n) /\ tr[0] = iter[1..0]
      OBVIOUS
  <2>2. iter[{}] = base
      BY <1>3, <2>1, Zenon
  <2> QED BY <2>1, <2>2
<1>5. ASSUME NEW k \in 1..n PROVE tr[k] = op(p, tr[k - 1], s[k])
  <2>1. 1..k \in SUBSET (1..n) /\ 1..k # {} /\ 1..k \subseteq 1..k
    <3>1. k \in 1..k /\ k \in Nat
        OBVIOUS
    <3>2. \A j \in 1..k : j \in 1..n
        OBVIOUS
    <3> QED BY <3>1, <3>2
  <2>2. Greatest(1..k) = k
    <3>1. Greatest(1..k) \in 1..k /\ \A y \in 1..k : y <= Greatest(1..k)
        BY <2>1, GreatestIn
    <3>2. k \in 1..k
        OBVIOUS
    <3> HIDE DEF tr
    <3> DEFINE m == Greatest(1..k)
    <3>3. m \in 1..k /\ k <= m
        BY <3>1, <3>2
    <3> HIDE DEF m
    <3>4. m = k
        BY <3>3
    <3> QED BY <3>4 DEF m
  <2>3. (1..k) \ {k} = 1..(k - 1)
      OBVIOUS
  <2>4. iter[1..k] = op(p, iter[1..(k - 1)], s[k])
      BY <1>3, <2>1, <2>2, <2>3
  <2>5. tr[k] = iter[1..k] /\ tr[k - 1] = iter[1..(k - 1)]
      OBVIOUS
  <2> QED BY <2>4, <2>5
<1>6. tr[n] = iter[1..n]
    OBVIOUS
<1>7. Trace(tr, p, base, s, n)
    BY <1>2, <1>4, <1>5, <1>6 DEF Trace
<1> QED
    BY <1>7

LEMMA FoldedEmpty ==
    ASSUME NEW p, NEW base
    PROVE  Folded(p, base, <<>>) = base
<1>1. DOMAIN <<>> = 1..0 /\ 0 \in Nat
    OBVIOUS
<1>2. PICK tr : Trace(tr, p, base, <<>>, 0)
    BY <1>1, FoldedTrace
<1> QED
    BY <1>2 DEF Trace

(* A fold over one more element. *)
LEMMA FoldedMore ==
    ASSUME NEW p, NEW base, NEW n \in Nat, NEW s, DOMAIN s = 1..n,
           NEW t, DOMAIN t = 1..(n + 1), \A i \in 1..n : t[i] = s[i]
    PROVE  Folded(p, base, t) = op(p, Folded(p, base, s), t[n + 1])
<1>1. PICK u : Trace(u, p, base, s, n)
    BY FoldedTrace
<1>2. n + 1 \in Nat
    OBVIOUS
<1>3. PICK v : Trace(v, p, base, t, n + 1)
    BY <1>2, FoldedTrace
<1> DEFINE bad == {k \in 0..n : u[k] # v[k]}
<1>4. bad = {}
  <2> SUFFICES ASSUME bad # {} PROVE FALSE
      OBVIOUS
  <2>1. bad \subseteq Nat
      OBVIOUS
  <2>2. PICK k \in bad : \A j \in bad : k <= j
      BY <2>1, LeastNat
  <2>3. k # 0
      BY <1>1, <1>3, <2>2 DEF Trace
  <2>4. k \in 1..n /\ k - 1 \in 0..n /\ ~(k <= k - 1) /\ k \in 1..(n + 1)
      BY <2>2, <2>3
  <2>5. u[k - 1] = v[k - 1]
      BY <2>2, <2>4
  <2>6. u[k] = op(p, u[k - 1], s[k]) /\ v[k] = op(p, v[k - 1], t[k]) /\ t[k] = s[k]
      BY <1>1, <1>3, <2>4 DEF Trace
  <2> QED BY <2>2, <2>5, <2>6
<1>5. n \in 0..n /\ n + 1 \in 1..(n + 1) /\ (n + 1) - 1 = n
    OBVIOUS
<1>6. u[n] = v[n]
    BY <1>4, <1>5
<1>7. v[n + 1] = op(p, v[n], t[n + 1])
    BY <1>3, <1>5 DEF Trace
<1> QED
    BY <1>1, <1>3, <1>6, <1>7 DEF Trace
=============================================================================
