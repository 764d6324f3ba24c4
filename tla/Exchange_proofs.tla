--------------------------- MODULE Exchange_proofs --------------------------
(***************************************************************************)
(* Proofs about Exchange: its inductive invariant and, from it, every      *)
(* safety property that the runs check on small instances.                 *)
(*                                                                         *)
(* The argument, in the order of the sections:                             *)
(*   1. arithmetic: what is reserved is rounded up and what is paid down,  *)
(*      so a remainder and what was paid for the rest never exceed the     *)
(*      reservation;                                                       *)
(*   2. books: Reserve, Release and Settle keep the sums equal to those of *)
(*      the orders, and every order's reservation sufficient;              *)
(*   3. the submission loop of a block: an invariant of the fold over the  *)
(*      waiting submissions, and over the orders of each;                  *)
(*   4. settlement: what every account pays and receives is bounded by     *)
(*      what its orders reserve, whatever the solver fills;                *)
(*   5. each action keeps the invariant;                                   *)
(*   6. the verifier's checks, one at a time, of the block produced;       *)
(*   7. the books of all accounts, within the rounded amounts.             *)
(* Products are kept folded in Times, and sums in SumFunctionOnSet, so     *)
(* that each leaf is linear arithmetic or set reasoning.                   *)
(***************************************************************************)
EXTENDS ExchangeInv, SequenceTheorems, FiniteSetTheorems, TLAPS

(* The orders of a submission are taken one after the other. *)
Taking(p, s, o) == TakeOrder(s, o)
INSTANCE Folds_proofs WITH op <- Taking

-----------------------------------------------------------------------------
(* Products and quotients.  Products are kept folded, for the provers. *)

Times(x, y) == x * y

LEMMA TimesNat == ASSUME NEW x \in Nat, NEW y \in Nat PROVE Times(x, y) \in Nat
BY DEF Times

LEMMA TimesInt == ASSUME NEW x \in Int, NEW y \in Int PROVE Times(x, y) \in Int
BY DEF Times

LEMMA TimesOrder ==
    ASSUME NEW x \in Int, NEW y \in Int, NEW k \in Nat, x <= y
    PROVE  Times(k, x) <= Times(k, y) /\ Times(x, k) <= Times(y, k)
BY DEF Times

LEMMA Cancel ==
    ASSUME NEW x \in Int, NEW y \in Int, NEW k \in Nat \ {0}, Times(k, x) <= Times(k, y)
    PROVE  x <= y
BY DEF Times

LEMMA CancelLess ==
    ASSUME NEW x \in Int, NEW y \in Int, NEW k \in Nat \ {0}, Times(k, x) < Times(k, y)
    PROVE  x < y
BY DEF Times

LEMMA Swap ==
    ASSUME NEW x \in Int, NEW y \in Int, NEW z \in Int
    PROVE  /\ Times(x, y) = Times(y, x)
           /\ Times(x, Times(y, z)) = Times(Times(x, y), z)
           /\ Times(x, Times(y, z)) = Times(y, Times(x, z))
BY DEF Times

LEMMA Spread ==
    ASSUME NEW x \in Int, NEW y \in Int, NEW z \in Int
    PROVE  /\ Times(x, y + z) = Times(x, y) + Times(x, z)
           /\ Times(x, y - z) = Times(x, y) - Times(x, z)
BY DEF Times

LEMMA Units01 ==
    ASSUME NEW x \in Int
    PROVE  Times(x, 0) = 0 /\ Times(0, x) = 0 /\ Times(x, 1) = x
BY DEF Times

LEMMA OneMore ==
    ASSUME NEW x \in Int, NEW y \in Int
    PROVE  Times(x, y + 1) = Times(x, y) + x
<1>1. Times(x, y + 1) = Times(x, y) + Times(x, 1)
    BY Spread
<1> QED BY <1>1, Units01

LEMMA Quotient ==
    ASSUME NEW n \in Int, NEW d \in Nat \ {0}
    PROVE  /\ n \div d \in Int /\ Times(d, n \div d) \in Int
           /\ Times(d, n \div d) <= n /\ n < Times(d, n \div d) + d
<1>1. n \div d \in Int /\ d * (n \div d) <= n /\ n < d * (n \div d) + d
    OBVIOUS
<1> QED BY <1>1, TimesInt DEF Times

LEMMA QuotientNat ==
    ASSUME NEW n \in Nat, NEW d \in Nat \ {0}
    PROVE  n \div d \in Nat
<1>0. PICK q : q = n \div d
    OBVIOUS
<1>1. q \in Int /\ n < Times(d, q) + d /\ Times(d, q) \in Int
  <2>1. n \in Int
      OBVIOUS
  <2> QED BY <1>0, <2>1, Quotient
<1>d. d \in Int
    OBVIOUS
<1>2. Times(d, q + 1) = Times(d, q) + d /\ Times(d, 0) = 0
    BY <1>1, <1>d, OneMore, Units01
<1>3. Times(d, 0) < Times(d, q + 1)
    BY <1>1, <1>2
<1>4. 0 < q + 1
  <2>1. q + 1 \in Int /\ 0 \in Int
      BY <1>1
  <2> QED BY <1>3, <2>1, CancelLess
<1> QED
    BY <1>0, <1>1, <1>4

LEMMA ScaleType == SHARE_SCALE \in Nat \ {0} /\ SHARE_SCALE \in Nat
BY OrderBookAssumption

(* What is paid. *)
LEMMA Paid ==
    ASSUME NEW p \in Nat, NEW q \in Nat
    PROVE  /\ Notional(p, q) \in Nat
           /\ Times(SHARE_SCALE, Notional(p, q)) <= Times(p, q)
           /\ Times(p, q) < Times(SHARE_SCALE, Notional(p, q)) + SHARE_SCALE
<1>1. Times(p, q) \in Nat /\ Notional(p, q) = Times(p, q) \div SHARE_SCALE
    BY TimesNat DEF Times, Notional
<1>2. PICK x \in Nat : x = Times(p, q)
    BY <1>1
<1>3. x \in Int /\ SHARE_SCALE \in Nat \ {0}
    BY ScaleType
<1>4. PICK y : y = x \div SHARE_SCALE
    OBVIOUS
<1>5. y \in Nat
    BY <1>3, <1>4, QuotientNat
<1>6. Times(SHARE_SCALE, y) <= x /\ x < Times(SHARE_SCALE, y) + SHARE_SCALE
    BY <1>3, <1>4, Quotient
<1> QED BY <1>1, <1>2, <1>4, <1>5, <1>6

(* What is reserved is the least that is not less than the price. *)
LEMMA Costs ==
    ASSUME NEW p \in Nat, NEW q \in Nat
    PROVE  /\ NotionalCeil(p, q) \in Nat
           /\ Times(p, q) <= Times(SHARE_SCALE, NotionalCeil(p, q))
           /\ Times(SHARE_SCALE, NotionalCeil(p, q)) < Times(p, q) + SHARE_SCALE
<1>1. PICK x \in Nat : x = Times(p, q)
    BY TimesNat
<1>2. PICK y \in Nat : y = x + SHARE_SCALE - 1
    BY ScaleType
<1>3. NotionalCeil(p, q) = y \div SHARE_SCALE
    BY <1>1, <1>2 DEF Times, NotionalCeil
<1>4. PICK c \in Nat : c = NotionalCeil(p, q)
    BY <1>3, ScaleType, QuotientNat
<1>5. Times(SHARE_SCALE, c) <= y /\ y < Times(SHARE_SCALE, c) + SHARE_SCALE
  <2>1. y \in Int /\ SHARE_SCALE \in Nat \ {0}
      BY ScaleType
  <2>2. c = y \div SHARE_SCALE
      BY <1>3, <1>4
  <2> QED BY <2>1, <2>2, Quotient
<1>6. Times(SHARE_SCALE, c) \in Nat
    BY ScaleType, TimesNat
<1> QED
    BY <1>1, <1>2, <1>4, <1>5, <1>6, ScaleType

LEMMA CostLeast ==
    ASSUME NEW p \in Nat, NEW q \in Nat, NEW c \in Int, Times(p, q) <= Times(SHARE_SCALE, c)
    PROVE  NotionalCeil(p, q) <= c
<1>1. PICK x \in Nat : x = NotionalCeil(p, q) /\ Times(SHARE_SCALE, x) < Times(p, q) + SHARE_SCALE
    BY Costs
<1>2. /\ Times(SHARE_SCALE, c) \in Int /\ Times(p, q) \in Nat /\ Times(SHARE_SCALE, x) \in Nat
      /\ Times(SHARE_SCALE, c + 1) = Times(SHARE_SCALE, c) + SHARE_SCALE
  <2>1. SHARE_SCALE \in Int /\ SHARE_SCALE \in Nat
      BY ScaleType
  <2>2. Times(p, q) \in Nat /\ Times(SHARE_SCALE, x) \in Nat
      BY <2>1, TimesNat
  <2>3. Times(SHARE_SCALE, c) \in Int
      BY <2>1, TimesInt
  <2>4. Times(SHARE_SCALE, c + 1) = Times(SHARE_SCALE, c) + SHARE_SCALE
      BY <2>1, OneMore
  <2> QED BY <2>2, <2>3, <2>4
<1>3. Times(SHARE_SCALE, x) < Times(SHARE_SCALE, c + 1)
    BY <1>1, <1>2, ScaleType
<1>4. x < c + 1
    BY <1>3, ScaleType, CancelLess
<1> QED
    BY <1>1, <1>4

LEMMA PaidAtMost ==
    ASSUME NEW p \in Nat, NEW q \in Nat, NEW l \in Nat, NEW m \in Nat, p <= l, q <= m
    PROVE  Notional(p, q) <= NotionalCeil(l, m)
<1>1. /\ Times(p, q) <= Times(l, q) /\ Times(l, q) <= Times(l, m)
      /\ Times(p, q) \in Nat /\ Times(l, q) \in Nat /\ Times(l, m) \in Nat
  <2>1. Times(p, q) <= Times(l, q)
      BY TimesOrder
  <2>2. Times(l, q) <= Times(l, m)
      BY TimesOrder
  <2>3. Times(p, q) \in Nat /\ Times(l, q) \in Nat /\ Times(l, m) \in Nat
      BY TimesNat
  <2> QED BY <2>1, <2>2, <2>3
<1>2. PICK x \in Nat : x = Notional(p, q) /\ Times(SHARE_SCALE, x) <= Times(p, q)
    BY Paid
<1>3. PICK y \in Nat : y = NotionalCeil(l, m) /\ Times(l, m) <= Times(SHARE_SCALE, y)
    BY Costs
<1>4. Times(SHARE_SCALE, x) \in Nat /\ Times(SHARE_SCALE, y) \in Nat
    BY ScaleType, TimesNat
<1>5. Times(SHARE_SCALE, x) <= Times(SHARE_SCALE, y)
    BY <1>1, <1>2, <1>3, <1>4
<1> QED
    BY <1>2, <1>3, <1>5, ScaleType, Cancel

LEMMA Ratio ==
    ASSUME NEW v \in Nat, NEW n \in Nat, NEW d \in Nat \ {0}
    PROVE  /\ CeilMulRatio(v, n, d) \in Nat
           /\ Times(v, n) <= Times(d, CeilMulRatio(v, n, d))
           /\ Times(d, CeilMulRatio(v, n, d)) < Times(v, n) + d
<1>1. PICK x \in Nat : x = Times(v, n)
    BY TimesNat
<1>2. PICK y \in Nat : y = x + d - 1
    OBVIOUS
<1>3. CeilMulRatio(v, n, d) = y \div d
    BY <1>1, <1>2 DEF Times, CeilMulRatio
<1>4. PICK c \in Nat : c = CeilMulRatio(v, n, d)
    BY <1>3, QuotientNat
<1>5. Times(d, c) <= y /\ y < Times(d, c) + d
  <2>1. y \in Int /\ c = y \div d
      BY <1>3, <1>4
  <2> QED BY <2>1, Quotient
<1>6. Times(d, c) \in Nat
    BY TimesNat
<1> QED
    BY <1>1, <1>2, <1>4, <1>5, <1>6

(* The whole scales to the part, and nothing to nothing. *)
LEMMA RatioExact ==
    ASSUME NEW n \in Nat, NEW d \in Nat \ {0}
    PROVE  CeilMulRatio(d, n, d) = n /\ CeilMulRatio(0, n, d) = 0
<1>1. PICK c \in Nat : /\ c = CeilMulRatio(d, n, d)
                       /\ Times(d, n) <= Times(d, c) /\ Times(d, c) < Times(d, n) + d
    BY Ratio
<1>2. PICK e \in Nat : e = CeilMulRatio(0, n, d) /\ Times(d, e) < Times(0, n) + d
    BY Ratio
<1>3. Times(d, n + 1) = Times(d, n) + d /\ Times(0, n) = 0 /\ Times(d, 1) = d
    BY OneMore, Units01
<1>4. Times(d, c) < Times(d, n + 1) /\ Times(d, e) < Times(d, 1)
    BY <1>1, <1>2, <1>3
<1>5. n <= c /\ c < n + 1 /\ e < 1
    BY <1>1, <1>4, Cancel, CancelLess
<1> QED
    BY <1>1, <1>2, <1>5

(* What is left of an order reserves at least what it may cost, and what it has
   paid comes out of the reservation. *)
LEMMA RemainderReserves ==
    ASSUME NEW l \in Nat, NEW m \in Nat \ {0}, NEW v \in Nat, v >= NotionalCeil(l, m),
           NEW f \in 0..m, NEW p \in Nat, p <= l
    PROVE  /\ CeilMulRatio(v, m - f, m) \in Nat
           /\ CeilMulRatio(v, m - f, m) >= NotionalCeil(l, m - f)
           /\ CeilMulRatio(v, m - f, m) + Notional(p, f) <= v
<1>s. PICK S \in Nat \ {0} : S = SHARE_SCALE
    BY ScaleType
<1>0. PICK r \in Nat : r = m - f
    OBVIOUS
<1>1. PICK c \in Nat : c = CeilMulRatio(v, r, m) /\ Times(v, r) <= Times(m, c) /\ Times(m, c) < Times(v, r) + m
    BY Ratio
<1>f. f \in Nat
    OBVIOUS
<1>2. PICK n \in Nat : n = Notional(p, f) /\ Times(S, n) <= Times(p, f)
    BY <1>s, <1>f, Paid
<1>3. Times(l, m) <= Times(S, v)
  <2>1. PICK x \in Nat : x = NotionalCeil(l, m) /\ Times(l, m) <= Times(S, x)
      BY <1>s, Costs
  <2>2. Times(S, x) <= Times(S, v)
      BY <1>s, <2>1, TimesOrder
  <2>3. Times(S, x) \in Nat /\ Times(S, v) \in Nat /\ Times(l, m) \in Nat
      BY <1>s, TimesNat
  <2> QED BY <2>1, <2>2, <2>3
<1>4. /\ Times(l, m) \in Nat /\ Times(S, v) \in Nat /\ Times(v, r) \in Nat /\ Times(m, c) \in Nat
      /\ Times(S, c) \in Nat /\ Times(l, r) \in Nat /\ Times(l, f) \in Nat /\ Times(p, f) \in Nat
      /\ Times(S, n) \in Nat /\ Times(m, n) \in Nat /\ Times(v, f) \in Nat /\ Times(m, v) \in Nat
    BY <1>f, TimesNat
<1>5. Times(l, r) <= Times(S, c)
  <2>1. Times(Times(l, m), r) <= Times(Times(S, v), r)
      BY <1>3, <1>4, TimesOrder
  <2>2. Times(Times(l, m), r) = Times(m, Times(l, r))
      BY Swap
  <2>3. Times(Times(S, v), r) = Times(S, Times(v, r)) /\ Times(S, Times(m, c)) = Times(m, Times(S, c))
      BY Swap
  <2>4. Times(S, Times(v, r)) <= Times(S, Times(m, c))
      BY <1>1, <1>4, TimesOrder
  <2>5. /\ Times(m, Times(l, r)) \in Nat /\ Times(S, Times(v, r)) \in Nat
        /\ Times(m, Times(S, c)) \in Nat
      BY <1>4, TimesNat
  <2>6. Times(m, Times(l, r)) <= Times(m, Times(S, c))
      BY <2>1, <2>2, <2>3, <2>4, <2>5
  <2> QED BY <1>4, <2>6, Cancel
<1>6. NotionalCeil(l, r) <= c
    BY <1>s, <1>5, CostLeast
<1>7. Times(m, n) <= Times(v, f)
  <2>0. f \in Nat
      OBVIOUS
  <2>1. Times(m, Times(S, n)) <= Times(m, Times(p, f)) /\ Times(p, f) <= Times(l, f)
      BY <1>2, <1>4, <2>0, TimesOrder
  <2>2. Times(m, Times(p, f)) <= Times(m, Times(l, f))
      BY <1>4, <2>1, TimesOrder
  <2>3. Times(Times(l, m), f) <= Times(Times(S, v), f)
      BY <1>3, <1>4, <2>0, TimesOrder
  <2>4. /\ Times(m, Times(S, n)) = Times(S, Times(m, n))
        /\ Times(m, Times(l, f)) = Times(Times(l, m), f)
        /\ Times(Times(S, v), f) = Times(S, Times(v, f))
    <3>1. Times(m, Times(l, f)) = Times(Times(m, l), f) /\ Times(m, l) = Times(l, m)
        BY <2>0, Swap
    <3> QED BY <2>0, <3>1, Swap
  <2>5. /\ Times(S, Times(m, n)) \in Nat /\ Times(m, Times(p, f)) \in Nat
        /\ Times(m, Times(l, f)) \in Nat /\ Times(S, Times(v, f)) \in Nat
      BY <1>4, TimesNat
  <2>6. Times(S, Times(m, n)) <= Times(S, Times(v, f))
      BY <2>1, <2>2, <2>3, <2>4, <2>5
  <2> QED BY <1>4, <2>6, Cancel
<1>8. c + n <= v
  <2>1. Times(v, r) + Times(v, f) = Times(m, v)
    <3>1. r + f = m /\ f \in Int
        BY <1>0
    <3>2. Times(v, r + f) = Times(v, r) + Times(v, f) /\ Times(v, m) = Times(m, v)
        BY <3>1, Spread, Swap
    <3> QED BY <3>1, <3>2
  <2>2. Times(m, c) + Times(m, n) < Times(m, v) + m
      BY <1>1, <1>4, <1>7, <2>1
  <2>3. Times(m, c + n) = Times(m, c) + Times(m, n) /\ Times(m, v + 1) = Times(m, v) + m
      BY Spread, OneMore
  <2>4. Times(m, c + n) < Times(m, v + 1)
      BY <2>2, <2>3
  <2>5. c + n < v + 1
      BY <2>4, CancelLess
  <2> QED BY <2>5
<1> QED
    BY <1>0, <1>1, <1>2, <1>6, <1>8

(* The image of a finite set is finite. *)
LEMMA ImageFinite ==
    ASSUME NEW S, IsFiniteSet(S), NEW f, NEW T, \A t \in T : \E x \in S : t = f[x]
    PROVE  IsFiniteSet(T)
<1> DEFINE R == {x \in S : f[x] \in T}
           g == [x \in R |-> f[x]]
<1>1. IsFiniteSet(R)
    BY FS_Subset
<1>2. g \in Surjection(R, T)
    BY DEF Surjection
<1> QED BY <1>1, <1>2, FS_Surjection

-----------------------------------------------------------------------------
(* Sums over a renaming. *)
LEMMA SumOne ==
    ASSUME NEW f, NEW x, f[x] \in Int
    PROVE  SumFunctionOnSet(f, {x}) = f[x]
<1>1. Summands(f, {}) /\ SumFunctionOnSet(f, {}) = 0
    BY SumEmpty, FS_EmptySet DEF Summands
<1>2. SumFunctionOnSet(f, {} \cup {x}) = SumFunctionOnSet(f, {}) + f[x]
    BY <1>1, SumAdd
<1>3. {} \cup {x} = {x}
    OBVIOUS
<1> QED BY <1>1, <1>2, <1>3

LEMMA SumRename ==
    ASSUME NEW S, NEW T, NEW h, NEW f, NEW g, IsFiniteSet(S), IsFiniteSet(T),
           \A x \in S : h[x] \in T /\ g[x] = f[h[x]],
           \A x, y \in S : h[x] = h[y] => x = y,
           \A t \in T : f[t] \in Int /\ \E x \in S : h[x] = t
    PROVE  SumFunctionOnSet(g, S) = SumFunctionOnSet(f, T)
<1>1. Summands(g, S)
    BY DEF Summands
<1>2. \A t \in T : f[t] = SumFunctionOnSet(g, {x \in S : h[x] = t})
  <2> TAKE t \in T
  <2>1. PICK x \in S : h[x] = t
      OBVIOUS
  <2>2. {y \in S : h[y] = t} = {x}
      BY <2>1
  <2>3. g[x] \in Int /\ g[x] = f[t]
      BY <2>1
  <2>4. SumFunctionOnSet(g, {x}) = g[x]
      BY <2>3, SumOne
  <2> QED BY <2>2, <2>3, <2>4, Zenon
<1>3. \A x \in S : h[x] \in T
    OBVIOUS
<1> QED
    BY <1>1, <1>2, <1>3, SumGroups

LEMMA SumZero ==
    ASSUME NEW f, NEW S, IsFiniteSet(S), \A x \in S : f[x] = 0
    PROVE  SumFunctionOnSet(f, S) = 0
<1> DEFINE z == [x \in S |-> 0]
<1>1. Summands(f, S) /\ Summands(z, S)
    BY DEF Summands
<1>2. \A x \in S : f[x] = f[x] + z[x] /\ z[x] = f[x] + f[x]
    OBVIOUS
<1> HIDE DEF z
<1>3. SumFunctionOnSet(f, S) = SumFunctionOnSet(f, S) + SumFunctionOnSet(z, S)
    BY <1>1, <1>2, SumPlus
<1>4. SumFunctionOnSet(z, S) = SumFunctionOnSet(f, S) + SumFunctionOnSet(f, S)
    BY <1>1, <1>2, SumPlus
<1>5. SumFunctionOnSet(z, S) \in Int /\ SumFunctionOnSet(f, S) \in Int
    BY <1>1, SumType
<1>6. \A i, j \in Int : i = i + j /\ j = i + i => i = 0
    OBVIOUS
<1> QED BY <1>3, <1>4, <1>5, <1>6

(* Removing a part. *)
LEMMA SumMinus ==
    ASSUME NEW f, NEW S, NEW T, T \subseteq S, Summands(f, S)
    PROVE  /\ SumFunctionOnSet(f, S \ T) = SumFunctionOnSet(f, S) - SumFunctionOnSet(f, T)
           /\ Summands(f, T) /\ Summands(f, S \ T)
<1>1. Summands(f, T) /\ Summands(f, S \ T)
    BY FS_Subset DEF Summands
<1>2. (S \ T) \cap T = {} /\ (S \ T) \cup T = S
    OBVIOUS
<1>3. SumFunctionOnSet(f, S) = SumFunctionOnSet(f, S \ T) + SumFunctionOnSet(f, T)
    BY <1>1, <1>2, SumUnion
<1>4. SumFunctionOnSet(f, S \ T) \in Int /\ SumFunctionOnSet(f, T) \in Int
    BY <1>1, SumType
<1> QED BY <1>1, <1>3, <1>4

-----------------------------------------------------------------------------
(* What orders reserve *)

Reserves(S) == \A ro \in S : ro.reserved_balance \in Nat /\ ro.reserved_position \in Nat
Cash(U) == [ro \in U |-> ro.reserved_balance]
Shares(U) == [ro \in U |-> ro.reserved_position]
Mine(S, a) == {r \in S : r.account = a}
MineOn(S, a, k) == {r \in S : r.account = a /\ Key(r) = k}

LEMMA CashSum ==
    ASSUME NEW U, NEW S, NEW a, S \subseteq U, IsFiniteSet(S), Reserves(S)
    PROVE  /\ CashOf(S, a) = SumFunctionOnSet(Cash(U), Mine(S, a))
           /\ CashOf(S, a) \in Nat
           /\ Summands(Cash(U), Mine(S, a))
<1> DEFINE M == Mine(S, a)
           g == [ro \in M |-> ro.reserved_balance]
<1>1. IsFiniteSet(M) /\ M \subseteq S
    BY FS_Subset DEF Mine
<1>2. \A ro \in M : g[ro] = Cash(U)[ro] /\ g[ro] \in Nat /\ Cash(U)[ro] \in Nat
    BY <1>1 DEF Cash, Reserves
<1>3. CashOf(S, a) = SumFunctionOnSet(g, M)
    BY DEF CashOf, SumFunction, Mine
<1> HIDE DEF M, g
<1>4. SumFunctionOnSet(g, M) \in Nat
    BY <1>1, <1>2, SumNat
<1>5. Summands(g, M) /\ Summands(Cash(U), M)
    BY <1>1, <1>2 DEF Summands
<1>6. SumFunctionOnSet(g, M) = SumFunctionOnSet(Cash(U), M)
    BY <1>2, <1>5, SumSame
<1> QED BY <1>3, <1>4, <1>5, <1>6 DEF M

LEMMA SharesSum ==
    ASSUME NEW U, NEW S, NEW a, NEW k, S \subseteq U, IsFiniteSet(S), Reserves(S)
    PROVE  /\ SharesOf(S, a, k) = SumFunctionOnSet(Shares(U), MineOn(S, a, k))
           /\ SharesOf(S, a, k) \in Nat
           /\ Summands(Shares(U), MineOn(S, a, k))
<1> DEFINE M == MineOn(S, a, k)
           g == [ro \in M |-> ro.reserved_position]
<1>1. IsFiniteSet(M) /\ M \subseteq S
    BY FS_Subset DEF MineOn
<1>2. \A ro \in M : g[ro] = Shares(U)[ro] /\ g[ro] \in Nat /\ Shares(U)[ro] \in Nat
    BY <1>1 DEF Shares, Reserves
<1>3. SharesOf(S, a, k) = SumFunctionOnSet(g, M)
    BY DEF SharesOf, SumFunction, MineOn
<1> HIDE DEF M, g
<1>4. SumFunctionOnSet(g, M) \in Nat
    BY <1>1, <1>2, SumNat
<1>5. Summands(g, M) /\ Summands(Shares(U), M)
    BY <1>1, <1>2 DEF Summands
<1>6. SumFunctionOnSet(g, M) = SumFunctionOnSet(Shares(U), M)
    BY <1>2, <1>5, SumSame
<1> QED BY <1>3, <1>4, <1>5, <1>6 DEF M

LEMMA CashUnion ==
    ASSUME NEW S, NEW T, NEW a, IsFiniteSet(S), IsFiniteSet(T), Reserves(S), Reserves(T), S \cap T = {}
    PROVE  CashOf(S \cup T, a) = CashOf(S, a) + CashOf(T, a)
<1> DEFINE U == S \cup T
<1>1. IsFiniteSet(U) /\ Reserves(U) /\ S \subseteq U /\ T \subseteq U
    BY FS_Union DEF Reserves
<1>2. Mine(S, a) \cap Mine(T, a) = {} /\ Mine(S, a) \cup Mine(T, a) = Mine(U, a)
    BY DEF Mine
<1> HIDE DEF U
<1>3. /\ CashOf(S, a) = SumFunctionOnSet(Cash(U), Mine(S, a)) /\ Summands(Cash(U), Mine(S, a))
      /\ CashOf(T, a) = SumFunctionOnSet(Cash(U), Mine(T, a)) /\ Summands(Cash(U), Mine(T, a))
      /\ CashOf(U, a) = SumFunctionOnSet(Cash(U), Mine(U, a))
    BY <1>1, CashSum
<1>4. SumFunctionOnSet(Cash(U), Mine(S, a) \cup Mine(T, a))
        = SumFunctionOnSet(Cash(U), Mine(S, a)) + SumFunctionOnSet(Cash(U), Mine(T, a))
    BY <1>2, <1>3, SumUnion
<1> QED BY <1>2, <1>3, <1>4 DEF U

LEMMA SharesUnion ==
    ASSUME NEW S, NEW T, NEW a, NEW k, IsFiniteSet(S), IsFiniteSet(T), Reserves(S), Reserves(T),
           S \cap T = {}
    PROVE  SharesOf(S \cup T, a, k) = SharesOf(S, a, k) + SharesOf(T, a, k)
<1> DEFINE U == S \cup T
<1>1. IsFiniteSet(U) /\ Reserves(U) /\ S \subseteq U /\ T \subseteq U
    BY FS_Union DEF Reserves
<1>2. MineOn(S, a, k) \cap MineOn(T, a, k) = {} /\ MineOn(S, a, k) \cup MineOn(T, a, k) = MineOn(U, a, k)
    BY DEF MineOn
<1> HIDE DEF U
<1>3. /\ SharesOf(S, a, k) = SumFunctionOnSet(Shares(U), MineOn(S, a, k)) /\ Summands(Shares(U), MineOn(S, a, k))
      /\ SharesOf(T, a, k) = SumFunctionOnSet(Shares(U), MineOn(T, a, k)) /\ Summands(Shares(U), MineOn(T, a, k))
      /\ SharesOf(U, a, k) = SumFunctionOnSet(Shares(U), MineOn(U, a, k))
    BY <1>1, SharesSum
<1>4. SumFunctionOnSet(Shares(U), MineOn(S, a, k) \cup MineOn(T, a, k))
        = SumFunctionOnSet(Shares(U), MineOn(S, a, k)) + SumFunctionOnSet(Shares(U), MineOn(T, a, k))
    BY <1>2, <1>3, SumUnion
<1> QED BY <1>2, <1>3, <1>4 DEF U

(* The orders S reserve what R and T do together. *)
Divided(S, R, T) ==
    /\ \A a : /\ CashOf(S, a) \in Nat /\ CashOf(T, a) \in Nat /\ CashOf(R, a) \in Nat
             /\ CashOf(S, a) = CashOf(R, a) + CashOf(T, a)
    /\ \A a, k : /\ SharesOf(S, a, k) \in Nat /\ SharesOf(T, a, k) \in Nat /\ SharesOf(R, a, k) \in Nat
                /\ SharesOf(S, a, k) = SharesOf(R, a, k) + SharesOf(T, a, k)

LEMMA Together ==
    ASSUME NEW R, NEW T, IsFiniteSet(R), IsFiniteSet(T), Reserves(R), Reserves(T), R \cap T = {}
    PROVE  Divided(R \cup T, R, T)
<1>1. IsFiniteSet(R \cup T) /\ Reserves(R \cup T)
    BY FS_Union DEF Reserves
<1>2. \A a : CashOf(R \cup T, a) = CashOf(R, a) + CashOf(T, a)
    BY CashUnion
<1>3. \A a : CashOf(R \cup T, a) \in Nat /\ CashOf(R, a) \in Nat /\ CashOf(T, a) \in Nat
    BY <1>1, CashSum
<1>4. \A a, k : SharesOf(R \cup T, a, k) = SharesOf(R, a, k) + SharesOf(T, a, k)
    BY SharesUnion
<1>5. \A a, k : SharesOf(R \cup T, a, k) \in Nat /\ SharesOf(R, a, k) \in Nat /\ SharesOf(T, a, k) \in Nat
    BY <1>1, SharesSum
<1> QED BY <1>2, <1>3, <1>4, <1>5 DEF Divided

LEMMA Without ==
    ASSUME NEW S, NEW T, IsFiniteSet(S), Reserves(S), T \subseteq S
    PROVE  Divided(S, S \ T, T)
<1>1. /\ IsFiniteSet(T) /\ IsFiniteSet(S \ T) /\ Reserves(T) /\ Reserves(S \ T)
      /\ (S \ T) \cup T = S /\ (S \ T) \cap T = {}
    BY FS_Subset DEF Reserves
<1>2. Divided((S \ T) \cup T, S \ T, T)
    BY <1>1, Together
<1> QED BY <1>1, <1>2, Zenon

-----------------------------------------------------------------------------
(* Books *)

(* A book whose aggregates are what its orders reserve. *)
Exact(bk) ==
    bk = [orders |-> bk.orders,
          cash   |-> [a \in Accounts |-> CashOf(bk.orders, a)],
          shares |-> [a \in Accounts |-> [k \in PositionKeys |-> SharesOf(bk.orders, a, k)]]]

LEMMA RestingReserves ==
    ASSUME NEW S, \A ro \in S : RestingOK(ro)
    PROVE  Reserves(S)
<1> SUFFICES ASSUME NEW ro \in S PROVE ro.reserved_balance \in Nat /\ ro.reserved_position \in Nat
    BY DEF Reserves
<1>1. /\ ro.reserved_balance \in Nat /\ ro.max_fill \in Nat
      /\ ro.reserved_position = SellReservation(ro)
    BY DEF RestingOK, OrderOK
<1> QED BY <1>1 DEF SellReservation

LEMMA Restored ==
    ASSUME NEW S, IsFiniteSet(S), Reserves(S)
    PROVE  Restore(S) = [orders |-> S,
                         cash   |-> [a \in Accounts |-> CashOf(S, a)],
                         shares |-> [a \in Accounts |-> [k \in PositionKeys |-> SharesOf(S, a, k)]]]
<1>1. \A a : CashOf(S, a) \in Nat
    BY CashSum
<1>2. \A a, k : SharesOf(S, a, k) \in Nat
    BY SharesSum
<1>3. /\ \A a \in Accounts : EmptyBook.cash[a] + CashOf(S, a) = CashOf(S, a)
      /\ \A a \in Accounts : \A k \in PositionKeys :
            EmptyBook.shares[a][k] + SharesOf(S, a, k) = SharesOf(S, a, k)
    BY <1>1, <1>2 DEF EmptyBook
<1>4. EmptyBook.orders \cup S = S
    BY DEF EmptyBook
<1> QED BY <1>3, <1>4 DEF Restore, Reserve

LEMMA BookExact ==
    ASSUME NEW bk
    PROVE  BookOK(bk) <=> /\ IsFiniteSet(bk.orders)
                          /\ \A ro \in bk.orders : RestingOK(ro)
                          /\ \A ro, r \in bk.orders : ro.id = r.id => ro = r
                          /\ Exact(bk)
<1>1. ASSUME IsFiniteSet(bk.orders), \A ro \in bk.orders : RestingOK(ro)
      PROVE  Restore(bk.orders) = bk <=> Exact(bk)
    BY <1>1, RestingReserves, Restored DEF Exact
<1> QED BY <1>1 DEF BookOK

LEMMA BookSums ==
    ASSUME NEW bk, BookOK(bk)
    PROVE  /\ Reserves(bk.orders) /\ IsFiniteSet(bk.orders)
           /\ \A a \in Accounts : bk.cash[a] = CashOf(bk.orders, a) /\ bk.cash[a] \in Nat
           /\ \A a \in Accounts : \A k \in PositionKeys :
                 bk.shares[a][k] = SharesOf(bk.orders, a, k) /\ bk.shares[a][k] \in Nat
<1>1. /\ IsFiniteSet(bk.orders) /\ Reserves(bk.orders) /\ Exact(bk)
    BY BookExact, RestingReserves
<1>2. \A a : CashOf(bk.orders, a) \in Nat
    BY <1>1, CashSum
<1>3. \A a, k : SharesOf(bk.orders, a, k) \in Nat
    BY <1>1, SharesSum
<1>4. \A a \in Accounts : bk.cash[a] = CashOf(bk.orders, a)
    BY <1>1 DEF Exact
<1>5. \A a \in Accounts : \A k \in PositionKeys : bk.shares[a][k] = SharesOf(bk.orders, a, k)
    BY <1>1 DEF Exact
<1> QED BY <1>1, <1>2, <1>3, <1>4, <1>5

Less(nb, bk) ==
    /\ \A a \in Accounts : nb.cash[a] <= bk.cash[a]
    /\ \A a \in Accounts : \A k \in PositionKeys : nb.shares[a][k] <= bk.shares[a][k]

LEMMA ReleaseOK ==
    ASSUME NEW bk, BookOK(bk), NEW T, T \subseteq bk.orders
    PROVE  /\ BookOK(Release(bk, T)) /\ Release(bk, T).orders = bk.orders \ T
           /\ Less(Release(bk, T), bk)
<1>0. PICK nb : nb = Release(bk, T)
    OBVIOUS
<1>1. /\ nb.orders = bk.orders \ T
      /\ nb = [orders |-> nb.orders, cash |-> nb.cash, shares |-> nb.shares]
      /\ nb.cash = [a \in Accounts |-> bk.cash[a] - CashOf(T, a)]
      /\ nb.shares = [a \in Accounts |-> [k \in PositionKeys |-> bk.shares[a][k] - SharesOf(T, a, k)]]
    BY <1>0 DEF Release
<1>2. /\ Reserves(bk.orders) /\ IsFiniteSet(bk.orders)
      /\ \A a \in Accounts : bk.cash[a] = CashOf(bk.orders, a) /\ bk.cash[a] \in Nat
      /\ \A a \in Accounts : \A k \in PositionKeys :
            bk.shares[a][k] = SharesOf(bk.orders, a, k) /\ bk.shares[a][k] \in Nat
    BY BookSums
<1>d. Divided(bk.orders, nb.orders, T)
  <2>1. Divided(bk.orders, bk.orders \ T, T)
      BY <1>2, Without
  <2> QED BY <1>1, <2>1, Zenon
<1>3. \A a : /\ CashOf(bk.orders, a) \in Nat /\ CashOf(T, a) \in Nat /\ CashOf(nb.orders, a) \in Nat
             /\ CashOf(bk.orders, a) = CashOf(nb.orders, a) + CashOf(T, a)
    BY <1>d DEF Divided
<1>4. \A a, k : /\ SharesOf(bk.orders, a, k) \in Nat /\ SharesOf(T, a, k) \in Nat
                /\ SharesOf(nb.orders, a, k) \in Nat
                /\ SharesOf(bk.orders, a, k) = SharesOf(nb.orders, a, k) + SharesOf(T, a, k)
    BY <1>d DEF Divided
<1>5. /\ nb.cash = [a \in Accounts |-> CashOf(nb.orders, a)]
      /\ \A a \in Accounts : nb.cash[a] <= bk.cash[a]
  <2>1. \A a \in Accounts : bk.cash[a] - CashOf(T, a) = CashOf(nb.orders, a)
      BY <1>2, <1>3
  <2>2. nb.cash = [a \in Accounts |-> CashOf(nb.orders, a)]
      BY <1>1, <2>1
  <2>3. \A a \in Accounts : nb.cash[a] <= bk.cash[a]
      BY <1>2, <1>3, <2>2
  <2> QED BY <2>2, <2>3
<1>6. /\ nb.shares = [a \in Accounts |-> [k \in PositionKeys |-> SharesOf(nb.orders, a, k)]]
      /\ \A a \in Accounts : \A k \in PositionKeys : nb.shares[a][k] <= bk.shares[a][k]
  <2>1. \A a \in Accounts : \A k \in PositionKeys :
            bk.shares[a][k] - SharesOf(T, a, k) = SharesOf(nb.orders, a, k)
      BY <1>2, <1>4
  <2>2. \A a \in Accounts : [k \in PositionKeys |-> bk.shares[a][k] - SharesOf(T, a, k)]
                              = [k \in PositionKeys |-> SharesOf(nb.orders, a, k)]
      BY <2>1
  <2>3. nb.shares = [a \in Accounts |-> [k \in PositionKeys |-> SharesOf(nb.orders, a, k)]]
      BY <1>1, <2>2, Zenon
  <2>4. \A a \in Accounts : \A k \in PositionKeys :
            /\ nb.shares[a][k] = SharesOf(nb.orders, a, k)
            /\ bk.shares[a][k] = SharesOf(nb.orders, a, k) + SharesOf(T, a, k)
      BY <1>2, <1>4, <2>3
  <2>5. \A a \in Accounts : \A k \in PositionKeys : nb.shares[a][k] <= bk.shares[a][k]
      BY <1>4, <2>4
  <2> QED BY <2>3, <2>5
<1>7. Exact(nb)
    BY <1>1, <1>5, <1>6 DEF Exact
<1>8. IsFiniteSet(nb.orders)
    BY <1>1, <1>2, FS_Subset
<1>9. BookOK(nb)
    BY <1>1, <1>7, <1>8, BookExact
<1> QED
    BY <1>0, <1>1, <1>5, <1>6, <1>9 DEF Less

Enlarged(bk, S, nb) ==
    /\ BookOK(nb) /\ nb.orders = bk.orders \cup S
    /\ \A a \in Accounts : nb.cash[a] = bk.cash[a] + CashOf(S, a) /\ CashOf(S, a) \in Nat
    /\ \A a \in Accounts : \A k \in PositionKeys :
          nb.shares[a][k] = bk.shares[a][k] + SharesOf(S, a, k) /\ SharesOf(S, a, k) \in Nat

LEMMA ReserveOK ==
    ASSUME NEW bk, BookOK(bk), NEW S, IsFiniteSet(S), \A ro \in S : RestingOK(ro),
           \A ro, r \in S : ro.id = r.id => ro = r,
           \A ro \in S : \A r \in bk.orders : ro.id # r.id
    PROVE  Enlarged(bk, S, Reserve(bk, S))
<1>0. PICK nb : nb = Reserve(bk, S)
    OBVIOUS
<1>1. /\ nb.orders = bk.orders \cup S
      /\ nb = [orders |-> nb.orders, cash |-> nb.cash, shares |-> nb.shares]
      /\ nb.cash = [a \in Accounts |-> bk.cash[a] + CashOf(S, a)]
      /\ nb.shares = [a \in Accounts |-> [k \in PositionKeys |-> bk.shares[a][k] + SharesOf(S, a, k)]]
    BY <1>0 DEF Reserve
<1>2. /\ Reserves(bk.orders) /\ IsFiniteSet(bk.orders) /\ Reserves(S) /\ bk.orders \cap S = {}
      /\ \A a \in Accounts : bk.cash[a] = CashOf(bk.orders, a) /\ bk.cash[a] \in Nat
      /\ \A a \in Accounts : \A k \in PositionKeys :
            bk.shares[a][k] = SharesOf(bk.orders, a, k) /\ bk.shares[a][k] \in Nat
    BY BookSums, RestingReserves
<1>d. Divided(nb.orders, bk.orders, S)
  <2>1. Divided(bk.orders \cup S, bk.orders, S)
      BY <1>2, Together
  <2> QED BY <1>1, <2>1, Zenon
<1>3. \A a : CashOf(S, a) \in Nat /\ CashOf(nb.orders, a) = CashOf(bk.orders, a) + CashOf(S, a)
    BY <1>d DEF Divided
<1>4. \A a, k : SharesOf(S, a, k) \in Nat
                /\ SharesOf(nb.orders, a, k) = SharesOf(bk.orders, a, k) + SharesOf(S, a, k)
    BY <1>d DEF Divided
<1>5. nb.cash = [a \in Accounts |-> CashOf(nb.orders, a)]
  <2>1. \A a \in Accounts : bk.cash[a] + CashOf(S, a) = CashOf(nb.orders, a)
      BY <1>2, <1>3
  <2> QED BY <1>1, <2>1
<1>6. nb.shares = [a \in Accounts |-> [k \in PositionKeys |-> SharesOf(nb.orders, a, k)]]
  <2>1. \A a \in Accounts : \A k \in PositionKeys :
            bk.shares[a][k] + SharesOf(S, a, k) = SharesOf(nb.orders, a, k)
      BY <1>2, <1>4
  <2>2. \A a \in Accounts : [k \in PositionKeys |-> bk.shares[a][k] + SharesOf(S, a, k)]
                              = [k \in PositionKeys |-> SharesOf(nb.orders, a, k)]
      BY <2>1
  <2> QED BY <1>1, <2>2
<1>7. Exact(nb)
    BY <1>1, <1>5, <1>6 DEF Exact
<1>8. IsFiniteSet(nb.orders)
  <2>1. IsFiniteSet(bk.orders \cup S)
      BY <1>2, FS_Union
  <2> QED BY <1>1, <2>1
<1>9. (\A ro \in nb.orders : RestingOK(ro)) /\ \A ro, r \in nb.orders : ro.id = r.id => ro = r
  <2>1. (\A ro \in bk.orders : RestingOK(ro)) /\ \A ro, r \in bk.orders : ro.id = r.id => ro = r
      BY BookExact
  <2> QED BY <1>1, <2>1
<1>10. BookOK(nb)
    BY <1>7, <1>8, <1>9, BookExact
<1>11. \A a \in Accounts : nb.cash[a] = bk.cash[a] + CashOf(S, a)
    BY <1>1
<1>12. \A a \in Accounts : \A k \in PositionKeys : nb.shares[a][k] = bk.shares[a][k] + SharesOf(S, a, k)
    BY <1>1
<1> QED
    BY <1>0, <1>1, <1>3, <1>4, <1>10, <1>11, <1>12 DEF Enlarged

LEMMA EmptyOK == BookOK(EmptyBook) /\ EmptyBook.orders = {}
<1>1. EmptyBook.orders = {} /\ IsFiniteSet(EmptyBook.orders)
    BY FS_EmptySet DEF EmptyBook
<1>2. /\ \A a : Mine({}, a) = {}
      /\ \A a, k : MineOn({}, a, k) = {}
    BY DEF Mine, MineOn
<1>3. IsFiniteSet({}) /\ Reserves({}) /\ {} \subseteq {}
    BY FS_EmptySet DEF Reserves
<1>4. \A a : CashOf({}, a) = 0
    BY <1>2, <1>3, CashSum, SumEmpty
<1>5. \A a, k : SharesOf({}, a, k) = 0
    BY <1>2, <1>3, SharesSum, SumEmpty
<1>6. Exact(EmptyBook)
    BY <1>4, <1>5 DEF Exact, EmptyBook
<1> QED BY <1>1, <1>6, BookExact

-----------------------------------------------------------------------------
(* What is left of an order *)

SameOrder(r, ro) ==
    /\ r.id = ro.id /\ r.account = ro.account /\ r.market = ro.market /\ r.outcome = ro.outcome
    /\ r.side = ro.side /\ r.limit = ro.limit /\ r.expires = ro.expires
    /\ r.expires_at_block = ro.expires_at_block /\ r.original_max_fill = ro.original_max_fill

Reduced(r, ro, n) ==
    /\ SameOrder(r, ro) /\ r = [f \in RestingFields |-> r[f]]
    /\ r.max_fill = ro.max_fill - n
    /\ n = 0 => r = ro
    /\ n # 0 => /\ r.has_been_matched = TRUE
                /\ r.reserved_balance = CeilMulRatio(ro.reserved_balance, ro.max_fill - n, ro.max_fill)
                /\ r.reserved_position = CeilMulRatio(ro.reserved_position, ro.max_fill - n, ro.max_fill)

LEMMA RemainderFields ==
    ASSUME NEW ro, RestingOK(ro), NEW n \in Nat, n < ro.max_fill
    PROVE  Reduced(Remainder(ro, n), ro, n)
<1>0. PICK r : r = Remainder(ro, n)
    OBVIOUS
<1>1. ro = [f \in RestingFields |-> ro[f]] /\ ro.max_fill \in Nat
    BY DEF RestingOK, OrderOK
<1>2. CASE n = 0
  <2>1. r = ro
      BY <1>0, <1>2 DEF Remainder
  <2>2. ro.max_fill - n = ro.max_fill
      BY <1>1, <1>2
  <2> QED BY <1>0, <1>1, <1>2, <2>1, <2>2 DEF SameOrder, Reduced
<1>3. CASE n # 0
  <2>0. PICK m, b, p : /\ m = ro.max_fill - n
                       /\ b = CeilMulRatio(ro.reserved_balance, m, ro.max_fill)
                       /\ p = CeilMulRatio(ro.reserved_position, m, ro.max_fill)
      OBVIOUS
  <2>1. r = [[[[ro EXCEPT !.max_fill = m] EXCEPT !.reserved_balance = b]
                EXCEPT !.reserved_position = p] EXCEPT !.has_been_matched = TRUE]
      BY <1>0, <1>1, <1>3, <2>0 DEF Remainder, RestingFields
  <2>2. r = [f \in RestingFields |-> r[f]]
      BY <1>1, <2>1
  <2>3. /\ r.max_fill = m /\ r.reserved_balance = b /\ r.reserved_position = p
        /\ r.has_been_matched = TRUE
      BY <1>1, <2>1 DEF RestingFields
  <2>4. SameOrder(r, ro)
      BY <1>1, <2>1 DEF RestingFields, SameOrder
  <2> QED BY <1>0, <1>3, <2>0, <2>2, <2>3, <2>4 DEF Reduced
<1> QED BY <1>2, <1>3

(* The facts about a resting order that arithmetic uses. *)
LEMMA RestingTypes ==
    ASSUME NEW ro, RestingOK(ro)
    PROVE  /\ ro.limit \in Nat /\ ro.max_fill \in Nat \ {0} /\ ro.original_max_fill \in Nat
           /\ ro.max_fill <= ro.original_max_fill
           /\ ro.reserved_balance \in Nat /\ ro.reserved_position \in Nat
           /\ ro.account \in Accounts /\ Key(ro) \in PositionKeys
           /\ ro.side = "buy" => ro.reserved_position = 0 /\ ro.reserved_balance >= NotionalCeil(ro.limit, ro.max_fill)
           /\ ro.side = "sell" => ro.reserved_position = ro.max_fill /\ ro.reserved_balance = 0
           /\ ro.side \in {"buy", "sell"}
<1>1. /\ ro.limit \in Nat /\ ro.max_fill \in Nat \ {0} /\ ro.original_max_fill \in Nat
      /\ ro.reserved_balance \in Nat /\ ro.max_fill <= ro.original_max_fill
      /\ ro.side \in {"buy", "sell"} /\ ro.account \in Accounts
    BY DEF RestingOK, OrderOK
<1>2. Key(ro) \in PositionKeys
    BY DEF RestingOK, OrderOK, Key, PositionKeys
<1>3. ro.reserved_position = SellReservation(ro) /\ ro.reserved_balance >= BalanceReservation(ro)
      /\ (ro.side = "sell" => ro.reserved_balance = 0)
    BY DEF RestingOK
<1>4. ro.reserved_position \in Nat
    BY <1>1, <1>3 DEF SellReservation
<1>5. ro.side = "buy" => ro.reserved_position = 0 /\ ro.reserved_balance >= NotionalCeil(ro.limit, ro.max_fill)
    BY <1>3 DEF SellReservation, BalanceReservation
<1>6. ro.side = "sell" => ro.reserved_position = ro.max_fill /\ ro.reserved_balance = 0
    BY <1>3 DEF SellReservation, BalanceReservation
<1> QED BY <1>1, <1>2, <1>3, <1>4, <1>5, <1>6

(* What is left of an order reserves what is left to pay: with what the fill
   paid, no more than before. *)
LEMMA RemainderOK ==
    ASSUME NEW ro, RestingOK(ro), NEW n \in Nat, n < ro.max_fill
    PROVE  /\ RestingOK(Remainder(ro, n))
           /\ \A p \in Nat : ro.side = "buy" /\ p <= ro.limit =>
                 Remainder(ro, n).reserved_balance + Notional(p, n) <= ro.reserved_balance
           /\ Remainder(ro, n).reserved_balance <= ro.reserved_balance
           /\ ro.side = "sell" => Remainder(ro, n).reserved_position = ro.max_fill - n
<1>t. /\ ro.limit \in Nat /\ ro.max_fill \in Nat \ {0} /\ ro.original_max_fill \in Nat
      /\ ro.max_fill <= ro.original_max_fill
      /\ ro.reserved_balance \in Nat /\ ro.reserved_position \in Nat
      /\ ro.side = "buy" => ro.reserved_position = 0 /\ ro.reserved_balance >= NotionalCeil(ro.limit, ro.max_fill)
      /\ ro.side = "sell" => ro.reserved_position = ro.max_fill /\ ro.reserved_balance = 0
      /\ ro.side \in {"buy", "sell"}
    BY RestingTypes
<1>1. CASE n = 0
  <2>1. Remainder(ro, n) = ro
      BY <1>1, RemainderFields DEF Reduced
  <2>2. \A p \in Nat : Notional(p, n) = 0
    <3> TAKE p \in Nat
    <3>1. Notional(p, 0) = 0 \div SHARE_SCALE
        BY DEF Notional
    <3>2. 0 \div SHARE_SCALE = 0
        BY ScaleType
    <3> QED BY <1>1, <3>1, <3>2
  <2>3. ro.max_fill - n = ro.max_fill
      BY <1>t, <1>1
  <2>4. \A p \in Nat : ro.reserved_balance + Notional(p, n) <= ro.reserved_balance
      BY <1>t, <2>2
  <2> QED BY <1>t, <2>1, <2>3, <2>4
<1>2. CASE n # 0
  <2> DEFINE l == ro.limit   m == ro.max_fill   v == ro.reserved_balance   u == ro.original_max_fill
  <2>0. PICK r : r = Remainder(ro, n)
      OBVIOUS
  <2>a. n < m
      OBVIOUS
  <2>1. /\ SameOrder(r, ro) /\ r = [f \in RestingFields |-> r[f]] /\ r.max_fill = m - n
        /\ r.has_been_matched = TRUE
        /\ r.reserved_balance = CeilMulRatio(v, m - n, m)
        /\ r.reserved_position = CeilMulRatio(ro.reserved_position, m - n, m)
    <3>1. Reduced(r, ro, n)
        BY <2>0, RemainderFields
    <3> QED BY <1>2, <3>1 DEF Reduced
  <2>2. m - n \in Nat /\ m - n > 0 /\ m - n <= u /\ n \in 0..m
      BY <1>t
  <2>3. r.reserved_position = SellReservation(r) /\ (ro.side = "sell" => r.reserved_position = m - n)
    <3>1. CeilMulRatio(m, m - n, m) = m - n /\ CeilMulRatio(0, m - n, m) = 0
        BY <1>t, <2>2, RatioExact
    <3>2. r.side = ro.side
        BY <2>1 DEF SameOrder
    <3> QED BY <1>t, <2>1, <3>1, <3>2 DEF SellReservation
  <2>4. CASE ro.side = "sell"
    <3>1. r.reserved_balance = 0
        BY <1>t, <2>1, <2>2, <2>4, RatioExact
    <3>2. r.side = "sell" /\ BalanceReservation(r) = 0
          /\ BalanceReservation([r EXCEPT !.max_fill = u]) = 0
        BY <2>1, <2>4 DEF SameOrder, BalanceReservation, RestingFields
    <3>3. RestingOK(r)
      <4>1. OrderOK(r) /\ r.expires_at_block \in Nat /\ (r.expires # NoExpiry => r.expires_at_block <= r.expires)
            /\ r.original_max_fill = u
          BY <2>1, <2>2 DEF RestingOK, OrderOK, SameOrder
      <4>2. r.reserved_balance \in Nat /\ r.reserved_balance >= BalanceReservation(r)
          BY <3>1, <3>2
      <4> QED BY <1>t, <2>1, <2>2, <2>3, <3>1, <3>2, <4>1, <4>2 DEF RestingOK
    <3> QED BY <1>t, <2>0, <2>3, <2>4, <3>1, <3>3
  <2>5. CASE ro.side = "buy"
    <3>1. PICK w \in Nat : /\ w = r.reserved_balance
                           /\ w >= NotionalCeil(l, m - n)
                           /\ \A p \in Nat : p <= l => w + Notional(p, n) <= v
      <4> HIDE DEF l, m, v, u
      <4>1. l \in Nat /\ m \in Nat \ {0} /\ v \in Nat /\ v >= NotionalCeil(l, m) /\ n \in 0..m
          BY <1>t, <2>2, <2>5 DEF l, m, v
      <4>2. PICK w : w = CeilMulRatio(v, m - n, m)
          OBVIOUS
      <4>3. \A p \in Nat : p <= l => w \in Nat /\ w >= NotionalCeil(l, m - n) /\ w + Notional(p, n) <= v
        <5> TAKE p \in Nat
        <5> HAVE p <= l
        <5> QED BY <4>1, <4>2, RemainderReserves
      <4>4. w \in Nat /\ w >= NotionalCeil(l, m - n)
        <5>1. 0 \in Nat /\ 0 <= l
            BY <4>1
        <5> QED BY <4>3, <5>1
      <4> QED BY <2>1, <4>2, <4>3, <4>4
    <3>2. w <= v
      <4>0. 0 \in Nat /\ 0 <= l
          BY <1>t
      <4>1. Notional(0, n) \in Nat /\ 0 <= l
          BY <4>0, Paid
      <4> QED BY <1>t, <3>1, <4>1
    <3>3. /\ r.side = "buy" /\ BalanceReservation(r) = NotionalCeil(l, m - n)
          /\ BalanceReservation([r EXCEPT !.max_fill = u]) = NotionalCeil(l, u)
          /\ BalanceReservation([ro EXCEPT !.max_fill = u]) = NotionalCeil(l, u)
      <4>1. ro = [f \in RestingFields |-> ro[f]]
          BY DEF RestingOK
      <4> QED BY <2>1, <2>5, <4>1 DEF SameOrder, BalanceReservation, RestingFields
    <3>4. v <= NotionalCeil(l, u)
        BY <3>3 DEF RestingOK
    <3>5. NotionalCeil(l, u) \in Nat
        BY <1>t, Costs
    <3>6. w <= NotionalCeil(l, u)
        BY <1>t, <3>2, <3>4, <3>5
    <3>7. RestingOK(r)
      <4>1. OrderOK(r) /\ r.expires_at_block \in Nat /\ (r.expires # NoExpiry => r.expires_at_block <= r.expires)
            /\ r.original_max_fill = u
          BY <2>1, <2>2 DEF RestingOK, OrderOK, SameOrder
      <4> QED BY <1>t, <2>1, <2>2, <2>3, <3>1, <3>3, <3>6, <4>1 DEF RestingOK
    <3> QED BY <2>0, <2>5, <3>1, <3>2, <3>7
  <2> QED BY <1>t, <2>4, <2>5
<1> QED BY <1>1, <1>2

-----------------------------------------------------------------------------
(* Settlement of the book *)

Stays(bk, fill, h) == {ro \in bk.orders : fill[ro.id] < ro.max_fill /\ h < ro.expires_at_block}
Left(bk, fill, h) == {Remainder(ro, fill[ro.id]) : ro \in Stays(bk, fill, h)}

LEMMA SettleOK ==
    ASSUME NEW bk, BookOK(bk), NEW fill, \A ro \in bk.orders : fill[ro.id] \in Nat, NEW h \in Nat
    PROVE  BookOK(Settle(bk, fill, h)) /\ Settle(bk, fill, h).orders = Left(bk, fill, h)
<1> DEFINE gone == {ro \in bk.orders : fill[ro.id] >= ro.max_fill \/ h >= ro.expires_at_block}
           parts == {ro \in bk.orders \ gone : fill[ro.id] > 0}
           rest == {Remainder(ro, fill[ro.id]) : ro \in parts}
           out == gone \cup parts
           mid == Release(bk, out)
<1>0. Settle(bk, fill, h) = Reserve(mid, rest)
    BY DEF Settle
<1>1. \A ro \in bk.orders : /\ RestingOK(ro) /\ ro.max_fill \in Nat /\ ro.expires_at_block \in Nat
                            /\ fill[ro.id] \in Nat
    BY DEF BookOK, RestingOK, OrderOK
<1>2. out \subseteq bk.orders /\ parts \subseteq bk.orders
    OBVIOUS
<1>3. BookOK(mid) /\ mid.orders = bk.orders \ out
    BY <1>2, ReleaseOK
<1>4. \A ro \in parts : /\ RestingOK(Remainder(ro, fill[ro.id]))
                        /\ SameOrder(Remainder(ro, fill[ro.id]), ro)
  <2> TAKE ro \in parts
  <2>1. RestingOK(ro) /\ fill[ro.id] \in Nat /\ fill[ro.id] < ro.max_fill
      BY <1>1
  <2> QED BY <2>1, RemainderOK, RemainderFields DEF Reduced
<1>5. IsFiniteSet(rest)
  <2>1. IsFiniteSet(parts)
    <3>1. IsFiniteSet(bk.orders)
        BY DEF BookOK
    <3> QED BY <1>2, <3>1, FS_Subset
  <2>2. PICK f : f = [r \in parts |-> Remainder(r, fill[r.id])]
      OBVIOUS
  <2>3. \A t \in rest : \E ro \in parts : t = f[ro]
      BY <2>2
  <2> HIDE DEF rest, parts
  <2> QED BY <2>1, <2>3, ImageFinite
<1>6. \A ro, r \in bk.orders : ro.id = r.id => ro = r
    BY DEF BookOK
<1>7. \A ro, r \in rest : ro.id = r.id => ro = r
  <2> TAKE ro, r \in rest
  <2>1. PICK x \in parts : ro = Remainder(x, fill[x.id])
      OBVIOUS
  <2>2. PICK y \in parts : r = Remainder(y, fill[y.id])
      OBVIOUS
  <2>3. ro.id = x.id /\ r.id = y.id
      BY <1>4, <2>1, <2>2 DEF SameOrder
  <2> QED BY <1>2, <1>6, <2>1, <2>2, <2>3
<1>8. \A ro \in rest : \A r \in mid.orders : ro.id # r.id
  <2> TAKE ro \in rest
  <2> TAKE r \in mid.orders
  <2>1. PICK x \in parts : ro = Remainder(x, fill[x.id])
      OBVIOUS
  <2>2. ro.id = x.id
      BY <1>4, <2>1 DEF SameOrder
  <2>3. r \in bk.orders /\ r \notin parts
      BY <1>3
  <2> QED BY <1>2, <1>6, <2>2, <2>3
<1>9. \A ro \in rest : RestingOK(ro)
    BY <1>4
<1>10. BookOK(Reserve(mid, rest)) /\ Reserve(mid, rest).orders = mid.orders \cup rest
  <2> HIDE DEF mid, rest
  <2> QED BY <1>3, <1>5, <1>7, <1>8, <1>9, ReserveOK DEF Enlarged
<1>11. mid.orders \cup rest = Left(bk, fill, h)
  <2>1. Stays(bk, fill, h) = bk.orders \ gone
      BY <1>1 DEF Stays
  <2>2. \A ro \in bk.orders \ gone : ro \in parts \/ (ro \notin out /\ fill[ro.id] = 0)
      BY <1>1
  <2>3. \A ro \in bk.orders : fill[ro.id] = 0 => Remainder(ro, fill[ro.id]) = ro
      BY DEF Remainder
  <2>4. \A ro \in mid.orders : ro \in bk.orders \ gone /\ fill[ro.id] = 0
      BY <1>1, <1>3
  <2>5. ASSUME NEW x \in mid.orders \cup rest PROVE x \in Left(bk, fill, h)
    <3>1. CASE x \in mid.orders
        BY <2>1, <2>3, <2>4, <3>1 DEF Left
    <3>2. CASE x \in rest
        BY <2>1, <3>2 DEF Left
    <3> QED BY <2>5, <3>1, <3>2
  <2>6. ASSUME NEW x \in Left(bk, fill, h) PROVE x \in mid.orders \cup rest
    <3>1. PICK ro \in bk.orders \ gone : x = Remainder(ro, fill[ro.id])
        BY <2>1, <2>6 DEF Left
    <3>2. CASE ro \in parts
        BY <3>1, <3>2
    <3>3. CASE ro \notin out /\ fill[ro.id] = 0
        BY <1>3, <2>3, <3>1, <3>3
    <3> QED BY <2>2, <3>1, <3>2, <3>3
  <2> QED BY <2>5, <2>6
<1> QED
    BY <1>0, <1>10, <1>11

-----------------------------------------------------------------------------
(* Waiting orders *)

OrderFields == {"id", "account", "market", "outcome", "side", "limit", "max_fill", "expires", "is_mm"}

WireOK(o) == OrderOK(o) /\ o = [f \in OrderFields |-> o[f]] /\ o.is_mm \in BOOLEAN

LEMMA ExpiryType ==
    ASSUME NEW o, o.expires \in Nat, NEW h \in Nat
    PROVE  /\ EffectiveExpiry(o, h) \in Nat
           /\ o.expires # NoExpiry => EffectiveExpiry(o, h) <= o.expires
BY OrderBookAssumption DEF EffectiveExpiry, NoExpiry

LEMMA BalanceType ==
    ASSUME NEW o, o.limit \in Nat, o.max_fill \in Nat
    PROVE  BalanceReservation(o) \in Nat
BY Costs DEF BalanceReservation

(* An order that enters the book is one its verifier accepts, and the batch has
   it as it was sent. *)
LEMMA RestingOf ==
    ASSUME NEW o, WireOK(o), o.max_fill > 0, NEW h \in Nat
    PROVE  /\ RestingOK(Resting(o, h))
           /\ Resting(o, h).id = o.id /\ Resting(o, h).account = o.account
           /\ Resting(o, h).market = o.market /\ Resting(o, h).outcome = o.outcome
           /\ Resting(o, h).side = o.side /\ Resting(o, h).limit = o.limit
           /\ Resting(o, h).expires_at_block = EffectiveExpiry(o, h)
           /\ Resting(o, h).reserved_balance = BalanceReservation(o)
           /\ Resting(o, h).reserved_position = SellReservation(o)
           /\ ~o.is_mm => AsOrder(Resting(o, h)) = o
<1>0. PICK r : r = Resting(o, h)
    OBVIOUS
<1>1. /\ r = [f \in RestingFields |-> r[f]]
      /\ r.id = o.id /\ r.account = o.account /\ r.market = o.market /\ r.outcome = o.outcome
      /\ r.side = o.side /\ r.limit = o.limit /\ r.max_fill = o.max_fill /\ r.expires = o.expires
      /\ r.expires_at_block = EffectiveExpiry(o, h) /\ r.original_max_fill = o.max_fill
      /\ r.reserved_balance = BalanceReservation(o) /\ r.reserved_position = SellReservation(o)
      /\ r.has_been_matched = FALSE
    BY <1>0 DEF Resting, RestingFields
<1>2. OrderOK(r) /\ o.max_fill \in Nat /\ o.limit \in Nat /\ o.expires \in Nat
    BY <1>1 DEF WireOK, OrderOK
<1>3. /\ r.expires_at_block \in Nat /\ (r.expires # NoExpiry => r.expires_at_block <= r.expires)
    BY <1>1, <1>2, ExpiryType
<1>4. BalanceReservation(r) = BalanceReservation(o) /\ SellReservation(r) = SellReservation(o)
    BY <1>1 DEF BalanceReservation, SellReservation
<1>5. BalanceReservation(o) \in Nat
    BY <1>2, BalanceType
<1>6. BalanceReservation([r EXCEPT !.max_fill = r.original_max_fill]) = BalanceReservation(o)
    BY <1>1 DEF BalanceReservation, RestingFields
<1>7. r.side = "sell" => r.reserved_balance = 0
    BY <1>1 DEF BalanceReservation
<1>8. RestingOK(r)
  <2>1. r.max_fill > 0 /\ r.original_max_fill \in Nat /\ r.max_fill <= r.original_max_fill
      BY <1>1, <1>2
  <2>2. r.reserved_balance \in Nat /\ r.reserved_balance >= BalanceReservation(r)
        /\ r.reserved_balance <= BalanceReservation([r EXCEPT !.max_fill = r.original_max_fill])
      BY <1>1, <1>4, <1>5, <1>6
  <2> QED BY <1>1, <1>2, <1>3, <1>4, <1>7, <2>1, <2>2 DEF RestingOK
<1>9. ~o.is_mm => AsOrder(r) = o
  <2>1. o = [f \in OrderFields |-> o[f]] /\ o.is_mm \in BOOLEAN
      BY DEF WireOK
  <2>2. ASSUME ~o.is_mm PROVE AsOrder(r) = [f \in OrderFields |-> o[f]]
      BY <1>1, <2>1, <2>2 DEF AsOrder, OrderFields
  <2> QED BY <2>1, <2>2
<1> QED
    BY <1>0, <1>1, <1>8, <1>9

LEMMA MenuTypes ==
    ASSUME NEW i \in 1..Len(Menu)
    PROVE  /\ Menu[i].account \in Accounts /\ Menu[i].max_capital \in Nat /\ Menu[i].ioc \in BOOLEAN
           /\ Len(Menu[i].orders) \in Nat
           /\ \A k \in 1..Len(Menu[i].orders) :
                 LET o == Menu[i].orders[k]
                 IN  o.market \in Markets /\ o.outcome \in Outcomes /\ o.side \in {"buy", "sell"}
                     /\ o.limit \in Nat /\ o.max_fill \in Nat /\ o.expires \in Nat
<1> DEFINE R == [market : Markets, outcome : Outcomes, side : {"buy", "sell"},
                 limit : Nat, max_fill : Nat, expires : Nat]
           E == [account : Accounts, max_capital : Nat, ioc : BOOLEAN, orders : Seq(R)]
<1>1. Menu \in Seq(E)
    BY MenuAssumption
<1> HIDE DEF E
<1>2. Menu[i] \in E
    BY <1>1
<1> HIDE DEF R
<1>3. /\ Menu[i].account \in Accounts /\ Menu[i].max_capital \in Nat /\ Menu[i].ioc \in BOOLEAN
      /\ Menu[i].orders \in Seq(R)
    BY <1>2 DEF E
<1>4. Len(Menu[i].orders) \in Nat /\ \A k \in 1..Len(Menu[i].orders) : Menu[i].orders[k] \in R
    BY <1>3
<1> QED
    BY <1>3, <1>4 DEF R

SentBy(o, i, k) ==
    /\ o.id = <<i, k>> /\ o.account = Menu[i].account /\ o.market = Menu[i].orders[k].market
    /\ o.side = Menu[i].orders[k].side /\ o.max_fill = Menu[i].orders[k].max_fill
    /\ o.is_mm = (Menu[i].max_capital > 0)

LEMMA SentOrder ==
    ASSUME NEW i \in 1..Len(Menu), height \in Nat, NEW k \in 1..Len(Menu[i].orders)
    PROVE  WireOK(Orders(i)[k]) /\ SentBy(Orders(i)[k], i, k)
<1>0. PICK o, w : o = Orders(i)[k] /\ w = Menu[i].orders[k]
    OBVIOUS
<1>1. /\ Menu[i].account \in Accounts /\ Menu[i].max_capital \in Nat
      /\ w.market \in Markets /\ w.outcome \in Outcomes /\ w.side \in {"buy", "sell"}
      /\ w.limit \in Nat /\ w.max_fill \in Nat /\ w.expires \in Nat
    BY <1>0, MenuTypes
<1>2. o = [id |-> <<i, k>>, account |-> Menu[i].account,
             market |-> w.market, outcome |-> w.outcome, side |-> w.side, limit |-> w.limit,
             max_fill |-> w.max_fill, is_mm |-> Menu[i].max_capital > 0,
             expires |-> IF Menu[i].ioc THEN height + 1 ELSE w.expires]
    BY <1>0 DEF Orders
<1>3. /\ o = [f \in OrderFields |-> o[f]]
      /\ o.account = Menu[i].account /\ o.market = w.market /\ o.outcome = w.outcome
      /\ o.side = w.side /\ o.limit = w.limit /\ o.max_fill = w.max_fill /\ o.id = <<i, k>>
    BY <1>2 DEF OrderFields
<1>4. o.is_mm = (Menu[i].max_capital > 0) /\ o.is_mm \in BOOLEAN
    BY <1>2
<1>5. o.expires \in Nat
    BY <1>1, <1>2
<1>6. OrderOK(o)
    BY <1>1, <1>3, <1>5 DEF OrderOK
<1> QED
    BY <1>0, <1>3, <1>4, <1>6 DEF WireOK, SentBy

(* Where the j-th waiting submission comes from. *)
From(src) == src \in [1..Len(pending) -> submitted] /\ PendingFrom(src)

LEMMA Sources ==
    ASSUME Sound
    PROVE  /\ \E src : From(src)
           /\ pending \in Seq(Range(pending)) /\ Len(pending) \in Nat
           /\ height \in Nat /\ submitted \subseteq 1..Len(Menu)
BY DEF Sound, PendingOK, TypesOK, From

LEMMA Submission ==
    ASSUME Sound, NEW src, From(src), NEW j \in 1..Len(pending)
    PROVE  /\ src[j] \in submitted /\ src[j] \in 1..Len(Menu)
           /\ pending[j].account = Menu[src[j]].account /\ pending[j].account \in Accounts
           /\ pending[j].max_capital = Menu[src[j]].max_capital /\ pending[j].max_capital \in Nat
           /\ pending[j].orders = Orders(src[j]) /\ Len(pending[j].orders) = Len(Menu[src[j]].orders)
           /\ Len(pending[j].orders) \in Nat /\ DOMAIN pending[j].orders = 1..Len(pending[j].orders)
<1>1. src[j] \in submitted /\ src[j] \in 1..Len(Menu)
    BY Sources DEF From
<1>2. pending[j] = Waiting(src[j])
    BY DEF From, PendingFrom
<1>3. /\ Menu[src[j]].account \in Accounts /\ Menu[src[j]].max_capital \in Nat
      /\ Len(Menu[src[j]].orders) \in Nat
    BY <1>1, MenuTypes
<1>4. /\ DOMAIN Orders(src[j]) = 1..Len(Menu[src[j]].orders)
      /\ Len(Orders(src[j])) = Len(Menu[src[j]].orders)
    BY <1>3 DEF Orders
<1>5. /\ pending[j].account = Menu[src[j]].account /\ pending[j].max_capital = Menu[src[j]].max_capital
      /\ pending[j].orders = Orders(src[j])
    BY <1>2 DEF Waiting
<1> QED
    BY <1>1, <1>3, <1>4, <1>5

(* A waiting order: the k-th of the j-th submission. *)
LEMMA WaitingOrder ==
    ASSUME Sound, NEW src, From(src), NEW j \in 1..Len(pending), NEW k \in 1..Len(pending[j].orders)
    PROVE  /\ WireOK(pending[j].orders[k]) /\ SentBy(pending[j].orders[k], src[j], k)
           /\ pending[j].orders[k].is_mm <=> pending[j].max_capital > 0
           /\ ~pending[j].orders[k].is_mm => ValidRestingShape(pending[j].orders[k])
           /\ pending[j].orders[k].id \notin Ids(book.orders) \cup cancelled
<1>1. /\ src[j] \in 1..Len(Menu) /\ k \in 1..Len(Menu[src[j]].orders)
      /\ pending[j].orders = Orders(src[j]) /\ pending[j].max_capital = Menu[src[j]].max_capital
      /\ pending[j].max_capital \in Nat
    BY Submission
<1>2. PICK o : o = pending[j].orders[k]
    OBVIOUS
<1>3. WireOK(o) /\ SentBy(o, src[j], k)
    BY <1>1, <1>2, Sources, SentOrder
<1>4. o.is_mm <=> pending[j].max_capital > 0
    BY <1>1, <1>3 DEF SentBy
<1>5. ~o.is_mm => ValidRestingShape(o)
  <2>1. ASSUME ~o.is_mm PROVE Menu[src[j]].max_capital = 0
      BY <1>1, <1>4, <2>1
  <2>2. Menu[src[j]].max_capital = 0 => \A n \in 1..Len(Menu[src[j]].orders) : ValidRestingShape(Orders(src[j])[n])
      BY DEF From, PendingFrom
  <2> QED BY <1>1, <1>2, <2>1, <2>2
<1>6. o.id \notin Ids(book.orders) \cup cancelled
  <2>1. \A id \in Ids(book.orders) \cup cancelled : id[1] # src[j]
      BY DEF From, PendingFrom
  <2>2. o.id[1] = src[j]
      BY <1>3 DEF SentBy
  <2> QED BY <2>1, <2>2
<1> QED
    BY <1>2, <1>3, <1>4, <1>5, <1>6

LEMMA PendingOrder ==
    ASSUME Sound, NEW src, From(src), NEW o
    PROVE  o \in PendingOrders <=>
              \E j \in 1..Len(pending) : \E k \in 1..Len(pending[j].orders) : o = pending[j].orders[k]
<1>1. \A j \in 1..Len(pending) : DOMAIN pending[j].orders = 1..Len(pending[j].orders)
    BY Submission
<1>2. o \in PendingOrders <=> \E j \in 1..Len(pending) : o \in Range(pending[j].orders)
    BY DEF PendingOrders
<1>3. \A j \in 1..Len(pending) : o \in Range(pending[j].orders) <=>
         \E k \in 1..Len(pending[j].orders) : o = pending[j].orders[k]
    BY <1>1 DEF Range
<1> QED
    BY <1>2, <1>3

(* Waiting orders, without their submissions. *)
WaitingOK(o) ==
    /\ WireOK(o) /\ (~o.is_mm => ValidRestingShape(o)) /\ o.id \notin Ids(book.orders) \cup cancelled
    /\ o.id[1] \in submitted
    /\ o.is_mm => o.account \in Makers
    /\ o.is_mm /\ o.side = "sell" => o.account \in Shorts
    /\ ~o.is_mm /\ o.side = "sell" =>
          \E i \in submitted : Sells(i) /\ Len(Menu[i].orders) > 1 /\ Menu[i].max_capital = 0

LEMMA PendingFacts ==
    ASSUME Sound
    PROVE  /\ \A o \in PendingOrders : WaitingOK(o)
           /\ \A o, p \in PendingOrders : o.id = p.id => o = p
<1>0. PICK src : From(src)
    BY Sources
<1>1. ASSUME NEW o \in PendingOrders PROVE WaitingOK(o)
  <2>0. PICK j \in 1..Len(pending) : \E k \in 1..Len(pending[j].orders) : o = pending[j].orders[k]
      BY <1>0, PendingOrder
  <2>1. PICK k \in 1..Len(pending[j].orders) : o = pending[j].orders[k]
      BY <2>0
  <2>2. /\ WireOK(o) /\ SentBy(o, src[j], k) /\ (o.is_mm <=> pending[j].max_capital > 0)
        /\ ~o.is_mm => ValidRestingShape(o)
        /\ o.id \notin Ids(book.orders) \cup cancelled
      BY <1>0, <2>1, WaitingOrder
  <2>3. PICK i : i = src[j]
      OBVIOUS
  <2>4. /\ i \in submitted /\ pending[j].max_capital = Menu[i].max_capital /\ pending[j].max_capital \in Nat
        /\ k \in 1..Len(Menu[i].orders)
      BY <1>0, <2>3, Submission
  <2>5. /\ o.id[1] = i /\ o.account = Menu[i].account
        /\ o.side = "sell" => Sells(i)
      BY <2>2, <2>3, <2>4 DEF SentBy, Sells
  <2>6. o.is_mm => o.account \in Makers
      BY <2>2, <2>4, <2>5 DEF Makers
  <2>7. o.is_mm /\ o.side = "sell" => o.account \in Shorts
      BY <2>2, <2>4, <2>5 DEF Shorts
  <2>8. ~o.is_mm /\ o.side = "sell" =>
           Sells(i) /\ Len(Menu[i].orders) > 1 /\ Menu[i].max_capital = 0
    <3>1. ~o.is_mm => Menu[i].max_capital = 0
        BY <2>2, <2>4
    <3>2. Menu[i].max_capital = 0 => Len(Menu[i].orders) > 1
        BY <1>0, <2>3 DEF From, PendingFrom
    <3> QED BY <2>5, <3>1, <3>2
  <2> QED BY <2>2, <2>4, <2>5, <2>6, <2>7, <2>8 DEF WaitingOK
<1>2. ASSUME NEW o \in PendingOrders, NEW p \in PendingOrders, o.id = p.id PROVE o = p
  <2>0. PICK j \in 1..Len(pending) : \E k \in 1..Len(pending[j].orders) : o = pending[j].orders[k]
      BY <1>0, PendingOrder
  <2>1. PICK k \in 1..Len(pending[j].orders) : o = pending[j].orders[k]
      BY <2>0
  <2>a. PICK jj \in 1..Len(pending) : \E kk \in 1..Len(pending[jj].orders) : p = pending[jj].orders[kk]
      BY <1>0, PendingOrder
  <2>2. PICK kk \in 1..Len(pending[jj].orders) : p = pending[jj].orders[kk]
      BY <2>a
  <2>3. o.id = <<src[j], k>> /\ p.id = <<src[jj], kk>>
    <3>1. SentBy(pending[j].orders[k], src[j], k) /\ SentBy(pending[jj].orders[kk], src[jj], kk)
        BY <1>0, WaitingOrder
    <3> QED BY <2>1, <2>2, <3>1 DEF SentBy
  <2>b. PICK x, y : x = src[j] /\ y = src[jj]
      OBVIOUS
  <2>c. <<x, k>> = <<y, kk>>
      BY <1>2, <2>3, <2>b
  <2>4. src[j] = src[jj] /\ k = kk
      BY <2>b, <2>c
  <2>5. j = jj
      BY <1>0, <2>4 DEF From, PendingFrom
  <2> QED BY <2>1, <2>2, <2>4, <2>5
<1> QED
    BY <1>1, <1>2

-----------------------------------------------------------------------------
(* The submission loop *)

LoopShape(s) ==
    s = [book |-> s.book, bids |-> s.bids, batch |-> s.batch, rejections |-> s.rejections,
         constraints |-> s.constraints]

(* The loop passes an order over or rejects it. *)
Passed(s, o, t) ==
    /\ LoopShape(t) /\ t.book = s.book /\ t.bids = s.bids /\ t.batch = s.batch
    /\ t.constraints = s.constraints
    /\ \A r \in t.rejections : r \in s.rejections \/
          /\ r.order = o
          /\ r.reason = "expired" => height + 1 > EffectiveExpiry(o, height + 1)
          /\ r.reason = "position" => o.side # "buy"

Taken(s, o, t) ==
    /\ LoopShape(t) /\ t.book = Accept(s.book, o, height + 1)
    /\ t.bids = s.bids \cup {o} /\ t.batch = s.batch \cup {o}
    /\ t.constraints = s.constraints /\ t.rejections = s.rejections
    /\ o.market \in Active /\ ~(height + 1 > EffectiveExpiry(o, height + 1))
    /\ Shortfall(s.book, o, accounts[o.account], 0, 0) = "none"
    /\ ~WouldCompleteSet(s.bids, o)

LEMMA Rejected ==
    ASSUME NEW s, LoopShape(s), NEW o, NEW reason,
           reason = "expired" => height + 1 > EffectiveExpiry(o, height + 1),
           reason = "position" => o.side # "buy"
    PROVE  Passed(s, o, Reject(s, o, reason))
<1>1. PICK t, j : t = Reject(s, o, reason) /\ j = Rejection(s, o, reason)
    OBVIOUS
<1>2. t = [s EXCEPT !.rejections = s.rejections \cup {j}]
    BY <1>1 DEF Reject
<1>3. /\ LoopShape(t) /\ t.book = s.book /\ t.bids = s.bids /\ t.batch = s.batch
      /\ t.constraints = s.constraints /\ t.rejections = s.rejections \cup {j}
    BY <1>2 DEF LoopShape
<1>4. j.order = o /\ j.reason = reason
    BY <1>1 DEF Rejection
<1> QED
    BY <1>1, <1>3, <1>4 DEF Passed

LEMMA TakeOrderCases ==
    ASSUME NEW s, LoopShape(s), NEW o
    PROVE  Passed(s, o, TakeOrder(s, o)) \/ Taken(s, o, TakeOrder(s, o))
<1> DEFINE t == TakeOrder(s, o)
           late == height + 1 > EffectiveExpiry(o, height + 1)
           short == Shortfall(s.book, o, accounts[o.account], 0, 0)
<1>1. CASE o.market \notin Active
  <2>1. t = s
      BY <1>1 DEF TakeOrder
  <2> QED BY <2>1 DEF Passed
<1>2. CASE o.market \in Active /\ late
  <2>1. t = Reject(s, o, "expired")
      BY <1>2 DEF TakeOrder
  <2>2. Passed(s, o, Reject(s, o, "expired"))
      BY <1>2, Rejected
  <2> QED BY <2>1, <2>2
<1>3. CASE o.market \in Active /\ ~late /\ short # "none"
  <2>1. t = Reject(s, o, short)
      BY <1>3 DEF TakeOrder
  <2>2. short # "expired" /\ (short = "position" => o.side # "buy")
      BY DEF Shortfall
  <2>3. Passed(s, o, Reject(s, o, short))
    <3> HIDE DEF short
    <3> QED BY <2>2, Rejected
  <2> QED BY <2>1, <2>3
<1>4. CASE o.market \in Active /\ ~late /\ short = "none" /\ WouldCompleteSet(s.bids, o)
  <2>1. t = Reject(s, o, "complete_set")
      BY <1>4 DEF TakeOrder
  <2>2. Passed(s, o, Reject(s, o, "complete_set"))
      BY Rejected
  <2> QED BY <2>1, <2>2
<1>5. CASE o.market \in Active /\ ~late /\ short = "none" /\ ~WouldCompleteSet(s.bids, o)
  <2>0. PICK u : u = t
      OBVIOUS
  <2>1. u = [s EXCEPT !.book = Accept(s.book, o, height + 1), !.bids = s.bids \cup {o},
                      !.batch = s.batch \cup {o}]
    <3>1. u = [s EXCEPT !.book = Accept(@, o, height + 1), !.bids = @ \cup {o}, !.batch = @ \cup {o}]
        BY <1>5, <2>0 DEF TakeOrder
    <3> QED BY <3>1
  <2>2. PICK nb : nb = Accept(s.book, o, height + 1)
      OBVIOUS
  <2>3. /\ LoopShape(u) /\ u.book = nb /\ u.bids = s.bids \cup {o} /\ u.batch = s.batch \cup {o}
        /\ u.constraints = s.constraints /\ u.rejections = s.rejections
      BY <2>1, <2>2 DEF LoopShape
  <2>4. Taken(s, o, u)
      BY <1>5, <2>2, <2>3 DEF Taken
  <2> QED BY <2>0, <2>4
<1> QED
    BY <1>1, <1>2, <1>3, <1>4, <1>5

(* A bundle is refused, or its orders join the batch. *)
Constraint(sub) == [order_ids |-> {o.id : o \in Range(sub.orders)}, max_capital |-> sub.max_capital]

Bundled(s, sub, t) ==
    /\ LoopShape(t) /\ t.book = s.book
    /\ t.constraints = s.constraints \cup {Constraint(sub)}
    /\ \/ t.bids = s.bids /\ t.batch = s.batch
       \/ /\ t.bids = s.bids \cup Range(sub.orders) /\ t.batch = s.batch \cup Range(sub.orders)
          /\ \A o \in Range(sub.orders) : ~(height + 1 > EffectiveExpiry(o, height + 1))
    /\ \A r \in t.rejections : r \in s.rejections \/ r.reason = "atomic"

LEMMA TakeBundleCases ==
    ASSUME NEW s, LoopShape(s), NEW sub
    PROVE  Bundled(s, sub, TakeBundle(s, sub))
<1>0. PICK t, R, c, J : /\ t = TakeBundle(s, sub) /\ R = Range(sub.orders) /\ c = Constraint(sub)
                        /\ J = {Rejection(s, o, "atomic") : o \in Range(sub.orders)}
    OBVIOUS
<1>1. \A r \in J : r.reason = "atomic"
    BY <1>0 DEF Rejection
<1>2. PICK taken : taken = [s EXCEPT !.constraints = s.constraints \cup {c}]
    OBVIOUS
<1>3. /\ LoopShape(taken) /\ taken.book = s.book /\ taken.bids = s.bids /\ taken.batch = s.batch
      /\ taken.rejections = s.rejections /\ taken.constraints = s.constraints \cup {c}
    BY <1>2 DEF LoopShape
<1>4. \/ t = [taken EXCEPT !.rejections = taken.rejections \cup J]
      \/ /\ t = [taken EXCEPT !.bids = taken.bids \cup R, !.batch = taken.batch \cup R]
         /\ \A o \in Range(sub.orders) : ~(height + 1 > EffectiveExpiry(o, height + 1))
  <2> DEFINE refused == \/ sub.max_capital > accounts[sub.account].balance
                        \/ \E o \in Range(sub.orders) : o.market \notin Active
                                                   \/ height + 1 > EffectiveExpiry(o, height + 1)
                        \/ BundleCrosses(s.bids, sub.orders)
  <2>1. t = IF refused THEN [taken EXCEPT !.rejections = @ \cup J]
                       ELSE [taken EXCEPT !.bids = @ \cup R, !.batch = @ \cup R]
      BY <1>0, <1>2, Zenon DEF TakeBundle, Constraint
  <2>2. CASE refused
      BY <2>1, <2>2
  <2>3. CASE ~refused
    <3>1. \A o \in Range(sub.orders) : ~(height + 1 > EffectiveExpiry(o, height + 1))
        BY <2>3
    <3> HIDE DEF refused
    <3> QED BY <2>1, <2>3, <3>1
  <2> QED BY <2>2, <2>3
<1>5. CASE t = [taken EXCEPT !.rejections = taken.rejections \cup J]
  <2>1. /\ LoopShape(t) /\ t.book = s.book /\ t.bids = s.bids /\ t.batch = s.batch
        /\ t.rejections = s.rejections \cup J /\ t.constraints = s.constraints \cup {c}
      BY <1>3, <1>5 DEF LoopShape
  <2> QED BY <1>0, <1>1, <2>1 DEF Bundled
<1>6. CASE /\ t = [taken EXCEPT !.bids = taken.bids \cup R, !.batch = taken.batch \cup R]
           /\ \A o \in Range(sub.orders) : ~(height + 1 > EffectiveExpiry(o, height + 1))
  <2>1. /\ LoopShape(t) /\ t.book = s.book /\ t.bids = s.bids \cup R /\ t.batch = s.batch \cup R
        /\ t.rejections = s.rejections /\ t.constraints = s.constraints \cup {c}
      BY <1>3, <1>6 DEF LoopShape
  <2> QED BY <1>0, <1>6, <2>1 DEF Bundled
<1> QED
    BY <1>4, <1>5, <1>6

LEMMA OneCash ==
    ASSUME NEW r, r.reserved_balance \in Nat, r.reserved_position \in Nat
    PROVE  /\ \A a : CashOf({r}, a) = IF r.account = a THEN r.reserved_balance ELSE 0
           /\ \A a, k : SharesOf({r}, a, k) = IF r.account = a /\ Key(r) = k THEN r.reserved_position ELSE 0
<1>1. IsFiniteSet({r}) /\ Reserves({r}) /\ {r} \subseteq {r}
    BY FS_Singleton DEF Reserves
<1>2. Cash({r})[r] = r.reserved_balance /\ Shares({r})[r] = r.reserved_position
    BY DEF Cash, Shares
<1>3. ASSUME NEW a PROVE CashOf({r}, a) = IF r.account = a THEN r.reserved_balance ELSE 0
  <2>1. CashOf({r}, a) = SumFunctionOnSet(Cash({r}), Mine({r}, a))
      BY <1>1, CashSum
  <2>2. CASE r.account = a
    <3>1. Mine({r}, a) = {r}
        BY <2>2 DEF Mine
    <3>2. SumFunctionOnSet(Cash({r}), {r}) = r.reserved_balance
        BY <1>2, SumOne
    <3> QED BY <2>1, <2>2, <3>1, <3>2
  <2>3. CASE r.account # a
    <3>1. Mine({r}, a) = {}
        BY <2>3 DEF Mine
    <3> QED BY <2>1, <2>3, <3>1, SumEmpty
  <2> QED BY <2>2, <2>3
<1>4. ASSUME NEW a, NEW k
      PROVE  SharesOf({r}, a, k) = IF r.account = a /\ Key(r) = k THEN r.reserved_position ELSE 0
  <2>1. SharesOf({r}, a, k) = SumFunctionOnSet(Shares({r}), MineOn({r}, a, k))
      BY <1>1, SharesSum
  <2>2. CASE r.account = a /\ Key(r) = k
    <3>1. MineOn({r}, a, k) = {r}
        BY <2>2 DEF MineOn
    <3>2. SumFunctionOnSet(Shares({r}), {r}) = r.reserved_position
      <4>1. Shares({r})[r] \in Int
          BY <1>2
      <4> QED BY <1>2, <4>1, SumOne
    <3> QED BY <2>1, <2>2, <3>1, <3>2
  <2>3. CASE ~(r.account = a /\ Key(r) = k)
    <3>1. MineOn({r}, a, k) = {}
        BY <2>3 DEF MineOn
    <3> QED BY <2>1, <2>3, <3>1, SumEmpty
  <2> QED BY <2>2, <2>3
<1> QED BY <1>3, <1>4

(* What an accepted order adds. *)
Grown(bk, o, h, nb) ==
    /\ BookOK(nb) /\ nb.orders = bk.orders \cup {Resting(o, h)}
    /\ \A a \in Accounts : nb.cash[a] = bk.cash[a] + (IF o.account = a THEN BalanceReservation(o) ELSE 0)
    /\ \A a \in Accounts : \A k \in PositionKeys :
          nb.shares[a][k] = bk.shares[a][k] + (IF o.account = a /\ Key(o) = k THEN SellReservation(o) ELSE 0)

LEMMA AcceptOK ==
    ASSUME NEW bk, BookOK(bk), NEW o, WireOK(o), o.max_fill > 0, NEW h \in Nat,
           \A r \in bk.orders : o.id # r.id
    PROVE  Grown(bk, o, h, Accept(bk, o, h))
<1>0. PICK r, nb : r = Resting(o, h) /\ nb = Accept(bk, o, h)
    OBVIOUS
<1>1. /\ RestingOK(r) /\ r.id = o.id /\ r.account = o.account /\ Key(r) = Key(o)
      /\ r.reserved_balance = BalanceReservation(o) /\ r.reserved_position = SellReservation(o)
    BY <1>0, RestingOf DEF Key
<1>2. nb = Reserve(bk, {r})
    BY <1>0 DEF Accept
<1>3. /\ BookOK(nb) /\ nb.orders = bk.orders \cup {r}
      /\ \A a \in Accounts : nb.cash[a] = bk.cash[a] + CashOf({r}, a)
      /\ \A a \in Accounts : \A k \in PositionKeys : nb.shares[a][k] = bk.shares[a][k] + SharesOf({r}, a, k)
  <2>1. IsFiniteSet({r}) /\ (\A ro \in {r} : RestingOK(ro)) /\ (\A x, y \in {r} : x.id = y.id => x = y)
      BY <1>1, FS_Singleton
  <2>2. \A x \in {r} : \A y \in bk.orders : x.id # y.id
      BY <1>1
  <2>3. Enlarged(bk, {r}, nb)
      BY <1>2, <2>1, <2>2, ReserveOK
  <2> QED BY <2>3 DEF Enlarged
<1>4. r.reserved_balance \in Nat /\ r.reserved_position \in Nat
    BY <1>1, RestingTypes
<1>5. /\ \A a : CashOf({r}, a) = IF o.account = a THEN BalanceReservation(o) ELSE 0
      /\ \A a, k : SharesOf({r}, a, k) = IF o.account = a /\ Key(o) = k THEN SellReservation(o) ELSE 0
    BY <1>1, <1>4, OneCash
<1>6. \A a \in Accounts : nb.cash[a] = bk.cash[a] + (IF o.account = a THEN BalanceReservation(o) ELSE 0)
    BY <1>3, <1>5
<1>7. \A a \in Accounts : \A k \in PositionKeys :
         nb.shares[a][k] = bk.shares[a][k] + (IF o.account = a /\ Key(o) = k THEN SellReservation(o) ELSE 0)
  <2> TAKE a \in Accounts
  <2> TAKE k \in PositionKeys
  <2>1. nb.shares[a][k] = bk.shares[a][k] + SharesOf({r}, a, k)
      BY <1>3
  <2>2. SharesOf({r}, a, k) = IF o.account = a /\ Key(o) = k THEN SellReservation(o) ELSE 0
      BY <1>5
  <2> QED BY <2>1, <2>2
<1>8. Grown(bk, o, h, nb)
    BY <1>0, <1>3, <1>6, <1>7 DEF Grown
<1> QED
    BY <1>0, <1>8

-----------------------------------------------------------------------------

Fresh(ro) == ro.market \in Active /\ height + 1 <= ro.expires_at_block

LoopBook(s, D) ==
    /\ LoopShape(s) /\ BookOK(s.book)
    /\ \A ro \in s.book.orders :
          Fresh(ro) /\ (ro \in book.orders \/ \E o \in D : ~o.is_mm /\ ro = Resting(o, height + 1))

LoopBatch(s, D) ==
    /\ \A ro \in s.book.orders : AsOrder(ro) \in s.batch
    /\ \A x \in s.batch : (x.is_mm /\ x \in D) \/ \E ro \in s.book.orders : x = AsOrder(ro)

LEMMA TakenBook ==
    ASSUME Sound, NEW D, D \subseteq PendingOrders, NEW s, LoopBook(s, D), LoopBatch(s, D),
           NEW o \in PendingOrders \ D, ~o.is_mm, NEW t, Taken(s, o, t)
    PROVE  /\ LoopBook(t, D \cup {o}) /\ LoopBatch(t, D \cup {o})
           /\ Grown(s.book, o, height + 1, t.book)
<1> DEFINE r == Resting(o, height + 1)
<1>0. height + 1 \in Nat /\ height \in Nat
    BY DEF Sound, TypesOK
<1>1. WaitingOK(o) /\ \A p \in D : WaitingOK(p) /\ (p.id = o.id => p = o)
    BY PendingFacts
<1>2. WireOK(o) /\ ValidRestingShape(o) /\ o.max_fill > 0 /\ o.expires \in Nat
    BY <1>1 DEF WaitingOK, ValidRestingShape, WireOK, OrderOK
<1>3. \A ro \in s.book.orders : o.id # ro.id
  <2> TAKE ro \in s.book.orders
  <2>1. CASE ro \in book.orders
      BY <1>1, <2>1 DEF WaitingOK, Ids
  <2>2. CASE \E p \in D : ~p.is_mm /\ ro = Resting(p, height + 1)
    <3>1. PICK p \in D : ro = Resting(p, height + 1)
        BY <2>2
    <3>2. ro.id = p.id
        BY <3>1 DEF Resting
    <3> QED BY <1>1, <3>2
  <2> QED BY <2>1, <2>2 DEF LoopBook
<1>4. Grown(s.book, o, height + 1, t.book)
    BY <1>0, <1>2, <1>3, AcceptOK DEF LoopBook, Taken
<1>5. t.book.orders = s.book.orders \cup {r} /\ BookOK(t.book)
    BY <1>4 DEF Grown
<1>6. Fresh(r) /\ AsOrder(r) = o /\ o.is_mm = FALSE
  <2>1. r.market = o.market /\ r.expires_at_block = EffectiveExpiry(o, height + 1) /\ AsOrder(r) = o
      BY <1>0, <1>2, RestingOf
  <2>2. EffectiveExpiry(o, height + 1) \in Nat
      BY <1>0, <1>2, ExpiryType
  <2>3. height + 1 <= EffectiveExpiry(o, height + 1) /\ o.market \in Active
      BY <1>0, <2>2 DEF Taken
  <2>4. o.is_mm \in BOOLEAN
      BY <1>2 DEF WireOK
  <2> QED BY <2>1, <2>3, <2>4 DEF Fresh
<1> HIDE DEF r
<1>7. LoopBook(t, D \cup {o})
  <2>1. LoopShape(t)
      BY DEF Taken
  <2>2. ASSUME NEW ro \in t.book.orders
        PROVE  Fresh(ro) /\ (ro \in book.orders \/ \E p \in D \cup {o} : ~p.is_mm /\ ro = Resting(p, height + 1))
    <3>1. CASE ro \in s.book.orders
        BY <3>1 DEF LoopBook
    <3>2. CASE ro = r
        BY <1>6, <3>2 DEF r
    <3> QED BY <1>5, <2>2, <3>1, <3>2
  <2> QED BY <1>5, <2>1, <2>2 DEF LoopBook
<1>8. LoopBatch(t, D \cup {o})
  <2>1. t.batch = s.batch \cup {o}
      BY DEF Taken
  <2> QED BY <1>5, <1>6, <2>1 DEF LoopBatch
<1> QED
    BY <1>4, <1>7, <1>8

LEMMA PassedBook ==
    ASSUME NEW D, NEW s, LoopBook(s, D), LoopBatch(s, D), NEW o, NEW t, Passed(s, o, t)
    PROVE  LoopBook(t, D \cup {o}) /\ LoopBatch(t, D \cup {o})
BY DEF LoopBook, LoopBatch, Passed

LEMMA BundledBook ==
    ASSUME Sound, NEW D, NEW s, LoopBook(s, D), LoopBatch(s, D),
           NEW sub, \A o \in Range(sub.orders) : o.is_mm, NEW t, Bundled(s, sub, t)
    PROVE  LoopBook(t, D \cup Range(sub.orders)) /\ LoopBatch(t, D \cup Range(sub.orders))
<1>1. t.book = s.book /\ LoopShape(t)
    BY DEF Bundled
<1>2. t.batch = s.batch \/ t.batch = s.batch \cup Range(sub.orders)
    BY DEF Bundled
<1>3. LoopBook(t, D \cup Range(sub.orders))
    BY <1>1 DEF LoopBook
<1>4. LoopBatch(t, D \cup Range(sub.orders))
    BY <1>1, <1>2 DEF LoopBatch
<1> QED BY <1>3, <1>4

-----------------------------------------------------------------------------
(* Bids *)

LEMMA Greater ==
    ASSUME NEW S, IsFiniteSet(S), S # {}, S \subseteq Nat
    PROVE  Max(S) \in S /\ \A y \in S : y <= Max(S)
<1> DEFINE f == [x \in S |-> x]
<1>1. PICK n : n = SumFunctionOnSet(f, S)
    OBVIOUS
<1>2. \A x \in S : f[x] \in Nat /\ f[x] = x
    OBVIOUS
<1> HIDE DEF f
<1>3. n \in Nat
    BY <1>1, <1>2, SumNat
<1>4. \A x \in S : x <= n
  <2> TAKE x \in S
  <2>1. {x} \subseteq S /\ f[x] \in Int
      BY <1>2
  <2>2. SumFunctionOnSet(f, {x}) = x
      BY <1>2, <2>1, SumOne
  <2> QED BY <1>1, <1>2, <2>1, <2>2, SumLess
<1> DEFINE T == {n - x : x \in S}
<1>5. T \subseteq Nat /\ T # {}
  <2>1. \A x \in S : x \in Nat /\ n - x \in Nat
      BY <1>3, <1>4
  <2> QED BY <2>1
<1>6. PICK t \in T : \A u \in T : t <= u
    BY <1>5, LeastNat
<1>7. PICK m \in S : t = n - m
    BY <1>6
<1>8. \A y \in S : y <= m
  <2> TAKE y \in S
  <2>1. n - y \in T /\ y \in Nat /\ m \in Nat
      BY <1>7
  <2>2. n - m <= n - y
      BY <1>6, <1>7, <2>1
  <2> QED BY <1>3, <2>1, <2>2
<1>9. \E x \in S : \A y \in S : x >= y
  <2>1. \A y \in S : m >= y
      BY <1>7, <1>8
  <2> QED BY <1>7, <2>1
<1>10. Max(S) \in S /\ \A y \in S : Max(S) >= y
    BY <1>9 DEF Max
<1> QED
  <2>1. \A y \in S : y \in Nat /\ Max(S) \in Nat /\ Max(S) >= y
      BY <1>10
  <2> QED BY <1>10, <2>1

SameBid(b, r) ==
    b.account = r.account /\ b.side = r.side /\ b.market = r.market /\ b.outcome = r.outcome
    /\ b.limit = r.limit

Priced(S) == IsFiniteSet(S) /\ \A b \in S : b.limit \in Nat

(* Every bid of S is one of T. *)
Matched(S, T) == Priced(S) /\ Priced(T) /\ \A x \in S : \E y \in T : SameBid(y, x)

BidsOn(S, a, m, outcome) ==
    {c \in S : c.account = a /\ c.side = "buy" /\ c.market = m /\ c.outcome = outcome}
Limits(S, a, m, outcome) == {b.limit : b \in BidsOn(S, a, m, outcome)}

LEMMA BestIs ==
    ASSUME NEW S, NEW a, NEW m, NEW outcome
    PROVE  Best(S, a, m, outcome) = IF Limits(S, a, m, outcome) = {} THEN -DOLLAR
                                    ELSE Max(Limits(S, a, m, outcome))
BY DEF Best, Limits, BidsOn

LEMMA LimitsOK ==
    ASSUME NEW S, Priced(S), NEW a, NEW m, NEW outcome
    PROVE  /\ Limits(S, a, m, outcome) \subseteq Nat /\ IsFiniteSet(Limits(S, a, m, outcome))
           /\ Best(S, a, m, outcome) \in Int
           /\ Limits(S, a, m, outcome) # {} =>
                 /\ Best(S, a, m, outcome) \in Nat /\ Best(S, a, m, outcome) \in Limits(S, a, m, outcome)
                 /\ \A x \in Limits(S, a, m, outcome) : x <= Best(S, a, m, outcome)
<1>0. PICK L : L = Limits(S, a, m, outcome)
    OBVIOUS
<1>1. L \subseteq Nat
    BY <1>0 DEF Limits, BidsOn, Priced
<1>2. IsFiniteSet(L)
  <2>1. PICK f : f = [b \in S |-> b.limit]
      OBVIOUS
  <2>2. \A t \in L : \E x \in S : t = f[x]
      BY <1>0, <2>1 DEF Limits, BidsOn
  <2>3. IsFiniteSet(S)
      BY DEF Priced
  <2> QED BY <2>2, <2>3, ImageFinite
<1>3. ASSUME L # {} PROVE Best(S, a, m, outcome) \in L /\ \A x \in L : x <= Best(S, a, m, outcome)
  <2>1. Best(S, a, m, outcome) = Max(L)
      BY <1>0, <1>3, BestIs
  <2> QED BY <1>1, <1>2, <1>3, <2>1, Greater
<1>4. ASSUME L = {} PROVE Best(S, a, m, outcome) \in Int
  <2>1. Best(S, a, m, outcome) = -DOLLAR
      BY <1>0, <1>4, BestIs
  <2>2. DOLLAR \in Nat
      BY OrderBookAssumption
  <2> QED BY <2>1, <2>2
<1>5. L # {} => Best(S, a, m, outcome) \in Nat
    BY <1>1, <1>3
<1>6. Best(S, a, m, outcome) \in Int
    BY <1>4, <1>5
<1> QED
    BY <1>0, <1>1, <1>2, <1>3, <1>5, <1>6

LEMMA BestMatched ==
    ASSUME NEW S, NEW T, Matched(S, T), NEW a, NEW m, NEW outcome
    PROVE  Best(S, a, m, outcome) <= Best(T, a, m, outcome)
<1> DEFINE L == Limits(S, a, m, outcome)
           M == Limits(T, a, m, outcome)
           x == Best(S, a, m, outcome)
           y == Best(T, a, m, outcome)
<1>1. L \subseteq M
  <2> SUFFICES ASSUME NEW l \in L PROVE l \in M
      OBVIOUS
  <2>1. PICK b \in BidsOn(S, a, m, outcome) : l = b.limit
      BY DEF Limits
  <2>2. b \in S /\ b.account = a /\ b.side = "buy" /\ b.market = m /\ b.outcome = outcome
      BY DEF BidsOn
  <2>3. PICK c \in T : SameBid(c, b)
      BY <2>2 DEF Matched
  <2>4. c \in BidsOn(T, a, m, outcome) /\ c.limit = l
      BY <2>1, <2>2, <2>3 DEF SameBid, BidsOn
  <2> QED BY <2>4 DEF Limits
<1>2. Priced(S) /\ Priced(T) /\ DOLLAR \in Nat
    BY OrderBookAssumption DEF Matched
<1>3. CASE L # {}
  <2>1. x \in L /\ M # {}
      BY <1>1, <1>2, <1>3, LimitsOK
  <2>2. \A z \in M : z <= y
      BY <1>2, <2>1, LimitsOK
  <2> QED BY <1>1, <2>1, <2>2
<1>4. CASE L = {}
  <2>1. x = -DOLLAR
      BY <1>4, BestIs
  <2>2. CASE M = {}
    <3>1. y = -DOLLAR
        BY <2>2, BestIs
    <3> QED BY <1>2, <2>1, <3>1
  <2>3. CASE M # {}
    <3>1. y \in Nat
        BY <1>2, <2>3, LimitsOK
    <3>2. -DOLLAR \in Int /\ \A i \in Nat : -DOLLAR <= i
        BY <1>2
    <3> QED BY <2>1, <3>1, <3>2
  <2> QED BY <2>2, <2>3
<1> QED BY <1>3, <1>4

LEMMA CrossMatched ==
    ASSUME NEW S, NEW T, Matched(S, T), NEW a
    PROVE  /\ \A m : BinaryCross(S, a, m) => BinaryCross(T, a, m)
           /\ \A g : IsFiniteSet(g) /\ GroupCross(S, a, g) => GroupCross(T, a, g)
<1>1. Priced(S) /\ Priced(T) /\ DOLLAR \in Nat
    BY OrderBookAssumption DEF Matched
<1>2. \A m, outcome : /\ Best(S, a, m, outcome) \in Int /\ Best(T, a, m, outcome) \in Int
                      /\ Best(S, a, m, outcome) <= Best(T, a, m, outcome)
    BY <1>1, LimitsOK, BestMatched
<1>3. ASSUME NEW m, BinaryCross(S, a, m) PROVE BinaryCross(T, a, m)
  <2>1. PICK x, y, u, v : /\ x = Best(S, a, m, "yes") /\ y = Best(S, a, m, "no")
                          /\ u = Best(T, a, m, "yes") /\ v = Best(T, a, m, "no")
      OBVIOUS
  <2>2. x \in Int /\ y \in Int /\ u \in Int /\ v \in Int /\ x <= u /\ y <= v
      BY <1>2, <2>1
  <2>3. x + y >= DOLLAR
      BY <1>3, <2>1 DEF BinaryCross
  <2>4. u + v >= DOLLAR
      BY <1>1, <2>2, <2>3
  <2> QED BY <2>1, <2>4 DEF BinaryCross
<1>4. ASSUME NEW g, IsFiniteSet(g), GroupCross(S, a, g) PROVE GroupCross(T, a, g)
  <2>1. PICK f, h : f = [m \in g |-> Best(S, a, m, "yes")] /\ h = [m \in g |-> Best(T, a, m, "yes")]
      OBVIOUS
  <2>2. Summands(f, g) /\ Summands(h, g) /\ \A m \in g : f[m] <= h[m]
      BY <1>2, <1>4, <2>1 DEF Summands
  <2>3. PICK x, y : x = SumFunctionOnSet(f, g) /\ y = SumFunctionOnSet(h, g)
      OBVIOUS
  <2>4. x <= y /\ x \in Int /\ y \in Int
      BY <2>2, <2>3, SumMonotone, SumType
  <2>5. x >= DOLLAR /\ \A m \in g : Best(S, a, m, "yes") > 0
      BY <1>4, <2>1, <2>3 DEF GroupCross, SumFunction
  <2>6. \A m \in g : Best(T, a, m, "yes") > 0
      BY <1>2, <2>5
  <2>7. y >= DOLLAR
      BY <1>1, <2>4, <2>5
  <2> QED BY <2>1, <2>3, <2>6, <2>7 DEF GroupCross, SumFunction
<1> QED BY <1>3, <1>4

(* No account's bids in S complete a set. *)
NoCross(S) ==
    \A a \in Accounts :
        /\ \A m \in GroupNow : ~BinaryCross(S, a, m)
        /\ GroupNow = Group /\ Group # {} => ~GroupCross(S, a, Group)

LEMMA GroupFinite == GroupNow \subseteq Group /\ Group \subseteq Markets /\ IsFiniteSet(Group)
<1>1. Group \subseteq Markets /\ IsFiniteSet(Markets)
    BY ExchangeAssumption, MenuAssumption
<1>2. IsFiniteSet(Group)
    BY <1>1, FS_Subset
<1>3. GroupNow \subseteq Group
    BY DEF GroupNow
<1> QED BY <1>1, <1>2, <1>3

LEMMA NoCrossMatched ==
    ASSUME NEW S, NEW T, Matched(S, T), NoCross(T)
    PROVE  NoCross(S)
<1> SUFFICES ASSUME NEW a \in Accounts
             PROVE  /\ \A m \in GroupNow : ~BinaryCross(S, a, m)
                    /\ GroupNow = Group /\ Group # {} => ~GroupCross(S, a, Group)
    BY DEF NoCross
<1>1. \A m : BinaryCross(S, a, m) => BinaryCross(T, a, m)
    BY CrossMatched
<1>2. GroupCross(S, a, Group) => GroupCross(T, a, Group)
    BY CrossMatched, GroupFinite
<1>3. /\ \A m \in GroupNow : ~BinaryCross(T, a, m)
      /\ GroupNow = Group /\ Group # {} => ~GroupCross(T, a, Group)
    BY DEF NoCross
<1> QED BY <1>1, <1>2, <1>3

LEMMA BestKept ==
    ASSUME NEW S, NEW T, NEW a, NEW m, NEW outcome, BidsOn(S, a, m, outcome) = BidsOn(T, a, m, outcome)
    PROVE  Best(S, a, m, outcome) = Best(T, a, m, outcome)
<1>1. Limits(S, a, m, outcome) = Limits(T, a, m, outcome)
    BY DEF Limits
<1> QED BY <1>1, BestIs

(* One more bid, that with those before it and more completes no set. *)
LEMMA NoCrossMore ==
    ASSUME NEW S, NoCross(S), NEW r, NEW bids, NEW o, SameBid(o, r), Matched(S \cup {r}, bids \cup {o}),
           ~WouldCompleteSet(bids, o), o.outcome \in Outcomes
    PROVE  NoCross(S \cup {r})
<1> DEFINE T == S \cup {r}
<1> SUFFICES ASSUME NEW a \in Accounts
             PROVE  /\ \A m \in GroupNow : ~BinaryCross(T, a, m)
                    /\ GroupNow = Group /\ Group # {} => ~GroupCross(T, a, Group)
    BY DEF NoCross
<1>0. /\ \A m \in GroupNow : ~BinaryCross(S, a, m)
      /\ GroupNow = Group /\ Group # {} => ~GroupCross(S, a, Group)
    BY DEF NoCross
<1>1. \A m, outcome : ~(r.account = a /\ r.side = "buy" /\ r.market = m /\ r.outcome = outcome)
                      => BidsOn(T, a, m, outcome) = BidsOn(S, a, m, outcome)
    BY DEF BidsOn
<1>2. \A m, outcome : ~(r.account = a /\ r.side = "buy" /\ r.market = m /\ r.outcome = outcome)
                      => Best(T, a, m, outcome) = Best(S, a, m, outcome)
    BY <1>1, BestKept
<1>3. r.account = o.account /\ r.side = o.side /\ r.market = o.market /\ r.outcome = o.outcome
    BY DEF SameBid
<1>4. (\A m : BinaryCross(T, a, m) => BinaryCross(bids \cup {o}, a, m))
      /\ (GroupCross(T, a, Group) => GroupCross(bids \cup {o}, a, Group))
    BY CrossMatched, GroupFinite
<1> HIDE DEF T
<1>5. ASSUME NEW m \in GroupNow PROVE ~BinaryCross(T, a, m)
  <2>1. CASE r.account = a /\ r.side = "buy" /\ r.market = m
    <3>1. ~BinaryCross(bids \cup {o}, a, m)
        BY <1>3, <1>5, <2>1 DEF WouldCompleteSet
    <3> QED BY <1>4, <3>1
  <2>2. CASE ~(r.account = a /\ r.side = "buy" /\ r.market = m)
    <3>1. Best(T, a, m, "yes") = Best(S, a, m, "yes") /\ Best(T, a, m, "no") = Best(S, a, m, "no")
        BY <1>2, <2>2
    <3> QED BY <1>0, <1>5, <3>1 DEF BinaryCross
  <2> QED BY <2>1, <2>2
<1>6. ASSUME GroupNow = Group, Group # {} PROVE ~GroupCross(T, a, Group)
  <2>1. CASE r.account = a /\ r.side = "buy" /\ r.market \in Group /\ r.outcome = "yes"
    <3>1. ~GroupCross(bids \cup {o}, a, Group)
        BY <1>3, <1>6, <2>1 DEF WouldCompleteSet
    <3> QED BY <1>4, <3>1
  <2>2. CASE ~(r.account = a /\ r.side = "buy" /\ r.market \in Group /\ r.outcome = "yes")
    <3>1. \A m \in Group : Best(T, a, m, "yes") = Best(S, a, m, "yes")
        BY <1>2, <2>2
    <3>2. [m \in Group |-> Best(T, a, m, "yes")] = [m \in Group |-> Best(S, a, m, "yes")]
        BY <3>1
    <3> QED BY <1>0, <1>6, <3>1, <3>2 DEF GroupCross
  <2> QED BY <2>1, <2>2
<1> QED BY <1>5, <1>6 DEF T

LoopBids(s) ==
    /\ Priced(s.bids)
    /\ \A ro \in s.book.orders : \E b \in s.bids : SameBid(b, ro)
    /\ NoCross(s.book.orders)

LEMMA BookPriced ==
    ASSUME NEW bk, BookOK(bk)
    PROVE  Priced(bk.orders)
BY DEF BookOK, RestingOK, OrderOK, Priced

LEMMA TakenBids ==
    ASSUME Sound, NEW s, LoopBids(s), BookOK(s.book), NEW o, WaitingOK(o), ~o.is_mm, NEW t, Taken(s, o, t),
           Grown(s.book, o, height + 1, t.book)
    PROVE  LoopBids(t)
<1> DEFINE r == Resting(o, height + 1)
<1>0. height + 1 \in Nat
    BY DEF Sound, TypesOK
<1>1. t.book.orders = s.book.orders \cup {r} /\ BookOK(t.book) /\ t.bids = s.bids \cup {o}
    BY DEF Grown, Taken
<1>2. WireOK(o) /\ o.max_fill > 0 /\ o.limit \in Nat /\ o.outcome \in Outcomes
    BY DEF WaitingOK, ValidRestingShape, WireOK, OrderOK
<1>3. SameBid(o, r)
    BY <1>0, <1>2, RestingOf DEF SameBid
<1> HIDE DEF r
<1>4. Priced(t.bids)
  <2>1. IsFiniteSet(s.bids) /\ \A b \in s.bids : b.limit \in Nat
      BY DEF LoopBids, Priced
  <2>2. IsFiniteSet(s.bids \cup {o})
      BY <2>1, FS_AddElement
  <2> QED BY <1>1, <1>2, <2>1, <2>2 DEF Priced
<1>5. \A ro \in t.book.orders : \E b \in t.bids : SameBid(b, ro)
  <2>1. \A ro \in s.book.orders : \E b \in s.bids : SameBid(b, ro)
      BY DEF LoopBids
  <2> QED BY <1>1, <1>3, <2>1
<1>6. Matched(t.book.orders, t.bids)
    BY <1>1, <1>4, <1>5, BookPriced DEF Matched
<1>7. NoCross(t.book.orders)
  <2>1. NoCross(s.book.orders)
      BY DEF LoopBids
  <2>2. ~WouldCompleteSet(s.bids, o)
      BY DEF Taken
  <2>3. Matched(s.book.orders \cup {r}, s.bids \cup {o})
      BY <1>1, <1>6
  <2>4. NoCross(s.book.orders \cup {r})
      BY <1>2, <1>3, <2>1, <2>2, <2>3, NoCrossMore
  <2> QED BY <1>1, <2>4
<1> QED BY <1>4, <1>5, <1>7 DEF LoopBids

LEMMA PassedBids ==
    ASSUME NEW s, LoopBids(s), NEW o, NEW t, Passed(s, o, t)
    PROVE  LoopBids(t)
BY DEF LoopBids, Passed

LEMMA BundledBids ==
    ASSUME NEW s, LoopBids(s), NEW sub, IsFiniteSet(Range(sub.orders)),
           \A o \in Range(sub.orders) : o.limit \in Nat, NEW t, Bundled(s, sub, t)
    PROVE  LoopBids(t)
<1>1. t.book = s.book /\ (t.bids = s.bids \/ t.bids = s.bids \cup Range(sub.orders))
    BY DEF Bundled
<1>2. Priced(s.bids \cup Range(sub.orders))
  <2>1. IsFiniteSet(s.bids \cup Range(sub.orders))
      BY FS_Union DEF LoopBids, Priced
  <2> QED BY <2>1 DEF LoopBids, Priced
<1> QED BY <1>1, <1>2 DEF LoopBids

-----------------------------------------------------------------------------
(* What is reserved, the accounts have. *)

LoopCover(s) ==
    /\ \A a \in Accounts \ Makers : s.book.cash[a] <= accounts[a].balance
    /\ \A a \in Accounts \ Shorts : \A k \in Active \X Outcomes :
          s.book.shares[a][k] <= accounts[a].position[k]

LEMMA AccountTypes ==
    ASSUME TypesOK, NEW a \in Accounts
    PROVE  accounts[a].balance \in Int /\ \A k \in PositionKeys : accounts[a].position[k] \in Int
<1>1. accounts[a] \in [balance : Int, position : [PositionKeys -> Int]]
    BY DEF TypesOK, AllAccounts
<1>2. accounts[a].position \in [PositionKeys -> Int] /\ accounts[a].balance \in Int
    BY <1>1
<1> QED BY <1>2

LEMMA TakenCover ==
    ASSUME Sound, NEW bk, BookOK(bk), NEW o, WireOK(o), NEW nb, NEW h, Grown(bk, o, h, nb),
           Shortfall(bk, o, accounts[o.account], 0, 0) = "none"
    PROVE  /\ \A a \in Accounts : bk.cash[a] <= accounts[a].balance => nb.cash[a] <= accounts[a].balance
           /\ \A a \in Accounts : \A k \in PositionKeys :
                 bk.shares[a][k] <= accounts[a].position[k] => nb.shares[a][k] <= accounts[a].position[k]
<1>0. /\ o.account \in Accounts /\ Key(o) \in PositionKeys /\ o.side \in {"buy", "sell"}
      /\ o.max_fill \in Nat /\ o.limit \in Nat
    BY DEF WireOK, OrderOK, Key, PositionKeys
<1>1. /\ \A a \in Accounts : bk.cash[a] \in Nat
      /\ \A a \in Accounts : \A k \in PositionKeys : bk.shares[a][k] \in Nat
    BY BookSums
<1>2. BalanceReservation(o) \in Nat
    BY <1>0, BalanceType
<1>3. ASSUME NEW a \in Accounts, bk.cash[a] <= accounts[a].balance PROVE nb.cash[a] <= accounts[a].balance
  <2>1. accounts[a].balance \in Int
      BY AccountTypes DEF Sound
  <2>2. CASE o.account = a /\ o.side = "buy"
    <3>1. nb.cash[a] = bk.cash[a] + BalanceReservation(o)
        BY <2>2 DEF Grown
    <3>2. ~(BalanceReservation(o) > accounts[a].balance - (bk.cash[a] - 0))
        BY <2>2 DEF Shortfall
    <3> QED BY <1>1, <1>2, <2>1, <3>1, <3>2
  <2>3. CASE ~(o.account = a /\ o.side = "buy")
    <3>1. nb.cash[a] = bk.cash[a] + 0
        BY <2>3 DEF Grown, BalanceReservation
    <3> QED BY <1>1, <1>3, <3>1
  <2> QED BY <2>2, <2>3
<1>4. ASSUME NEW a \in Accounts, NEW k \in PositionKeys, bk.shares[a][k] <= accounts[a].position[k]
      PROVE  nb.shares[a][k] <= accounts[a].position[k]
  <2>1. accounts[a].position[k] \in Int
      BY AccountTypes DEF Sound
  <2>2. CASE o.account = a /\ Key(o) = k /\ o.side = "sell"
    <3>1. nb.shares[a][k] = bk.shares[a][k] + o.max_fill
        BY <2>2 DEF Grown, SellReservation
    <3>2. ~(o.max_fill > accounts[a].position[k] - (bk.shares[a][k] - 0))
        BY <2>2 DEF Shortfall
    <3> QED BY <1>0, <1>1, <2>1, <3>1, <3>2
  <2>3. CASE ~(o.account = a /\ Key(o) = k /\ o.side = "sell")
    <3>1. nb.shares[a][k] = bk.shares[a][k] + 0
        BY <2>3 DEF Grown, SellReservation
    <3> QED BY <1>1, <1>4, <3>1
  <2> QED BY <2>2, <2>3
<1> QED BY <1>3, <1>4

(* What the buys of an account in S may still cost. *)
Costing(U) == [ro \in U |-> BalanceReservation(ro)]
CostOf(S, a) == SumFunctionOnSet(Costing(S), Mine(S, a))

LEMMA CostSums ==
    ASSUME NEW S, IsFiniteSet(S), \A ro \in S : RestingOK(ro), NEW a
    PROVE  /\ CostOf(S, a) \in Nat /\ CostOf(S, a) <= CashOf(S, a) /\ CashOf(S, a) \in Nat
<1>1. IsFiniteSet(Mine(S, a)) /\ Mine(S, a) \subseteq S
    BY FS_Subset DEF Mine
<1>2. \A ro \in S : /\ BalanceReservation(ro) \in Nat /\ ro.reserved_balance \in Nat
                    /\ BalanceReservation(ro) <= ro.reserved_balance
  <2> TAKE ro \in S
  <2>1. ro.limit \in Nat /\ ro.max_fill \in Nat /\ ro.reserved_balance \in Nat
        /\ ro.reserved_balance >= BalanceReservation(ro)
      BY DEF RestingOK, OrderOK
  <2>2. BalanceReservation(ro) \in Nat
      BY <2>1, BalanceType
  <2> QED BY <2>1, <2>2
<1>3. \A ro \in Mine(S, a) : /\ Costing(S)[ro] \in Nat /\ Cash(S)[ro] \in Nat
                             /\ Costing(S)[ro] <= Cash(S)[ro]
    BY <1>1, <1>2 DEF Costing, Cash
<1>4. Summands(Costing(S), Mine(S, a)) /\ Summands(Cash(S), Mine(S, a))
    BY <1>1, <1>3 DEF Summands
<1>5. CashOf(S, a) = SumFunctionOnSet(Cash(S), Mine(S, a)) /\ CashOf(S, a) \in Nat
    BY CashSum, RestingReserves
<1>6. CostOf(S, a) \in Nat
    BY <1>1, <1>3, SumNat DEF CostOf
<1>7. CostOf(S, a) <= CashOf(S, a)
    BY <1>3, <1>4, <1>5, SumMonotone DEF CostOf
<1> QED BY <1>5, <1>6, <1>7

LEMMA CostMore ==
    ASSUME NEW S, IsFiniteSet(S), \A ro \in S : RestingOK(ro), NEW r, RestingOK(r), r \notin S, NEW a
    PROVE  CostOf(S \cup {r}, a) = CostOf(S, a) + (IF r.account = a THEN BalanceReservation(r) ELSE 0)
<1> DEFINE U == S \cup {r}
<1>1. IsFiniteSet(Mine(S, a)) /\ Mine(S, a) \subseteq S
    BY FS_Subset DEF Mine
<1>2. \A ro \in U : BalanceReservation(ro) \in Nat
  <2> TAKE ro \in U
  <2>1. RestingOK(ro)
      OBVIOUS
  <2>2. ro.limit \in Nat /\ ro.max_fill \in Nat
      BY <2>1, RestingTypes
  <2> QED BY <2>2, BalanceType
<1>3. \A ro \in U : Costing(U)[ro] = BalanceReservation(ro) /\ Costing(U)[ro] \in Int
    BY <1>2 DEF Costing
<1>4. \A ro \in Mine(S, a) : Costing(U)[ro] = Costing(S)[ro] /\ Costing(U)[ro] \in Int
    BY <1>1, <1>3 DEF Costing
<1> HIDE DEF U
<1>5. Summands(Costing(U), Mine(S, a))
    BY <1>1, <1>4 DEF Summands
<1>6. SumFunctionOnSet(Costing(U), Mine(S, a)) = CostOf(S, a)
    BY <1>4, <1>5, SumSame DEF CostOf
<1>7. CASE r.account = a
  <2>1. Mine(U, a) = Mine(S, a) \cup {r} /\ r \notin Mine(S, a) /\ r \in U
      BY <1>7 DEF Mine, U
  <2>2. Costing(U)[r] \in Int /\ Costing(U)[r] = BalanceReservation(r)
      BY <1>3, <2>1
  <2>3. SumFunctionOnSet(Costing(U), Mine(S, a) \cup {r}) = SumFunctionOnSet(Costing(U), Mine(S, a)) + Costing(U)[r]
      BY <1>5, <2>1, <2>2, SumAdd
  <2>4. CostOf(U, a) = CostOf(S, a) + BalanceReservation(r)
      BY <1>6, <2>1, <2>2, <2>3 DEF CostOf
  <2> QED BY <1>7, <2>4 DEF U
<1>8. CASE r.account # a
  <2>1. Mine(U, a) = Mine(S, a)
      BY <1>8 DEF Mine, U
  <2>2. CostOf(U, a) = CostOf(S, a)
      BY <1>6, <2>1 DEF CostOf
  <2>3. CostOf(S, a) \in Nat
      BY CostSums
  <2> QED BY <1>8, <2>2, <2>3 DEF U
<1> QED BY <1>7, <1>8

(* The verifier compares the batch with the accounts as they are before it. *)
LoopSystem(s) ==
    /\ \A ro \in s.book.orders : ro.side = "sell" => ro.max_fill <= accounts[ro.account].position[Key(ro)]
    /\ \A a \in Accounts : (\E ro \in s.book.orders : ro.account = a /\ ro.side = "buy")
                           => CostOf(s.book.orders, a) <= accounts[a].balance

LEMMA TakenSystem ==
    ASSUME Sound, NEW s, LoopSystem(s), BookOK(s.book), NEW o, WireOK(o), o.max_fill > 0, NEW t, Taken(s, o, t),
           \A r \in s.book.orders : o.id # r.id,
           Grown(s.book, o, height + 1, t.book)
    PROVE  LoopSystem(t)
<1> DEFINE r == Resting(o, height + 1)
           S == s.book.orders
<1>0. height + 1 \in Nat
    BY DEF Sound, TypesOK
<1>1. t.book.orders = S \cup {r} /\ BookOK(t.book)
    BY DEF Grown
<1>2. o.max_fill \in Nat /\ o.limit \in Nat /\ o.account \in Accounts /\ Key(o) \in PositionKeys /\ o.side \in {"buy", "sell"}
    BY DEF WireOK, OrderOK, Key, PositionKeys
<1>3. /\ RestingOK(r) /\ r.id = o.id /\ r.account = o.account /\ Key(r) = Key(o) /\ r.side = o.side
      /\ r.max_fill = o.max_fill /\ r.limit = o.limit
  <2>1. r.max_fill = o.max_fill
      BY DEF Resting
  <2> QED BY <1>0, <2>1, RestingOf DEF Key
<1>4. BalanceReservation(r) = BalanceReservation(o) /\ BalanceReservation(o) \in Nat
  <2>1. BalanceReservation(r) = BalanceReservation(o)
      BY <1>3 DEF BalanceReservation
  <2> QED BY <1>2, <2>1, BalanceType
<1> HIDE DEF r, S
<1>5. r \notin S /\ IsFiniteSet(S) /\ \A ro \in S : RestingOK(ro)
    BY <1>3 DEF BookOK, S
<1>6. /\ \A a \in Accounts : s.book.cash[a] = CashOf(S, a) /\ s.book.cash[a] \in Nat
      /\ \A a \in Accounts : \A k \in PositionKeys : s.book.shares[a][k] \in Nat
    BY BookSums DEF S
<1>7. ASSUME NEW ro \in t.book.orders, ro.side = "sell"
      PROVE  ro.max_fill <= accounts[ro.account].position[Key(ro)]
  <2>1. CASE ro \in S
      BY <1>7, <2>1 DEF LoopSystem, S
  <2>2. CASE ro = r
    <3>1. ~(o.max_fill > accounts[o.account].position[Key(o)] - (s.book.shares[o.account][Key(o)] - 0))
        BY <1>3, <1>7, <2>2 DEF Taken, Shortfall
    <3>2. accounts[o.account].position[Key(o)] \in Int /\ s.book.shares[o.account][Key(o)] \in Nat
        BY <1>2, <1>6, AccountTypes DEF Sound
    <3>3. o.max_fill <= accounts[o.account].position[Key(o)]
        BY <1>2, <3>1, <3>2
    <3> QED BY <1>3, <2>2, <3>3
  <2> QED BY <1>1, <1>7, <2>1, <2>2
<1>8. ASSUME NEW a \in Accounts, NEW ro \in t.book.orders, ro.account = a, ro.side = "buy"
      PROVE  CostOf(t.book.orders, a) <= accounts[a].balance
  <2>1. CostOf(t.book.orders, a) = CostOf(S, a) + (IF o.account = a THEN BalanceReservation(o) ELSE 0)
      BY <1>1, <1>3, <1>4, <1>5, CostMore
  <2>2. CostOf(S, a) \in Nat /\ CostOf(S, a) <= CashOf(S, a) /\ CashOf(S, a) \in Nat
      BY <1>5, CostSums
  <2>3. accounts[a].balance \in Int
      BY AccountTypes DEF Sound
  <2>4. CASE o.account = a /\ o.side = "buy"
    <3>1. ~(BalanceReservation(o) > accounts[a].balance - (s.book.cash[a] - 0))
        BY <2>4 DEF Taken, Shortfall
    <3>2. CostOf(t.book.orders, a) = CostOf(S, a) + BalanceReservation(o)
        BY <2>1, <2>4
    <3> QED BY <1>4, <1>6, <2>2, <2>3, <3>1, <3>2
  <2>5. CASE ~(o.account = a /\ o.side = "buy")
    <3>1. ro \in S
        BY <1>1, <1>3, <1>8, <2>5
    <3>2. CostOf(S, a) <= accounts[a].balance
        BY <1>8, <3>1 DEF LoopSystem, S
    <3>3. (IF o.account = a THEN BalanceReservation(o) ELSE 0) = 0
        BY <2>5 DEF BalanceReservation
    <3> QED BY <2>1, <2>2, <3>2, <3>3
  <2> QED BY <2>4, <2>5
<1> QED BY <1>7, <1>8 DEF LoopSystem

-----------------------------------------------------------------------------
(* What the orders taken may cost in all. *)
Ordinaries(D, a) == {b \in D : b.account = a /\ ~b.is_mm}
Owed(D, a) == SumFunction([o \in Ordinaries(D, a) |-> BalanceReservation(o)])

LoopMoney(s, D) == \A a \in Accounts : s.book.cash[a] <= book.cash[a] + Owed(D, a)

LEMMA OwedSum ==
    ASSUME NEW U, NEW D, D \subseteq U, IsFiniteSet(D), \A o \in D : WireOK(o), NEW a
    PROVE  /\ Owed(D, a) = SumFunctionOnSet(Costing(U), Ordinaries(D, a))
           /\ Owed(D, a) \in Nat /\ Summands(Costing(U), Ordinaries(D, a))
<1> DEFINE M == Ordinaries(D, a)
           g == [o \in M |-> BalanceReservation(o)]
<1>1. IsFiniteSet(M) /\ M \subseteq D
    BY FS_Subset DEF Ordinaries
<1>2. \A o \in M : g[o] = Costing(U)[o] /\ g[o] \in Nat
  <2> TAKE o \in M
  <2>1. o.limit \in Nat /\ o.max_fill \in Nat /\ o \in U
      BY <1>1 DEF WireOK, OrderOK
  <2> QED BY <2>1, BalanceType DEF Costing
<1>3. Owed(D, a) = SumFunctionOnSet(g, M)
    BY DEF Owed, SumFunction
<1> HIDE DEF M, g
<1>4. SumFunctionOnSet(g, M) \in Nat
    BY <1>1, <1>2, SumNat
<1>5. Summands(g, M) /\ Summands(Costing(U), M)
    BY <1>1, <1>2 DEF Summands
<1>6. SumFunctionOnSet(g, M) = SumFunctionOnSet(Costing(U), M)
    BY <1>2, <1>5, SumSame
<1> QED BY <1>3, <1>4, <1>5, <1>6 DEF M

LEMMA OwedMore ==
    ASSUME NEW D, IsFiniteSet(D), \A o \in D : WireOK(o), NEW o, WireOK(o), o \notin D, NEW a
    PROVE  /\ Owed(D \cup {o}, a) = Owed(D, a) + (IF o.account = a /\ ~o.is_mm THEN BalanceReservation(o) ELSE 0)
           /\ Owed(D, a) \in Nat
<1> DEFINE U == D \cup {o}
<1>1. IsFiniteSet(U) /\ D \subseteq U /\ U \subseteq U /\ \A x \in U : WireOK(x)
    BY FS_AddElement
<1>o. o \in U /\ o \notin D
    OBVIOUS
<1> HIDE DEF U
<1>2. /\ Owed(D, a) = SumFunctionOnSet(Costing(U), Ordinaries(D, a))
      /\ Owed(D, a) \in Nat /\ Summands(Costing(U), Ordinaries(D, a))
    BY <1>1, OwedSum
<1>3. Owed(U, a) = SumFunctionOnSet(Costing(U), Ordinaries(U, a))
    BY <1>1, OwedSum
<1>4. CASE o.account = a /\ ~o.is_mm
  <2>1. Ordinaries(U, a) = Ordinaries(D, a) \cup {o} /\ o \notin Ordinaries(D, a)
      BY <1>4, <1>o DEF Ordinaries, U
  <2>2. o.limit \in Nat /\ o.max_fill \in Nat
      BY DEF WireOK, OrderOK
  <2>3. Costing(U)[o] = BalanceReservation(o) /\ BalanceReservation(o) \in Nat
      BY <1>o, <2>2, BalanceType DEF Costing
  <2>4. SumFunctionOnSet(Costing(U), Ordinaries(D, a) \cup {o})
          = SumFunctionOnSet(Costing(U), Ordinaries(D, a)) + Costing(U)[o]
    <3>1. Costing(U)[o] \in Int
        BY <2>3
    <3> QED BY <1>2, <2>1, <3>1, SumAdd
  <2>5. Owed(U, a) = Owed(D, a) + BalanceReservation(o)
      BY <1>2, <1>3, <2>1, <2>3, <2>4
  <2> QED BY <1>2, <1>4, <2>5 DEF U
<1>5. CASE ~(o.account = a /\ ~o.is_mm)
  <2>1. Ordinaries(U, a) = Ordinaries(D, a)
      BY <1>5 DEF Ordinaries, U
  <2>2. Owed(U, a) = Owed(D, a)
      BY <1>2, <1>3, <2>1
  <2> QED BY <1>2, <1>5, <2>2 DEF U
<1> QED BY <1>4, <1>5

LoopAnswers(s) ==
    /\ \A r \in s.rejections :
          /\ r.reason = "expired" => height + 1 > EffectiveExpiry(r.order, height + 1)
          /\ r.reason = "position" =>
                \E i \in submitted : Sells(i) /\ Len(Menu[i].orders) > 1 /\ Menu[i].max_capital = 0
    /\ \A x \in s.batch : x.is_mm => ~(height + 1 > EffectiveExpiry(x, height + 1))

LoopBudgets(s) ==
    \A j \in 1..Len(pending) :
        pending[j].max_capital > 0 /\ (\E x \in s.batch : x \in Range(pending[j].orders))
        => Constraint(pending[j]) \in s.constraints

(* The resting orders that no expiry or revalidation dropped. *)
Unexpired == Release(book, Expired(book, height + 1))
Dropped == Invalid(Unexpired, accounts, Active)
Carried == Release(Unexpired, Dropped)

LoopKeeps(s) == Carried.orders \subseteq s.book.orders

LoopInv(s, D) ==
    /\ LoopBook(s, D) /\ LoopBatch(s, D) /\ LoopBids(s) /\ LoopCover(s) /\ LoopSystem(s)
    /\ LoopMoney(s, D) /\ LoopAnswers(s) /\ LoopBudgets(s) /\ LoopKeeps(s)

(* One ordinary order of the loop. *)
LEMMA PassedInv ==
    ASSUME Sound, NEW D, D \subseteq PendingOrders, IsFiniteSet(D), NEW s, LoopInv(s, D),
           NEW o \in PendingOrders \ D, ~o.is_mm, NEW t, Passed(s, o, t)
    PROVE  LoopInv(t, D \cup {o})
<1>0. WaitingOK(o) /\ WireOK(o) /\ o.side \in {"buy", "sell"} /\ \A p \in D : WireOK(p)
    BY PendingFacts DEF WaitingOK, WireOK, OrderOK
<1>s. t.book = s.book /\ t.bids = s.bids /\ t.batch = s.batch /\ t.constraints = s.constraints
    BY DEF Passed
<1>1. LoopBook(t, D \cup {o}) /\ LoopBatch(t, D \cup {o})
    BY PassedBook DEF LoopInv
<1>2. LoopBids(t)
    BY PassedBids DEF LoopInv
<1>3. LoopCover(t) /\ LoopSystem(t)
    BY <1>s DEF LoopInv, LoopCover, LoopSystem
<1>4. LoopMoney(t, D \cup {o})
  <2> SUFFICES ASSUME NEW a \in Accounts PROVE s.book.cash[a] <= book.cash[a] + Owed(D \cup {o}, a)
      BY <1>s DEF LoopMoney
  <2>1. Owed(D \cup {o}, a) = Owed(D, a) + (IF o.account = a /\ ~o.is_mm THEN BalanceReservation(o) ELSE 0)
        /\ Owed(D, a) \in Nat
      BY <1>0, OwedMore
  <2>2. s.book.cash[a] <= book.cash[a] + Owed(D, a)
      BY DEF LoopInv, LoopMoney
  <2>3. s.book.cash[a] \in Nat /\ book.cash[a] \in Nat
      BY BookSums DEF LoopInv, LoopBook, Sound
  <2>4. BalanceReservation(o) \in Nat
      BY <1>0, BalanceType DEF WireOK, OrderOK
  <2> QED BY <2>1, <2>2, <2>3, <2>4
<1>5. LoopAnswers(t)
  <2>1. ASSUME NEW r \in t.rejections
        PROVE  /\ r.reason = "expired" => height + 1 > EffectiveExpiry(r.order, height + 1)
               /\ r.reason = "position" =>
                     \E i \in submitted : Sells(i) /\ Len(Menu[i].orders) > 1 /\ Menu[i].max_capital = 0
    <3>1. CASE r \in s.rejections
        BY <3>1 DEF LoopInv, LoopAnswers
    <3>2. CASE /\ r.order = o
               /\ r.reason = "expired" => height + 1 > EffectiveExpiry(o, height + 1)
               /\ r.reason = "position" => o.side # "buy"
        BY <1>0, <3>2 DEF WaitingOK
    <3> QED BY <2>1, <3>1, <3>2 DEF Passed
  <2> QED BY <1>s, <2>1 DEF LoopAnswers, LoopInv
<1>6. LoopBudgets(t)
    BY <1>s DEF LoopInv, LoopBudgets
<1>7. LoopKeeps(t)
    BY <1>s DEF LoopInv, LoopKeeps
<1> QED BY <1>1, <1>2, <1>3, <1>4, <1>5, <1>6, <1>7 DEF LoopInv

LEMMA FreshId ==
    ASSUME Sound, NEW D, D \subseteq PendingOrders, NEW s, LoopBook(s, D), NEW o \in PendingOrders \ D
    PROVE  \A r \in s.book.orders : o.id # r.id
<1> TAKE ro \in s.book.orders
<1>1. WaitingOK(o) /\ \A p \in D : p.id = o.id => p = o
    BY PendingFacts
<1>2. CASE ro \in book.orders
    BY <1>1, <1>2 DEF WaitingOK, Ids
<1>3. CASE \E p \in D : ~p.is_mm /\ ro = Resting(p, height + 1)
  <2>1. PICK p \in D : ro = Resting(p, height + 1)
      BY <1>3
  <2>2. ro.id = p.id
      BY <2>1 DEF Resting
  <2> QED BY <1>1, <2>2
<1> QED BY <1>2, <1>3 DEF LoopBook

(* Orders of bundles are marked. *)
LEMMA BundleOrders ==
    ASSUME Sound, NEW j \in 1..Len(pending)
    PROVE  /\ Range(pending[j].orders) \subseteq PendingOrders
           /\ \A o \in Range(pending[j].orders) : o.is_mm <=> pending[j].max_capital > 0
           /\ IsFiniteSet(Range(pending[j].orders))
<1>0. PICK src : From(src)
    BY Sources
<1>1. DOMAIN pending[j].orders = 1..Len(pending[j].orders) /\ Len(pending[j].orders) \in Nat
    BY <1>0, Submission
<1>2. Range(pending[j].orders) \subseteq PendingOrders
    BY DEF PendingOrders
<1>3. ASSUME NEW o \in Range(pending[j].orders) PROVE o.is_mm <=> pending[j].max_capital > 0
  <2>1. PICK k \in 1..Len(pending[j].orders) : o = pending[j].orders[k]
      BY <1>1 DEF Range
  <2> QED BY <1>0, <2>1, WaitingOrder
<1>4. IsFiniteSet(Range(pending[j].orders))
  <2>0. PICK n \in Nat : n = Len(pending[j].orders)
      BY <1>1
  <2>1. IsFiniteSet(1..Len(pending[j].orders))
    <3>1. 1 \in Int /\ n \in Int
        OBVIOUS
    <3>2. IsFiniteSet(1..n)
        BY <3>1, FS_Interval
    <3> QED BY <2>0, <3>2
  <2>2. \A t \in Range(pending[j].orders) : \E k \in 1..Len(pending[j].orders) : t = pending[j].orders[k]
      BY <1>1 DEF Range
  <2> QED BY <2>1, <2>2, ImageFinite
<1> QED BY <1>2, <1>3, <1>4

LEMMA TakenInv ==
    ASSUME Sound, NEW D, D \subseteq PendingOrders, IsFiniteSet(D), NEW s, LoopInv(s, D),
           NEW o \in PendingOrders \ D, ~o.is_mm, NEW t, Taken(s, o, t)
    PROVE  LoopInv(t, D \cup {o})
<1>0. WaitingOK(o) /\ WireOK(o) /\ \A p \in D : WireOK(p)
    BY PendingFacts DEF WaitingOK
<1>a. BookOK(s.book) /\ LoopBook(s, D) /\ LoopBatch(s, D) /\ o.max_fill > 0
    BY <1>0 DEF LoopInv, LoopBook, WaitingOK, ValidRestingShape
<1>1. /\ LoopBook(t, D \cup {o}) /\ LoopBatch(t, D \cup {o}) /\ Grown(s.book, o, height + 1, t.book)
    BY <1>a, TakenBook
<1>2. LoopBids(t)
    BY <1>0, <1>1, <1>a, TakenBids DEF LoopInv
<1>3. LoopCover(t)
  <2>1. /\ \A a \in Accounts : s.book.cash[a] <= accounts[a].balance => t.book.cash[a] <= accounts[a].balance
        /\ \A a \in Accounts : \A k \in PositionKeys :
              s.book.shares[a][k] <= accounts[a].position[k] => t.book.shares[a][k] <= accounts[a].position[k]
    <3>1. Shortfall(s.book, o, accounts[o.account], 0, 0) = "none"
        BY DEF Taken
    <3> QED BY <1>0, <1>1, <1>a, <3>1, TakenCover
  <2>2. Active \X Outcomes \subseteq PositionKeys
      BY DEF Active, PositionKeys
  <2>3. \A a \in Accounts \ Makers : t.book.cash[a] <= accounts[a].balance
      BY <2>1 DEF LoopInv, LoopCover
  <2>4. \A a \in Accounts \ Shorts : \A k \in Active \X Outcomes : t.book.shares[a][k] <= accounts[a].position[k]
      BY <2>1, <2>2 DEF LoopInv, LoopCover
  <2> QED BY <2>3, <2>4 DEF LoopCover
<1>4. LoopSystem(t)
  <2>1. \A r \in s.book.orders : o.id # r.id
      BY <1>a, FreshId
  <2> QED BY <1>0, <1>1, <1>a, <2>1, TakenSystem DEF LoopInv
<1>5. LoopMoney(t, D \cup {o})
  <2> SUFFICES ASSUME NEW a \in Accounts PROVE t.book.cash[a] <= book.cash[a] + Owed(D \cup {o}, a)
      BY DEF LoopMoney
  <2>1. Owed(D \cup {o}, a) = Owed(D, a) + (IF o.account = a /\ ~o.is_mm THEN BalanceReservation(o) ELSE 0)
        /\ Owed(D, a) \in Nat
      BY <1>0, OwedMore
  <2>2. s.book.cash[a] <= book.cash[a] + Owed(D, a)
      BY DEF LoopInv, LoopMoney
  <2>3. s.book.cash[a] \in Nat /\ book.cash[a] \in Nat
      BY <1>a, BookSums DEF Sound
  <2>4. BalanceReservation(o) \in Nat
      BY <1>0, BalanceType DEF WireOK, OrderOK
  <2>5. t.book.cash[a] = s.book.cash[a] + (IF o.account = a THEN BalanceReservation(o) ELSE 0)
      BY <1>1 DEF Grown
  <2> QED BY <2>1, <2>2, <2>3, <2>4, <2>5
<1>6. LoopAnswers(t)
  <2>1. t.rejections = s.rejections /\ t.batch = s.batch \cup {o}
      BY DEF Taken
  <2> QED BY <2>1 DEF LoopAnswers, LoopInv
<1>7. LoopBudgets(t)
  <2>1. t.constraints = s.constraints /\ t.batch = s.batch \cup {o}
      BY DEF Taken
  <2>2. \A j \in 1..Len(pending) : pending[j].max_capital > 0 => o \notin Range(pending[j].orders)
      BY BundleOrders
  <2> QED BY <2>1, <2>2 DEF LoopBudgets, LoopInv
<1>8. LoopKeeps(t)
    BY <1>1 DEF LoopInv, LoopKeeps, Grown
<1> QED BY <1>1, <1>2, <1>3, <1>4, <1>5, <1>6, <1>7, <1>8 DEF LoopInv

LEMMA TakeOrderInv ==
    ASSUME Sound, NEW D, D \subseteq PendingOrders, IsFiniteSet(D), NEW s, LoopInv(s, D),
           NEW o \in PendingOrders \ D, ~o.is_mm
    PROVE  LoopInv(TakeOrder(s, o), D \cup {o})
<1>1. LoopShape(s)
    BY DEF LoopInv, LoopBook
<1>2. Passed(s, o, TakeOrder(s, o)) \/ Taken(s, o, TakeOrder(s, o))
    BY <1>1, TakeOrderCases
<1> QED BY <1>2, PassedInv, TakenInv

LEMMA TakeBundleInv ==
    ASSUME Sound, NEW D, D \subseteq PendingOrders, IsFiniteSet(D), NEW s, LoopInv(s, D),
           NEW j \in 1..Len(pending), pending[j].max_capital > 0,
           Range(pending[j].orders) \cap D = {}
    PROVE  LoopInv(TakeBundle(s, pending[j]), D \cup Range(pending[j].orders))
<1> DEFINE sub == pending[j]
           R == Range(sub.orders)
<1>0. PICK t : t = TakeBundle(s, sub)
    OBVIOUS
<1>1. Bundled(s, sub, t)
    BY <1>0, TakeBundleCases DEF LoopInv, LoopBook
<1>2. R \subseteq PendingOrders /\ IsFiniteSet(R) /\ (\A o \in R : o.is_mm)
    BY BundleOrders
<1>3. \A o \in R : WireOK(o) /\ o.limit \in Nat
    BY <1>2, PendingFacts DEF WaitingOK, WireOK, OrderOK
<1>4. LoopBook(t, D \cup R) /\ LoopBatch(t, D \cup R)
    BY <1>1, <1>2, BundledBook DEF LoopInv
<1>5. LoopBids(t)
    BY <1>1, <1>2, <1>3, BundledBids DEF LoopInv
<1>6. t.book = s.book
    BY <1>1 DEF Bundled
<1>7. LoopCover(t) /\ LoopSystem(t)
    BY <1>6 DEF LoopInv, LoopCover, LoopSystem
<1>8. LoopMoney(t, D \cup R)
  <2>1. \A a : Ordinaries(D \cup R, a) = Ordinaries(D, a)
      BY <1>2 DEF Ordinaries
  <2>2. \A a : Owed(D \cup R, a) = Owed(D, a)
      BY <2>1 DEF Owed
  <2> QED BY <1>6, <2>2 DEF LoopInv, LoopMoney
<1>9. LoopAnswers(t)
  <2>1. \A r \in t.rejections : r \in s.rejections \/ r.reason = "atomic"
      BY <1>1 DEF Bundled
  <2>2. \A x \in t.batch : x \in s.batch \/ ~(height + 1 > EffectiveExpiry(x, height + 1))
      BY <1>1 DEF Bundled
  <2> QED BY <2>1, <2>2 DEF LoopAnswers, LoopInv
<1>10. LoopBudgets(t)
  <2>1. t.constraints = s.constraints \cup {Constraint(sub)}
      BY <1>1 DEF Bundled
  <2>2. \A x \in t.batch : x \in s.batch \/ x \in R
      BY <1>1 DEF Bundled
  <2>3. ASSUME NEW i \in 1..Len(pending), pending[i].max_capital > 0,
               NEW x \in t.batch, x \in Range(pending[i].orders), x \notin s.batch
        PROVE  i = j
    <3>1. PICK src : From(src)
        BY Sources
    <3>2. x \in R
        BY <2>2, <2>3
    <3>3. /\ DOMAIN pending[i].orders = 1..Len(pending[i].orders)
          /\ DOMAIN pending[j].orders = 1..Len(pending[j].orders)
        BY <3>1, Submission
    <3>4. PICK k \in 1..Len(pending[i].orders) : x = pending[i].orders[k]
        BY <2>3, <3>3 DEF Range
    <3>5. PICK l \in 1..Len(pending[j].orders) : x = pending[j].orders[l]
        BY <3>2, <3>3 DEF Range
    <3>6. x.id[1] = src[i] /\ x.id[1] = src[j]
      <4>1. SentBy(x, src[i], k)
          BY <3>1, <3>4, WaitingOrder
      <4>2. SentBy(x, src[j], l)
          BY <3>1, <3>5, WaitingOrder
      <4> QED BY <4>1, <4>2 DEF SentBy
    <3> QED BY <3>1, <3>6 DEF From, PendingFrom
  <2> QED BY <2>1, <2>3 DEF LoopBudgets, LoopInv
<1>11. LoopKeeps(t)
    BY <1>6 DEF LoopInv, LoopKeeps
<1> HIDE DEF sub, R
<1>12. LoopInv(t, D \cup R)
    BY <1>4, <1>5, <1>7, <1>8, <1>9, <1>10, <1>11 DEF LoopInv
<1> QED BY <1>0, <1>12 DEF sub, R

Sending(p, s, sub) == TakeSubmission(s, sub)
Sub == INSTANCE Folds_proofs WITH op <- Sending

LEMMA TakeOrders ==
    ASSUME NEW s, NEW orders
    PROVE  FoldLeft(TakeOrder, s, orders) = Folded(0, s, orders)
BY DEF FoldLeft, MapThenFoldSet, Folded, Iter, IsIter, Greatest, Max, Taking

LEMMA TakeSubmissions ==
    ASSUME NEW s, NEW subs
    PROVE  FoldLeft(TakeSubmission, s, subs) = Sub!Folded(0, s, subs)
BY DEF FoldLeft, MapThenFoldSet, Sub!Folded, Sub!Iter, Sub!IsIter, Sub!Greatest, Max, Sending


(* The orders of a submission, one after the other. *)
LEMMA TakeOrdersInv ==
    ASSUME Sound, NEW D, D \subseteq PendingOrders, IsFiniteSet(D), NEW s, LoopInv(s, D),
           NEW j \in 1..Len(pending), ~(pending[j].max_capital > 0),
           Range(pending[j].orders) \cap D = {}
    PROVE  LoopInv(FoldLeft(TakeOrder, s, pending[j].orders), D \cup Range(pending[j].orders))
<1> DEFINE orders == pending[j].orders
           n == Len(orders)
           Done(k) == D \cup {orders[i] : i \in 1..k}
<1>s. PICK src : From(src)
    BY Sources
<1>0. n \in Nat /\ DOMAIN orders = 1..n /\ Range(orders) = {orders[i] : i \in 1..n}
  <2>1. n \in Nat /\ DOMAIN orders = 1..n
      BY <1>s, Submission
  <2> QED BY <2>1 DEF Range
<1>1. /\ Range(orders) \subseteq PendingOrders /\ IsFiniteSet(Range(orders))
      /\ \A o \in Range(orders) : ~o.is_mm
    BY BundleOrders
<1>2. \A i, k \in 1..n : orders[i] = orders[k] => i = k
  <2> SUFFICES ASSUME NEW i \in 1..n, NEW k \in 1..n, orders[i] = orders[k] PROVE i = k
      OBVIOUS
  <2>1. SentBy(orders[i], src[j], i)
      BY <1>s, WaitingOrder
  <2>2. SentBy(orders[k], src[j], k)
      BY <1>s, WaitingOrder
  <2>3. orders[i].id[2] = i /\ orders[k].id[2] = k
      BY <2>1, <2>2 DEF SentBy
  <2> QED BY <2>3
<1>f. FoldLeft(TakeOrder, s, orders) = Folded(0, s, orders)
    BY TakeOrders
<1> HIDE DEF orders, n
<1>3. PICK tr : Trace(tr, 0, s, orders, n)
    BY <1>0, FoldedTrace
<1>4. /\ tr[0] = s /\ Folded(0, s, orders) = tr[n]
      /\ \A k \in 1..n : tr[k] = TakeOrder(tr[k - 1], orders[k])
    BY <1>3 DEF Trace, Taking
<1> DEFINE good == {k \in 0..n : LoopInv(tr[k], Done(k))}
<1>5. 0 \in good
  <2>1. Done(0) = D /\ 0 \in 0..n
      BY <1>0
  <2> QED BY <1>4, <2>1
<1>6. ASSUME NEW k \in 1..n, k - 1 \in good PROVE k \in good
  <2>1. k - 1 \in 0..n /\ LoopInv(tr[k - 1], Done(k - 1)) /\ k \in 0..n /\ 1..k = (1..(k - 1)) \cup {k}
      BY <1>0, <1>6
  <2>2. Done(k) = Done(k - 1) \cup {orders[k]}
      BY <2>1
  <2>3. orders[k] \in Range(orders) /\ orders[k] \notin D
      BY <1>0 DEF orders
  <2>4. orders[k] \notin Done(k - 1)
    <3>1. ASSUME NEW i \in 1..(k - 1) PROVE orders[i] # orders[k]
      <4>1. i \in 1..n /\ i # k
          BY <1>0
      <4> QED BY <1>2, <4>1
    <3> QED BY <2>3, <3>1
  <2>5. {orders[i] : i \in 1..(k - 1)} \subseteq Range(orders)
    <3>1. 1..(k - 1) \subseteq 1..n
        BY <1>0
    <3> QED BY <1>0, <3>1
  <2>6. Done(k - 1) \subseteq PendingOrders
      BY <1>1, <2>5
  <2>7. IsFiniteSet(Done(k - 1))
    <3>1. IsFiniteSet({orders[i] : i \in 1..(k - 1)})
        BY <1>1, <2>5, FS_Subset
    <3> QED BY <3>1, FS_Union
  <2>8. orders[k] \in PendingOrders /\ ~orders[k].is_mm
      BY <1>1, <2>3
  <2> HIDE DEF Done
  <2>9. LoopInv(TakeOrder(tr[k - 1], orders[k]), Done(k - 1) \cup {orders[k]})
      BY <2>1, <2>4, <2>6, <2>7, <2>8, TakeOrderInv
  <2> QED BY <1>4, <2>1, <2>2, <2>9
<1>7. n \in good
  <2> HIDE DEF good
  <2> QED BY <1>0, <1>5, <1>6, CountUp
<1>8. Done(n) = D \cup Range(orders)
    BY <1>0
<1>9. LoopInv(tr[n], D \cup Range(orders))
    BY <1>7, <1>8
<1> QED
    BY <1>4, <1>9, <1>f DEF orders

(* All waiting submissions. *)
LEMMA LoopRuns ==
    ASSUME Sound, NEW start, LoopInv(start, {})
    PROVE  LoopInv(FoldLeft(TakeSubmission, start, pending), PendingOrders)
<1> DEFINE n == Len(pending)
           Done(k) == UNION {Range(pending[i].orders) : i \in 1..k}
<1>s. PICK src : From(src)
    BY Sources
<1>0. n \in Nat /\ DOMAIN pending = 1..n
    BY Sources
<1>f. FoldLeft(TakeSubmission, start, pending) = Sub!Folded(0, start, pending)
    BY TakeSubmissions
<1>1. Done(n) = PendingOrders /\ Done(0) = {}
    BY DEF PendingOrders
<1>2. \A i \in 1..n : /\ Range(pending[i].orders) \subseteq PendingOrders
                      /\ IsFiniteSet(Range(pending[i].orders))
    BY BundleOrders
<1>3. \A i, k \in 1..n : i # k => Range(pending[i].orders) \cap Range(pending[k].orders) = {}
  <2> SUFFICES ASSUME NEW i \in 1..n, NEW k \in 1..n, NEW x \in Range(pending[i].orders),
                      x \in Range(pending[k].orders)
               PROVE  i = k
      OBVIOUS
  <2>1. DOMAIN pending[i].orders = 1..Len(pending[i].orders) /\ DOMAIN pending[k].orders = 1..Len(pending[k].orders)
      BY <1>s, Submission
  <2>2. PICK l \in 1..Len(pending[i].orders) : x = pending[i].orders[l]
      BY <2>1 DEF Range
  <2>3. PICK m \in 1..Len(pending[k].orders) : x = pending[k].orders[m]
      BY <2>1 DEF Range
  <2>4. SentBy(x, src[i], l)
      BY <1>s, <2>2, WaitingOrder
  <2>5. SentBy(x, src[k], m)
      BY <1>s, <2>3, WaitingOrder
  <2>6. src[i] = src[k]
      BY <2>4, <2>5 DEF SentBy
  <2> QED BY <1>s, <2>6 DEF From, PendingFrom
<1> HIDE DEF n
<1>4. PICK tr : Sub!Trace(tr, 0, start, pending, n)
    BY <1>0, Sub!FoldedTrace
<1>5. /\ tr[0] = start /\ Sub!Folded(0, start, pending) = tr[n]
      /\ \A k \in 1..n : tr[k] = TakeSubmission(tr[k - 1], pending[k])
    BY <1>4 DEF Sub!Trace, Sending
<1> DEFINE good == {k \in 0..n : IsFiniteSet(Done(k)) /\ LoopInv(tr[k], Done(k))}
<1>6. 0 \in good
  <2>1. IsFiniteSet({}) /\ 0 \in 0..n
      BY <1>0, FS_EmptySet
  <2> QED BY <1>1, <1>5, <2>1
<1>7. ASSUME NEW k \in 1..n, k - 1 \in good PROVE k \in good
  <2> DEFINE R == Range(pending[k].orders)
  <2>1. /\ k - 1 \in 0..n /\ LoopInv(tr[k - 1], Done(k - 1)) /\ k \in 0..n /\ IsFiniteSet(Done(k - 1))
        /\ 1..k = (1..(k - 1)) \cup {k} /\ 1..(k - 1) \subseteq 1..n /\ k \notin 1..(k - 1)
      BY <1>0, <1>7
  <2>2. Done(k) = Done(k - 1) \cup R
      BY <2>1
  <2>3. R \cap Done(k - 1) = {}
    <3> SUFFICES ASSUME NEW i \in 1..(k - 1), NEW x \in R, x \in Range(pending[i].orders) PROVE FALSE
        OBVIOUS
    <3>1. i \in 1..n /\ i # k
        BY <2>1
    <3> QED BY <1>3, <3>1
  <2>4. Done(k - 1) \subseteq PendingOrders
      BY <1>2, <2>1
  <2>5. IsFiniteSet(Done(k))
    <3>1. IsFiniteSet(R)
        BY <1>2
    <3>2. IsFiniteSet(Done(k - 1) \cup R)
        BY <2>1, <3>1, FS_Union
    <3> QED BY <2>2, <3>2
  <2>6. k \in 1..Len(pending)
      BY DEF n
  <2> HIDE DEF Done
  <2>7. LoopInv(TakeSubmission(tr[k - 1], pending[k]), Done(k - 1) \cup R)
    <3>1. CASE pending[k].max_capital > 0
      <4>1. LoopInv(TakeBundle(tr[k - 1], pending[k]), Done(k - 1) \cup R)
          BY <2>1, <2>3, <2>4, <2>6, <3>1, TakeBundleInv
      <4> QED BY <3>1, <4>1 DEF TakeSubmission
    <3>2. CASE ~(pending[k].max_capital > 0)
      <4>1. LoopInv(FoldLeft(TakeOrder, tr[k - 1], pending[k].orders), Done(k - 1) \cup R)
          BY <2>1, <2>3, <2>4, <2>6, <3>2, TakeOrdersInv
      <4>2. TakeSubmission(tr[k - 1], pending[k]) = FoldLeft(TakeOrder, tr[k - 1], pending[k].orders)
          BY <3>2 DEF TakeSubmission
      <4> QED BY <4>1, <4>2
    <3> QED BY <3>1, <3>2
  <2>8. LoopInv(tr[k], Done(k))
      BY <1>5, <2>2, <2>7
  <2> QED BY <2>1, <2>5, <2>8
<1>8. n \in good
  <2> HIDE DEF good
  <2> QED BY <1>0, <1>6, <1>7, CountUp
<1>9. LoopInv(tr[n], PendingOrders)
    BY <1>1, <1>8 DEF n
<1> QED
    BY <1>5, <1>9, <1>f

Start == [book |-> Carried, bids |-> Carried.orders, batch |-> {AsOrder(ro) : ro \in Carried.orders},
          rejections |-> {}, constraints |-> {}]

LEMMA BatchIs == Batch = [taken |-> FoldLeft(TakeSubmission, Start, pending), invalid |-> Dropped]
BY DEF Batch, Start, Carried, Dropped, Unexpired

LEMMA CarriedOK ==
    ASSUME Sound
    PROVE  /\ BookOK(Unexpired) /\ BookOK(Carried) /\ Less(Unexpired, book) /\ Less(Carried, Unexpired)
           /\ Carried.orders \subseteq Unexpired.orders /\ Unexpired.orders \subseteq book.orders
           /\ Unexpired.orders = book.orders \ Expired(book, height + 1)
           /\ Carried.orders = Unexpired.orders \ Dropped
           /\ \A ro \in Carried.orders :
                 /\ Fresh(ro)
                 /\ Shortfall(Unexpired, ro, accounts[ro.account], ro.reserved_balance, ro.reserved_position) = "none"
<1>1. BookOK(book) /\ height \in Nat
    BY DEF Sound, TypesOK
<1>2. Expired(book, height + 1) \subseteq book.orders
    BY DEF Expired
<1>3. BookOK(Unexpired) /\ Less(Unexpired, book) /\ Unexpired.orders = book.orders \ Expired(book, height + 1)
    BY <1>1, <1>2, ReleaseOK DEF Unexpired
<1>4. Dropped \subseteq Unexpired.orders
    BY DEF Dropped, Invalid
<1>5. BookOK(Carried) /\ Less(Carried, Unexpired) /\ Carried.orders = Unexpired.orders \ Dropped
    BY <1>3, <1>4, ReleaseOK DEF Carried
<1>6. ASSUME NEW ro \in Carried.orders
      PROVE  /\ Fresh(ro)
             /\ Shortfall(Unexpired, ro, accounts[ro.account], ro.reserved_balance, ro.reserved_position) = "none"
  <2>1. /\ ro.market \in Active
        /\ Shortfall(Unexpired, ro, accounts[ro.account], ro.reserved_balance, ro.reserved_position) = "none"
      BY <1>5, <1>6 DEF Dropped, Invalid
  <2>2. ~(height + 1 > ro.expires_at_block) /\ ro \in book.orders
      BY <1>3, <1>5, <1>6 DEF Expired
  <2>3. ro.expires_at_block \in Nat
      BY <1>1, <2>2 DEF BookOK, RestingOK
  <2> QED BY <1>1, <2>1, <2>2, <2>3 DEF Fresh
<1> QED BY <1>3, <1>5, <1>6

(* One order's part in what a book reserves. *)
LEMMA OwnPart ==
    ASSUME NEW bk, BookOK(bk), NEW ro \in bk.orders
    PROVE  /\ ro.reserved_balance <= bk.cash[ro.account]
           /\ ro.reserved_position <= bk.shares[ro.account][Key(ro)]
           /\ CashOf(bk.orders \ {ro}, ro.account) = bk.cash[ro.account] - ro.reserved_balance
           /\ CashOf(bk.orders \ {ro}, ro.account) \in Nat
<1>1. /\ Reserves(bk.orders) /\ IsFiniteSet(bk.orders)
      /\ \A a \in Accounts : bk.cash[a] = CashOf(bk.orders, a) /\ bk.cash[a] \in Nat
      /\ \A a \in Accounts : \A k \in PositionKeys :
            bk.shares[a][k] = SharesOf(bk.orders, a, k) /\ bk.shares[a][k] \in Nat
    BY BookSums
<1>2. /\ ro.account \in Accounts /\ Key(ro) \in PositionKeys
      /\ ro.reserved_balance \in Nat /\ ro.reserved_position \in Nat
    BY RestingTypes DEF BookOK
<1>3. PICK a, k, R : a = ro.account /\ k = Key(ro) /\ R = bk.orders \ {ro}
    OBVIOUS
<1>4. Divided(bk.orders, R, {ro})
  <2>1. {ro} \subseteq bk.orders
      OBVIOUS
  <2> QED BY <1>1, <1>3, <2>1, Without
<1>5. /\ CashOf(bk.orders, a) = CashOf(R, a) + CashOf({ro}, a) /\ CashOf(R, a) \in Nat
      /\ SharesOf(bk.orders, a, k) = SharesOf(R, a, k) + SharesOf({ro}, a, k) /\ SharesOf(R, a, k) \in Nat
    BY <1>4 DEF Divided
<1>6. CashOf({ro}, a) = ro.reserved_balance /\ SharesOf({ro}, a, k) = ro.reserved_position
    BY <1>2, <1>3, OneCash
<1>7. bk.cash[a] = CashOf(bk.orders, a) /\ bk.shares[a][k] = SharesOf(bk.orders, a, k)
    BY <1>1, <1>2, <1>3
<1>8. /\ ro.reserved_balance <= bk.cash[a] /\ ro.reserved_position <= bk.shares[a][k]
      /\ CashOf(R, a) = bk.cash[a] - ro.reserved_balance
    BY <1>2, <1>5, <1>6, <1>7
<1> QED BY <1>3, <1>5, <1>8

LEMMA StartSystem ==
    ASSUME Sound
    PROVE  LoopSystem(Start)
<1>0. Start.book = Carried
    BY DEF Start
<1>1. ASSUME NEW ro \in Carried.orders, ro.side = "sell"
      PROVE  ro.max_fill <= accounts[ro.account].position[Key(ro)]
  <2>1. ro \in Unexpired.orders /\ BookOK(Unexpired) /\ RestingOK(ro)
      BY CarriedOK DEF BookOK
  <2>2. /\ ro.reserved_position = ro.max_fill /\ ro.account \in Accounts /\ Key(ro) \in PositionKeys
        /\ ro.max_fill \in Nat
      BY <1>1, <2>1, RestingTypes
  <2>3. PICK have, kept : /\ have = accounts[ro.account].position[Key(ro)]
                          /\ kept = Unexpired.shares[ro.account][Key(ro)]
      OBVIOUS
  <2>4. have \in Int /\ kept \in Nat
      BY <2>1, <2>2, <2>3, AccountTypes, BookSums DEF Sound
  <2>5. ~(ro.max_fill > have - (kept - ro.max_fill))
      BY <1>1, <2>2, <2>3, CarriedOK DEF Shortfall
  <2>6. ro.max_fill <= kept
      BY <2>1, <2>2, <2>3, OwnPart
  <2> QED BY <2>2, <2>3, <2>4, <2>5, <2>6
<1>2. ASSUME NEW a \in Accounts, NEW ro \in Carried.orders, ro.account = a, ro.side = "buy"
      PROVE  CostOf(Carried.orders, a) <= accounts[a].balance
  <2> DEFINE S == Carried.orders
             R == S \ {ro}
  <2>1. /\ BookOK(Unexpired) /\ BookOK(Carried) /\ \A x \in S : RestingOK(x)
        /\ Carried.cash[a] <= Unexpired.cash[a] /\ IsFiniteSet(S)
      BY CarriedOK DEF BookOK, Less
  <2>2. IsFiniteSet(R) /\ (\A x \in R : RestingOK(x)) /\ ro \notin R /\ R \cup {ro} = S /\ RestingOK(ro)
      BY <1>2, <2>1, FS_Subset
  <2>3. CashOf(R, a) = Carried.cash[a] - ro.reserved_balance /\ CashOf(R, a) \in Nat
      BY <1>2, <2>1, OwnPart
  <2> HIDE DEF R, S
  <2>4. CostOf(S, a) = CostOf(R, a) + BalanceReservation(ro)
    <3>1. CostOf(R \cup {ro}, a) = CostOf(R, a) + (IF ro.account = a THEN BalanceReservation(ro) ELSE 0)
        BY <2>2, CostMore
    <3> QED BY <1>2, <2>2, <3>1
  <2>5. CostOf(R, a) \in Nat /\ CostOf(R, a) <= CashOf(R, a)
      BY <2>2, CostSums
  <2>6. /\ Carried.cash[a] \in Nat /\ Unexpired.cash[a] \in Nat /\ accounts[a].balance \in Int
        /\ ro.reserved_balance \in Nat /\ BalanceReservation(ro) \in Nat
    <3>1. ro.limit \in Nat /\ ro.max_fill \in Nat /\ ro.reserved_balance \in Nat
        BY <2>2, RestingTypes
    <3>2. BalanceReservation(ro) \in Nat
        BY <3>1, BalanceType
    <3>3. Carried.cash[a] \in Nat /\ Unexpired.cash[a] \in Nat
        BY <2>1, BookSums
    <3>4. accounts[a].balance \in Int
        BY AccountTypes DEF Sound
    <3> QED BY <3>1, <3>2, <3>3, <3>4
  <2>7. ~(BalanceReservation(ro) > accounts[a].balance - (Unexpired.cash[a] - ro.reserved_balance))
      BY <1>2, CarriedOK DEF Shortfall
  <2> QED BY <2>1, <2>3, <2>4, <2>5, <2>6, <2>7 DEF S
<1> QED BY <1>0, <1>1, <1>2 DEF LoopSystem

LEMMA StartInv ==
    ASSUME Sound, Covered, SharesCovered, NoSelfCross
    PROVE  LoopInv(Start, {})
<1>0. /\ Start.book = Carried /\ Start.bids = Carried.orders /\ Start.rejections = {}
      /\ Start.batch = {AsOrder(ro) : ro \in Carried.orders} /\ LoopShape(Start)
    BY DEF Start, LoopShape
<1>1. /\ BookOK(Carried) /\ Less(Unexpired, book) /\ Less(Carried, Unexpired) /\ BookOK(Unexpired)
      /\ Carried.orders \subseteq book.orders /\ (\A ro \in Carried.orders : Fresh(ro)) /\ BookOK(book)
    BY CarriedOK DEF Sound
<1>2. LoopBook(Start, {}) /\ LoopBatch(Start, {})
    BY <1>0, <1>1 DEF LoopBook, LoopBatch
<1>3. LoopBids(Start)
  <2>1. Priced(Carried.orders) /\ Priced(book.orders)
      BY <1>1, BookPriced
  <2>2. \A ro : SameBid(ro, ro)
      BY DEF SameBid
  <2>3. Matched(Carried.orders, book.orders)
      BY <1>1, <2>1, <2>2 DEF Matched
  <2>4. NoCross(book.orders)
      BY DEF NoSelfCross, NoCross
  <2>5. NoCross(Carried.orders)
      BY <2>3, <2>4, NoCrossMatched
  <2> QED BY <1>0, <2>1, <2>2, <2>5 DEF LoopBids
<1>4. \A a \in Accounts : /\ Carried.cash[a] <= book.cash[a] /\ Carried.cash[a] \in Nat /\ book.cash[a] \in Nat
                          /\ \A k \in PositionKeys : Carried.shares[a][k] <= book.shares[a][k]
                               /\ Carried.shares[a][k] \in Nat /\ book.shares[a][k] \in Nat
  <2> TAKE a \in Accounts
  <2>1. /\ Carried.cash[a] \in Nat /\ Unexpired.cash[a] \in Nat /\ book.cash[a] \in Nat
        /\ Carried.cash[a] <= Unexpired.cash[a] /\ Unexpired.cash[a] <= book.cash[a]
      BY <1>1, BookSums DEF Less
  <2>2. ASSUME NEW k \in PositionKeys
        PROVE  /\ Carried.shares[a][k] \in Nat /\ Unexpired.shares[a][k] \in Nat /\ book.shares[a][k] \in Nat
               /\ Carried.shares[a][k] <= Unexpired.shares[a][k] /\ Unexpired.shares[a][k] <= book.shares[a][k]
      BY <1>1, BookSums DEF Less
  <2> QED BY <2>1, <2>2
<1>5. LoopCover(Start)
  <2>1. Active \X Outcomes \subseteq PositionKeys
      BY DEF Active, PositionKeys
  <2>2. ASSUME NEW a \in Accounts \ Makers PROVE Carried.cash[a] <= accounts[a].balance
    <3>1. accounts[a].balance \in Int /\ book.cash[a] <= accounts[a].balance
        BY AccountTypes DEF Sound, Covered
    <3> QED BY <1>4, <3>1
  <2>3. ASSUME NEW a \in Accounts \ Shorts, NEW k \in Active \X Outcomes
        PROVE  Carried.shares[a][k] <= accounts[a].position[k]
    <3>1. accounts[a].position[k] \in Int /\ book.shares[a][k] <= accounts[a].position[k] /\ k \in PositionKeys
        BY <2>1, AccountTypes DEF Sound, SharesCovered
    <3> QED BY <1>4, <3>1
  <2> QED BY <1>0, <2>2, <2>3 DEF LoopCover
<1>6. LoopSystem(Start)
    BY StartSystem
<1>7. LoopMoney(Start, {})
  <2>1. \A a : Owed({}, a) \in Nat
      BY OwedSum, FS_EmptySet
  <2> QED BY <1>0, <1>4, <2>1 DEF LoopMoney
<1>8. \A x \in Start.batch : x.is_mm = FALSE
    BY <1>0 DEF AsOrder
<1>9. LoopAnswers(Start)
    BY <1>0, <1>8 DEF LoopAnswers
<1>10. LoopBudgets(Start)
    BY <1>8, BundleOrders DEF LoopBudgets
<1>11. LoopKeeps(Start)
    BY <1>0 DEF LoopKeeps
<1> QED BY <1>2, <1>3, <1>5, <1>6, <1>7, <1>9, <1>10, <1>11 DEF LoopInv

(* What the solver is given. *)
LEMMA BatchInv ==
    ASSUME Sound, Covered, SharesCovered, NoSelfCross
    PROVE  LoopInv(Batch.taken, PendingOrders)
BY StartInv, LoopRuns, BatchIs

-----------------------------------------------------------------------------
(* What the solver answers *)

Executes(batch, s) ==
    /\ DOMAIN s.fill = {o.id : o \in batch}
    /\ \A o \in batch : s.fill[o.id] \in Nat /\ s.fill[o.id] <= o.max_fill
    /\ \A o \in batch : s.fill[o.id] > 0 => o.market \notin resolved /\ WithinLimit(o, s.price)
    /\ \A m \in Markets : s.price[m] \in 0..DOLLAR

Allowed(batch, constraints, s) ==
    \A c \in constraints :
        SumFunction([o \in {b \in batch : b.id \in c.order_ids} |->
                       CapitalNeeded(o, s.price, s.fill[o.id])]) <= c.max_capital

OnTick(batch, s) == \A o \in batch : o.market \in Markets => s.price[o.market] \in PriceTicks

LEMMA Solved ==
    ASSUME NEW batch, NEW constraints, NEW s \in Solutions(batch, constraints)
    PROVE  Executes(batch, s) /\ Allowed(batch, constraints, s) /\ OnTick(batch, s)
<1> DEFINE on == {o.market : o \in batch}
           prices == {[m \in Markets |-> IF m \in on THEN p[m] ELSE 0] : p \in [on -> PriceTicks]}
           most == Max({0} \cup {o.max_fill : o \in batch})
           within(p) == {o.id : o \in {c \in batch : WithinLimit(c, p)}}
           fills(p) == {[id \in {o.id : o \in batch} |-> IF id \in DOMAIN f THEN f[id] ELSE 0] :
                           f \in [within(p) -> 0..most]}
           w == [batch |-> batch, constraints |-> constraints, resolved |-> resolved,
                 price |-> s.price, fill |-> s.fill]
<1>1. s \in UNION {[price : {p}, fill : fills(p)] : p \in prices} /\ MatchValid(w)
    BY DEF Solutions
<1>2. PICK p \in prices : s \in [price : {p}, fill : fills(p)]
    BY <1>1
<1>3. s.price = p /\ s.fill \in fills(p)
    BY <1>2
<1>4. PICK q \in [on -> PriceTicks] : s.price = [m \in Markets |-> IF m \in on THEN q[m] ELSE 0]
    BY <1>2, <1>3
<1>5. PICK f \in [within(p) -> 0..most] :
          s.fill = [id \in {o.id : o \in batch} |-> IF id \in DOMAIN f THEN f[id] ELSE 0]
    BY <1>3
<1>6. \A m \in Markets : s.price[m] \in 0..DOLLAR
  <2> TAKE m \in Markets
  <2>1. PriceTicks \subseteq 0..DOLLAR /\ DOLLAR \in Nat
      BY ExchangeAssumption, OrderBookAssumption
  <2>2. CASE m \in on
    <3>1. s.price[m] = q[m] /\ q[m] \in PriceTicks
        BY <1>4, <2>2
    <3> QED BY <2>1, <3>1
  <2>3. CASE m \notin on
    <3>1. s.price[m] = 0
        BY <1>4, <2>3
    <3> QED BY <2>1, <3>1
  <2> QED BY <2>2, <2>3
<1>p. OnTick(batch, s)
  <2> SUFFICES ASSUME NEW o \in batch, o.market \in Markets PROVE s.price[o.market] \in PriceTicks
      BY DEF OnTick
  <2>1. o.market \in on
      OBVIOUS
  <2> QED BY <1>4, <2>1
<1>7. DOMAIN s.fill = {o.id : o \in batch}
    BY <1>5
<1>8. ASSUME NEW o \in batch PROVE s.fill[o.id] \in Nat
  <2>1. o.id \in {x.id : x \in batch}
      OBVIOUS
  <2>2. s.fill[o.id] = IF o.id \in DOMAIN f THEN f[o.id] ELSE 0
      BY <1>5, <2>1
  <2>3. o.id \in DOMAIN f => f[o.id] \in 0..most
      BY <1>5
  <2>4. \A x : x \in 0..most => x \in Nat
      OBVIOUS
  <2> QED BY <2>2, <2>3, <2>4
<1>9. /\ w.batch = batch /\ w.constraints = constraints /\ w.resolved = resolved
      /\ w.price = s.price /\ w.fill = s.fill
    OBVIOUS
<1> HIDE DEF w
<1>10. /\ \A o \in batch : /\ s.fill[o.id] <= o.max_fill
                           /\ s.fill[o.id] > 0 => o.market \notin resolved /\ WithinLimit(o, s.price)
       /\ Allowed(batch, constraints, s)
    BY <1>1, <1>9, Zenon DEF MatchValid, Allowed
<1> QED BY <1>6, <1>p, <1>7, <1>8, <1>10 DEF Executes

-----------------------------------------------------------------------------
(* The batch and the book *)

Made(a, S) == {x \in S : x.account = a /\ x.is_mm}
Ordered(t, a) == {x \in t.batch : x.account = a /\ ~x.is_mm}

LEMMA PendingFinite ==
    ASSUME Sound
    PROVE  IsFiniteSet(PendingOrders)
<1> DEFINE family == {Range(pending[i].orders) : i \in 1..Len(pending)}
           of == [i \in 1..Len(pending) |-> Range(pending[i].orders)]
<1>1. Len(pending) \in Nat
    BY Sources
<1>2. IsFiniteSet(1..Len(pending))
    BY <1>1, FS_Interval
<1>3. \A r \in family : \E i \in 1..Len(pending) : r = of[i]
    OBVIOUS
<1>4. IsFiniteSet(family)
  <2> HIDE DEF family, of
  <2> QED BY <1>2, <1>3, ImageFinite
<1>5. \A r \in family : IsFiniteSet(r)
    BY BundleOrders
<1>6. IsFiniteSet(UNION family)
    BY <1>4, <1>5, FS_UNION
<1> QED BY <1>6 DEF PendingOrders

LEMMA BatchFacts ==
    ASSUME Sound, NEW t, LoopInv(t, PendingOrders)
    PROVE  /\ IsFiniteSet(t.batch) /\ BookOK(t.book)
           /\ \A x \in t.batch : WireOK(x)
           /\ \A ro \in t.book.orders : AsOrder(ro) \in t.batch
           /\ \A x \in t.batch : x.is_mm => x \in PendingOrders
           /\ \A x \in t.batch : ~x.is_mm => \E ro \in t.book.orders : x = AsOrder(ro)
           /\ \A x, y \in t.batch : x.id = y.id => x = y
<1>0. LoopBook(t, PendingOrders) /\ LoopBatch(t, PendingOrders) /\ LoopShape(t)
    BY DEF LoopInv, LoopBook
<1>1. BookOK(t.book) /\ IsFiniteSet(t.book.orders) /\ \A ro \in t.book.orders : RestingOK(ro)
    BY <1>0 DEF LoopBook, BookOK
<1>2. /\ \A ro \in t.book.orders : AsOrder(ro) \in t.batch
      /\ \A x \in t.batch : (x.is_mm /\ x \in PendingOrders) \/ \E ro \in t.book.orders : x = AsOrder(ro)
    BY <1>0 DEF LoopBatch
<1>3. \A ro : RestingOK(ro) => WireOK(AsOrder(ro)) /\ ~AsOrder(ro).is_mm
    BY DEF RestingOK, OrderOK, WireOK, OrderFields, AsOrder
<1>4. \A x \in t.batch : WireOK(x)
    BY <1>1, <1>2, <1>3, PendingFacts DEF WaitingOK
<1>5. IsFiniteSet(t.batch)
  <2> DEFINE made == {x \in t.batch : x.is_mm}
             kept == {x \in t.batch : ~x.is_mm}
             as == [ro \in t.book.orders |-> AsOrder(ro)]
  <2>1. IsFiniteSet(made)
      BY <1>1, <1>2, <1>3, PendingFinite, FS_Subset
  <2>2. \A x \in kept : \E ro \in t.book.orders : x = as[ro]
      BY <1>2
  <2>3. IsFiniteSet(kept)
    <3> HIDE DEF kept, as
    <3> QED BY <1>1, <2>2, ImageFinite
  <2>4. t.batch = made \cup kept
      OBVIOUS
  <2> QED BY <2>1, <2>3, <2>4, FS_Union
<1>6. ASSUME NEW x \in t.batch, NEW y \in t.batch, x.id = y.id, x.is_mm
      PROVE  x = y
  <2>1. x \in PendingOrders /\ WaitingOK(x)
      BY <1>1, <1>2, <1>3, <1>6, PendingFacts
  <2>2. CASE y \in PendingOrders
      BY <1>6, <2>1, <2>2, PendingFacts
  <2>3. ASSUME NEW ro \in t.book.orders, y = AsOrder(ro) PROVE FALSE
    <3>1. ro.id = x.id
        BY <1>6, <2>3 DEF AsOrder
    <3>2. ro \notin book.orders
        BY <2>1, <3>1 DEF WaitingOK, Ids
    <3>3. PICK o \in PendingOrders : ~o.is_mm /\ ro = Resting(o, height + 1)
        BY <1>0, <3>2 DEF LoopBook
    <3>4. ro.id = o.id
        BY <3>3 DEF Resting
    <3>5. o = x
        BY <2>1, <3>1, <3>4, PendingFacts
    <3> QED BY <1>6, <3>3, <3>5
  <2> QED BY <1>2, <2>2, <2>3
<1>7. ASSUME NEW x \in t.batch, NEW y \in t.batch, x.id = y.id, ~x.is_mm, ~y.is_mm
      PROVE  x = y
  <2>1. PICK ro \in t.book.orders : x = AsOrder(ro)
      BY <1>2, <1>7
  <2>2. PICK r \in t.book.orders : y = AsOrder(r)
      BY <1>2, <1>7
  <2>3. ro.id = r.id
      BY <1>7, <2>1, <2>2 DEF AsOrder
  <2>4. ro = r
      BY <1>1, <2>3 DEF BookOK
  <2> QED BY <2>1, <2>2, <2>4
<1>8. \A x, y \in t.batch : x.id = y.id => x = y
    BY <1>6, <1>7
<1>9. \A x \in t.batch : x.is_mm => x \in PendingOrders
    BY <1>1, <1>2, <1>3
<1>10. \A x \in t.batch : ~x.is_mm => \E ro \in t.book.orders : x = AsOrder(ro)
    BY <1>2
<1> QED BY <1>1, <1>2, <1>4, <1>5, <1>8, <1>9, <1>10

(* A sum over orders of the batch: those of the book, and those of bundles. *)
Parts(f, B, g, R) ==
    /\ SumFunctionOnSet(f, B) = SumFunctionOnSet(g, R) + SumFunctionOnSet(f, {x \in B : x.is_mm})
    /\ Summands(f, B) /\ Summands(g, R) /\ Summands(f, {x \in B : x.is_mm})

LEMMA BatchSplit ==
    ASSUME Sound, NEW t, LoopInv(t, PendingOrders), NEW f, \A x \in t.batch : f[x] \in Int,
           NEW B, B \subseteq t.batch, NEW R, R \subseteq t.book.orders,
           \A ro \in t.book.orders : ro \in R <=> AsOrder(ro) \in B,
           NEW g, \A ro \in R : g[ro] = f[AsOrder(ro)]
    PROVE  Parts(f, B, g, R)
<1> DEFINE M == {x \in B : x.is_mm}
           K == {x \in B : ~x.is_mm}
<1>1. IsFiniteSet(t.batch) /\ IsFiniteSet(t.book.orders) /\ BookOK(t.book)
    BY BatchFacts DEF BookOK
<1>2. M \cup K = B /\ M \cap K = {} /\ M \subseteq t.batch /\ K \subseteq t.batch
    OBVIOUS
<1>3. IsFiniteSet(B) /\ IsFiniteSet(M) /\ IsFiniteSet(K) /\ IsFiniteSet(R)
    BY <1>1, <1>2, FS_Subset
<1>4. Summands(f, B) /\ Summands(f, M) /\ Summands(f, K)
    BY <1>2, <1>3 DEF Summands
<1>5. Summands(g, R)
  <2>1. \A ro \in R : g[ro] \in Int
      BY BatchFacts
  <2> QED BY <1>3, <2>1 DEF Summands
<1>6. PICK h : h = [ro \in R |-> AsOrder(ro)]
    OBVIOUS
<1>7. \A ro \in R : h[ro] \in K /\ g[ro] = f[h[ro]]
  <2> TAKE ro \in R
  <2>1. h[ro] = AsOrder(ro) /\ AsOrder(ro) \in B
      BY <1>6
  <2>2. ~AsOrder(ro).is_mm
      BY DEF AsOrder
  <2> QED BY <2>1, <2>2
<1>8. \A x, y \in R : h[x] = h[y] => x = y
  <2> TAKE x, y \in R
  <2>1. h[x].id = x.id /\ h[y].id = y.id
      BY <1>6 DEF AsOrder
  <2> QED BY <1>1, <2>1 DEF BookOK
<1>9. \A x \in K : f[x] \in Int /\ \E ro \in R : h[ro] = x
  <2> TAKE x \in K
  <2>1. PICK ro \in t.book.orders : x = AsOrder(ro)
      BY BatchFacts
  <2>2. ro \in R
      BY <2>1
  <2> QED BY <1>2, <1>6, <2>1, <2>2
<1> HIDE DEF M, K
<1>10. SumFunctionOnSet(g, R) = SumFunctionOnSet(f, K)
    BY <1>3, <1>7, <1>8, <1>9, SumRename
<1>11. SumFunctionOnSet(f, M \cup K) = SumFunctionOnSet(f, M) + SumFunctionOnSet(f, K)
    BY <1>2, <1>4, SumUnion
<1>12. SumFunctionOnSet(f, M) \in Int /\ SumFunctionOnSet(f, K) \in Int
    BY <1>4, SumType
<1>13. SumFunctionOnSet(f, B) = SumFunctionOnSet(g, R) + SumFunctionOnSet(f, M)
  <2>1. SumFunctionOnSet(f, M \cup K) = SumFunctionOnSet(f, B)
      BY <1>2, Zenon
  <2> QED BY <2>1, <1>10, <1>11, <1>12
<1> QED BY <1>4, <1>5, <1>13 DEF M, Parts

(* What settled orders leave is bounded order by order. *)
LEMMA LeftSum ==
    ASSUME NEW bk, BookOK(bk), NEW fill, \A ro \in bk.orders : fill[ro.id] \in Nat, NEW h \in Nat,
           NEW R, R \subseteq bk.orders, NEW L, L \subseteq Left(bk, fill, h),
           \A ro \in Stays(bk, fill, h) : Remainder(ro, fill[ro.id]) \in L => ro \in R,
           NEW f, \A r \in L : f[r] \in Int,
           NEW e, \A ro \in R : e[ro] \in Nat,
           \A ro \in R \cap Stays(bk, fill, h) : f[Remainder(ro, fill[ro.id])] <= e[ro]
    PROVE  SumFunctionOnSet(f, L) <= SumFunctionOnSet(e, R)
<1> DEFINE P == {ro \in Stays(bk, fill, h) : Remainder(ro, fill[ro.id]) \in L}
<1>1. P \subseteq R /\ P \subseteq Stays(bk, fill, h) /\ P \subseteq bk.orders
    BY DEF Stays
<1>2. IsFiniteSet(bk.orders) /\ \A ro, r \in bk.orders : ro.id = r.id => ro = r
    BY DEF BookOK
<1>3. IsFiniteSet(R) /\ IsFiniteSet(P)
    BY <1>1, <1>2, FS_Subset
<1>4. PICK m : m = [ro \in P |-> Remainder(ro, fill[ro.id])]
    OBVIOUS
<1>5. PICK g : g = [ro \in P |-> f[Remainder(ro, fill[ro.id])]]
    OBVIOUS
<1>6. \A ro \in P : m[ro] \in L /\ g[ro] = f[m[ro]] /\ g[ro] \in Int /\ g[ro] <= e[ro] /\ e[ro] \in Nat
    BY <1>1, <1>4, <1>5
<1>7. \A ro \in P : m[ro].id = ro.id
  <2> TAKE ro \in P
  <2>1. RestingOK(ro) /\ ro.max_fill \in Nat
      BY <1>1 DEF BookOK, RestingOK, OrderOK
  <2>2. fill[ro.id] \in Nat /\ fill[ro.id] < ro.max_fill
      BY <1>1, <2>1 DEF Stays
  <2> QED BY <1>4, <2>1, <2>2, RemainderFields DEF Reduced, SameOrder
<1>8. \A x, y \in P : m[x] = m[y] => x = y
  <2> TAKE x, y \in P
  <2>1. x \in bk.orders /\ y \in bk.orders
      BY <1>1
  <2>2. m[x] = m[y] => x.id = y.id
      BY <1>7
  <2> QED BY <1>2, <2>1, <2>2
<1>9. \A r \in L : f[r] \in Int /\ \E ro \in P : m[ro] = r
  <2> TAKE r \in L
  <2>1. PICK ro \in Stays(bk, fill, h) : r = Remainder(ro, fill[ro.id])
      BY DEF Left
  <2> QED BY <1>4, <2>1
<1>10. IsFiniteSet(L)
  <2>1. \A r \in L : \E ro \in P : r = m[ro]
      BY <1>9
  <2> HIDE DEF P
  <2> QED BY <1>3, <2>1, ImageFinite
<1> HIDE DEF P
<1>11. SumFunctionOnSet(g, P) = SumFunctionOnSet(f, L)
    BY <1>3, <1>6, <1>8, <1>9, <1>10, SumRename
<1>12. Summands(g, P) /\ Summands(e, P) /\ Summands(e, R)
    BY <1>3, <1>6 DEF Summands
<1>13. SumFunctionOnSet(g, P) <= SumFunctionOnSet(e, P)
    BY <1>6, <1>12, SumMonotone
<1>14. SumFunctionOnSet(e, P) <= SumFunctionOnSet(e, R)
    BY <1>1, <1>3, SumLess
<1>15. SumFunctionOnSet(g, P) \in Int /\ SumFunctionOnSet(e, P) \in Int /\ SumFunctionOnSet(e, R) \in Int
    BY <1>12, SumType
<1> QED BY <1>11, <1>13, <1>14, <1>15

-----------------------------------------------------------------------------
(* One order's settlement *)

LEMMA PaidNothing == ASSUME NEW p \in Nat PROVE Notional(p, 0) = 0
<1>1. p * 0 = 0
    OBVIOUS
<1>2. 0 \div SHARE_SCALE = 0
    BY ScaleType
<1> QED BY <1>1, <1>2 DEF Notional

(* What an order reserves pays for its fill and for what is left of it. *)
LEMMA OrderSettles ==
    ASSUME NEW ro, RestingOK(ro), NEW n \in Nat, n <= ro.max_fill, NEW price, Price(price, ro) \in Nat,
           n > 0 => WithinLimit(ro, price)
    PROVE  /\ BalanceDelta(ro, price, n) \in Int /\ PositionDelta(ro, n) \in Int
           /\ ro.reserved_balance + BalanceDelta(ro, price, n) \in Nat
           /\ ro.reserved_position + PositionDelta(ro, n) \in Nat
           /\ n < ro.max_fill =>
                 /\ Remainder(ro, n).reserved_balance <= ro.reserved_balance + BalanceDelta(ro, price, n)
                 /\ Remainder(ro, n).reserved_position <= ro.reserved_position + PositionDelta(ro, n)
<1>0. PICK p : p = Price(price, ro)
    OBVIOUS
<1>1. PICK c : c = Notional(p, n)
    OBVIOUS
<1>2. p \in Nat /\ c \in Nat
    BY <1>0, <1>1, Paid
<1>3. /\ ro.limit \in Nat /\ ro.max_fill \in Nat \ {0} /\ ro.reserved_balance \in Nat /\ ro.reserved_position \in Nat
      /\ ro.side \in {"buy", "sell"}
    BY RestingTypes
<1>4. n < ro.max_fill => /\ RestingOK(Remainder(ro, n)) /\ Remainder(ro, n).side = ro.side
                         /\ Remainder(ro, n).max_fill = ro.max_fill - n
    BY RemainderOK, RemainderFields DEF Reduced, SameOrder
<1>5. CASE ro.side = "buy"
  <2>1. BalanceDelta(ro, price, n) = -c /\ PositionDelta(ro, n) = n
      BY <1>0, <1>1, <1>5 DEF BalanceDelta, PositionDelta
  <2>2. c <= ro.reserved_balance
    <3>1. ro.reserved_balance >= NotionalCeil(ro.limit, ro.max_fill) /\ NotionalCeil(ro.limit, ro.max_fill) \in Nat
        BY <1>3, <1>5, RestingTypes, Costs
    <3>2. CASE n = 0
        BY <1>1, <1>2, <1>3, <3>2, PaidNothing
    <3>3. CASE n > 0
      <4>1. p <= ro.limit
          BY <1>0, <1>5, <3>3 DEF WithinLimit
      <4>2. c <= NotionalCeil(ro.limit, ro.max_fill)
          BY <1>1, <1>2, <1>3, <4>1, PaidAtMost
      <4> QED BY <1>2, <1>3, <3>1, <4>2
    <3> QED BY <3>2, <3>3
  <2>3. ASSUME n < ro.max_fill
        PROVE  /\ Remainder(ro, n).reserved_balance <= ro.reserved_balance + -c
               /\ Remainder(ro, n).reserved_position <= ro.reserved_position + n
    <3>1. PICK r : r = Remainder(ro, n)
        OBVIOUS
    <3>2. r.reserved_balance \in Nat /\ r.reserved_position = 0
        BY <1>4, <1>5, <2>3, <3>1, RestingTypes
    <3>3. r.reserved_balance <= ro.reserved_balance + -c
      <4>1. CASE n = 0
        <5>1. c = 0
            BY <1>1, <1>2, <4>1, PaidNothing
        <5>2. r.reserved_balance <= ro.reserved_balance
            BY <2>3, <3>1, RemainderOK
        <5> QED BY <1>3, <3>2, <5>1, <5>2
      <4>2. CASE n > 0
        <5>1. p <= ro.limit
            BY <1>0, <1>5, <4>2 DEF WithinLimit
        <5>2. r.reserved_balance + Notional(p, n) <= ro.reserved_balance
            BY <1>2, <1>5, <2>3, <3>1, <5>1, RemainderOK
        <5> QED BY <1>1, <1>2, <1>3, <3>2, <5>2
      <4> QED BY <4>1, <4>2
    <3> QED BY <1>3, <3>1, <3>2, <3>3
  <2>4. ro.reserved_balance + -c \in Nat /\ ro.reserved_position + n \in Nat
      BY <1>2, <1>3, <2>2
  <2> QED BY <1>2, <2>1, <2>3, <2>4
<1>6. CASE ro.side = "sell"
  <2>1. BalanceDelta(ro, price, n) = c /\ PositionDelta(ro, n) = -n
      BY <1>0, <1>1, <1>6 DEF BalanceDelta, PositionDelta
  <2>2. ro.reserved_position = ro.max_fill /\ ro.reserved_balance = 0
      BY <1>6, RestingTypes
  <2>3. ASSUME n < ro.max_fill
        PROVE  /\ Remainder(ro, n).reserved_balance <= ro.reserved_balance + c
               /\ Remainder(ro, n).reserved_position <= ro.reserved_position + -n
    <3>1. PICK r : r = Remainder(ro, n)
        OBVIOUS
    <3>2. r.reserved_position = r.max_fill /\ r.reserved_balance = 0 /\ r.max_fill = ro.max_fill - n
        BY <1>4, <1>6, <2>3, <3>1, RestingTypes
    <3> QED BY <1>2, <1>3, <2>2, <3>1, <3>2
  <2>4. ro.reserved_balance + c \in Nat /\ ro.reserved_position + -n \in Nat
      BY <1>2, <1>3, <2>2
  <2> QED BY <1>2, <2>1, <2>3, <2>4
<1> QED BY <1>3, <1>5, <1>6

(* The same of a member of the batch. *)
LEMMA PriceType ==
    ASSUME NEW price, \A m \in Markets : price[m] \in 0..DOLLAR, NEW o, o.market \in Markets
    PROVE  Price(price, o) \in Nat /\ Price(price, o) <= DOLLAR
<1>1. DOLLAR \in Nat
    BY OrderBookAssumption
<1>2. price[o.market] \in 0..DOLLAR
    OBVIOUS
<1> QED BY <1>1, <1>2 DEF Price

LEMMA AsOrderSettles ==
    ASSUME NEW ro, NEW price, NEW n
    PROVE  /\ BalanceDelta(AsOrder(ro), price, n) = BalanceDelta(ro, price, n)
           /\ PositionDelta(AsOrder(ro), n) = PositionDelta(ro, n)
           /\ WithinLimit(AsOrder(ro), price) <=> WithinLimit(ro, price)
           /\ Price(price, AsOrder(ro)) = Price(price, ro)
<1>1. /\ AsOrder(ro).market = ro.market /\ AsOrder(ro).outcome = ro.outcome
      /\ AsOrder(ro).side = ro.side /\ AsOrder(ro).limit = ro.limit
    BY DEF AsOrder
<1>2. Price(price, AsOrder(ro)) = Price(price, ro)
    BY <1>1 DEF Price
<1> HIDE DEF AsOrder
<1>3. BalanceDelta(AsOrder(ro), price, n) = BalanceDelta(ro, price, n)
    BY <1>1, <1>2, Zenon DEF BalanceDelta
<1>4. PositionDelta(AsOrder(ro), n) = PositionDelta(ro, n)
    BY <1>1, Zenon DEF PositionDelta
<1>5. WithinLimit(AsOrder(ro), price) <=> WithinLimit(ro, price)
    BY <1>1, <1>2, Zenon DEF WithinLimit
<1> QED BY <1>2, <1>3, <1>4, <1>5

Paying(S, s) == [x \in S |-> BalanceDelta(x, s.price, s.fill[x.id])]
Moving(S, s) == [x \in S |-> PositionDelta(x, s.fill[x.id])]

LEMMA BatchMoves ==
    ASSUME NEW batch, \A x \in batch : WireOK(x), NEW s, Executes(batch, s)
    PROVE  \A x \in batch :
              /\ Price(s.price, x) \in Nat /\ Price(s.price, x) <= DOLLAR /\ s.fill[x.id] \in Nat
              /\ Notional(Price(s.price, x), s.fill[x.id]) \in Nat
              /\ Paying(batch, s)[x] = BalanceDelta(x, s.price, s.fill[x.id]) /\ Paying(batch, s)[x] \in Int
              /\ Moving(batch, s)[x] = PositionDelta(x, s.fill[x.id]) /\ Moving(batch, s)[x] \in Int
<1> TAKE x \in batch
<1>1. /\ Price(s.price, x) \in Nat /\ Price(s.price, x) <= DOLLAR /\ s.fill[x.id] \in Nat
  <2>1. x.market \in Markets
      BY DEF WireOK, OrderOK
  <2> QED BY <2>1, PriceType DEF Executes
<1>2. PICK c : c = Notional(Price(s.price, x), s.fill[x.id])
    OBVIOUS
<1>3. c \in Nat
    BY <1>1, <1>2, Paid
<1>4. BalanceDelta(x, s.price, s.fill[x.id]) \in Int
    BY <1>2, <1>3 DEF BalanceDelta
<1>5. PositionDelta(x, s.fill[x.id]) \in Int
    BY <1>1 DEF PositionDelta
<1>6. /\ Paying(batch, s)[x] = BalanceDelta(x, s.price, s.fill[x.id])
      /\ Moving(batch, s)[x] = PositionDelta(x, s.fill[x.id])
    BY DEF Paying, Moving
<1> QED BY <1>1, <1>2, <1>3, <1>4, <1>5, <1>6

Settled(batch, s) == SettleBatch(accounts, batch, s.fill, s.price)
Final(batch, s) == ApplyMinting(Settled(batch, s), s.price)

LEMMA SettledAre ==
    ASSUME NEW batch, IsFiniteSet(batch), \A x \in batch : WireOK(x), NEW s, Executes(batch, s), NEW a \in AllAccounts
    PROVE  /\ Settled(batch, s)[a].balance =
                accounts[a].balance + SumFunctionOnSet(Paying(batch, s), Mine(batch, a))
           /\ \A k \in PositionKeys : Settled(batch, s)[a].position[k] =
                accounts[a].position[k] + SumFunctionOnSet(Moving(batch, s), MineOn(batch, a, k))
           /\ Summands(Paying(batch, s), Mine(batch, a))
           /\ \A k : Summands(Moving(batch, s), MineOn(batch, a, k))
<1> DEFINE mine == {o \in batch : o.account = a}
           paid == [o \in mine |-> BalanceDelta(o, s.price, s.fill[o.id])]
           on(k) == {c \in mine : Key(c) = k}
           moved(k) == [o \in on(k) |-> PositionDelta(o, s.fill[o.id])]
<1>1. Settled(batch, s)[a] = [balance |-> accounts[a].balance + SumFunction(paid),
                              position |-> [k \in PositionKeys |->
                                              accounts[a].position[k] + SumFunction(moved(k))]]
    BY DEF Settled, SettleBatch
<1>2. Mine(batch, a) = mine /\ (\A k : MineOn(batch, a, k) = on(k)) /\ mine \subseteq batch /\ (\A k : on(k) \subseteq batch)
    BY DEF Mine, MineOn
<1>3. IsFiniteSet(mine) /\ \A k : IsFiniteSet(on(k))
    BY <1>2, FS_Subset
<1>4. SumFunction(paid) = SumFunctionOnSet(paid, mine) /\ \A k : SumFunction(moved(k)) = SumFunctionOnSet(moved(k), on(k))
    BY DEF SumFunction
<1>5. \A o \in mine : paid[o] = Paying(batch, s)[o] /\ Paying(batch, s)[o] \in Int
  <2> TAKE o \in mine
  <2>1. paid[o] = BalanceDelta(o, s.price, s.fill[o.id])
      OBVIOUS
  <2> HIDE DEF paid
  <2> QED BY <1>2, <2>1, BatchMoves
<1>6. ASSUME NEW k, NEW o \in on(k) PROVE moved(k)[o] = Moving(batch, s)[o] /\ Moving(batch, s)[o] \in Int
  <2>1. moved(k)[o] = PositionDelta(o, s.fill[o.id])
      OBVIOUS
  <2> HIDE DEF moved
  <2> QED BY <1>2, <1>6, <2>1, BatchMoves
<1>7. Summands(Paying(batch, s), mine) /\ Summands(paid, mine)
  <2> HIDE DEF paid, mine
  <2> QED BY <1>3, <1>5 DEF Summands
<1>8. ASSUME NEW k PROVE Summands(Moving(batch, s), on(k)) /\ Summands(moved(k), on(k))
  <2> HIDE DEF moved, on, mine
  <2> QED BY <1>3, <1>6 DEF Summands
<1>9. SumFunctionOnSet(paid, mine) = SumFunctionOnSet(Paying(batch, s), mine)
  <2> HIDE DEF paid, mine
  <2> QED BY <1>5, <1>7, SumSame
<1>10. ASSUME NEW k PROVE SumFunctionOnSet(moved(k), on(k)) = SumFunctionOnSet(Moving(batch, s), on(k))
  <2> HIDE DEF moved, on, mine
  <2> QED BY <1>6, <1>8, SumSame
<1>11. Settled(batch, s)[a].balance = accounts[a].balance + SumFunctionOnSet(Paying(batch, s), Mine(batch, a))
  <2>1. Settled(batch, s)[a].balance = accounts[a].balance + SumFunction(paid)
      BY <1>1
  <2> HIDE DEF paid, mine
  <2> QED BY <2>1, <1>2, <1>4, <1>9
<1>12. ASSUME NEW k \in PositionKeys
       PROVE  Settled(batch, s)[a].position[k] =
                accounts[a].position[k] + SumFunctionOnSet(Moving(batch, s), MineOn(batch, a, k))
  <2>1. Settled(batch, s)[a].position[k] = accounts[a].position[k] + SumFunction(moved(k))
      BY <1>1
  <2> HIDE DEF moved, on, mine
  <2> QED BY <2>1, <1>2, <1>4, <1>10
<1> HIDE DEF on, mine, paid, moved
<1> QED BY <1>2, <1>7, <1>8, <1>11, <1>12

(* MINT is the only account minting changes. *)
LEMMA FinalAre ==
    ASSUME TypesOK, NEW batch, NEW s, NEW a \in Accounts
    PROVE  Final(batch, s)[a] = Settled(batch, s)[a]
<1>1. a # MINT /\ a \in AllAccounts /\ DOMAIN Settled(batch, s) = AllAccounts
    BY ExchangeAssumption DEF AllAccounts, Settled, SettleBatch
<1> QED BY <1>1 DEF Final, ApplyMinting

(* The orders of a book, executed. *)
Pays(t, s, a) == SumFunctionOnSet(Paying(t.book.orders, s), Mine(t.book.orders, a))
Moves(t, s, a, k) == SumFunctionOnSet(Moving(t.book.orders, s), MineOn(t.book.orders, a, k))

(* The bundles' orders, executed. *)
PaysMade(t, s, a) == SumFunctionOnSet(Paying(t.batch, s), {x \in Mine(t.batch, a) : x.is_mm})
MovesMade(t, s, a, k) == SumFunctionOnSet(Moving(t.batch, s), {x \in MineOn(t.batch, a, k) : x.is_mm})

LEMMA BookExecutes ==
    ASSUME Sound, NEW t, LoopInv(t, PendingOrders), NEW s, Executes(t.batch, s), NEW ro \in t.book.orders
    PROVE  /\ RestingOK(ro) /\ s.fill[ro.id] \in Nat /\ s.fill[ro.id] <= ro.max_fill
           /\ Price(s.price, ro) \in Nat /\ (s.fill[ro.id] > 0 => WithinLimit(ro, s.price))
           /\ Paying(t.book.orders, s)[ro] = BalanceDelta(ro, s.price, s.fill[ro.id])
           /\ Moving(t.book.orders, s)[ro] = PositionDelta(ro, s.fill[ro.id])
           /\ Paying(t.book.orders, s)[ro] = Paying(t.batch, s)[AsOrder(ro)]
           /\ Moving(t.book.orders, s)[ro] = Moving(t.batch, s)[AsOrder(ro)]
<1>1. AsOrder(ro) \in t.batch /\ RestingOK(ro) /\ \A x \in t.batch : WireOK(x)
    BY BatchFacts DEF BookOK
<1>2. AsOrder(ro).id = ro.id /\ AsOrder(ro).max_fill = ro.max_fill
    BY DEF AsOrder
<1>3. s.fill[ro.id] \in Nat /\ s.fill[ro.id] <= ro.max_fill
    BY <1>1, <1>2 DEF Executes
<1>4. s.fill[ro.id] > 0 => WithinLimit(ro, s.price)
    BY <1>1, <1>2, AsOrderSettles DEF Executes
<1>5. Price(s.price, ro) \in Nat
  <2>1. Price(s.price, AsOrder(ro)) \in Nat
      BY <1>1, BatchMoves
  <2> QED BY <2>1, AsOrderSettles
<1>6. /\ Paying(t.book.orders, s)[ro] = BalanceDelta(ro, s.price, s.fill[ro.id])
      /\ Moving(t.book.orders, s)[ro] = PositionDelta(ro, s.fill[ro.id])
    BY DEF Paying, Moving
<1>7. /\ Paying(t.batch, s)[AsOrder(ro)] = BalanceDelta(AsOrder(ro), s.price, s.fill[ro.id])
      /\ Moving(t.batch, s)[AsOrder(ro)] = PositionDelta(AsOrder(ro), s.fill[ro.id])
    BY <1>1, <1>2, BatchMoves
<1>8. /\ Paying(t.book.orders, s)[ro] = Paying(t.batch, s)[AsOrder(ro)]
      /\ Moving(t.book.orders, s)[ro] = Moving(t.batch, s)[AsOrder(ro)]
    BY <1>6, <1>7, AsOrderSettles
<1> QED BY <1>1, <1>3, <1>4, <1>5, <1>6, <1>8

(* What stays reserved, the fills have left. *)
LEMMA BookSettles ==
    ASSUME Sound, NEW t, LoopInv(t, PendingOrders), NEW s, Executes(t.batch, s), NEW h \in Nat, NEW a \in Accounts
    PROVE  /\ Pays(t, s, a) \in Int
           /\ Settle(t.book, s.fill, h).cash[a] <= t.book.cash[a] + Pays(t, s, a)
           /\ \A k \in PositionKeys :
                 /\ Moves(t, s, a, k) \in Int
                 /\ Settle(t.book, s.fill, h).shares[a][k] <= t.book.shares[a][k] + Moves(t, s, a, k)
<1> DEFINE T == t.book.orders
           left == Left(t.book, s.fill, h)
           post == Settle(t.book, s.fill, h)
<1>1. BookOK(t.book) /\ IsFiniteSet(T) /\ Reserves(T)
    BY BatchFacts, BookSums
<1>2. \A ro \in T : s.fill[ro.id] \in Nat
    BY BookExecutes
<1>3. BookOK(post) /\ post.orders = left
    BY <1>1, <1>2, SettleOK
<1>4. Reserves(left) /\ IsFiniteSet(left)
    BY <1>3, BookSums
<1>5. PICK e : e = [ro \in T |-> Cash(T)[ro] + Paying(T, s)[ro]]
    OBVIOUS
<1>6. PICK d : d = [ro \in T |-> Shares(T)[ro] + Moving(T, s)[ro]]
    OBVIOUS
<1>7. ASSUME NEW ro \in T
      PROVE  /\ e[ro] \in Nat /\ d[ro] \in Nat
             /\ Cash(T)[ro] \in Int /\ Paying(T, s)[ro] \in Int /\ e[ro] = Cash(T)[ro] + Paying(T, s)[ro]
             /\ Shares(T)[ro] \in Int /\ Moving(T, s)[ro] \in Int /\ d[ro] = Shares(T)[ro] + Moving(T, s)[ro]
             /\ s.fill[ro.id] < ro.max_fill =>
                   /\ Remainder(ro, s.fill[ro.id]).reserved_balance <= e[ro]
                   /\ Remainder(ro, s.fill[ro.id]).reserved_position <= d[ro]
  <2>1. /\ RestingOK(ro) /\ s.fill[ro.id] \in Nat /\ s.fill[ro.id] <= ro.max_fill
        /\ Price(s.price, ro) \in Nat /\ (s.fill[ro.id] > 0 => WithinLimit(ro, s.price))
        /\ Paying(T, s)[ro] = BalanceDelta(ro, s.price, s.fill[ro.id])
        /\ Moving(T, s)[ro] = PositionDelta(ro, s.fill[ro.id])
      BY BookExecutes
  <2>2. Cash(T)[ro] = ro.reserved_balance /\ Shares(T)[ro] = ro.reserved_position
      BY DEF Cash, Shares
  <2>3. ro.reserved_balance \in Nat /\ ro.reserved_position \in Nat
      BY <1>1 DEF Reserves
  <2>4. e[ro] = Cash(T)[ro] + Paying(T, s)[ro] /\ d[ro] = Shares(T)[ro] + Moving(T, s)[ro]
      BY <1>5, <1>6
  <2> HIDE DEF T
  <2> QED BY <2>1, <2>2, <2>3, <2>4, OrderSettles
<1>8. \A ro \in Stays(t.book, s.fill, h) : ro \in T /\ s.fill[ro.id] < ro.max_fill
    BY DEF Stays
<1>9. ASSUME NEW ro \in Stays(t.book, s.fill, h)
      PROVE  /\ Remainder(ro, s.fill[ro.id]).account = ro.account
             /\ Key(Remainder(ro, s.fill[ro.id])) = Key(ro)
             /\ Remainder(ro, s.fill[ro.id]) \in left
  <2>1. RestingOK(ro) /\ s.fill[ro.id] \in Nat
      BY <1>8, BookExecutes
  <2>2. SameOrder(Remainder(ro, s.fill[ro.id]), ro)
      BY <1>8, <2>1, RemainderFields DEF Reduced
  <2> QED BY <2>2 DEF SameOrder, Key, Left
<1>10. /\ Settle(t.book, s.fill, h).cash[a] <= t.book.cash[a] + Pays(t, s, a)
       /\ Pays(t, s, a) \in Int
  <2> DEFINE R == Mine(T, a)
             L == Mine(left, a)
             f == Cash(left)
  <2>1. R \subseteq T /\ L \subseteq left /\ \A ro \in Stays(t.book, s.fill, h) : Remainder(ro, s.fill[ro.id]) \in L => ro \in R
      BY <1>8, <1>9 DEF Mine
  <2>2. \A r \in L : f[r] \in Int
      BY <1>4, <2>1 DEF Cash, Reserves
  <2>3. \A ro \in R \cap Stays(t.book, s.fill, h) : f[Remainder(ro, s.fill[ro.id])] <= e[ro]
    <3> TAKE ro \in R \cap Stays(t.book, s.fill, h)
    <3>1. f[Remainder(ro, s.fill[ro.id])] = Remainder(ro, s.fill[ro.id]).reserved_balance
        BY <1>9 DEF Cash
    <3> QED BY <1>7, <1>8, <3>1
  <2>4. \A ro \in R : e[ro] \in Nat
      BY <1>7, <2>1
  <2>5. SumFunctionOnSet(f, L) <= SumFunctionOnSet(e, R)
    <3> HIDE DEF R, L, f, left
    <3> QED BY <1>1, <1>2, <2>1, <2>2, <2>3, <2>4, LeftSum DEF left
  <2>6. post.cash[a] = SumFunctionOnSet(f, L)
    <3>1. CashOf(left, a) = SumFunctionOnSet(f, L)
        BY <1>4, CashSum
    <3>2. post.cash[a] = CashOf(post.orders, a)
        BY <1>3, BookSums
    <3> QED BY <1>3, <3>1, <3>2
  <2>7. t.book.cash[a] = SumFunctionOnSet(Cash(T), R)
    <3>1. CashOf(T, a) = SumFunctionOnSet(Cash(T), R)
        BY <1>1, CashSum
    <3> QED BY <1>1, <3>1, BookSums
  <2>8. IsFiniteSet(R)
      BY <1>1, <2>1, FS_Subset
  <2>9. Summands(Cash(T), R) /\ Summands(Paying(T, s), R) /\ \A ro \in R : e[ro] = Cash(T)[ro] + Paying(T, s)[ro]
    <3> HIDE DEF R
    <3> QED BY <1>7, <2>1, <2>8 DEF Summands
  <2>10. SumFunctionOnSet(e, R) = SumFunctionOnSet(Cash(T), R) + SumFunctionOnSet(Paying(T, s), R)
    <3> HIDE DEF R
    <3> QED BY <2>9, SumPlus
  <2>11. SumFunctionOnSet(Paying(T, s), R) \in Int
      BY <2>9, SumType
  <2> QED BY <2>5, <2>6, <2>7, <2>10, <2>11 DEF Pays
<1>11. ASSUME NEW k \in PositionKeys
       PROVE  /\ Settle(t.book, s.fill, h).shares[a][k] <= t.book.shares[a][k] + Moves(t, s, a, k)
              /\ Moves(t, s, a, k) \in Int
  <2> DEFINE R == MineOn(T, a, k)
             L == MineOn(left, a, k)
             f == Shares(left)
  <2>1. R \subseteq T /\ L \subseteq left /\ \A ro \in Stays(t.book, s.fill, h) : Remainder(ro, s.fill[ro.id]) \in L => ro \in R
      BY <1>8, <1>9 DEF MineOn
  <2>2. \A r \in L : f[r] \in Int
      BY <1>4, <2>1 DEF Shares, Reserves
  <2>3. \A ro \in R \cap Stays(t.book, s.fill, h) : f[Remainder(ro, s.fill[ro.id])] <= d[ro]
    <3> TAKE ro \in R \cap Stays(t.book, s.fill, h)
    <3>1. f[Remainder(ro, s.fill[ro.id])] = Remainder(ro, s.fill[ro.id]).reserved_position
        BY <1>9 DEF Shares
    <3> QED BY <1>7, <1>8, <3>1
  <2>4. \A ro \in R : d[ro] \in Nat
      BY <1>7, <2>1
  <2>5. SumFunctionOnSet(f, L) <= SumFunctionOnSet(d, R)
    <3> HIDE DEF R, L, f, left
    <3> QED BY <1>1, <1>2, <2>1, <2>2, <2>3, <2>4, LeftSum DEF left
  <2>6. post.shares[a][k] = SumFunctionOnSet(f, L)
    <3>1. SharesOf(left, a, k) = SumFunctionOnSet(f, L)
        BY <1>4, SharesSum
    <3>2. post.shares[a][k] = SharesOf(post.orders, a, k)
        BY <1>3, BookSums
    <3> QED BY <1>3, <3>1, <3>2
  <2>7. t.book.shares[a][k] = SumFunctionOnSet(Shares(T), R)
    <3>1. SharesOf(T, a, k) = SumFunctionOnSet(Shares(T), R)
        BY <1>1, SharesSum
    <3> QED BY <1>1, <3>1, BookSums
  <2>8. IsFiniteSet(R)
      BY <1>1, <2>1, FS_Subset
  <2>9. Summands(Shares(T), R) /\ Summands(Moving(T, s), R) /\ \A ro \in R : d[ro] = Shares(T)[ro] + Moving(T, s)[ro]
    <3> HIDE DEF R
    <3> QED BY <1>7, <2>1, <2>8 DEF Summands
  <2>10. SumFunctionOnSet(d, R) = SumFunctionOnSet(Shares(T), R) + SumFunctionOnSet(Moving(T, s), R)
    <3> HIDE DEF R
    <3> QED BY <2>9, SumPlus
  <2>11. SumFunctionOnSet(Moving(T, s), R) \in Int
      BY <2>9, SumType
  <2> QED BY <2>5, <2>6, <2>7, <2>10, <2>11 DEF Moves
<1> QED BY <1>10, <1>11

(* An account after a block. *)
LEMMA AccountSettles ==
    ASSUME Sound, NEW t, LoopInv(t, PendingOrders), NEW s, Executes(t.batch, s), NEW a \in Accounts
    PROVE  /\ PaysMade(t, s, a) \in Int
           /\ Final(t.batch, s)[a].balance = accounts[a].balance + Pays(t, s, a) + PaysMade(t, s, a)
           /\ \A k \in PositionKeys :
                 /\ MovesMade(t, s, a, k) \in Int
                 /\ Final(t.batch, s)[a].position[k] = accounts[a].position[k] + Moves(t, s, a, k) + MovesMade(t, s, a, k)
<1> DEFINE T == t.book.orders
<1>1. a \in AllAccounts /\ TypesOK
    BY DEF AllAccounts, Sound
<1>2. IsFiniteSet(t.batch) /\ \A x \in t.batch : WireOK(x)
    BY BatchFacts
<1>3. \A x \in t.batch : Paying(t.batch, s)[x] \in Int /\ Moving(t.batch, s)[x] \in Int
    BY <1>2, BatchMoves
<1>4. \A ro : AsOrder(ro).account = ro.account /\ Key(AsOrder(ro)) = Key(ro)
    BY DEF AsOrder, Key
<1>5. \A ro \in t.book.orders : AsOrder(ro) \in t.batch
    BY BatchFacts
<1>6. /\ PaysMade(t, s, a) \in Int
      /\ SumFunctionOnSet(Paying(t.batch, s), Mine(t.batch, a)) = Pays(t, s, a) + PaysMade(t, s, a)
      /\ Pays(t, s, a) \in Int
  <2> DEFINE B == Mine(t.batch, a)
             R == Mine(T, a)
  <2>1. B \subseteq t.batch /\ R \subseteq T /\ \A ro \in T : ro \in R <=> AsOrder(ro) \in B
      BY <1>4, <1>5 DEF Mine
  <2>2. \A ro \in R : Paying(T, s)[ro] = Paying(t.batch, s)[AsOrder(ro)]
    <3> HIDE DEF R, B
    <3> QED BY <2>1, BookExecutes
  <2> HIDE DEF T
  <2>3. /\ SumFunctionOnSet(Paying(t.batch, s), B) = SumFunctionOnSet(Paying(T, s), R)
                + SumFunctionOnSet(Paying(t.batch, s), {x \in B : x.is_mm})
        /\ Summands(Paying(T, s), R) /\ Summands(Paying(t.batch, s), {x \in B : x.is_mm})
    <3>1. \A x \in t.batch : Paying(t.batch, s)[x] \in Int
        BY <1>3
    <3>2. PICK f, g : f = Paying(t.batch, s) /\ g = Paying(T, s)
        OBVIOUS
    <3>3. /\ \A x \in t.batch : f[x] \in Int
          /\ \A ro \in R : g[ro] = f[AsOrder(ro)]
          /\ R \subseteq t.book.orders /\ B \subseteq t.batch
          /\ \A ro \in t.book.orders : ro \in R <=> AsOrder(ro) \in B
        BY <2>1, <2>2, <3>1, <3>2 DEF T
    <3> HIDE DEF B, R
    <3>4. Parts(f, B, g, R)
        BY <3>3, BatchSplit
    <3> QED BY <3>2, <3>4 DEF Parts
  <2> QED BY <2>3, SumType DEF Pays, PaysMade, T
<1>7. ASSUME NEW k \in PositionKeys
      PROVE  /\ MovesMade(t, s, a, k) \in Int
             /\ SumFunctionOnSet(Moving(t.batch, s), MineOn(t.batch, a, k)) = Moves(t, s, a, k) + MovesMade(t, s, a, k)
             /\ Moves(t, s, a, k) \in Int
  <2> DEFINE B == MineOn(t.batch, a, k)
             R == MineOn(T, a, k)
  <2>1. B \subseteq t.batch /\ R \subseteq T /\ \A ro \in T : ro \in R <=> AsOrder(ro) \in B
      BY <1>4, <1>5 DEF MineOn
  <2>2. \A ro \in R : Moving(T, s)[ro] = Moving(t.batch, s)[AsOrder(ro)]
      BY <2>1, BookExecutes
  <2> HIDE DEF T
  <2>3. /\ SumFunctionOnSet(Moving(t.batch, s), B) = SumFunctionOnSet(Moving(T, s), R)
                + SumFunctionOnSet(Moving(t.batch, s), {x \in B : x.is_mm})
        /\ Summands(Moving(T, s), R) /\ Summands(Moving(t.batch, s), {x \in B : x.is_mm})
    <3>1. \A x \in t.batch : Moving(t.batch, s)[x] \in Int
        BY <1>3
    <3>2. PICK f, g : f = Moving(t.batch, s) /\ g = Moving(T, s)
        OBVIOUS
    <3>3. /\ \A x \in t.batch : f[x] \in Int
          /\ \A ro \in R : g[ro] = f[AsOrder(ro)]
          /\ R \subseteq t.book.orders /\ B \subseteq t.batch
          /\ \A ro \in t.book.orders : ro \in R <=> AsOrder(ro) \in B
        BY <2>1, <2>2, <3>1, <3>2 DEF T
    <3> HIDE DEF B, R
    <3>4. Parts(f, B, g, R)
        BY <3>3, BatchSplit
    <3> QED BY <3>2, <3>4 DEF Parts
  <2> QED BY <2>3, SumType DEF Moves, MovesMade, T
<1>8. Final(t.batch, s)[a] = Settled(t.batch, s)[a]
    BY <1>1, FinalAre
<1>9. accounts[a].balance \in Int /\ \A k \in PositionKeys : accounts[a].position[k] \in Int
    BY <1>1, AccountTypes
<1>10. Settled(t.batch, s)[a].balance = accounts[a].balance + SumFunctionOnSet(Paying(t.batch, s), Mine(t.batch, a))
    BY <1>1, <1>2, SettledAre
<1>11. \A k \in PositionKeys : Settled(t.batch, s)[a].position[k] =
             accounts[a].position[k] + SumFunctionOnSet(Moving(t.batch, s), MineOn(t.batch, a, k))
    BY <1>1, <1>2, SettledAre
<1>12. Final(t.batch, s)[a].balance = accounts[a].balance + Pays(t, s, a) + PaysMade(t, s, a)
    BY <1>6, <1>8, <1>9, <1>10
<1>13. \A k \in PositionKeys :
          Final(t.batch, s)[a].position[k] = accounts[a].position[k] + Moves(t, s, a, k) + MovesMade(t, s, a, k)
  <2> TAKE k \in PositionKeys
  <2>1. Settled(t.batch, s)[a].position[k] =
             accounts[a].position[k] + SumFunctionOnSet(Moving(t.batch, s), MineOn(t.batch, a, k))
      BY <1>11
  <2>2. accounts[a].position[k] \in Int
      BY <1>9
  <2> QED BY <1>7, <1>8, <2>1, <2>2
<1> QED BY <1>6, <1>7, <1>12, <1>13

-----------------------------------------------------------------------------
(* The block *)

Post(t, s) == Settle(t.book, s.fill, height + 1)

CoveredAfter(t, s) ==
    /\ \A a \in Accounts \ Makers : Post(t, s).cash[a] <= Final(t.batch, s)[a].balance
    /\ \A a \in Accounts \ Shorts : \A k \in Active \X Outcomes :
          Post(t, s).shares[a][k] <= Final(t.batch, s)[a].position[k]

LEMMA BlockCover ==
    ASSUME Sound, NEW t, LoopInv(t, PendingOrders), NEW s, Executes(t.batch, s)
    PROVE  CoveredAfter(t, s)
<1>0. height + 1 \in Nat /\ TypesOK
    BY DEF Sound, TypesOK
<1>1. \A x \in t.batch : x.is_mm => WaitingOK(x) /\ WireOK(x)
    BY BatchFacts, PendingFacts
<1>2. BookOK(t.book) /\ \A x \in t.batch : WireOK(x)
    BY BatchFacts
<1>3. \A x \in t.batch : Moving(t.batch, s)[x] = PositionDelta(x, s.fill[x.id]) /\ s.fill[x.id] \in Nat
    BY <1>2, BatchMoves
<1>31. BookOK(Post(t, s))
  <2>1. \A ro \in t.book.orders : s.fill[ro.id] \in Nat
      BY BookExecutes
  <2> QED BY <1>0, <1>2, <2>1, SettleOK DEF Post
<1>4. ASSUME NEW a \in Accounts \ Makers PROVE Post(t, s).cash[a] <= Final(t.batch, s)[a].balance
  <2>1. {x \in Mine(t.batch, a) : x.is_mm} = {}
      BY <1>1 DEF Mine, WaitingOK
  <2>2. PaysMade(t, s, a) = 0
      BY <2>1, SumEmpty DEF PaysMade
  <2>3. Final(t.batch, s)[a].balance = accounts[a].balance + Pays(t, s, a) + PaysMade(t, s, a)
      BY AccountSettles
  <2>4. Post(t, s).cash[a] <= t.book.cash[a] + Pays(t, s, a) /\ Pays(t, s, a) \in Int
      BY <1>0, BookSettles DEF Post
  <2>5. t.book.cash[a] <= accounts[a].balance
      BY DEF LoopInv, LoopCover
  <2>6. t.book.cash[a] \in Nat /\ accounts[a].balance \in Int /\ Post(t, s).cash[a] \in Nat
      BY <1>0, <1>2, <1>31, BookSums, AccountTypes
  <2> QED BY <2>2, <2>3, <2>4, <2>5, <2>6
<1>5. ASSUME NEW a \in Accounts \ Shorts, NEW k \in Active \X Outcomes
      PROVE  Post(t, s).shares[a][k] <= Final(t.batch, s)[a].position[k]
  <2> DEFINE M == {x \in MineOn(t.batch, a, k) : x.is_mm}
  <2>0. k \in PositionKeys
      BY DEF Active, PositionKeys
  <2>1. \A x \in M : Moving(t.batch, s)[x] \in Nat
    <3> TAKE x \in M
    <3>1. x \in t.batch /\ x.account = a /\ x.is_mm
        BY DEF MineOn
    <3>2. x.side = "buy"
        BY <1>1, <3>1 DEF WaitingOK, WireOK, OrderOK
    <3> QED BY <1>3, <3>1, <3>2 DEF PositionDelta
  <2>2. IsFiniteSet(M)
    <3>1. M \subseteq t.batch
        BY DEF MineOn
    <3> QED BY <3>1, BatchFacts, FS_Subset
  <2>3. MovesMade(t, s, a, k) \in Nat
    <3>1. MovesMade(t, s, a, k) = SumFunctionOnSet(Moving(t.batch, s), M)
        BY DEF MovesMade
    <3> HIDE DEF M
    <3> QED BY <2>1, <2>2, <3>1, SumNat
  <2>4. Final(t.batch, s)[a].position[k] = accounts[a].position[k] + Moves(t, s, a, k) + MovesMade(t, s, a, k)
      BY <2>0, AccountSettles
  <2>5. Post(t, s).shares[a][k] <= t.book.shares[a][k] + Moves(t, s, a, k) /\ Moves(t, s, a, k) \in Int
      BY <1>0, <2>0, BookSettles DEF Post
  <2>6. t.book.shares[a][k] <= accounts[a].position[k]
      BY DEF LoopInv, LoopCover
  <2>7. t.book.shares[a][k] \in Nat /\ accounts[a].position[k] \in Int /\ Post(t, s).shares[a][k] \in Nat
      BY <1>0, <1>2, <1>31, <2>0, BookSums, AccountTypes
  <2> QED BY <2>3, <2>4, <2>5, <2>6, <2>7
<1> QED BY <1>4, <1>5 DEF CoveredAfter

(* The book after a block. *)
BookAfter(t, s) ==
    /\ BookOK(Post(t, s)) /\ NoCross(Post(t, s).orders)
    /\ \A r \in Post(t, s).orders :
          /\ r.id[1] \in submitted /\ r.expires_at_block > height + 1 /\ r.market \in Active
          /\ \E ro \in t.book.orders : r = Remainder(ro, s.fill[ro.id]) /\ ro \in Stays(t.book, s.fill, height + 1)

LEMMA BlockBook ==
    ASSUME Sound, NEW t, LoopInv(t, PendingOrders), NEW s, Executes(t.batch, s)
    PROVE  BookAfter(t, s)
<1> DEFINE post == Post(t, s)
           T == t.book.orders
<1>0. height + 1 \in Nat
    BY DEF Sound, TypesOK
<1>1. BookOK(t.book)
    BY BatchFacts
<1>2. \A ro \in T : RestingOK(ro) /\ s.fill[ro.id] \in Nat
    BY BookExecutes
<1>3. BookOK(post) /\ post.orders = Left(t.book, s.fill, height + 1)
    BY <1>0, <1>1, <1>2, SettleOK DEF Post
<1>4. ASSUME NEW r \in post.orders
      PROVE  \E ro \in T : /\ r = Remainder(ro, s.fill[ro.id]) /\ ro \in Stays(t.book, s.fill, height + 1)
                           /\ SameOrder(r, ro)
  <2>1. PICK ro \in Stays(t.book, s.fill, height + 1) : r = Remainder(ro, s.fill[ro.id])
      BY <1>3, <1>4 DEF Left
  <2>2. ro \in T /\ s.fill[ro.id] < ro.max_fill
      BY DEF Stays
  <2>3. SameOrder(r, ro)
      BY <1>2, <2>1, <2>2, RemainderFields DEF Reduced
  <2> QED BY <2>1, <2>2, <2>3
<1>5. NoCross(post.orders)
  <2>1. Priced(post.orders) /\ Priced(T)
      BY <1>1, <1>3, BookPriced
  <2>2. \A r \in post.orders : \E ro \in T : SameBid(ro, r)
      BY <1>4 DEF SameOrder, SameBid
  <2>3. Matched(post.orders, T)
      BY <2>1, <2>2 DEF Matched
  <2>4. NoCross(T)
      BY DEF LoopInv, LoopBids
  <2> QED BY <2>3, <2>4, NoCrossMatched
<1>6. ASSUME NEW r \in post.orders
      PROVE  r.id[1] \in submitted /\ r.expires_at_block > height + 1 /\ r.market \in Active
  <2>1. PICK ro \in T : ro \in Stays(t.book, s.fill, height + 1) /\ SameOrder(r, ro)
      BY <1>4, <1>6
  <2>2. Fresh(ro) /\ (ro \in book.orders \/ \E o \in PendingOrders : ro = Resting(o, height + 1))
      BY DEF LoopInv, LoopBook
  <2>3. ro.id[1] \in submitted
    <3>1. CASE ro \in book.orders
        BY <3>1 DEF Sound, IdsOK, Ids
    <3>2. ASSUME NEW o \in PendingOrders, ro = Resting(o, height + 1) PROVE ro.id[1] \in submitted
      <4>1. ro.id = o.id
          BY <3>2 DEF Resting
      <4>2. o.id[1] \in submitted
          BY PendingFacts DEF WaitingOK
      <4> QED BY <4>1, <4>2
    <3> QED BY <2>2, <3>1, <3>2
  <2>4. ro.expires_at_block \in Nat
      BY <1>2 DEF RestingOK
  <2>5. r.id = ro.id /\ r.expires_at_block = ro.expires_at_block /\ r.market = ro.market
      BY <2>1 DEF SameOrder
  <2>6. height + 1 < ro.expires_at_block
      BY <2>1 DEF Stays
  <2> QED BY <1>0, <2>2, <2>3, <2>4, <2>5, <2>6 DEF Fresh
<1> HIDE DEF post
<1>7. \A r \in post.orders : \E ro \in T : r = Remainder(ro, s.fill[ro.id]) /\ ro \in Stays(t.book, s.fill, height + 1)
    BY <1>4
<1> QED BY <1>3, <1>5, <1>6, <1>7 DEF BookAfter, post

-----------------------------------------------------------------------------
(* Accounts after a block *)

AccountsType(accts) == accts \in [AllAccounts -> [balance : Int, position : [PositionKeys -> Int]]]

LEMMA SettledTypes ==
    ASSUME TypesOK, NEW batch, IsFiniteSet(batch), \A x \in batch : WireOK(x), NEW s, Executes(batch, s)
    PROVE  AccountsType(Settled(batch, s))
<1> DEFINE new == Settled(batch, s)
<1>1. \A a \in AllAccounts : /\ new[a].balance \in Int
                             /\ \A k \in PositionKeys : new[a].position[k] \in Int
  <2> TAKE a \in AllAccounts
  <2>1. accounts[a].balance \in Int /\ \A k \in PositionKeys : accounts[a].position[k] \in Int
      BY DEF TypesOK
  <2>2. new[a].balance \in Int
    <3>1. PICK x : x = SumFunctionOnSet(Paying(batch, s), Mine(batch, a))
        OBVIOUS
    <3>2. x \in Int
        BY <3>1, SettledAre, SumType
    <3>3. new[a].balance = accounts[a].balance + x
        BY <3>1, SettledAre
    <3> QED BY <2>1, <3>2, <3>3
  <2>3. ASSUME NEW k \in PositionKeys PROVE new[a].position[k] \in Int
    <3>1. PICK x : x = SumFunctionOnSet(Moving(batch, s), MineOn(batch, a, k))
        OBVIOUS
    <3>2. x \in Int
        BY <3>1, SettledAre, SumType
    <3>3. new[a].position[k] = accounts[a].position[k] + x
        BY <3>1, SettledAre
    <3> QED BY <2>1, <3>2, <3>3
  <2> QED BY <2>2, <2>3
<1>2. /\ new = [a \in AllAccounts |-> new[a]]
      /\ \A a \in AllAccounts : /\ new[a] = [balance |-> new[a].balance, position |-> new[a].position]
                                /\ new[a].position = [k \in PositionKeys |-> new[a].position[k]]
    BY DEF Settled, SettleBatch
<1> HIDE DEF new
<1>3. \A a \in AllAccounts : new[a] \in [balance : Int, position : [PositionKeys -> Int]]
  <2> TAKE a \in AllAccounts
  <2>1. new[a].position \in [PositionKeys -> Int]
      BY <1>1, <1>2
  <2> QED BY <1>1, <1>2, <2>1
<1>4. new \in [AllAccounts -> [balance : Int, position : [PositionKeys -> Int]]]
    BY <1>2, <1>3, Zenon
<1> QED BY <1>4 DEF AccountsType, new

Holding(accts, k) == [a \in AllAccounts |-> accts[a].position[k]]

LEMMA AllFinite == IsFiniteSet(AllAccounts) /\ IsFiniteSet(Markets) /\ MINT \in AllAccounts
BY MenuAssumption, FS_Union, FS_Singleton DEF AllAccounts

LEMMA TotalIs ==
    ASSUME NEW accts, AccountsType(accts), NEW k \in PositionKeys
    PROVE  /\ TotalPosition(accts, k) = SumFunctionOnSet(Holding(accts, k), AllAccounts)
           /\ Summands(Holding(accts, k), AllAccounts) /\ TotalPosition(accts, k) \in Int
<1>1. \A a \in AllAccounts : Holding(accts, k)[a] \in Int
    BY DEF AccountsType, Holding
<1>2. Summands(Holding(accts, k), AllAccounts)
    BY <1>1, AllFinite DEF Summands
<1>3. TotalPosition(accts, k) = SumFunctionOnSet(Holding(accts, k), AllAccounts)
    BY DEF TotalPosition, SumFunction, Holding
<1> QED BY <1>2, <1>3, SumType

LEMMA MarketKeys ==
    ASSUME NEW m \in Markets
    PROVE  <<m, "yes">> \in PositionKeys /\ <<m, "no">> \in PositionKeys
BY DEF PositionKeys, Outcomes

LEMMA ImbalanceType ==
    ASSUME NEW accts, AccountsType(accts), NEW m \in Markets
    PROVE  Imbalance(accts, m) \in Int /\ MintQty(accts, m) \in Nat
<1>1. Imbalance(accts, m) \in Int
    BY TotalIs, MarketKeys DEF Imbalance
<1> QED BY <1>1 DEF MintQty

LEMMA RevenueType ==
    ASSUME NEW accts, AccountsType(accts), NEW price, \A m \in Markets : price[m] \in 0..DOLLAR, NEW m \in Markets
    PROVE  MintRevenue(accts, price, m) \in Nat
<1>1. DOLLAR \in Nat /\ price[m] \in 0..DOLLAR
    BY OrderBookAssumption
<1>2. PICK p : p = IF MintOutcome(accts, m) = "yes" THEN price[m] ELSE DOLLAR - price[m]
    OBVIOUS
<1>3. p \in Nat
    BY <1>1, <1>2
<1>4. MintRevenue(accts, price, m) = Notional(p, MintQty(accts, m))
    BY <1>2 DEF MintRevenue
<1> QED BY <1>3, <1>4, ImbalanceType, Paid

Revenue(accts, price) == [m \in Markets |-> MintRevenue(accts, price, m)]

(* What minting does: MINT takes the imbalance, and is paid for it. *)
Minted(accts, price, new) ==
    /\ AccountsType(new)
    /\ \A a \in Accounts : new[a] = accts[a]
    /\ new[MINT].balance = accts[MINT].balance + SumFunctionOnSet(Revenue(accts, price), Markets)
    /\ SumFunctionOnSet(Revenue(accts, price), Markets) \in Nat
    /\ \A k \in PositionKeys : new[MINT].position[k] =
          accts[MINT].position[k] - (IF k[2] = MintOutcome(accts, k[1]) THEN MintQty(accts, k[1]) ELSE 0)
    /\ \A k \in PositionKeys : TotalPosition(new, k) =
          TotalPosition(accts, k) - (IF k[2] = MintOutcome(accts, k[1]) THEN MintQty(accts, k[1]) ELSE 0)
    /\ \A m \in Markets : Imbalance(new, m) = 0

LEMMA MintingIs ==
    ASSUME NEW accts, AccountsType(accts), NEW price, \A m \in Markets : price[m] \in 0..DOLLAR
    PROVE  Minted(accts, price, ApplyMinting(accts, price))
<1> DEFINE new == ApplyMinting(accts, price)
           taken(k) == IF k[2] = MintOutcome(accts, k[1]) THEN MintQty(accts, k[1]) ELSE 0
<1>0. MINT \in AllAccounts /\ MINT \notin Accounts /\ Accounts \subseteq AllAccounts /\ AllAccounts = Accounts \cup {MINT}
    BY ExchangeAssumption DEF AllAccounts
<1>1. PICK rev : rev = SumFunctionOnSet(Revenue(accts, price), Markets)
    OBVIOUS
<1>2. rev \in Nat
  <2>1. \A m \in Markets : Revenue(accts, price)[m] \in Nat
      BY RevenueType DEF Revenue
  <2> QED BY <1>1, <2>1, AllFinite, SumNat
<1>3. SumFunction([m \in Markets |-> MintRevenue(accts, price, m)]) = rev
    BY <1>1 DEF Revenue, SumFunction
<1>4. PICK was : was = accts[MINT]
    OBVIOUS
<1>5. was \in [balance : Int, position : [PositionKeys -> Int]]
    BY <1>0, <1>4 DEF AccountsType
<1>6. new = [accts EXCEPT ![MINT] =
                [balance |-> was.balance + rev,
                 position |-> [k \in PositionKeys |->
                     IF k[2] = MintOutcome(accts, k[1]) THEN was.position[k] - MintQty(accts, k[1])
                                                        ELSE was.position[k]]]]
    BY <1>3, <1>4 DEF ApplyMinting
<1>7. /\ DOMAIN accts = AllAccounts
      /\ \A a \in AllAccounts : accts[a] \in [balance : Int, position : [PositionKeys -> Int]]
    BY DEF AccountsType
<1>8. PICK pos : pos = [k \in PositionKeys |->
                     IF k[2] = MintOutcome(accts, k[1]) THEN was.position[k] - MintQty(accts, k[1])
                                                        ELSE was.position[k]]
    OBVIOUS
<1>9. new = [accts EXCEPT ![MINT] = [balance |-> was.balance + rev, position |-> pos]]
    BY <1>6, <1>8
<1> HIDE DEF new
<1>10. /\ \A a \in Accounts : new[a] = accts[a]
       /\ new[MINT] = [balance |-> was.balance + rev, position |-> pos]
       /\ DOMAIN new = AllAccounts /\ new = [a \in AllAccounts |-> new[a]]
    BY <1>0, <1>7, <1>9
<1>11. ASSUME NEW k \in PositionKeys
       PROVE  pos[k] = was.position[k] - taken(k) /\ taken(k) \in Nat /\ pos[k] \in Int /\ was.position[k] \in Int
  <2>1. k[1] \in Markets
      BY DEF PositionKeys
  <2>2. MintQty(accts, k[1]) \in Nat
      BY <2>1, ImbalanceType
  <2>3. was.position[k] \in Int
      BY <1>5
  <2>4. pos[k] = IF k[2] = MintOutcome(accts, k[1]) THEN was.position[k] - MintQty(accts, k[1]) ELSE was.position[k]
      BY <1>8
  <2> QED BY <2>2, <2>3, <2>4
<1>12. AccountsType(new)
  <2>1. pos \in [PositionKeys -> Int]
      BY <1>8, <1>11
  <2>2. was.balance + rev \in Int
      BY <1>2, <1>5
  <2>3. new[MINT] \in [balance : Int, position : [PositionKeys -> Int]]
      BY <1>10, <2>1, <2>2
  <2>4. \A a \in AllAccounts : new[a] \in [balance : Int, position : [PositionKeys -> Int]]
      BY <1>0, <1>7, <1>10, <2>3
  <2> QED BY <1>10, <2>4, Zenon DEF AccountsType
<1>13. ASSUME NEW k \in PositionKeys
       PROVE  TotalPosition(new, k) = TotalPosition(accts, k) - taken(k) /\ new[MINT].position[k] = was.position[k] - taken(k)
  <2> DEFINE f == Holding(accts, k)
             g == Holding(new, k)
  <2>1. \A a \in AllAccounts : f[a] = accts[a].position[k] /\ g[a] = new[a].position[k]
      BY DEF Holding
  <2>2. new[MINT].position[k] = pos[k]
      BY <1>10
  <2>3. g[MINT] = was.position[k] - taken(k) /\ f[MINT] = was.position[k] /\ g[MINT] \in Int
      BY <1>0, <1>4, <1>11, <2>1, <2>2
  <2>4. \A a \in AllAccounts \ {MINT} : f[a] = g[a]
      BY <1>0, <1>10, <2>1
  <2>5. Summands(f, AllAccounts) /\ TotalPosition(accts, k) = SumFunctionOnSet(f, AllAccounts)
        /\ TotalPosition(accts, k) \in Int /\ TotalPosition(new, k) = SumFunctionOnSet(g, AllAccounts)
      BY <1>12, TotalIs
  <2>6. SumFunctionOnSet(g, AllAccounts) = SumFunctionOnSet(f, AllAccounts) + (g[MINT] - f[MINT])
    <3> HIDE DEF f, g
    <3> QED BY <1>0, <2>3, <2>4, <2>5, SumChange
  <2>7. taken(k) \in Nat /\ was.position[k] \in Int
      BY <1>11
  <2>8. TotalPosition(new, k) = TotalPosition(accts, k) - taken(k)
    <3> HIDE DEF f, g, taken
    <3> QED BY <2>3, <2>5, <2>6, <2>7
  <2>9. new[MINT].position[k] = was.position[k] - taken(k)
      BY <1>11, <2>2
  <2> QED BY <2>8, <2>9
<1>14. ASSUME NEW m \in Markets PROVE Imbalance(new, m) = 0
  <2>1. PICK y, n : y = TotalPosition(accts, <<m, "yes">>) /\ n = TotalPosition(accts, <<m, "no">>)
      OBVIOUS
  <2>2. y \in Int /\ n \in Int /\ Imbalance(accts, m) = y - n
      BY <2>1, MarketKeys, TotalIs DEF Imbalance
  <2>3. Imbalance(new, m) = (y - taken(<<m, "yes">>)) - (n - taken(<<m, "no">>))
      BY <1>13, <2>1, MarketKeys DEF Imbalance
  <2>4. CASE y - n > 0
    <3>1. MintOutcome(accts, m) = "yes" /\ MintQty(accts, m) = y - n
        BY <2>2, <2>4 DEF MintOutcome, MintQty
    <3>2. taken(<<m, "yes">>) = y - n /\ taken(<<m, "no">>) = 0
        BY <3>1
    <3> HIDE DEF taken
    <3> QED BY <2>2, <2>3, <3>2
  <2>5. CASE ~(y - n > 0)
    <3>1. MintOutcome(accts, m) = "no" /\ MintQty(accts, m) = -(y - n)
        BY <2>2, <2>5 DEF MintOutcome, MintQty
    <3>2. taken(<<m, "yes">>) = 0 /\ taken(<<m, "no">>) = -(y - n)
        BY <3>1
    <3> HIDE DEF taken
    <3> QED BY <2>2, <2>3, <3>2
  <2> QED BY <2>4, <2>5
<1>15. new[MINT].balance = accts[MINT].balance + rev
    BY <1>4, <1>10
<1> QED BY <1>1, <1>2, <1>4, <1>10, <1>12, <1>13, <1>14, <1>15 DEF Minted, new

Witness(t, s) ==
    [height |-> height + 1, pre |-> committed, post |-> Post(t, s),
     batch |-> t.batch, rejections |-> t.rejections,
     constraints |-> t.constraints, fill |-> s.fill, price |-> s.price,
     system |-> accounts, cancelled |-> cancelled,
     resolved_now |-> resolved_now, resolved |-> resolved]

Refuses(t, s) ==
    /\ ~AccountsSound(Final(t.batch, s))
    /\ halted' = TRUE
    /\ UNCHANGED <<height, accounts, resolved, book, pending, cancelled, resolved_now, committed, submitted,
                   verdict, evicted, cash_ops, injected, legs>>

Commits(t, s) ==
    /\ AccountsSound(Final(t.batch, s))
    /\ height' = height + 1 /\ accounts' = Final(t.batch, s) /\ book' = Post(t, s)
    /\ pending' = <<>> /\ cancelled' = {} /\ resolved_now' = {} /\ committed' = Post(t, s).orders
    /\ evicted' = {ro.id : ro \in {r \in Dropped : r.market \in Active}}
    /\ verdict' = Violations(Witness(t, s))
    /\ legs' = legs + Cardinality({o \in t.batch : s.fill[o.id] > 0})
                    + Cardinality({m \in Markets : Imbalance(Settled(t.batch, s), m) # 0})
    /\ UNCHANGED <<halted, resolved, submitted, cash_ops, injected>>

Blocks(t, s) ==
    /\ LoopInv(t, PendingOrders) /\ Executes(t.batch, s) /\ Allowed(t.batch, t.constraints, s)
    /\ OnTick(t.batch, s)
    /\ Refuses(t, s) \/ Commits(t, s)

LEMMA BlockSteps ==
    ASSUME Held, ProduceBlock
    PROVE  ~halted /\ \E t : \E s : Blocks(t, s)
<1>1. PICK t : t = Batch.taken
    OBVIOUS
<1>2. LoopInv(t, PendingOrders)
    BY <1>1, BatchInv DEF Held
<1>3. Batch.invalid = Dropped
    BY BatchIs
<1>4. \E s \in Solutions(t.batch, t.constraints) : Refuses(t, s) \/ Commits(t, s)
    BY <1>1, <1>3 DEF ProduceBlock, Refuses, Commits, Final, Settled, Post, Witness
<1>5. PICK s \in Solutions(t.batch, t.constraints) : Refuses(t, s) \/ Commits(t, s)
    BY <1>4
<1>6. Executes(t.batch, s) /\ Allowed(t.batch, t.constraints, s) /\ OnTick(t.batch, s)
    BY Solved
<1>7. Blocks(t, s)
    BY <1>2, <1>5, <1>6 DEF Blocks
<1>8. ~halted
    BY DEF ProduceBlock
<1> QED BY <1>7, <1>8

(* Waiting submissions stay what they are until the block. *)
LEMMA OrdersKept ==
    ASSUME height' = height
    PROVE  \A i : Orders(i)' = Orders(i) /\ Waiting(i)' = Waiting(i)
<1> TAKE i
<1>1. Orders(i)' = Orders(i)
    BY DEF Orders
<1> QED BY <1>1 DEF Waiting

LEMMA PendingKept ==
    ASSUME PendingOK, pending' = pending, height' = height, submitted \subseteq submitted',
           \A id \in Ids(book'.orders) \cup cancelled' : id \in Ids(book.orders) \cup cancelled \/ id[1] \notin submitted
    PROVE  PendingOK'
<1>1. PICK src \in [1..Len(pending) -> submitted] : PendingFrom(src)
    BY DEF PendingOK
<1>2. src \in [1..Len(pending') -> submitted']
    BY <1>1
<1>3. \A i, j \in 1..Len(pending') : src[i] = src[j] => i = j
    BY <1>1 DEF PendingFrom
<1>4. ASSUME NEW j \in 1..Len(pending')
      PROVE  /\ pending'[j] = Waiting(src[j])'
             /\ Menu[src[j]].max_capital = 0 =>
                   /\ Len(Menu[src[j]].orders) > 1
                   /\ \A k \in 1..Len(Menu[src[j]].orders) : ValidRestingShape(Orders(src[j])[k])'
  <2>1. j \in 1..Len(pending)
      OBVIOUS
  <2>2. /\ pending[j] = Waiting(src[j])
        /\ Menu[src[j]].max_capital = 0 =>
              /\ Len(Menu[src[j]].orders) > 1
              /\ \A k \in 1..Len(Menu[src[j]].orders) : ValidRestingShape(Orders(src[j])[k])
      BY <1>1, <2>1, Zenon DEF PendingFrom
  <2>3. \A k : ValidRestingShape(Orders(src[j])[k])' <=> ValidRestingShape(Orders(src[j])[k])
      BY OrdersKept, Zenon
  <2> QED BY <2>2, <2>3, OrdersKept
<1>5. \A id \in Ids(book'.orders) \cup cancelled' : \A j \in 1..Len(pending') : id[1] # src[j]
    BY <1>1 DEF PendingFrom
<1>6. PendingFrom(src)'
    BY <1>3, <1>4, <1>5, Zenon DEF PendingFrom
<1>7. (pending \in Seq(Range(pending)))'
    BY DEF PendingOK
<1> QED BY <1>2, <1>6, <1>7 DEF PendingOK

LEMMA RefusesHeld ==
    ASSUME Held, NEW t, NEW s, Refuses(t, s)
    PROVE  Held'
<1>1. UNCHANGED <<height, accounts, resolved, book, pending, cancelled, resolved_now, submitted, cash_ops, injected, legs>>
      /\ halted' = TRUE
    BY DEF Refuses
<1>2. TypesOK'
    BY <1>1 DEF Held, Sound, TypesOK
<1>3. BookOK(book)'
    BY <1>1 DEF Held, Sound
<1>4. PendingOK'
    BY <1>1, PendingKept DEF Held, Sound
<1>5. IdsOK'
    BY <1>1 DEF Held, Sound, IdsOK
<1>6. Covered'
    BY <1>1 DEF Held, Covered, Makers, Active
<1>7. SharesCovered'
    BY <1>1 DEF Held, SharesCovered, Shorts, Active
<1>8. NoSelfCross'
    BY <1>1 DEF Held, NoSelfCross, GroupNow
<1> QED BY <1>2, <1>3, <1>4, <1>5, <1>6, <1>7, <1>8 DEF Held, Sound

LEMMA CommitsHeld ==
    ASSUME Held, NEW t, NEW s, Blocks(t, s), Commits(t, s)
    PROVE  Held'
<1>0. /\ height' = height + 1 /\ accounts' = Final(t.batch, s) /\ book' = Post(t, s)
      /\ pending' = <<>> /\ cancelled' = {} /\ resolved_now' = {}
      /\ resolved' = resolved /\ submitted' = submitted /\ halted' = halted /\ cash_ops' = cash_ops
      /\ injected' = injected
    BY DEF Commits
<1>1. Sound /\ TypesOK /\ LoopInv(t, PendingOrders) /\ Executes(t.batch, s)
    BY DEF Held, Blocks, Sound
<1>2. BookAfter(t, s) /\ CoveredAfter(t, s)
    BY <1>1, BlockBook, BlockCover
<1>3. IsFiniteSet(t.batch) /\ \A x \in t.batch : WireOK(x)
    BY <1>1, BatchFacts
<1>4. AccountsType(Final(t.batch, s))
  <2>1. AccountsType(Settled(t.batch, s))
      BY <1>1, <1>3, SettledTypes
  <2>2. \A m \in Markets : s.price[m] \in 0..DOLLAR
      BY <1>1 DEF Executes
  <2> QED BY <2>1, <2>2, MintingIs DEF Minted, Final
<1>5. TypesOK'
  <2>1. legs' \in Nat
    <3> DEFINE A == {o \in t.batch : s.fill[o.id] > 0}
               B == {m \in Markets : Imbalance(Settled(t.batch, s), m) # 0}
    <3>1. IsFiniteSet(A) /\ IsFiniteSet(B)
        BY <1>3, AllFinite, FS_Subset
    <3>2. Cardinality(A) \in Nat /\ Cardinality(B) \in Nat
        BY <3>1, FS_CardinalityType
    <3>3. legs' = legs + Cardinality(A) + Cardinality(B) /\ legs \in Nat
        BY <1>1 DEF Commits, TypesOK
    <3> HIDE DEF A, B
    <3> QED BY <3>2, <3>3
  <2>2. accounts' \in [AllAccounts -> [balance : Int, position : [PositionKeys -> Int]]]
      BY <1>0, <1>4 DEF AccountsType
  <2> QED BY <1>0, <1>1, <2>1, <2>2 DEF TypesOK
<1>6. BookOK(book)'
    BY <1>0, <1>2 DEF BookAfter
<1>7. PendingOK'
  <2>1. Len(pending') = 0 /\ pending' \in Seq(Range(pending'))
      BY <1>0
  <2>2. [j \in 1..Len(pending') |-> 0] \in [1..Len(pending') -> submitted']
      BY <2>1
  <2>3. PendingFrom([j \in 1..Len(pending) |-> 0])'
      BY <2>1 DEF PendingFrom
  <2> QED BY <2>1, <2>2, <2>3 DEF PendingOK
<1>8. IdsOK'
    BY <1>0, <1>2 DEF IdsOK, BookAfter, Ids
<1>9. Makers' = Makers /\ Shorts' = Shorts /\ Active' = Active /\ GroupNow' = GroupNow
    BY <1>0 DEF Makers, Shorts, Active, GroupNow, Sells
<1>10. SharesCovered'
    BY <1>0, <1>2, <1>9 DEF SharesCovered, CoveredAfter
<1>11. Shorts \subseteq Makers
    BY DEF Shorts, Makers
<1>12. Covered'
    BY <1>0, <1>2, <1>9, <1>11 DEF Covered, CoveredAfter
<1>13. NoSelfCross'
  <2>1. NoCross(book'.orders)
      BY <1>0, <1>2 DEF BookAfter
  <2> QED BY <1>9, <2>1 DEF NoCross, NoSelfCross
<1> QED BY <1>5, <1>6, <1>7, <1>8, <1>10, <1>12, <1>13 DEF Held, Sound

LEMMA ProduceBlockHeld ==
    ASSUME Held, ProduceBlock
    PROVE  Held'
<1>1. PICK t : \E s : Blocks(t, s)
    BY BlockSteps
<1>2. PICK s : Blocks(t, s)
    BY <1>1
<1> QED BY <1>2, RefusesHeld, CommitsHeld DEF Blocks

-----------------------------------------------------------------------------
(* Admission *)

(* A submission not made before shares no id with the book. *)
LEMMA NewIds ==
    ASSUME Sound, NEW i \in 1..Len(Menu), i \notin submitted, NEW k \in 1..Len(Menu[i].orders)
    PROVE  /\ WireOK(Orders(i)[k]) /\ SentBy(Orders(i)[k], i, k) /\ Orders(i)[k].id[1] = i
           /\ Orders(i)[k].id \notin Ids(book.orders) \cup cancelled
<1>1. WireOK(Orders(i)[k]) /\ SentBy(Orders(i)[k], i, k)
    BY SentOrder DEF Sound, TypesOK
<1>2. Orders(i)[k].id = <<i, k>>
    BY <1>1 DEF SentBy
<1>3. Orders(i)[k].id[1] = i
    BY <1>2
<1>4. \A id \in Ids(book.orders) \cup cancelled : id[1] \in submitted
    BY DEF Sound, IdsOK
<1> QED BY <1>1, <1>3, <1>4

LEMMA AdmitDirectHeld ==
    ASSUME Held, NEW i \in 1..Len(Menu), AdmitDirect(i)
    PROVE  Held'
<1> DEFINE o == Orders(i)[1]
<1>1. /\ Sound /\ i \notin submitted /\ Len(Menu[i].orders) = 1 /\ Menu[i].max_capital = 0
      /\ ValidRestingShape(o) /\ Shortfall(book, o, accounts[o.account], 0, 0) = "none"
      /\ ~WouldCompleteSet(book.orders \cup PendingOrders, o)
      /\ book' = Accept(book, o, height) /\ submitted' = submitted \cup {i}
    BY DEF Held, AdmitDirect, Submittable
<1>2. UNCHANGED <<pending, cancelled, marketVars, blockVars, cashVars>>
    BY DEF AdmitDirect
<1>3. /\ pending' = pending /\ cancelled' = cancelled /\ resolved' = resolved /\ resolved_now' = resolved_now
      /\ height' = height /\ halted' = halted /\ accounts' = accounts /\ cash_ops' = cash_ops
      /\ injected' = injected /\ legs' = legs
    BY <1>2 DEF marketVars, blockVars, cashVars
<1>4. /\ WireOK(o) /\ SentBy(o, i, 1) /\ o.id[1] = i /\ o.id \notin Ids(book.orders) \cup cancelled
      /\ height \in Nat /\ TypesOK /\ BookOK(book)
  <2>1. 1 \in 1..Len(Menu[i].orders)
      BY <1>1
  <2> QED BY <1>1, <2>1, NewIds DEF Sound, TypesOK
<1> HIDE DEF o
<1>5. o.max_fill > 0 /\ o.max_fill \in Nat /\ o.limit \in Nat
    BY <1>1, <1>4 DEF ValidRestingShape, WireOK, OrderOK
<1>6. PICK r : r = Resting(o, height)
    OBVIOUS
<1>7. r.id = o.id /\ SameBid(o, r)
    BY <1>4, <1>5, <1>6, RestingOf DEF SameBid
<1>8. Grown(book, o, height, book')
  <2>1. \A x \in book.orders : o.id # x.id
      BY <1>4 DEF Ids
  <2> QED BY <1>1, <1>4, <1>5, <2>1, AcceptOK
<1>9. book'.orders = book.orders \cup {r} /\ BookOK(book')
    BY <1>6, <1>8 DEF Grown
<1>10. TypesOK'
  <2>1. submitted' \subseteq 1..Len(Menu)
      BY <1>1, <1>4 DEF TypesOK
  <2> QED BY <1>3, <1>4, <2>1 DEF TypesOK
<1>11. Ids(book'.orders) = Ids(book.orders) \cup {o.id}
    BY <1>7, <1>9 DEF Ids
<1>12. PendingOK'
  <2>1. \A id \in Ids(book'.orders) \cup cancelled' : id \in Ids(book.orders) \cup cancelled \/ id[1] \notin submitted
      BY <1>1, <1>3, <1>4, <1>11
  <2>2. PendingOK /\ submitted \subseteq submitted'
      BY <1>1 DEF Sound
  <2> QED BY <1>3, <2>1, <2>2, PendingKept
<1>13. IdsOK'
  <2>1. \A id \in Ids(book.orders) \cup cancelled : id[1] \in submitted
      BY <1>1 DEF Sound, IdsOK
  <2>2. cancelled \cap Ids(book.orders) = {}
      BY <1>1 DEF Sound, IdsOK
  <2> QED BY <1>1, <1>3, <1>4, <1>11, <2>1, <2>2 DEF IdsOK
<1>14. Makers' = Makers /\ Shorts' = Shorts /\ Active' = Active /\ GroupNow' = GroupNow
  <2>1. Makers' = Makers
      BY <1>1 DEF Makers
  <2>2. Shorts' = Shorts
      BY <1>1 DEF Shorts, Sells
  <2> QED BY <1>3, <2>1, <2>2 DEF Active, GroupNow
<1>15. /\ \A a \in Accounts : book.cash[a] <= accounts[a].balance => book'.cash[a] <= accounts[a].balance
       /\ \A a \in Accounts : \A k \in PositionKeys :
             book.shares[a][k] <= accounts[a].position[k] => book'.shares[a][k] <= accounts[a].position[k]
    BY <1>1, <1>4, <1>8, TakenCover
<1>16. Active \X Outcomes \subseteq PositionKeys
    BY DEF Active, PositionKeys
<1>17. Covered'
    BY <1>3, <1>14, <1>15, <1>16 DEF Held, Covered
<1>18. SharesCovered'
    BY <1>3, <1>14, <1>15, <1>16 DEF Held, SharesCovered
<1>19. NoSelfCross'
  <2> DEFINE bids == book.orders \cup PendingOrders
  <2>1. Priced(book.orders) /\ Priced(PendingOrders)
    <3>1. \A x \in PendingOrders : x.limit \in Nat
        BY <1>1, PendingFacts DEF WaitingOK, WireOK, OrderOK
    <3> QED BY <1>1, <1>4, <3>1, BookPriced, PendingFinite DEF Priced
  <2>2. Priced(bids \cup {o}) /\ Priced(book.orders \cup {r})
    <3>1. IsFiniteSet(bids) /\ IsFiniteSet(book.orders)
        BY <2>1, FS_Union DEF Priced
    <3>2. IsFiniteSet(bids \cup {o}) /\ IsFiniteSet(book.orders \cup {r})
        BY <3>1, FS_AddElement
    <3>3. r.limit = o.limit
        BY <1>7 DEF SameBid
    <3> QED BY <1>5, <2>1, <3>2, <3>3 DEF Priced
  <2>3. Matched(book.orders \cup {r}, bids \cup {o})
    <3>1. \A x : SameBid(x, x)
        BY DEF SameBid
    <3> QED BY <1>7, <2>2, <3>1 DEF Matched
  <2>4. NoCross(book.orders)
      BY DEF Held, NoSelfCross, NoCross
  <2>5. o.outcome \in Outcomes
      BY <1>4 DEF WireOK, OrderOK
  <2>6. NoCross(book.orders \cup {r})
    <3> HIDE DEF bids
    <3>1. ~WouldCompleteSet(bids, o)
        BY <1>1 DEF bids
    <3> QED BY <1>7, <2>3, <2>4, <2>5, <3>1, NoCrossMore
  <2> QED BY <1>9, <1>14, <2>6 DEF NoCross, NoSelfCross
<1> QED BY <1>9, <1>10, <1>12, <1>13, <1>17, <1>18, <1>19 DEF Held, Sound

(* One more submission waits. *)
LEMMA PendingMore ==
    ASSUME Sound, NEW i \in 1..Len(Menu), i \notin submitted, pending' = Append(pending, Waiting(i)),
           submitted' = submitted \cup {i}, height' = height, book' = book, cancelled' = cancelled,
           Menu[i].max_capital = 0 =>
              /\ Len(Menu[i].orders) > 1
              /\ \A k \in 1..Len(Menu[i].orders) : ValidRestingShape(Orders(i)[k])
    PROVE  PendingOK'
<1>1. PICK src : From(src)
    BY Sources
<1>2. /\ src \in [1..Len(pending) -> submitted] /\ PendingFrom(src)
      /\ Len(pending) \in Nat /\ pending \in Seq(Range(pending))
    BY <1>1, Sources DEF From
<1>3. PICK n : n = Len(pending)
    OBVIOUS
<1>4. PICK new : new = [j \in 1..(n + 1) |-> IF j = n + 1 THEN i ELSE src[j]]
    OBVIOUS
<1>5. n \in Nat /\ Len(pending') = n + 1
    BY <1>2, <1>3
<1>6. /\ new[n + 1] = i /\ pending'[n + 1] = Waiting(i)
      /\ \A j \in 1..n : new[j] = src[j] /\ pending'[j] = pending[j] /\ src[j] \in submitted
  <2>1. pending'[n + 1] = Waiting(i) /\ \A j \in 1..n : pending'[j] = pending[j]
      BY <1>2, <1>3
  <2>2. new[n + 1] = i /\ \A j \in 1..n : new[j] = src[j]
      BY <1>4, <1>5
  <2>3. \A j \in 1..n : src[j] \in submitted
      BY <1>2, <1>3
  <2> QED BY <2>1, <2>2, <2>3
<1>7. \A j \in 1..(n + 1) : j = n + 1 \/ j \in 1..n
    BY <1>5
<1>8. new \in [1..(n + 1) -> submitted']
    BY <1>4, <1>6, <1>7
<1>9. \A x, y \in 1..(n + 1) : new[x] = new[y] => x = y
  <2>1. \A x, y \in 1..n : src[x] = src[y] => x = y
      BY <1>2, <1>3 DEF PendingFrom
  <2> QED BY <1>6, <1>7, <2>1
<1>10. ASSUME NEW j \in 1..(n + 1)
       PROVE  /\ pending'[j] = Waiting(new[j])'
              /\ Menu[new[j]].max_capital = 0 =>
                    /\ Len(Menu[new[j]].orders) > 1
                    /\ \A k \in 1..Len(Menu[new[j]].orders) : ValidRestingShape(Orders(new[j])[k])'
  <2>1. /\ pending'[j] = Waiting(new[j])
        /\ Menu[new[j]].max_capital = 0 =>
              /\ Len(Menu[new[j]].orders) > 1
              /\ \A k \in 1..Len(Menu[new[j]].orders) : ValidRestingShape(Orders(new[j])[k])
    <3>1. CASE j = n + 1
        BY <1>6, <3>1, Zenon
    <3>2. CASE j \in 1..n
      <4>1. /\ pending[j] = Waiting(src[j])
            /\ Menu[src[j]].max_capital = 0 =>
                  /\ Len(Menu[src[j]].orders) > 1
                  /\ \A k \in 1..Len(Menu[src[j]].orders) : ValidRestingShape(Orders(src[j])[k])
          BY <1>2, <1>3, <3>2, Zenon DEF PendingFrom
      <4>2. new[j] = src[j] /\ pending'[j] = pending[j]
          BY <1>6, <3>2, Zenon
      <4> QED BY <4>1, <4>2, Zenon
    <3> QED BY <1>7, <3>1, <3>2
  <2>3. \A k : ValidRestingShape(Orders(new[j])[k])' <=> ValidRestingShape(Orders(new[j])[k])
      BY OrdersKept, Zenon
  <2> QED BY <2>1, <2>3, OrdersKept
<1>11. \A id \in Ids(book'.orders) \cup cancelled' : \A j \in 1..(n + 1) : id[1] # new[j]
  <2>1. \A id \in Ids(book.orders) \cup cancelled : id[1] \in submitted
      BY DEF Sound, IdsOK
  <2>2. \A id \in Ids(book.orders) \cup cancelled : \A j \in 1..n : id[1] # src[j]
      BY <1>2, <1>3 DEF PendingFrom
  <2> QED BY <1>6, <1>7, <2>1, <2>2
<1>12. PendingFrom(new)'
    BY <1>5, <1>9, <1>10, <1>11, Zenon DEF PendingFrom
<1>13. (pending \in Seq(Range(pending)))'
  <2>1. pending \in Seq(Range(pending) \cup {Waiting(i)})
      BY <1>2
  <2>2. pending' \in Seq(Range(pending) \cup {Waiting(i)})
      BY <2>1
  <2>3. DOMAIN pending' = 1..Len(pending')
      BY <2>2
  <2>4. \A j \in 1..Len(pending') : pending'[j] \in Range(pending')
      BY <2>3 DEF Range
  <2> QED BY <2>2, <2>4
<1> QED BY <1>5, <1>8, <1>12, <1>13 DEF PendingOK

(* A submission that waits: no order, account or market changes. *)
Waits(i) ==
    /\ i \notin submitted /\ pending' = Append(pending, Waiting(i)) /\ submitted' = submitted \cup {i}
    /\ (Menu[i].max_capital = 0 =>
          /\ Len(Menu[i].orders) > 1
          /\ \A k \in 1..Len(Menu[i].orders) : ValidRestingShape(Orders(i)[k]))
    /\ UNCHANGED <<book, cancelled, marketVars, blockVars, cashVars>>

LEMMA AdmitWaits ==
    ASSUME Held, NEW i \in 1..Len(Menu), AdmitDeferred(i) \/ AdmitBundle(i)
    PROVE  Waits(i)
<1>0. Menu[i].max_capital \in Nat
    BY MenuTypes
<1>1. CASE AdmitDeferred(i)
    BY <1>1 DEF AdmitDeferred, Submittable, Waits, Waiting
<1>2. CASE AdmitBundle(i)
  <2>1. Menu[i].max_capital # 0
      BY <1>0, <1>2 DEF AdmitBundle
  <2> QED BY <1>2, <2>1 DEF AdmitBundle, Submittable, Waits, Waiting
<1> QED BY <1>1, <1>2

LEMMA WaitsHeld ==
    ASSUME Held, NEW i \in 1..Len(Menu), Waits(i)
    PROVE  Held'
<1>1. /\ Sound /\ TypesOK /\ i \notin submitted /\ submitted' = submitted \cup {i}
      /\ book' = book /\ cancelled' = cancelled /\ resolved' = resolved /\ resolved_now' = resolved_now
      /\ height' = height /\ halted' = halted /\ accounts' = accounts /\ cash_ops' = cash_ops
      /\ injected' = injected /\ legs' = legs
    BY DEF Held, Sound, Waits, marketVars, blockVars, cashVars
<1>2. TypesOK'
  <2>1. submitted' \subseteq 1..Len(Menu)
      BY <1>1 DEF TypesOK
  <2> QED BY <1>1, <2>1 DEF TypesOK
<1>3. BookOK(book)'
    BY <1>1 DEF Sound
<1>4. PendingOK'
    BY <1>1, PendingMore DEF Waits
<1>5. IdsOK'
    BY <1>1 DEF Sound, IdsOK
<1>6. Makers \subseteq Makers' /\ Shorts \subseteq Shorts' /\ Active' = Active /\ GroupNow' = GroupNow
  <2>1. Makers \subseteq Makers'
      BY <1>1 DEF Makers
  <2>2. Shorts \subseteq Shorts'
      BY <1>1 DEF Shorts, Sells
  <2> QED BY <1>1, <2>1, <2>2 DEF Active, GroupNow
<1>7. Covered'
    BY <1>1, <1>6 DEF Held, Covered
<1>8. SharesCovered'
    BY <1>1, <1>6 DEF Held, SharesCovered
<1>9. NoSelfCross'
    BY <1>1, <1>6 DEF Held, NoSelfCross
<1> QED BY <1>2, <1>3, <1>4, <1>5, <1>7, <1>8, <1>9 DEF Held, Sound

LEMMA CancelOrderHeld ==
    ASSUME Held, NEW ro \in book.orders, CancelOrder(ro)
    PROVE  Held'
<1>1. /\ Sound /\ TypesOK /\ book' = Release(book, {ro}) /\ cancelled' = cancelled \cup {ro.id}
      /\ pending' = pending /\ submitted' = submitted /\ resolved' = resolved /\ resolved_now' = resolved_now
      /\ height' = height /\ halted' = halted /\ accounts' = accounts /\ cash_ops' = cash_ops
      /\ injected' = injected /\ legs' = legs
    BY DEF Held, Sound, CancelOrder, marketVars, blockVars, cashVars
<1>2. BookOK(book) /\ {ro} \subseteq book.orders
    BY <1>1 DEF Sound
<1>3. BookOK(book') /\ book'.orders = book.orders \ {ro} /\ Less(book', book)
    BY <1>1, <1>2, ReleaseOK
<1>4. TypesOK'
    BY <1>1 DEF TypesOK
<1>5. Ids(book'.orders) \subseteq Ids(book.orders) /\ ro.id \in Ids(book.orders) /\ ro.id \notin Ids(book'.orders)
    BY <1>2, <1>3 DEF Ids, BookOK
<1>6. PendingOK'
  <2>1. \A id \in Ids(book'.orders) \cup cancelled' : id \in Ids(book.orders) \cup cancelled
      BY <1>1, <1>5
  <2> QED BY <1>1, <2>1, PendingKept DEF Sound
<1>7. IdsOK'
    BY <1>1, <1>5 DEF Sound, IdsOK
<1>8. Makers' = Makers /\ Shorts' = Shorts /\ Active' = Active /\ GroupNow' = GroupNow
    BY <1>1 DEF Makers, Shorts, Active, GroupNow, Sells
<1>9. \A a \in Accounts : /\ book'.cash[a] \in Nat /\ book.cash[a] \in Nat /\ book'.cash[a] <= book.cash[a]
                          /\ accounts[a].balance \in Int
                          /\ \A k \in PositionKeys :
                                /\ book'.shares[a][k] \in Nat /\ book.shares[a][k] \in Nat
                                /\ book'.shares[a][k] <= book.shares[a][k] /\ accounts[a].position[k] \in Int
  <2> TAKE a \in Accounts
  <2>1. accounts[a].balance \in Int /\ \A k \in PositionKeys : accounts[a].position[k] \in Int
      BY <1>1, AccountTypes
  <2>2. /\ book'.cash[a] \in Nat /\ book.cash[a] \in Nat
        /\ \A k \in PositionKeys : book'.shares[a][k] \in Nat /\ book.shares[a][k] \in Nat
      BY <1>2, <1>3, BookSums
  <2>3. book'.cash[a] <= book.cash[a] /\ \A k \in PositionKeys : book'.shares[a][k] <= book.shares[a][k]
      BY <1>3 DEF Less
  <2> QED BY <2>1, <2>2, <2>3
<1>10. Active \X Outcomes \subseteq PositionKeys
    BY DEF Active, PositionKeys
<1>11. Covered'
  <2>1. ASSUME NEW a \in Accounts \ Makers
        PROVE  /\ book'.cash[a] <= accounts[a].balance
               /\ \A k \in Active \X Outcomes : book'.shares[a][k] <= accounts[a].position[k]
    <3>1. /\ book.cash[a] <= accounts[a].balance
          /\ \A k \in Active \X Outcomes : book.shares[a][k] <= accounts[a].position[k]
        BY DEF Held, Covered
    <3> QED BY <1>9, <1>10, <3>1
  <2> QED BY <1>1, <1>8, <2>1 DEF Covered
<1>12. SharesCovered'
  <2>1. ASSUME NEW a \in Accounts \ Shorts, NEW k \in Active \X Outcomes
        PROVE  book'.shares[a][k] <= accounts[a].position[k]
    <3>1. book.shares[a][k] <= accounts[a].position[k]
        BY DEF Held, SharesCovered
    <3> QED BY <1>9, <1>10, <3>1
  <2> QED BY <1>1, <1>8, <2>1 DEF SharesCovered
<1>13. NoSelfCross'
  <2>1. \A x : SameBid(x, x)
      BY DEF SameBid
  <2>2. Matched(book'.orders, book.orders)
      BY <1>2, <1>3, <2>1, BookPriced DEF Matched
  <2>3. NoCross(book.orders)
      BY DEF Held, NoSelfCross, NoCross
  <2>4. NoCross(book'.orders)
      BY <2>2, <2>3, NoCrossMatched
  <2> QED BY <1>8, <2>4 DEF NoCross, NoSelfCross
<1> QED BY <1>3, <1>4, <1>6, <1>7, <1>11, <1>12, <1>13 DEF Held, Sound

-----------------------------------------------------------------------------
(* Cash *)

(* One account's balance changes, not below what its orders reserve. *)
Moved(a, new) ==
    /\ accounts' = [accounts EXCEPT ![a].balance = new]
    /\ new \in Int
    /\ book.cash[a] <= accounts[a].balance => book.cash[a] <= new
    /\ cash_ops' \in Nat /\ injected' \in Int
    /\ UNCHANGED <<legs, marketVars, orderVars, blockVars>>

LEMMA CashMoved ==
    ASSUME Held, NEW c \in CashMoves, Deposit(c[1], c[2]) \/ Withdraw(c[1], c[2])
    PROVE  c[1] \in Accounts /\ \E new : Moved(c[1], new)
<1>1. c[1] \in Accounts /\ c[2] \in Nat
    BY ExchangeAssumption
<1>2. PICK a, n : a = c[1] /\ n = c[2]
    OBVIOUS
<1>3. /\ accounts[a].balance \in Int /\ book.cash[a] \in Nat
      /\ cash_ops \in Nat /\ injected \in Int
    BY <1>1, <1>2, AccountTypes, BookSums DEF Held, Sound, TypesOK
<1>4. CASE Deposit(a, n)
  <2>1. Moved(a, accounts[a].balance + n)
      BY <1>1, <1>2, <1>3, <1>4 DEF Deposit, Moved
  <2> QED BY <1>1, <1>2, <2>1
<1>5. CASE Withdraw(a, n)
  <2>1. Moved(a, accounts[a].balance - n)
      BY <1>1, <1>2, <1>3, <1>5 DEF Withdraw, Moved
  <2> QED BY <1>1, <1>2, <2>1
<1> QED BY <1>2, <1>4, <1>5

LEMMA MovedHeld ==
    ASSUME Held, NEW a \in Accounts, NEW new, Moved(a, new)
    PROVE  Held'
<1>1. /\ Sound /\ TypesOK /\ book' = book /\ cancelled' = cancelled
      /\ pending' = pending /\ submitted' = submitted /\ resolved' = resolved /\ resolved_now' = resolved_now
      /\ height' = height /\ halted' = halted /\ legs' = legs /\ new \in Int
      /\ accounts' = [accounts EXCEPT ![a].balance = new] /\ cash_ops' \in Nat /\ injected' \in Int
    BY DEF Held, Sound, Moved, marketVars, blockVars, orderVars
<1>2. /\ accounts \in [AllAccounts -> [balance : Int, position : [PositionKeys -> Int]]]
      /\ a \in AllAccounts
    BY <1>1 DEF TypesOK, AllAccounts
<1>3. /\ accounts' \in [AllAccounts -> [balance : Int, position : [PositionKeys -> Int]]]
      /\ accounts'[a].balance = new /\ accounts'[a].position = accounts[a].position
      /\ \A b \in AllAccounts : b # a => accounts'[b] = accounts[b]
    BY <1>1, <1>2
<1>4. \A b \in Accounts : accounts'[b].position = accounts[b].position
    BY <1>3 DEF AllAccounts
<1>5. TypesOK'
    BY <1>1, <1>3 DEF TypesOK
<1>6. PendingOK'
    BY <1>1, PendingKept DEF Sound
<1>7. IdsOK'
    BY <1>1 DEF Sound, IdsOK
<1>8. Makers' = Makers /\ Shorts' = Shorts /\ Active' = Active /\ GroupNow' = GroupNow
    BY <1>1 DEF Makers, Shorts, Active, GroupNow, Sells
<1>9. Covered'
  <2>1. ASSUME NEW b \in Accounts \ Makers PROVE book.cash[b] <= accounts'[b].balance
    <3>1. book.cash[b] <= accounts[b].balance
        BY DEF Held, Covered
    <3>2. CASE b = a
        BY <1>3, <3>1, <3>2 DEF Moved
    <3>3. CASE b # a
        BY <1>3, <3>1, <3>3 DEF AllAccounts
    <3> QED BY <3>2, <3>3
  <2> QED BY <1>1, <1>4, <1>8, <2>1 DEF Held, Covered
<1>10. SharesCovered'
    BY <1>1, <1>4, <1>8 DEF Held, SharesCovered
<1>11. NoSelfCross'
    BY <1>1, <1>8 DEF Held, NoSelfCross
<1>12. BookOK(book)'
    BY <1>1 DEF Sound
<1> QED BY <1>5, <1>6, <1>7, <1>9, <1>10, <1>11, <1>12 DEF Held, Sound

-----------------------------------------------------------------------------
(* Resolution *)

Worth(price, qty) == IF qty >= 0 THEN Notional(price, qty) ELSE -Notional(price, -qty)

LEMMA WorthType ==
    ASSUME NEW price \in Nat, NEW qty \in Int
    PROVE  Worth(price, qty) \in Int /\ (qty >= 0 => Worth(price, qty) \in Nat)
<1>1. CASE qty >= 0
    BY <1>1, Paid DEF Worth
<1>2. CASE ~(qty >= 0)
  <2>1. -qty \in Nat
      BY <1>2
  <2>2. Notional(price, -qty) \in Nat
      BY <2>1, Paid
  <2> QED BY <1>2, <2>2 DEF Worth
<1> QED BY <1>1, <1>2

(* Positions in the market are paid out; the rest stays. *)
Redeemed(accts, m, payout, new) ==
    /\ AccountsType(new)
    /\ \A a \in AllAccounts :
          /\ new[a].balance = accts[a].balance + Worth(payout, accts[a].position[<<m, "yes">>])
                                               + Worth(DOLLAR - payout, accts[a].position[<<m, "no">>])
          /\ Worth(payout, accts[a].position[<<m, "yes">>]) \in Int
          /\ Worth(DOLLAR - payout, accts[a].position[<<m, "no">>]) \in Int
          /\ \A k \in PositionKeys : new[a].position[k] = IF k[1] = m THEN 0 ELSE accts[a].position[k]

LEMMA RedeemIs ==
    ASSUME NEW accts, AccountsType(accts), NEW m \in Markets, NEW payout \in 0..DOLLAR
    PROVE  Redeemed(accts, m, payout, Redeem(accts, m, payout))
<1>0. DOLLAR \in Nat /\ payout \in Nat /\ DOLLAR - payout \in Nat
    BY OrderBookAssumption
<1>1. PICK new : new = Redeem(accts, m, payout)
    OBVIOUS
<1>2. new = [a \in AllAccounts |->
               [balance |-> accts[a].balance + Worth(payout, accts[a].position[<<m, "yes">>])
                                             + Worth(DOLLAR - payout, accts[a].position[<<m, "no">>]),
                position |-> [k \in PositionKeys |-> IF k[1] = m THEN 0 ELSE accts[a].position[k]]]]
    BY <1>1 DEF Redeem, Worth
<1>3. ASSUME NEW a \in AllAccounts
      PROVE  /\ new[a].balance = accts[a].balance + Worth(payout, accts[a].position[<<m, "yes">>])
                                                  + Worth(DOLLAR - payout, accts[a].position[<<m, "no">>])
             /\ Worth(payout, accts[a].position[<<m, "yes">>]) \in Int
             /\ Worth(DOLLAR - payout, accts[a].position[<<m, "no">>]) \in Int
             /\ \A k \in PositionKeys : new[a].position[k] = IF k[1] = m THEN 0 ELSE accts[a].position[k]
             /\ new[a] \in [balance : Int, position : [PositionKeys -> Int]]
  <2>1. accts[a].balance \in Int /\ \A k \in PositionKeys : accts[a].position[k] \in Int
      BY DEF AccountsType
  <2>2. PICK x : x = Worth(payout, accts[a].position[<<m, "yes">>])
      OBVIOUS
  <2>3. PICK y : y = Worth(DOLLAR - payout, accts[a].position[<<m, "no">>])
      OBVIOUS
  <2>4. x \in Int /\ y \in Int
      BY <1>0, <2>1, <2>2, <2>3, MarketKeys, WorthType
  <2>5. new[a] = [balance |-> accts[a].balance + x + y,
                  position |-> [k \in PositionKeys |-> IF k[1] = m THEN 0 ELSE accts[a].position[k]]]
      BY <1>2, <2>2, <2>3
  <2>6. [k \in PositionKeys |-> IF k[1] = m THEN 0 ELSE accts[a].position[k]] \in [PositionKeys -> Int]
      BY <2>1
  <2>7. new[a] \in [balance : Int, position : [PositionKeys -> Int]]
      BY <2>1, <2>4, <2>5, <2>6
  <2> QED BY <2>2, <2>3, <2>4, <2>5, <2>7
<1>4. AccountsType(new)
  <2>1. new = [a \in AllAccounts |-> new[a]]
      BY <1>2
  <2> QED BY <1>3, <2>1, Zenon DEF AccountsType
<1> QED BY <1>1, <1>3, <1>4 DEF Redeemed

(* Resolutions only take markets out of the group. *)
LEMMA GroupShrinks ==
    ASSUME resolved \subseteq resolved'
    PROVE  /\ GroupNow' \subseteq GroupNow
           /\ GroupNow' = Group /\ Group # {} => GroupNow = Group
<1> DEFINE left == Group \ resolved
           next == Group \ resolved'
<1>1. next \subseteq left /\ IsFiniteSet(Group)
    BY GroupFinite
<1>2. IsFiniteSet(left) /\ IsFiniteSet(next)
    BY <1>1, FS_Subset
<1>3. Cardinality(next) <= Cardinality(left) /\ Cardinality(next) \in Nat /\ Cardinality(left) \in Nat
    BY <1>1, <1>2, FS_Subset, FS_CardinalityType
<1>4. GroupNow = IF left = Group \/ Cardinality(left) >= 2 THEN left ELSE {}
    BY DEF GroupNow
<1>5. GroupNow' = IF next = Group \/ Cardinality(next) >= 2 THEN next ELSE {}
    BY DEF GroupNow
<1>6. next = Group => left = Group
    OBVIOUS
<1>7. Cardinality(next) >= 2 => Cardinality(left) >= 2
    BY <1>3
<1> HIDE DEF left, next
<1>8. GroupNow' \subseteq GroupNow
    BY <1>1, <1>4, <1>5, <1>6, <1>7
<1>9. next \subseteq Group /\ left \subseteq Group
    BY DEF next, left
<1>10. GroupNow' = Group /\ Group # {} => GroupNow = Group
    BY <1>1, <1>4, <1>5, <1>6, <1>7, <1>9
<1> QED BY <1>8, <1>10

LEMMA ResolveHeld ==
    ASSUME Held, NEW m \in Markets, NEW payout \in Payouts, Resolve(m, payout)
    PROVE  Held'
<1>1. /\ Sound /\ TypesOK /\ BookOK(book) /\ book' = book /\ cancelled' = cancelled
      /\ pending' = pending /\ submitted' = submitted
      /\ resolved' = resolved \cup {m} /\ resolved_now' = resolved_now \cup {m} /\ m \in Active
      /\ height' = height /\ halted' = halted /\ cash_ops' = cash_ops /\ injected' = injected
      /\ accounts' = Redeem(accounts, m, payout)
    BY DEF Held, Sound, Resolve, orderVars, blockVars
<1>2. AccountsType(accounts) /\ payout \in 0..DOLLAR
    BY <1>1, ExchangeAssumption DEF TypesOK, AccountsType
<1>3. Redeemed(accounts, m, payout, accounts')
    BY <1>1, <1>2, RedeemIs
<1>4. TypesOK'
  <2>1. legs' \in Nat
    <3> DEFINE A == {p \in AllAccounts \X Outcomes : accounts[p[1]].position[<<m, p[2]>>] # 0}
    <3>1. IsFiniteSet(Outcomes)
      <4>1. Outcomes = {"yes"} \cup {"no"}
          BY DEF Outcomes
      <4>2. IsFiniteSet({"yes"}) /\ IsFiniteSet({"no"})
          BY FS_Singleton
      <4> QED BY <4>1, <4>2, FS_Union
    <3>2. IsFiniteSet(AllAccounts \X Outcomes)
        BY <3>1, AllFinite, FS_Product
    <3>3. IsFiniteSet(A)
        BY <3>2, FS_Subset
    <3>4. legs' = legs + Cardinality(A) /\ legs \in Nat
        BY <1>1 DEF Resolve, TypesOK
    <3> HIDE DEF A
    <3>5. Cardinality(A) \in Nat
        BY <3>3, FS_CardinalityType
    <3> QED BY <3>4, <3>5
  <2>2. accounts' \in [AllAccounts -> [balance : Int, position : [PositionKeys -> Int]]]
      BY <1>3 DEF Redeemed, AccountsType
  <2> QED BY <1>1, <2>1, <2>2 DEF TypesOK
<1>5. PendingOK'
    BY <1>1, PendingKept DEF Sound
<1>6. IdsOK'
    BY <1>1 DEF Sound, IdsOK
<1>7. Makers' = Makers /\ Shorts' = Shorts /\ Active' = Active \ {m}
    BY <1>1 DEF Makers, Shorts, Active, Sells
<1>8. ASSUME NEW a \in Accounts, NEW k \in Active' \X Outcomes PROVE accounts'[a].position[k] = accounts[a].position[k]
  <2>1. k \in PositionKeys /\ k[1] # m /\ a \in AllAccounts
      BY <1>7, <1>8 DEF Active, PositionKeys, AllAccounts
  <2> QED BY <1>3, <2>1 DEF Redeemed
<1>9. SharesCovered'
  <2>1. ASSUME NEW a \in Accounts \ Shorts, NEW k \in Active' \X Outcomes PROVE book.shares[a][k] <= accounts'[a].position[k]
    <3>1. k \in Active \X Outcomes
        BY <1>7
    <3> QED BY <1>8, <3>1 DEF Held, SharesCovered
  <2> QED BY <1>1, <1>7, <2>1 DEF SharesCovered
<1>10. Covered'
  <2>1. ASSUME NEW a \in Accounts \ Makers, NEW k \in Active' \X Outcomes PROVE book.shares[a][k] <= accounts'[a].position[k]
    <3>1. k \in Active \X Outcomes
        BY <1>7
    <3> QED BY <1>8, <3>1 DEF Held, Covered
  <2>2. ASSUME NEW a \in Accounts \ Makers PROVE book.cash[a] <= accounts'[a].balance
    <3>1. a \in AllAccounts /\ DOLLAR - payout \in Nat /\ payout \in Nat
        BY <1>2, OrderBookAssumption DEF AllAccounts
    <3>2. PICK y, n : y = accounts[a].position[<<m, "yes">>] /\ n = accounts[a].position[<<m, "no">>]
        OBVIOUS
    <3>3. <<m, "yes">> \in Active \X Outcomes /\ <<m, "no">> \in Active \X Outcomes
        BY <1>1 DEF Outcomes
    <3>4. book.shares[a][<<m, "yes">>] <= y /\ book.shares[a][<<m, "no">>] <= n
        BY <3>2, <3>3 DEF Held, Covered
    <3>5. /\ y \in Int /\ n \in Int /\ book.cash[a] \in Nat /\ accounts[a].balance \in Int
          /\ book.shares[a][<<m, "yes">>] \in Nat /\ book.shares[a][<<m, "no">>] \in Nat
        BY <1>1, <3>2, MarketKeys, AccountTypes, BookSums
    <3>6. y >= 0 /\ n >= 0
        BY <3>4, <3>5
    <3>7. Worth(payout, y) \in Nat /\ Worth(DOLLAR - payout, n) \in Nat
        BY <3>1, <3>5, <3>6, WorthType
    <3>8. accounts'[a].balance = accounts[a].balance + Worth(payout, y) + Worth(DOLLAR - payout, n)
        BY <1>3, <3>1, <3>2 DEF Redeemed
    <3>9. book.cash[a] <= accounts[a].balance
        BY DEF Held, Covered
    <3> QED BY <3>5, <3>7, <3>8, <3>9
  <2> QED BY <1>1, <1>7, <2>1, <2>2 DEF Covered
<1>11. NoSelfCross'
  <2>1. GroupNow' \subseteq GroupNow /\ (GroupNow' = Group /\ Group # {} => GroupNow = Group)
      BY <1>1, GroupShrinks
  <2> QED BY <1>1, <2>1 DEF Held, NoSelfCross
<1>12. BookOK(book)'
    BY <1>1
<1> QED BY <1>4, <1>5, <1>6, <1>9, <1>10, <1>11, <1>12 DEF Held, Sound

-----------------------------------------------------------------------------
(* The invariant *)

LEMMA InitHeld == Init => Held
<1> SUFFICES ASSUME Init PROVE Held
    OBVIOUS
<1>1. /\ height = 0 /\ resolved = {} /\ book = EmptyBook /\ pending = <<>> /\ cancelled = {}
      /\ resolved_now = {} /\ submitted = {} /\ halted = FALSE /\ cash_ops = 0 /\ injected = 0 /\ legs = 0
    BY DEF Init
<1>2. accounts = [a \in AllAccounts |->
          [balance |-> IF a = MINT THEN 0 ELSE InitialBalance,
           position |-> [k \in PositionKeys |-> IF a = MINT THEN 0 ELSE InitialShares]]]
    BY DEF Init
<1>3. InitialBalance \in Nat /\ InitialShares \in Nat /\ MINT \notin Accounts
    BY ExchangeAssumption
<1>4. accounts \in [AllAccounts -> [balance : Int, position : [PositionKeys -> Int]]]
    BY <1>2, <1>3
<1>5. TypesOK
  <2>1. height \in Nat /\ cash_ops \in Nat /\ injected \in Int /\ legs \in Nat
      BY <1>1
  <2>2. /\ resolved \subseteq Markets /\ resolved_now \subseteq resolved
        /\ submitted \subseteq 1..Len(Menu) /\ halted \in BOOLEAN
      BY <1>1
  <2> QED BY <1>4, <2>1, <2>2 DEF TypesOK
<1>6. BookOK(book) /\ book.orders = {}
    BY <1>1, EmptyOK
<1>7. PendingOK
  <2>1. Len(pending) = 0 /\ pending \in Seq(Range(pending))
      BY <1>1
  <2>2. [j \in 1..Len(pending) |-> 0] \in [1..Len(pending) -> submitted]
      BY <2>1
  <2>3. PendingFrom([j \in 1..Len(pending) |-> 0])
      BY <2>1 DEF PendingFrom
  <2> QED BY <2>1, <2>2, <2>3 DEF PendingOK
<1>8. IdsOK
    BY <1>1, <1>6 DEF IdsOK, Ids
<1>9. \A a \in Accounts : /\ book.cash[a] = 0 /\ accounts[a].balance = InitialBalance
                          /\ \A k \in PositionKeys : book.shares[a][k] = 0 /\ accounts[a].position[k] = InitialShares
    BY <1>1, <1>2, <1>3 DEF EmptyBook, AllAccounts
<1>10. Active \X Outcomes \subseteq PositionKeys
    BY DEF Active, PositionKeys
<1>11. Covered /\ SharesCovered
    BY <1>3, <1>9, <1>10 DEF Covered, SharesCovered
<1>12. NoSelfCross
  <2>1. \A a, m, outcome : Best({}, a, m, outcome) = -DOLLAR
    <3>1. \A a, m, outcome : Limits({}, a, m, outcome) = {}
        BY DEF Limits, BidsOn
    <3> QED BY <3>1, BestIs
  <2>2. DOLLAR \in Nat \ {0}
      BY OrderBookAssumption
  <2>3. \A a, m : ~BinaryCross({}, a, m)
      BY <2>1, <2>2 DEF BinaryCross
  <2>4. Group # {} => \A a : ~GroupCross({}, a, Group)
      BY <2>1, <2>2 DEF GroupCross
  <2> QED BY <1>6, <2>3, <2>4 DEF NoSelfCross
<1> QED BY <1>5, <1>6, <1>7, <1>8, <1>11, <1>12 DEF Held, Sound

LEMMA StutterHeld == Held /\ UNCHANGED vars => Held'
<1> SUFFICES ASSUME Held, UNCHANGED vars PROVE Held'
    OBVIOUS
<1>1. UNCHANGED <<height, accounts, resolved, book, pending, cancelled, resolved_now, submitted, halted, cash_ops,
                  injected, legs>>
    BY DEF vars, marketVars, orderVars, blockVars, cashVars
<1>2. TypesOK'
    BY <1>1 DEF Held, Sound, TypesOK
<1>3. BookOK(book)'
    BY <1>1 DEF Held, Sound
<1>4. PendingOK'
    BY <1>1, PendingKept DEF Held, Sound
<1>5. IdsOK'
    BY <1>1 DEF Held, Sound, IdsOK
<1>6. Covered'
    BY <1>1 DEF Held, Covered, Makers, Active
<1>7. SharesCovered'
    BY <1>1 DEF Held, SharesCovered, Shorts, Active
<1>8. NoSelfCross'
    BY <1>1 DEF Held, NoSelfCross, GroupNow
<1> QED BY <1>2, <1>3, <1>4, <1>5, <1>6, <1>7, <1>8 DEF Held, Sound

LEMMA NextHeld == Held /\ [Next]_vars => Held'
<1> SUFFICES ASSUME Held, [Next]_vars PROVE Held'
    OBVIOUS
<1>1. ASSUME NEW i \in 1..Len(Menu), AdmitDirect(i) PROVE Held'
    BY <1>1, AdmitDirectHeld
<1>2. ASSUME NEW i \in 1..Len(Menu), AdmitDeferred(i) \/ AdmitBundle(i) PROVE Held'
    BY <1>2, AdmitWaits, WaitsHeld
<1>3. ASSUME NEW ro \in book.orders, CancelOrder(ro) PROVE Held'
    BY <1>3, CancelOrderHeld
<1>4. ASSUME NEW c \in CashMoves, Deposit(c[1], c[2]) \/ Withdraw(c[1], c[2]) PROVE Held'
    BY <1>4, CashMoved, MovedHeld
<1>5. ASSUME NEW m \in Markets, NEW p \in Payouts, Resolve(m, p) PROVE Held'
    BY <1>5, ResolveHeld
<1>6. CASE ProduceBlock
    BY <1>6, ProduceBlockHeld
<1>7. CASE UNCHANGED vars
    BY <1>7, StutterHeld
<1> QED BY <1>1, <1>2, <1>3, <1>4, <1>5, <1>6, <1>7 DEF Next

LEMMA HeldRestorable == Held => BookRestorable
<1> SUFFICES ASSUME Held PROVE BookRestorable
    OBVIOUS
<1>1. BookOK(book)
    BY DEF Held, Sound
<1>2. Restore(book.orders) = book /\ \A ro \in book.orders : RestingOK(ro)
    BY <1>1 DEF BookOK
<1>3. \A ro : RestingOK(ro) => ValidRestored(ro)
    BY DEF RestingOK, ValidRestored
<1> QED BY <1>2, <1>3 DEF BookRestorable

-----------------------------------------------------------------------------
(* Refused blocks *)

Capital(S, s) == [x \in S |-> CapitalNeeded(x, s.price, s.fill[x.id])]

LEMMA CapitalCovers ==
    ASSUME NEW batch, \A x \in batch : WireOK(x), NEW s, Executes(batch, s), NEW x \in batch
    PROVE  /\ Capital(batch, s)[x] = CapitalNeeded(x, s.price, s.fill[x.id])
           /\ Capital(batch, s)[x] \in Nat /\ Capital(batch, s)[x] + Paying(batch, s)[x] \in Nat
<1>1. /\ Price(s.price, x) \in Nat /\ Price(s.price, x) <= DOLLAR /\ s.fill[x.id] \in Nat
      /\ Paying(batch, s)[x] = BalanceDelta(x, s.price, s.fill[x.id]) /\ DOLLAR \in Nat
    BY BatchMoves, OrderBookAssumption
<1>2. PICK p, n : p = Price(s.price, x) /\ n = s.fill[x.id]
    OBVIOUS
<1>3. Notional(p, n) \in Nat /\ NotionalCeil(p, n) \in Nat /\ Notional(p, n) <= NotionalCeil(p, n)
  <2>1. p \in Nat /\ n \in Nat /\ p <= p /\ n <= n
      BY <1>1, <1>2
  <2> QED BY <2>1, Paid, Costs, PaidAtMost
<1>4. x.side \in {"buy", "sell"}
    BY DEF WireOK, OrderOK
<1>5. Capital(batch, s)[x] = CapitalNeeded(x, s.price, s.fill[x.id])
    BY DEF Capital
<1>6. CASE x.side = "buy"
  <2>1. CapitalNeeded(x, s.price, s.fill[x.id]) = NotionalCeil(p, n)
      BY <1>2, <1>6 DEF CapitalNeeded
  <2>2. BalanceDelta(x, s.price, s.fill[x.id]) = -Notional(p, n)
      BY <1>2, <1>6 DEF BalanceDelta
  <2> QED BY <1>1, <1>3, <1>5, <2>1, <2>2
<1>7. CASE x.side = "sell"
  <2>1. CapitalNeeded(x, s.price, s.fill[x.id]) = NotionalCeil(DOLLAR - p, n)
      BY <1>2, <1>7 DEF CapitalNeeded
  <2>2. BalanceDelta(x, s.price, s.fill[x.id]) = Notional(p, n)
      BY <1>2, <1>7 DEF BalanceDelta
  <2>3. DOLLAR - p \in Nat
      BY <1>1, <1>2
  <2>4. NotionalCeil(DOLLAR - p, n) \in Nat
      BY <1>1, <1>2, <2>3, Costs
  <2> QED BY <1>1, <1>3, <1>5, <2>1, <2>2, <2>4
<1> QED BY <1>4, <1>6, <1>7

(* Budgets that wait for an account. *)
Budgets(a) == SumFunction([i \in {j \in 1..Len(pending) : pending[j].account = a} |-> pending[i].max_capital])

LEMMA BudgetSum ==
    ASSUME Sound, NEW a
    PROVE  /\ Budgets(a) \in Nat
           /\ \A j \in 1..Len(pending) : pending[j].account = a => pending[j].max_capital <= Budgets(a)
<1> DEFINE of == {j \in 1..Len(pending) : pending[j].account = a}
           f == [i \in of |-> pending[i].max_capital]
<1>1. PICK src : From(src)
    BY Sources
<1>2. \A j \in 1..Len(pending) : pending[j].max_capital \in Nat
    BY <1>1, Submission
<1>3. \A j \in of : f[j] \in Nat /\ f[j] = pending[j].max_capital
    BY <1>2
<1>4. IsFiniteSet(of)
  <2>1. IsFiniteSet(1..Len(pending))
      BY Sources, FS_Interval
  <2> QED BY <2>1, FS_Subset
<1>5. Budgets(a) = SumFunctionOnSet(f, of)
    BY DEF Budgets, SumFunction
<1>6. ASSUME NEW j \in of PROVE f[j] <= SumFunctionOnSet(f, of)
  <2> HIDE DEF f, of
  <2>1. SumFunctionOnSet(f, {j}) <= SumFunctionOnSet(f, of)
      BY <1>3, <1>4, <1>6, SumLess
  <2>2. f[j] \in Int
      BY <1>3, <1>6
  <2>3. SumFunctionOnSet(f, {j}) = f[j]
      BY <2>2, SumOne
  <2> QED BY <2>1, <2>3
<1>7. SumFunctionOnSet(f, of) \in Nat
  <2> HIDE DEF f, of
  <2> QED BY <1>3, <1>4, SumNat
<1> QED BY <1>3, <1>5, <1>6, <1>7

LEMMA BundleAccount ==
    ASSUME Sound, NEW x \in PendingOrders, x.is_mm
    PROVE  \E j \in 1..Len(pending) : /\ x \in Range(pending[j].orders) /\ pending[j].max_capital > 0
                                      /\ pending[j].account = x.account
<1>1. PICK src : From(src)
    BY Sources
<1>2. PICK j \in 1..Len(pending) : \E k \in 1..Len(pending[j].orders) : x = pending[j].orders[k]
    BY <1>1, PendingOrder
<1>3. PICK k \in 1..Len(pending[j].orders) : x = pending[j].orders[k]
    BY <1>2
<1>4. SentBy(x, src[j], k) /\ pending[j].max_capital > 0
    BY <1>1, <1>3, WaitingOrder
<1>5. pending[j].account = Menu[src[j]].account /\ DOMAIN pending[j].orders = 1..Len(pending[j].orders)
    BY <1>1, Submission
<1>6. x \in Range(pending[j].orders)
    BY <1>3, <1>5 DEF Range
<1> QED BY <1>4, <1>5, <1>6 DEF SentBy

LEMMA BundlesPay ==
    ASSUME Sound, OneBundle, NEW t, LoopInv(t, PendingOrders), NEW s, Executes(t.batch, s),
           Allowed(t.batch, t.constraints, s), NEW a \in Accounts
    PROVE  PaysMade(t, s, a) + Budgets(a) >= 0 /\ PaysMade(t, s, a) \in Int
<1> DEFINE M == {x \in Mine(t.batch, a) : x.is_mm}
<1>0. PaysMade(t, s, a) \in Int /\ Budgets(a) \in Nat
    BY AccountSettles, BudgetSum
<1>1. CASE M = {}
  <2>1. PaysMade(t, s, a) = 0
      BY <1>1, SumEmpty DEF PaysMade
  <2> QED BY <1>0, <2>1
<1>2. CASE M # {}
  <2>1. /\ IsFiniteSet(t.batch) /\ (\A x \in t.batch : WireOK(x)) /\ (\A x \in t.batch : x.is_mm => x \in PendingOrders)
        /\ M \subseteq t.batch /\ \A x \in M : x.account = a /\ x.is_mm
      BY BatchFacts DEF Mine
  <2>2. PICK j \in 1..Len(pending) : /\ pending[j].max_capital > 0 /\ pending[j].account = a
                                     /\ \E x \in t.batch : x \in Range(pending[j].orders)
      BY <1>2, <2>1, BundleAccount
  <2>3. \A x \in M : x \in Range(pending[j].orders)
    <3> TAKE x \in M
    <3>1. PICK i \in 1..Len(pending) : /\ x \in Range(pending[i].orders) /\ pending[i].max_capital > 0
                                       /\ pending[i].account = x.account
        BY <2>1, BundleAccount
    <3>2. i = j
        BY <2>1, <2>2, <3>1 DEF OneBundle
    <3> QED BY <3>1, <3>2
  <2>4. PICK c : c = Constraint(pending[j])
      OBVIOUS
  <2>5. c \in t.constraints
      BY <2>2, <2>4 DEF LoopInv, LoopBudgets
  <2>6. c.max_capital = pending[j].max_capital /\ \A x \in M : x.id \in c.order_ids
      BY <2>3, <2>4 DEF Constraint
  <2> DEFINE B == {b \in t.batch : b.id \in c.order_ids}
             f == [o \in B |-> CapitalNeeded(o, s.price, s.fill[o.id])]
             cap == Capital(t.batch, s)
             pay == Paying(t.batch, s)
  <2>7. SumFunctionOnSet(f, B) <= c.max_capital
      BY <2>5 DEF Allowed, SumFunction
  <2>8. M \subseteq B /\ B \subseteq t.batch
      BY <2>1, <2>6
  <2>9. IsFiniteSet(B) /\ IsFiniteSet(M)
      BY <2>1, <2>8, FS_Subset
  <2>10. \A x \in B : f[x] = CapitalNeeded(x, s.price, s.fill[x.id])
      OBVIOUS
  <2>11. \A x \in t.batch : /\ cap[x] = CapitalNeeded(x, s.price, s.fill[x.id]) /\ cap[x] \in Nat
                            /\ cap[x] + pay[x] \in Nat /\ pay[x] \in Int
      BY <2>1, CapitalCovers, BatchMoves
  <2> HIDE DEF M, B, f, cap, pay
  <2>12. \A x \in B : f[x] = cap[x] /\ f[x] \in Nat /\ cap[x] \in Int
      BY <2>8, <2>10, <2>11
  <2>13. SumFunctionOnSet(f, B) = SumFunctionOnSet(cap, B)
    <3>1. Summands(f, B)
        BY <2>9, <2>12 DEF Summands
    <3> QED BY <2>12, <3>1, SumSame
  <2>14. SumFunctionOnSet(cap, M) <= SumFunctionOnSet(cap, B)
      BY <2>8, <2>9, <2>11, <2>12, SumLess
  <2>15. PICK e : e = [x \in M |-> cap[x] + pay[x]]
      OBVIOUS
  <2>16. \A x \in M : e[x] = cap[x] + pay[x] /\ e[x] \in Nat /\ cap[x] \in Int /\ pay[x] \in Int
      BY <2>8, <2>11, <2>15
  <2>17. Summands(cap, M) /\ Summands(pay, M) /\ Summands(cap, B)
      BY <2>9, <2>12, <2>16 DEF Summands
  <2>18. SumFunctionOnSet(e, M) = SumFunctionOnSet(cap, M) + SumFunctionOnSet(pay, M)
      BY <2>16, <2>17, SumPlus
  <2>19. SumFunctionOnSet(e, M) \in Nat
      BY <2>9, <2>16, SumNat
  <2>20. PaysMade(t, s, a) = SumFunctionOnSet(pay, M)
      BY DEF PaysMade, pay, M
  <2>21. pending[j].max_capital <= Budgets(a)
      BY <2>2, BudgetSum
  <2>22. pending[j].max_capital \in Nat
    <3>1. PICK src : From(src)
        BY Sources
    <3> QED BY <3>1, Submission
  <2>23. SumFunctionOnSet(cap, M) \in Int /\ SumFunctionOnSet(cap, B) \in Int
      BY <2>17, SumType
  <2> QED BY <1>0, <2>6, <2>7, <2>13, <2>14, <2>18, <2>19, <2>20, <2>21, <2>22, <2>23
<1> QED BY <1>1, <1>2

LEMMA RefusedCommitted ==
    ASSUME Held, OneBundle, NEW t, NEW s, Blocks(t, s), Refuses(t, s)
    PROVE  \E a \in Makers : a \in Accounts /\ Commitment(a) > accounts[a].balance
<1>1. /\ Sound /\ TypesOK /\ LoopInv(t, PendingOrders) /\ Executes(t.batch, s) /\ Allowed(t.batch, t.constraints, s)
      /\ ~AccountsSound(Final(t.batch, s))
    BY DEF Held, Sound, Blocks, Refuses
<1>2. \A m \in Markets : Imbalance(Final(t.batch, s), m) = 0
  <2>1. AccountsType(Settled(t.batch, s))
      BY <1>1, BatchFacts, SettledTypes
  <2>2. \A m \in Markets : s.price[m] \in 0..DOLLAR
      BY <1>1 DEF Executes
  <2> QED BY <2>1, <2>2, MintingIs DEF Minted, Final
<1>3. PICK a \in Accounts : ~(Final(t.batch, s)[a].balance >= 0)
    BY <1>1, <1>2 DEF AccountsSound
<1>4. height + 1 \in Nat
    BY <1>1 DEF TypesOK
<1>5. BookOK(Post(t, s)) /\ CoveredAfter(t, s) /\ BookOK(t.book) /\ BookOK(book)
    BY <1>1, BlockBook, BlockCover, BatchFacts DEF BookAfter, Sound
<1>6. Post(t, s).cash[a] \in Nat /\ t.book.cash[a] \in Nat /\ accounts[a].balance \in Int /\ book.cash[a] \in Nat
    BY <1>1, <1>5, BookSums, AccountTypes
<1>7. Final(t.batch, s)[a].balance = accounts[a].balance + Pays(t, s, a) + PaysMade(t, s, a)
    BY <1>1, AccountSettles
<1>8. Post(t, s).cash[a] <= t.book.cash[a] + Pays(t, s, a) /\ Pays(t, s, a) \in Int
    BY <1>1, <1>4, BookSettles DEF Post
<1>9. PaysMade(t, s, a) + Budgets(a) >= 0 /\ PaysMade(t, s, a) \in Int /\ Budgets(a) \in Nat
    BY <1>1, BundlesPay, BudgetSum
<1>10. a \in Makers
    BY <1>3, <1>5, <1>6, <1>7, <1>8, <1>9 DEF CoveredAfter
<1>11. t.book.cash[a] <= book.cash[a] + Owed(PendingOrders, a)
    BY <1>1 DEF LoopInv, LoopMoney
<1>12. Owed(PendingOrders, a) \in Nat
  <2>1. \A o \in PendingOrders : WireOK(o)
      BY <1>1, PendingFacts DEF WaitingOK
  <2> QED BY <1>1, <2>1, PendingFinite, OwedSum
<1>13. Commitment(a) = book.cash[a] + Owed(PendingOrders, a) + Budgets(a)
    BY DEF Commitment, Owed, Ordinaries, Budgets
<1>14. Commitment(a) > accounts[a].balance
    BY <1>3, <1>6, <1>7, <1>8, <1>9, <1>11, <1>12, <1>13
<1> QED BY <1>10, <1>14

-----------------------------------------------------------------------------

LEMMA HaltedStops == halted /\ Next => FALSE
BY DEF Next, AdmitDirect, AdmitDeferred, AdmitBundle, Submittable, CancelOrder, Deposit, Withdraw, Resolve, ProduceBlock

LEMMA RefusedKept ==
    ASSUME RefusedOnlyOvercommitted, UNCHANGED <<halted, book, pending, submitted, accounts>>
    PROVE  RefusedOnlyOvercommitted'
<1>1. Makers' = Makers /\ PendingOrders' = PendingOrders
    BY DEF Makers, PendingOrders
<1>2. \A a : Commitment(a)' = Commitment(a)
    BY <1>1 DEF Commitment
<1> QED BY <1>1, <1>2 DEF RefusedOnlyOvercommitted

LEMMA OneBundleMore ==
    ASSUME Sound, OneBundle, NEW sub, pending' = Append(pending, sub),
           sub.max_capital > 0 => ~\E j \in 1..Len(pending) : pending[j].account = sub.account
                                                              /\ pending[j].max_capital > 0
    PROVE  OneBundle'
<1>1. Len(pending) \in Nat /\ pending \in Seq(Range(pending))
    BY Sources
<1>2. PICK n : n = Len(pending)
    OBVIOUS
<1>3. Len(pending') = n + 1 /\ n \in Nat
    BY <1>1, <1>2
<1>4. pending'[n + 1] = sub /\ \A j \in 1..n : pending'[j] = pending[j]
    BY <1>1, <1>2
<1>5. \A j \in 1..(n + 1) : j = n + 1 \/ j \in 1..n
    BY <1>3
<1>6. \A i, j \in 1..(n + 1) :
        /\ pending'[i].account = pending'[j].account
        /\ pending'[i].max_capital > 0 /\ pending'[j].max_capital > 0
        => i = j
  <2> SUFFICES ASSUME NEW i \in 1..(n + 1), NEW j \in 1..(n + 1), pending'[i].account = pending'[j].account,
                      pending'[i].max_capital > 0, pending'[j].max_capital > 0
               PROVE  i = j
      OBVIOUS
  <2>1. CASE i \in 1..n /\ j \in 1..n
      BY <1>2, <1>4, <2>1 DEF OneBundle
  <2>2. CASE i = n + 1 /\ j \in 1..n
      BY <1>2, <1>4, <2>2
  <2>3. CASE i \in 1..n /\ j = n + 1
      BY <1>2, <1>4, <2>3
  <2> QED BY <1>5, <2>1, <2>2, <2>3
<1> QED BY <1>3, <1>6 DEF OneBundle

Accountable == Held /\ OneBundle /\ RefusedOnlyOvercommitted

LEMMA NextAccountable == Accountable /\ [Next]_vars => Accountable'
<1> SUFFICES ASSUME Accountable, [Next]_vars PROVE OneBundle' /\ RefusedOnlyOvercommitted'
    BY NextHeld DEF Accountable
<1>0. Held /\ Sound /\ OneBundle /\ RefusedOnlyOvercommitted /\ TypesOK
    BY DEF Accountable, Held, Sound
<1>1. CASE UNCHANGED vars
  <2>1. UNCHANGED <<halted, book, pending, submitted, accounts>>
      BY <1>1 DEF vars, marketVars, orderVars, blockVars, cashVars
  <2> QED BY <1>0, <2>1, RefusedKept DEF OneBundle
<1>2. ASSUME halted' = halted, Next PROVE RefusedOnlyOvercommitted'
  <2>1. ~halted
      BY <1>2, HaltedStops
  <2> QED BY <1>2, <2>1 DEF RefusedOnlyOvercommitted
<1>3. ASSUME pending' = pending PROVE OneBundle'
    BY <1>0, <1>3 DEF OneBundle
<1>4. ASSUME NEW i \in 1..Len(Menu), AdmitDirect(i) PROVE OneBundle' /\ halted' = halted
    BY <1>3, <1>4 DEF AdmitDirect, blockVars
<1>5. ASSUME NEW i \in 1..Len(Menu), AdmitDeferred(i) \/ AdmitBundle(i) PROVE OneBundle' /\ halted' = halted
  <2>1. Waits(i)
      BY <1>0, <1>5, AdmitWaits
  <2>2. pending' = Append(pending, Waiting(i)) /\ halted' = halted
      BY <2>1 DEF Waits, blockVars
  <2>3. Waiting(i).max_capital = Menu[i].max_capital /\ Waiting(i).account = Menu[i].account
      BY DEF Waiting
  <2>4. Menu[i].max_capital > 0 => ~\E j \in 1..Len(pending) : pending[j].account = Menu[i].account
                                                               /\ pending[j].max_capital > 0
    <3>1. CASE AdmitDeferred(i)
        BY <3>1 DEF AdmitDeferred
    <3>2. CASE AdmitBundle(i)
        BY <3>2 DEF AdmitBundle
    <3> QED BY <1>5, <3>1, <3>2
  <2> QED BY <1>0, <2>2, <2>3, <2>4, OneBundleMore
<1>6. ASSUME NEW ro \in book.orders, CancelOrder(ro) PROVE OneBundle' /\ halted' = halted
    BY <1>3, <1>6 DEF CancelOrder, blockVars
<1>7. ASSUME NEW c \in CashMoves, Deposit(c[1], c[2]) \/ Withdraw(c[1], c[2]) PROVE OneBundle' /\ halted' = halted
    BY <1>3, <1>7 DEF Deposit, Withdraw, blockVars, orderVars
<1>8. ASSUME NEW m \in Markets, NEW p \in Payouts, Resolve(m, p) PROVE OneBundle' /\ halted' = halted
    BY <1>3, <1>8 DEF Resolve, blockVars, orderVars
<1>9. CASE ProduceBlock
  <2>1. PICK t : \E s : Blocks(t, s)
      BY <1>0, <1>9, BlockSteps
  <2>2. PICK s : Blocks(t, s)
      BY <2>1
  <2>3. CASE Commits(t, s)
    <3>1. pending' = <<>> /\ halted' = halted
        BY <2>3 DEF Commits
    <3>2. OneBundle'
        BY <3>1 DEF OneBundle
    <3> QED BY <1>2, <1>9, <3>1, <3>2 DEF Next
  <2>4. CASE Refuses(t, s)
    <3>1. UNCHANGED <<book, pending, submitted, accounts>>
        BY <2>4 DEF Refuses
    <3>2. PICK a \in Makers : Commitment(a) > accounts[a].balance
        BY <1>0, <2>2, <2>4, RefusedCommitted
    <3>3. Makers' = Makers /\ PendingOrders' = PendingOrders
        BY <3>1 DEF Makers, PendingOrders
    <3>4. Commitment(a)' = Commitment(a)
        BY <3>1, <3>3 DEF Commitment
    <3>5. RefusedOnlyOvercommitted'
        BY <3>1, <3>2, <3>3, <3>4 DEF RefusedOnlyOvercommitted
    <3> QED BY <1>3, <3>1, <3>5
  <2> QED BY <2>2, <2>3, <2>4 DEF Blocks
<1> QED BY <1>1, <1>2, <1>4, <1>5, <1>6, <1>7, <1>8, <1>9 DEF Next

-----------------------------------------------------------------------------
(* Every share of one outcome faces one of the other *)

LEMMA NoSign == ASSUME NEW n \in Int, n >= 0, n <= 0 PROVE -n = 0
OBVIOUS

LEMMA MinusZero == ASSUME NEW n, n = 0 PROVE -n = 0
<1>1. n \in Int /\ n >= 0 /\ n <= 0
    OBVIOUS
<1> QED BY <1>1, NoSign

(* A market in which nothing is filled keeps its positions. *)
Quiet(batch, s, m) ==
    /\ \A a \in AllAccounts : \A k \in PositionKeys :
          k[1] = m => Settled(batch, s)[a].position[k] = accounts[a].position[k]
    /\ Imbalance(Settled(batch, s), m) = Imbalance(accounts, m)

LEMMA QuietMarket ==
    ASSUME TypesOK, NEW batch, IsFiniteSet(batch), \A x \in batch : WireOK(x), NEW s, Executes(batch, s),
           NEW m \in Markets, \A x \in batch : x.market = m => s.fill[x.id] = 0
    PROVE  Quiet(batch, s, m)
<1>1. ASSUME NEW a \in AllAccounts, NEW k \in PositionKeys, k[1] = m
      PROVE  Settled(batch, s)[a].position[k] = accounts[a].position[k]
  <2>1. PICK f, S : f = Moving(batch, s) /\ S = MineOn(batch, a, k)
      OBVIOUS
  <2>2. /\ Settled(batch, s)[a].position[k] = accounts[a].position[k] + SumFunctionOnSet(f, S)
        /\ Summands(f, S)
      BY <1>1, <2>1, SettledAre
  <2>3. ASSUME NEW x \in S PROVE f[x] = 0
    <3>1. x \in batch /\ Key(x) = k
        BY <2>1, <2>3 DEF MineOn
    <3>2. x.market = m
        BY <1>1, <3>1 DEF Key
    <3>3. s.fill[x.id] = 0
        BY <3>1, <3>2
    <3>4. PICK n \in Nat : n = s.fill[x.id]
        BY <3>3
    <3>5. -n = 0 /\ n = 0
        BY <3>3, <3>4, MinusZero
    <3>6. PositionDelta(x, n) = 0
        BY <3>5 DEF PositionDelta
    <3> QED BY <2>1, <3>1, <3>4, <3>6, BatchMoves
  <2>4. IsFiniteSet(S)
      BY <2>2 DEF Summands
  <2>5. SumFunctionOnSet(f, S) = 0
      BY <2>3, <2>4, SumZero
  <2>6. accounts[a].position[k] \in Int
      BY <1>1 DEF TypesOK
  <2> QED BY <2>2, <2>5, <2>6
<1>2. PICK new : new = Settled(batch, s)
    OBVIOUS
<1>3. ASSUME NEW k \in PositionKeys, k[1] = m PROVE TotalPosition(new, k) = TotalPosition(accounts, k)
  <2>1. \A a \in AllAccounts : new[a].position[k] = accounts[a].position[k]
      BY <1>1, <1>2, <1>3
  <2> QED BY <2>1 DEF TotalPosition
<1>4. Imbalance(new, m) = Imbalance(accounts, m)
  <2>1. <<m, "yes">>[1] = m /\ <<m, "no">>[1] = m
      OBVIOUS
  <2> QED BY <1>3, <2>1, MarketKeys DEF Imbalance
<1> QED BY <1>1, <1>2, <1>4 DEF Quiet

(* Resolved markets are quiet. *)
LEMMA ResolvedQuiet ==
    ASSUME Sound, NEW t, LoopInv(t, PendingOrders), NEW s, Executes(t.batch, s), NEW m \in Markets,
           m \in resolved \/ ~\E x \in t.batch : x.market = m
    PROVE  Quiet(t.batch, s, m)
<1>1. IsFiniteSet(t.batch) /\ \A x \in t.batch : WireOK(x)
    BY BatchFacts
<1>2. \A x \in t.batch : x.market = m => s.fill[x.id] = 0
    BY DEF Executes
<1> QED BY <1>1, <1>2, QuietMarket DEF Sound

LEMMA CommitsBalanced ==
    ASSUME Held, Balanced, NEW t, NEW s, Blocks(t, s), Commits(t, s)
    PROVE  Balanced'
<1>1. /\ Sound /\ TypesOK /\ LoopInv(t, PendingOrders) /\ Executes(t.batch, s)
      /\ accounts' = Final(t.batch, s) /\ resolved' = resolved
    BY DEF Held, Blocks, Sound, Commits
<1>2. IsFiniteSet(t.batch) /\ \A x \in t.batch : WireOK(x)
    BY <1>1, BatchFacts
<1>3. PICK old : old = Settled(t.batch, s)
    OBVIOUS
<1>4. AccountsType(old)
    BY <1>1, <1>2, <1>3, SettledTypes
<1>5. Minted(old, s.price, accounts')
    BY <1>1, <1>3, <1>4, MintingIs DEF Executes, Final
<1>6. \A m \in Markets : Imbalance(accounts, m)' = 0
    BY <1>5 DEF Minted
<1>7. ASSUME NEW a \in AllAccounts, NEW k \in PositionKeys, k[1] \in resolved PROVE accounts'[a].position[k] = 0
  <2>1. k[1] \in Markets
      BY <1>7 DEF PositionKeys
  <2>2. Quiet(t.batch, s, k[1])
      BY <1>1, <1>7, <2>1, ResolvedQuiet
  <2>3. old[a].position[k] = 0 /\ Imbalance(old, k[1]) = 0
      BY <1>3, <1>7, <2>1, <2>2 DEF Quiet, Balanced
  <2>4. MintQty(old, k[1]) = 0
    <3>1. PICK n \in Int : n = Imbalance(old, k[1])
        BY <2>3
    <3>2. n = 0 /\ -n = 0
        BY <2>3, <3>1, MinusZero
    <3> QED BY <3>1, <3>2 DEF MintQty
  <2>5. CASE a = MINT
      BY <1>5, <1>7, <2>3, <2>4, <2>5 DEF Minted
  <2>6. CASE a # MINT
      BY <1>5, <2>3, <2>6 DEF Minted, AllAccounts
  <2> QED BY <2>5, <2>6
<1> QED BY <1>1, <1>6, <1>7 DEF Balanced

LEMMA SamePositions ==
    ASSUME Balanced, resolved' = resolved,
           \A a \in AllAccounts : \A k \in PositionKeys : accounts'[a].position[k] = accounts[a].position[k]
    PROVE  Balanced'
<1>1. \A k \in PositionKeys : TotalPosition(accounts, k)' = TotalPosition(accounts, k)
    BY DEF TotalPosition
<1>2. \A m \in Markets : Imbalance(accounts, m)' = Imbalance(accounts, m)
    BY <1>1, MarketKeys DEF Imbalance
<1> QED BY <1>2 DEF Balanced

LEMMA ResolveBalanced ==
    ASSUME Held, Balanced, NEW m \in Markets, NEW payout \in Payouts, Resolve(m, payout)
    PROVE  Balanced'
<1>1. /\ accounts' = Redeem(accounts, m, payout) /\ resolved' = resolved \cup {m}
      /\ AccountsType(accounts) /\ payout \in 0..DOLLAR
    BY ExchangeAssumption DEF Held, Sound, TypesOK, AccountsType, Resolve
<1>2. Redeemed(accounts, m, payout, accounts')
    BY <1>1, RedeemIs
<1>3. \A a \in AllAccounts : \A k \in PositionKeys :
          accounts'[a].position[k] = IF k[1] = m THEN 0 ELSE accounts[a].position[k]
    BY <1>2 DEF Redeemed
<1>4. ASSUME NEW n \in Markets PROVE Imbalance(accounts, n)' = 0
  <2>1. <<n, "yes">>[1] = n /\ <<n, "no">>[1] = n
      OBVIOUS
  <2>2. PICK y, x : y = <<n, "yes">> /\ x = <<n, "no">>
      OBVIOUS
  <2>3. y \in PositionKeys /\ x \in PositionKeys /\ y[1] = n /\ x[1] = n
      BY <2>1, <2>2, MarketKeys
  <2>4. CASE n = m
    <3>1. \A a \in AllAccounts : accounts'[a].position[y] = accounts'[a].position[x]
        BY <1>3, <2>3, <2>4
    <3>2. TotalPosition(accounts, y)' = TotalPosition(accounts, x)'
        BY <3>1 DEF TotalPosition
    <3>3. AccountsType(accounts')
        BY <1>2 DEF Redeemed
    <3>4. TotalPosition(accounts', x) \in Int
        BY <2>3, <3>3, TotalIs
    <3> QED BY <2>2, <3>2, <3>4 DEF Imbalance
  <2>5. CASE n # m
    <3>1. \A a \in AllAccounts : /\ accounts'[a].position[y] = accounts[a].position[y]
                                 /\ accounts'[a].position[x] = accounts[a].position[x]
        BY <1>3, <2>3, <2>5
    <3>2. TotalPosition(accounts, y)' = TotalPosition(accounts, y) /\ TotalPosition(accounts, x)' = TotalPosition(accounts, x)
        BY <3>1 DEF TotalPosition
    <3> QED BY <2>2, <3>2 DEF Imbalance, Balanced
  <2> QED BY <2>4, <2>5
<1> QED BY <1>1, <1>3, <1>4 DEF Balanced

LEMMA InitBalanced ==
    ASSUME Init
    PROVE  Balanced
<1>1. /\ accounts = [a \in AllAccounts |->
            [balance |-> IF a = MINT THEN 0 ELSE InitialBalance,
             position |-> [k \in PositionKeys |-> IF a = MINT THEN 0 ELSE InitialShares]]]
      /\ resolved = {}
    BY DEF Init
<1>2. AccountsType(accounts)
    BY InitHeld DEF Held, Sound, TypesOK, AccountsType
<1>3. ASSUME NEW m \in Markets PROVE Imbalance(accounts, m) = 0
  <2>1. PICK y, x : y = <<m, "yes">> /\ x = <<m, "no">> /\ y \in PositionKeys /\ x \in PositionKeys
      BY MarketKeys
  <2>2. \A a \in AllAccounts : accounts[a].position[y] = accounts[a].position[x]
      BY <1>1, <2>1
  <2>3. TotalPosition(accounts, y) = TotalPosition(accounts, x)
      BY <2>2 DEF TotalPosition
  <2>4. TotalPosition(accounts, x) \in Int
      BY <1>2, <2>1, TotalIs
  <2> QED BY <2>1, <2>3, <2>4 DEF Imbalance
<1> QED BY <1>1, <1>3 DEF Balanced

-----------------------------------------------------------------------------
(* The verifier's checks of a committed block *)

Witnesses(w, t, s) ==
    /\ w.height = height + 1 /\ w.pre = committed /\ w.post = Post(t, s) /\ w.batch = t.batch
    /\ w.rejections = t.rejections /\ w.constraints = t.constraints /\ w.fill = s.fill /\ w.price = s.price
    /\ w.system = accounts /\ w.cancelled = cancelled /\ w.resolved_now = resolved_now /\ w.resolved = resolved

LEMMA WitnessFields ==
    ASSUME NEW t, NEW s
    PROVE  Witnesses(Witness(t, s), t, s)
BY DEF Witness, Witnesses

(* A block that the sequencer is about to commit, and its witness. *)
Proposed(w, t, s) ==
    /\ Held /\ Balanced /\ CommittedOK /\ Witnesses(w, t, s)
    /\ LoopInv(t, PendingOrders) /\ Executes(t.batch, s) /\ Allowed(t.batch, t.constraints, s)
    /\ OnTick(t.batch, s) /\ AccountsSound(Final(t.batch, s))

LEMMA MatchHolds ==
    ASSUME NEW w, NEW t, NEW s, Proposed(w, t, s)
    PROVE  MatchValid(w)
<1>1. /\ w.batch = t.batch /\ w.constraints = t.constraints /\ w.fill = s.fill /\ w.price = s.price
      /\ w.resolved = resolved
    BY DEF Proposed, Witnesses
<1>2. \A o \in w.batch :
          /\ w.fill[o.id] <= o.max_fill
          /\ w.fill[o.id] > 0 => o.market \notin w.resolved /\ WithinLimit(o, w.price)
    BY <1>1 DEF Proposed, Executes
<1>3. \A c \in w.constraints :
          SumFunction([o \in {b \in w.batch : b.id \in c.order_ids} |->
                         CapitalNeeded(o, w.price, w.fill[o.id])]) <= c.max_capital
    BY <1>1, Zenon DEF Proposed, Allowed
<1> QED BY <1>2, <1>3, Zenon DEF MatchValid

LEMMA ProposedFacts ==
    ASSUME NEW w, NEW t, NEW s, Proposed(w, t, s)
    PROVE  /\ Sound /\ TypesOK /\ height \in Nat /\ IsFiniteSet(t.batch) /\ BookOK(t.book)
           /\ \A x \in t.batch : WireOK(x)
           /\ \A x \in t.batch : ~x.is_mm => \E ro \in t.book.orders : x = AsOrder(ro)
           /\ \A ro \in t.book.orders : AsOrder(ro) \in t.batch /\ RestingOK(ro) /\ Fresh(ro)
<1>1. Sound /\ LoopInv(t, PendingOrders)
    BY DEF Proposed, Held
<1>2. LoopBook(t, PendingOrders)
    BY <1>1 DEF LoopInv
<1>3. \A ro \in t.book.orders : RestingOK(ro) /\ Fresh(ro)
    BY <1>2 DEF LoopBook, BookOK
<1> QED BY <1>1, <1>3, BatchFacts DEF Sound, TypesOK

LEMMA AsOrderFields ==
    ASSUME NEW ro
    PROVE  /\ AsOrder(ro).id = ro.id /\ AsOrder(ro).account = ro.account /\ AsOrder(ro).market = ro.market
           /\ AsOrder(ro).outcome = ro.outcome /\ AsOrder(ro).side = ro.side /\ AsOrder(ro).limit = ro.limit
           /\ AsOrder(ro).max_fill = ro.max_fill /\ AsOrder(ro).expires = ro.expires /\ ~AsOrder(ro).is_mm
           /\ Key(AsOrder(ro)) = Key(ro) /\ BalanceReservation(AsOrder(ro)) = BalanceReservation(ro)
BY DEF AsOrder, Key, BalanceReservation

LEMMA SellsHold ==
    ASSUME NEW w, NEW t, NEW s, Proposed(w, t, s)
    PROVE  SellsCovered(w)
<1> SUFFICES ASSUME NEW o \in t.batch, ~o.is_mm, o.side = "sell"
             PROVE  o.max_fill <= accounts[o.account].position[Key(o)]
    BY DEF SellsCovered, Ordinary, Proposed, Witnesses
<1>1. PICK ro \in t.book.orders : o = AsOrder(ro)
    BY ProposedFacts
<1>2. ro.side = "sell" /\ o.max_fill = ro.max_fill /\ o.account = ro.account /\ Key(o) = Key(ro)
    BY <1>1, AsOrderFields
<1>3. ro.max_fill <= accounts[ro.account].position[Key(ro)]
    BY <1>2 DEF Proposed, LoopInv, LoopSystem
<1> QED BY <1>2, <1>3

LEMMA NoneExpiredHolds ==
    ASSUME NEW w, NEW t, NEW s, Proposed(w, t, s)
    PROVE  NoneExpired(w)
<1> SUFFICES ASSUME NEW o \in t.batch, o.expires # NoExpiry
             PROVE  o.expires >= height + 1
    BY DEF NoneExpired, Proposed, Witnesses
<1>0. height \in Nat /\ WireOK(o) /\ o.expires \in Nat
    BY ProposedFacts DEF WireOK, OrderOK
<1>1. CASE o.is_mm
  <2>1. ~(height + 1 > EffectiveExpiry(o, height + 1))
      BY <1>1 DEF Proposed, LoopInv, LoopAnswers
  <2>2. EffectiveExpiry(o, height + 1) \in Nat /\ EffectiveExpiry(o, height + 1) <= o.expires
      BY <1>0, ExpiryType
  <2> QED BY <1>0, <2>1, <2>2
<1>2. CASE ~o.is_mm
  <2>1. PICK ro \in t.book.orders : o = AsOrder(ro)
      BY <1>2, ProposedFacts
  <2>2. o.expires = ro.expires /\ RestingOK(ro) /\ Fresh(ro)
      BY <2>1, AsOrderFields, ProposedFacts
  <2>3. ro.expires_at_block \in Nat /\ ro.expires_at_block <= ro.expires /\ height + 1 <= ro.expires_at_block
      BY <2>2 DEF RestingOK, Fresh
  <2> QED BY <1>0, <2>2, <2>3
<1> QED BY <1>1, <1>2

LEMMA RejectionsHold ==
    ASSUME NEW w, NEW t, NEW s, Proposed(w, t, s), ~RejectionsExact(w)
    PROVE  \E i \in submitted : Sells(i) /\ Len(Menu[i].orders) > 1 /\ Menu[i].max_capital = 0
<1>1. PICK r \in t.rejections :
          \/ r.reason = "position"
          \/ r.reason = "expired" /\ ~(height + 1 > EffectiveExpiry(r.order, height + 1))
    BY DEF RejectionsExact, Proposed, Witnesses
<1>2. LoopAnswers(t)
    BY DEF Proposed, LoopInv
<1> QED BY <1>1, <1>2 DEF LoopAnswers

LEMMA BuysHold ==
    ASSUME NEW w, NEW t, NEW s, Proposed(w, t, s)
    PROVE  BuysCovered(w)
<1> DEFINE buys(a) == {o \in t.batch : ~o.is_mm /\ o.account = a /\ o.side = "buy"}
<1>0. \A a : {o \in Ordinary(w) : o.account = a /\ o.side = "buy"} = buys(a)
    BY DEF Ordinary, Proposed, Witnesses
<1>1. ASSUME NEW a \in Accounts, NEW B, B = buys(a), B # {}
      PROVE  SumFunction([o \in B |-> BalanceReservation(o)]) <= accounts[a].balance
  <2>0. /\ Sound /\ LoopInv(t, PendingOrders) /\ BookOK(t.book) /\ IsFiniteSet(t.batch)
        /\ IsFiniteSet(t.book.orders) /\ B \subseteq t.batch
      BY <1>1, ProposedFacts DEF Proposed, BookOK
  <2>1. PICK R : R = {ro \in t.book.orders : ro.account = a /\ ro.side = "buy"}
      OBVIOUS
  <2>2. PICK f, g, M, U : /\ f = Costing(t.batch) /\ U = t.book.orders /\ g = Costing(U) /\ M = Mine(U, a)
      OBVIOUS
  <2>3. \A x \in t.batch : f[x] = BalanceReservation(x) /\ f[x] \in Int
    <3> TAKE x \in t.batch
    <3>1. x.limit \in Nat /\ x.max_fill \in Nat
        BY ProposedFacts DEF WireOK, OrderOK
    <3>2. f[x] = BalanceReservation(x)
        BY <2>2 DEF Costing
    <3> QED BY <3>1, <3>2, BalanceType
  <2>4. \A ro \in U : g[ro] = BalanceReservation(ro) /\ g[ro] \in Nat
    <3> TAKE ro \in U
    <3>1. ro.limit \in Nat /\ ro.max_fill \in Nat
        BY <2>2, ProposedFacts, RestingTypes
    <3>2. g[ro] = BalanceReservation(ro)
        BY <2>2 DEF Costing
    <3> QED BY <3>1, <3>2, BalanceType
  <2>5. \A ro \in R : g[ro] = f[AsOrder(ro)]
    <3> TAKE ro \in R
    <3>1. ro \in U /\ AsOrder(ro) \in t.batch
        BY <2>1, <2>2, ProposedFacts
    <3> QED BY <2>3, <2>4, <3>1, AsOrderFields
  <2>6. \A ro \in t.book.orders : ro \in R <=> AsOrder(ro) \in B
    <3> TAKE ro \in t.book.orders
    <3>1. AsOrder(ro) \in t.batch
        BY ProposedFacts
    <3> QED BY <1>1, <2>1, <3>1, AsOrderFields
  <2>7. R \subseteq t.book.orders /\ R \subseteq M /\ M \subseteq U
      BY <2>1, <2>2 DEF Mine
  <2>8. Parts(f, B, g, R)
      BY <2>0, <2>3, <2>5, <2>6, <2>7, BatchSplit
  <2>9. {x \in B : x.is_mm} = {}
      BY <1>1
  <2>10. SumFunctionOnSet(f, {}) = 0
      BY FS_EmptySet, SumZero
  <2>11. SumFunctionOnSet(g, R) \in Int
      BY <2>8, SumType DEF Parts
  <2>12. SumFunctionOnSet(f, B) = SumFunctionOnSet(g, R)
      BY <2>8, <2>9, <2>10, <2>11 DEF Parts
  <2>13. SumFunctionOnSet(g, R) <= SumFunctionOnSet(g, M) /\ SumFunctionOnSet(g, M) \in Nat
    <3>1. IsFiniteSet(M) /\ \A x \in M : g[x] \in Nat
        BY <2>0, <2>2, <2>4, <2>7, FS_Subset
    <3> QED BY <2>7, <3>1, SumLess, SumNat
  <2>14. SumFunctionOnSet(g, M) <= accounts[a].balance
    <3>1. \E ro \in t.book.orders : ro.account = a /\ ro.side = "buy"
      <4>1. PICK x \in B : TRUE
          BY <1>1
      <4>2. PICK ro \in t.book.orders : x = AsOrder(ro)
          BY <1>1, <4>1, ProposedFacts
      <4> QED BY <1>1, <4>1, <4>2, AsOrderFields
    <3>2. CostOf(t.book.orders, a) <= accounts[a].balance
        BY <3>1 DEF Proposed, LoopInv, LoopSystem
    <3> QED BY <2>2, <3>2 DEF CostOf
  <2>15. SumFunction([o \in B |-> BalanceReservation(o)]) = SumFunctionOnSet(f, B)
    <3>1. PICK e : e = [o \in B |-> BalanceReservation(o)]
        OBVIOUS
    <3>2. SumFunction(e) = SumFunctionOnSet(e, B)
        BY <3>1 DEF SumFunction
    <3>3. \A o \in B : e[o] = f[o] /\ f[o] \in Int
        BY <2>0, <2>3, <3>1
    <3>4. IsFiniteSet(B)
        BY <2>0, FS_Subset
    <3>5. Summands(e, B) /\ Summands(f, B)
        BY <3>3, <3>4 DEF Summands
    <3>6. SumFunctionOnSet(e, B) = SumFunctionOnSet(f, B)
        BY <3>3, <3>5, SumSame
    <3> QED BY <3>1, <3>2, <3>6
  <2>16. accounts[a].balance \in Int
      BY ProposedFacts, AccountTypes
  <2> QED BY <2>11, <2>12, <2>13, <2>14, <2>15, <2>16
<1>2. w.system = accounts
    BY DEF Proposed, Witnesses
<1> HIDE DEF buys
<1> QED BY <1>0, <1>1, <1>2, Zenon DEF BuysCovered

LEMMA DerivedIs ==
    ASSUME NEW w, NEW t, NEW s, Proposed(w, t, s)
    PROVE  Derived(w) = Settled(t.batch, s)
BY DEF Derived, Settled, Proposed, Witnesses

LEMMA BalancesHold ==
    ASSUME NEW w, NEW t, NEW s, Proposed(w, t, s)
    PROVE  BalancesNonNegative(Derived(w))
<1> SUFFICES ASSUME NEW a \in Accounts PROVE Settled(t.batch, s)[a].balance >= 0
    BY DerivedIs DEF BalancesNonNegative
<1>1. Final(t.batch, s)[a].balance >= 0
    BY DEF Proposed, AccountsSound
<1>2. Final(t.batch, s)[a] = Settled(t.batch, s)[a]
    BY FinalAre, ProposedFacts
<1> QED BY <1>1, <1>2

LEMMA PositionsHold ==
    ASSUME NEW w, NEW t, NEW s, Proposed(w, t, s), ~PositionsNonNegative(Derived(w))
    PROVE  \E i \in submitted : Sells(i) /\ Menu[i].max_capital > 0
<1>1. PICK a \in Accounts : \E k \in PositionKeys : ~(Settled(t.batch, s)[a].position[k] >= 0)
    BY DerivedIs DEF PositionsNonNegative
<1>2. PICK k \in PositionKeys : ~(Settled(t.batch, s)[a].position[k] >= 0)
    BY <1>1
<1>3. /\ Sound /\ LoopInv(t, PendingOrders) /\ Executes(t.batch, s) /\ Balanced
    BY DEF Proposed, Held
<1>4. k[1] \in Markets /\ k[2] \in Outcomes /\ k = <<k[1], k[2]>> /\ a \in AllAccounts
    BY DEF PositionKeys, AllAccounts
<1>5. CASE a \in Shorts
    BY <1>5 DEF Shorts
<1>6. CASE a \notin Shorts /\ k[1] \in resolved
  <2>1. Quiet(t.batch, s, k[1])
      BY <1>3, <1>4, <1>6, ResolvedQuiet
  <2>2. Settled(t.batch, s)[a].position[k] = 0
      BY <1>3, <1>4, <1>6, <2>1 DEF Quiet, Balanced
  <2> QED BY <1>2, <2>2
<1>7. CASE a \notin Shorts /\ k[1] \notin resolved
  <2>1. k \in Active \X Outcomes
      BY <1>4, <1>7 DEF Active
  <2>2. Post(t, s).shares[a][k] <= Final(t.batch, s)[a].position[k]
      BY <1>3, <1>7, <2>1, BlockCover DEF CoveredAfter
  <2>3. BookOK(Post(t, s))
      BY <1>3, BlockBook DEF BookAfter
  <2>4. Post(t, s).shares[a][k] \in Nat
      BY <2>3, BookSums
  <2>5. Final(t.batch, s)[a] = Settled(t.batch, s)[a]
      BY FinalAre, ProposedFacts
  <2>6. AccountsType(Settled(t.batch, s))
      BY <1>3, ProposedFacts, SettledTypes
  <2>7. Settled(t.batch, s)[a].position[k] \in Int
      BY <1>4, <2>6 DEF AccountsType
  <2> QED BY <1>2, <2>2, <2>4, <2>5, <2>7
<1> QED BY <1>5, <1>6, <1>7

LEMMA PaysSomething ==
    ASSUME NEW p \in Nat, NEW q \in Nat, p >= SHARE_SCALE, q >= 1
    PROVE  Notional(p, q) # 0
<1>1. /\ Notional(p, q) \in Nat
      /\ Times(p, q) < Times(SHARE_SCALE, Notional(p, q)) + SHARE_SCALE
    BY Paid
<1>2. Times(p, 1) <= Times(p, q) /\ Times(p, 1) = p
    BY TimesOrder, Units01
<1>3. Times(p, q) \in Nat /\ SHARE_SCALE \in Nat
    BY TimesNat, ScaleType
<1>4. ASSUME Notional(p, q) = 0 PROVE FALSE
  <2>1. Times(SHARE_SCALE, Notional(p, q)) = 0
      BY <1>3, <1>4, Units01
  <2> QED BY <1>1, <1>2, <1>3, <2>1
<1> QED BY <1>4

LEMMA MintHolds ==
    ASSUME NEW w, NEW t, NEW s, Proposed(w, t, s), PricesPay
    PROVE  MintPaid(Derived(w), w.price)
<1>0. PICK new : new = Settled(t.batch, s)
    OBVIOUS
<1> SUFFICES ASSUME NEW m \in Markets, Imbalance(new, m) # 0 PROVE MintRevenue(new, s.price, m) # 0
    BY <1>0, DerivedIs DEF MintPaid, Proposed, Witnesses
<1>1. Sound /\ LoopInv(t, PendingOrders) /\ Executes(t.batch, s) /\ Balanced /\ OnTick(t.batch, s)
    BY DEF Proposed, Held
<1>2. PICK x \in t.batch : x.market = m
  <2>1. ASSUME ~\E x \in t.batch : x.market = m PROVE FALSE
    <3>1. Quiet(t.batch, s, m)
        BY <1>1, <2>1, ResolvedQuiet
    <3> QED BY <1>0, <1>1, <3>1 DEF Quiet, Balanced
  <2> QED BY <2>1
<1>3. s.price[m] \in SHARE_SCALE..(DOLLAR - SHARE_SCALE)
    BY <1>1, <1>2 DEF OnTick, PricesPay
<1>4. SHARE_SCALE \in Nat /\ DOLLAR \in Nat
    BY OrderBookAssumption
<1>5. PICK p : p = IF MintOutcome(new, m) = "yes" THEN s.price[m] ELSE DOLLAR - s.price[m]
    OBVIOUS
<1>6. p \in Nat /\ p >= SHARE_SCALE
    BY <1>3, <1>4, <1>5
<1>7. AccountsType(new)
    BY <1>0, <1>1, ProposedFacts, SettledTypes
<1>8. Imbalance(new, m) \in Int
    BY <1>7, ImbalanceType
<1>9. MintQty(new, m) \in Nat /\ MintQty(new, m) >= 1
    BY <1>8 DEF MintQty
<1>10. Notional(p, MintQty(new, m)) # 0
    BY <1>6, <1>9, PaysSomething
<1> QED BY <1>5, <1>10 DEF MintRevenue

LEMMA RollupHolds ==
    ASSUME NEW w, NEW t, NEW s, Proposed(w, t, s)
    PROVE  ReservationRollup(w)
<1>1. BookOK(Post(t, s))
    BY BlockBook DEF BookAfter, Proposed, Held
<1> QED BY <1>1 DEF ReservationRollup, Proposed, Witnesses, BookOK

(* What the block leaves of the orders in the book. *)
Leaves(t, s) ==
    /\ \A p \in Post(t, s).orders : \E r \in Stays(t.book, s.fill, height + 1) :
          r \in t.book.orders /\ p = Remainder(r, s.fill[r.id]) /\ SameOrder(p, r)
    /\ \A r \in Stays(t.book, s.fill, height + 1) :
          Remainder(r, s.fill[r.id]) \in Post(t, s).orders /\ Remainder(r, s.fill[r.id]).id = r.id

LEMMA BlockLeaves ==
    ASSUME NEW w, NEW t, NEW s, Proposed(w, t, s)
    PROVE  Leaves(t, s)
<1>1. Sound /\ LoopInv(t, PendingOrders) /\ Executes(t.batch, s) /\ BookOK(t.book) /\ height + 1 \in Nat
    BY ProposedFacts DEF Proposed
<1>2. \A ro \in t.book.orders : s.fill[ro.id] \in Nat /\ RestingOK(ro)
    BY <1>1, BookExecutes
<1>3. Post(t, s).orders = Left(t.book, s.fill, height + 1)
    BY <1>1, <1>2, SettleOK DEF Post
<1>4. ASSUME NEW r \in Stays(t.book, s.fill, height + 1)
      PROVE  r \in t.book.orders /\ SameOrder(Remainder(r, s.fill[r.id]), r)
  <2>1. r \in t.book.orders /\ s.fill[r.id] < r.max_fill
      BY DEF Stays
  <2>2. Reduced(Remainder(r, s.fill[r.id]), r, s.fill[r.id])
      BY <1>2, <2>1, RemainderFields
  <2> QED BY <2>1, <2>2 DEF Reduced
<1>5. \A r : SameOrder(Remainder(r, s.fill[r.id]), r) => Remainder(r, s.fill[r.id]).id = r.id
    BY DEF SameOrder
<1> QED BY <1>3, <1>4, <1>5, Zenon DEF Left, Leaves

(* An order of the block's book comes from the book or is new to it. *)
LEMMA BookOrigin ==
    ASSUME NEW w, NEW t, NEW s, Proposed(w, t, s), NEW r \in t.book.orders
    PROVE  /\ r.id \notin cancelled
           /\ r \in book.orders \/ r.id \notin Ids(book.orders)
<1>1. Sound /\ LoopBook(t, PendingOrders) /\ IdsOK
    BY ProposedFacts DEF Proposed, LoopInv, Sound
<1>2. CASE r \in book.orders
    BY <1>1, <1>2 DEF IdsOK, Ids
<1>3. CASE \E o \in PendingOrders : ~o.is_mm /\ r = Resting(o, height + 1)
  <2>1. PICK o \in PendingOrders : r = Resting(o, height + 1)
      BY <1>3
  <2>2. r.id = o.id
      BY <2>1 DEF Resting
  <2> QED BY <1>1, <2>2, PendingFacts DEF WaitingOK
<1> QED BY <1>1, <1>2, <1>3 DEF LoopBook

Evicted == {ro.id : ro \in {r \in Dropped : r.market \in Active}}

(* A resting order of the last block is in this one's book, or has left it for
   a reason the verifier knows. *)
LEMMA CommittedCases ==
    ASSUME NEW w, NEW t, NEW s, Proposed(w, t, s), Evicted = {}, NEW ro \in committed
    PROVE  \/ ro \in t.book.orders
           \/ /\ \A r \in t.book.orders : r.id # ro.id
              /\ ro.id \in cancelled \/ ro.market \in resolved_now
<1>1. /\ RestingOK(ro) /\ ro.expires_at_block > height
      /\ ro \in book.orders \/ ro.id \in cancelled
      /\ ro.market \in resolved => ro.market \in resolved_now
    BY DEF Proposed, CommittedOK
<1>2. CASE ro.id \in cancelled
    BY <1>2, BookOrigin
<1>3. CASE ro \in book.orders /\ ro \notin t.book.orders
  <2>1. Sound /\ BookOK(book) /\ height \in Nat
      BY ProposedFacts DEF Sound
  <2>2. ro.expires_at_block \in Nat
      BY <1>1 DEF RestingOK
  <2>3. ro \in Unexpired.orders
      BY <1>1, <1>3, <2>1, <2>2, CarriedOK DEF Expired
  <2>4. ro \notin Carried.orders
      BY <1>3 DEF Proposed, LoopInv, LoopKeeps
  <2>5. ro \in Dropped
      BY <2>1, <2>3, <2>4, CarriedOK
  <2>6. ro.market \notin Active
      BY <2>5 DEF Evicted
  <2>7. ro.market \in resolved
      BY <1>1, <2>6 DEF Active, RestingOK, OrderOK
  <2>8. \A r \in t.book.orders : r.id # ro.id
    <3> TAKE r \in t.book.orders
    <3>1. CASE r \in book.orders
        BY <1>3, <2>1, <3>1 DEF BookOK
    <3>2. CASE r.id \notin Ids(book.orders)
        BY <1>3, <3>2 DEF Ids
    <3> QED BY <3>1, <3>2, BookOrigin
  <2> QED BY <1>1, <2>7, <2>8
<1> QED BY <1>1, <1>2, <1>3

LEMMA TransitionHolds ==
    ASSUME NEW w, NEW t, NEW s, Proposed(w, t, s), Evicted = {}
    PROVE  RestingTransition(w)
<1>1. /\ w.height = height + 1 /\ w.pre = committed /\ w.post = Post(t, s) /\ w.batch = t.batch
      /\ w.fill = s.fill /\ w.cancelled = cancelled /\ w.resolved_now = resolved_now
    BY DEF Proposed, Witnesses
<1>2. Leaves(t, s) /\ BookOK(t.book) /\ height \in Nat
    BY BlockLeaves, ProposedFacts
<1> DEFINE After(ro) == {p \in w.post.orders : p.id = ro.id}
           Filled(ro) == IF ro.id \in DOMAIN w.fill THEN w.fill[ro.id] ELSE 0
           Ended(ro) == Filled(ro) >= ro.max_fill \/ w.height >= ro.expires_at_block
<1>3. ASSUME NEW ro \in w.pre
      PROVE  IF After(ro) = {}
               THEN Ended(ro) \/ ro.id \in w.cancelled \/ ro.market \in w.resolved_now
               ELSE ~Ended(ro) /\ \A p \in After(ro) :
                      WithoutProvenance(p) = WithoutProvenance(Remainder(ro, Filled(ro)))
  <2>1. CASE ro \in t.book.orders
    <3>1. /\ ro.id \in DOMAIN s.fill /\ s.fill[ro.id] \in Nat /\ ro.max_fill \in Nat
          /\ ro.expires_at_block \in Nat
      <4>1. AsOrder(ro) \in t.batch /\ AsOrder(ro).id = ro.id /\ RestingOK(ro)
          BY <2>1, ProposedFacts, AsOrderFields
      <4>2. ro.id \in DOMAIN s.fill
          BY <4>1 DEF Proposed, Executes
      <4>3. s.fill[ro.id] \in Nat
          BY <2>1, BookExecutes, ProposedFacts DEF Proposed
      <4> QED BY <4>1, <4>2, <4>3, RestingTypes DEF RestingOK
    <3>2. Filled(ro) = s.fill[ro.id]
        BY <1>1, <3>1
    <3>3. ro \in Stays(t.book, s.fill, height + 1) <=> ~Ended(ro)
        BY <1>1, <1>2, <2>1, <3>1, <3>2 DEF Stays
    <3>4. CASE ro \in Stays(t.book, s.fill, height + 1)
      <4>1. Remainder(ro, s.fill[ro.id]) \in After(ro)
          BY <1>1, <1>2, <3>4 DEF Leaves
      <4>2. ASSUME NEW p \in After(ro) PROVE p = Remainder(ro, s.fill[ro.id])
        <5>1. PICK r \in t.book.orders : p = Remainder(r, s.fill[r.id]) /\ SameOrder(p, r)
            BY <1>1, <1>2 DEF Leaves
        <5>2. r.id = ro.id
            BY <5>1 DEF SameOrder
        <5>3. r = ro
            BY <1>2, <2>1, <5>2 DEF BookOK
        <5> QED BY <5>1, <5>3
      <4> HIDE DEF After, Ended, Filled
      <4> QED BY <3>2, <3>3, <3>4, <4>1, <4>2
    <3>5. CASE ro \notin Stays(t.book, s.fill, height + 1)
      <4>1. ASSUME NEW p \in After(ro) PROVE FALSE
        <5>1. PICK r \in Stays(t.book, s.fill, height + 1) : r \in t.book.orders /\ SameOrder(p, r)
            BY <1>1, <1>2 DEF Leaves
        <5>2. r.id = ro.id
            BY <5>1 DEF SameOrder
        <5> QED BY <1>2, <2>1, <3>5, <5>1, <5>2 DEF BookOK
      <4> HIDE DEF After, Ended, Filled
      <4> QED BY <3>3, <3>5, <4>1
    <3> QED BY <3>4, <3>5
  <2>2. CASE /\ \A r \in t.book.orders : r.id # ro.id
             /\ ro.id \in cancelled \/ ro.market \in resolved_now
    <3>1. ASSUME NEW p \in After(ro) PROVE FALSE
      <4>1. PICK r \in t.book.orders : SameOrder(p, r)
          BY <1>1, <1>2 DEF Leaves
      <4> QED BY <2>2, <4>1 DEF SameOrder
    <3> HIDE DEF After, Ended, Filled
    <3> QED BY <1>1, <2>2, <3>1
  <2> QED BY <1>1, <1>3, <2>1, <2>2, CommittedCases
<1>4. ASSUME NEW p \in w.post.orders
      PROVE  \E o \in Ordinary(w) : o.id = p.id /\ o.account = p.account /\ Key(o) = Key(p)
                                    /\ o.side = p.side /\ o.limit = p.limit
  <2>1. PICK r \in t.book.orders : SameOrder(p, r)
      BY <1>1, <1>2, <1>4 DEF Leaves
  <2>2. AsOrder(r) \in Ordinary(w)
      BY <1>1, <2>1, ProposedFacts, AsOrderFields DEF Ordinary
  <2>3. Key(r) = Key(p)
      BY <2>1 DEF SameOrder, Key
  <2> QED BY <2>1, <2>2, <2>3, AsOrderFields DEF SameOrder
<1> QED BY <1>3, <1>4, Zenon DEF RestingTransition

(* What the verifier reports is a check that fails. *)
Reported(w, v) ==
    \/ v = "Match" /\ ~MatchValid(w)
    \/ v = "InsufficientBalance" /\ ~BuysCovered(w)
    \/ v = "InsufficientPosition" /\ ~SellsCovered(w)
    \/ v = "OrderExpiry" /\ ~NoneExpired(w)
    \/ v = "IncorrectRejectionReason" /\ ~RejectionsExact(w)
    \/ v = "NegativeBalance" /\ ~BalancesNonNegative(Derived(w))
    \/ v = "NegativePosition" /\ ~PositionsNonNegative(Derived(w))
    \/ v = "MintingWithoutClearingPrice" /\ ~MintPaid(Derived(w), w.price)
    \/ v = "SidecarRestingOrderMismatch" /\ ~RestingTransition(w)
    \/ v = "SidecarReservationMismatch" /\ ~ReservationRollup(w)

LEMMA OneReported ==
    ASSUME NEW u, NEW n, NEW b, u = <<n, b>>, ~u[2]
    PROVE  u[1] = n /\ ~b
OBVIOUS

LEMMA ViolationsReported ==
    ASSUME NEW w, NEW v \in Violations(w)
    PROVE  Reported(w, v)
<1>1. PICK u \in {<<"Match", MatchValid(w)>>,
                  <<"InsufficientBalance", BuysCovered(w)>>,
                  <<"InsufficientPosition", SellsCovered(w)>>,
                  <<"OrderExpiry", NoneExpired(w)>>,
                  <<"IncorrectRejectionReason", RejectionsExact(w)>>,
                  <<"NegativeBalance", BalancesNonNegative(Derived(w))>>,
                  <<"NegativePosition", PositionsNonNegative(Derived(w))>>,
                  <<"MintingWithoutClearingPrice", MintPaid(Derived(w), w.price)>>,
                  <<"SidecarRestingOrderMismatch", RestingTransition(w)>>,
                  <<"SidecarReservationMismatch", ReservationRollup(w)>>} : ~u[2] /\ v = u[1]
    BY Zenon DEF Violations
<1> QED BY <1>1, OneReported, ZenonT(60) DEF Reported

LEMMA BlockGaps ==
    ASSUME NEW w, NEW t, NEW s, Proposed(w, t, s)
    PROVE  Gaps(Violations(w), Evicted)
<1>1. \A v \in Violations(w) : Reported(w, v)
    BY ViolationsReported
<1>2. /\ MatchValid(w) /\ BuysCovered(w) /\ SellsCovered(w) /\ NoneExpired(w)
      /\ BalancesNonNegative(Derived(w)) /\ ReservationRollup(w)
    BY MatchHolds, BuysHold, SellsHold, NoneExpiredHolds, BalancesHold, RollupHolds
<1>3. Violations(w) \subseteq {"SidecarRestingOrderMismatch", "IncorrectRejectionReason", "NegativePosition",
                               "MintingWithoutClearingPrice"}
    BY <1>1, <1>2 DEF Reported
<1>4. ASSUME "SidecarRestingOrderMismatch" \in Violations(w) PROVE Evicted # {}
  <2>1. ~RestingTransition(w)
      BY <1>1, <1>4 DEF Reported
  <2> QED BY <2>1, TransitionHolds
<1>5. ASSUME "IncorrectRejectionReason" \in Violations(w)
      PROVE  \E i \in submitted : Sells(i) /\ Len(Menu[i].orders) > 1 /\ Menu[i].max_capital = 0
  <2>1. ~RejectionsExact(w)
      BY <1>1, <1>5 DEF Reported
  <2> QED BY <2>1, RejectionsHold
<1>6. ASSUME "NegativePosition" \in Violations(w) PROVE \E i \in submitted : Sells(i) /\ Menu[i].max_capital > 0
  <2>1. ~PositionsNonNegative(Derived(w))
      BY <1>1, <1>6 DEF Reported
  <2> QED BY <2>1, PositionsHold
<1>7. ASSUME "MintingWithoutClearingPrice" \in Violations(w) PROVE ~PricesPay
  <2>1. ~MintPaid(Derived(w), w.price)
      BY <1>1, <1>7 DEF Reported
  <2> QED BY <2>1, MintHolds
<1> QED BY <1>3, <1>4, <1>5, <1>6, <1>7 DEF Gaps

-----------------------------------------------------------------------------
(* The invariant that explains the verdict *)

Provable == Held /\ Balanced /\ CommittedOK /\ Explained

LEMMA GapsKept ==
    ASSUME Explained, verdict' = verdict, evicted' = evicted, submitted \subseteq submitted'
    PROVE  Explained'
BY DEF Explained, Gaps, Sells

(* Orders that join the book, or leave it by a cancellation. *)
LEMMA CommittedKept ==
    ASSUME CommittedOK, committed' = committed, height' = height, cancelled \subseteq cancelled',
           \A ro \in book.orders : ro \in book'.orders \/ ro.id \in cancelled',
           \A m \in resolved' : m \in resolved \/ m \in resolved_now', resolved_now \subseteq resolved_now'
    PROVE  CommittedOK'
BY DEF CommittedOK

LEMMA CommitsExplained ==
    ASSUME Provable, NEW t, NEW s, Blocks(t, s), Commits(t, s)
    PROVE  Provable'
<1>1. Held /\ Balanced /\ CommittedOK /\ Sound /\ height \in Nat
    BY DEF Provable, Held, Sound, TypesOK
<1>2. PICK w : w = Witness(t, s)
    OBVIOUS
<1>3. Proposed(w, t, s)
    BY <1>1, <1>2, WitnessFields DEF Proposed, Blocks, Commits
<1>4. Gaps(Violations(w), Evicted)
    BY <1>3, BlockGaps
<1>5. Explained'
  <2>1. verdict' = Violations(w) /\ evicted' = Evicted /\ submitted' = submitted
      BY <1>2 DEF Commits, Evicted
  <2> QED BY <1>4, <2>1 DEF Explained, Gaps, Sells
<1>6. Held' /\ Balanced'
    BY <1>1, CommitsHeld, CommitsBalanced
<1>7. BookAfter(t, s)
    BY <1>1, BlockBook DEF Blocks
<1>8. /\ committed' = Post(t, s).orders /\ book' = Post(t, s) /\ height' = height + 1 /\ resolved' = resolved
    BY DEF Commits
<1>9. CommittedOK'
    BY <1>7, <1>8 DEF CommittedOK, BookAfter, BookOK, Active
<1> QED BY <1>5, <1>6, <1>9 DEF Provable

LEMMA NextProvable == Provable /\ [Next]_vars => Provable'
<1> SUFFICES ASSUME Provable, [Next]_vars PROVE Provable'
    OBVIOUS
<1>0. Held /\ Balanced /\ CommittedOK /\ Explained /\ Held'
    BY NextHeld DEF Provable
<1>1. ASSUME accounts' = accounts, resolved' = resolved PROVE Balanced'
    BY <1>0, <1>1, SamePositions
<1>2. CASE UNCHANGED vars
  <2>1. UNCHANGED <<accounts, resolved, resolved_now, book, cancelled, submitted, height, committed, verdict, evicted>>
      BY <1>2 DEF vars, marketVars, orderVars, blockVars, cashVars
  <2> QED BY <1>0, <1>1, <2>1, GapsKept, CommittedKept DEF Provable
<1>3. ASSUME NEW i \in 1..Len(Menu), AdmitDirect(i) PROVE Provable'
  <2>1. /\ book' = Accept(book, Orders(i)[1], height) /\ submitted \subseteq submitted'
        /\ UNCHANGED <<accounts, resolved, resolved_now, cancelled, height, committed, verdict, evicted>>
      BY <1>3 DEF AdmitDirect, marketVars, blockVars, cashVars
  <2>2. book.orders \subseteq book'.orders
      BY <2>1 DEF Accept, Reserve
  <2> QED BY <1>0, <1>1, <2>1, <2>2, GapsKept, CommittedKept DEF Provable
<1>4. ASSUME NEW i \in 1..Len(Menu), AdmitDeferred(i) \/ AdmitBundle(i) PROVE Provable'
  <2>1. Waits(i)
      BY <1>0, <1>4, AdmitWaits
  <2>2. /\ submitted \subseteq submitted'
        /\ UNCHANGED <<book, accounts, resolved, resolved_now, cancelled, height, committed, verdict, evicted>>
      BY <2>1 DEF Waits, marketVars, blockVars, cashVars
  <2> QED BY <1>0, <1>1, <2>2, GapsKept, CommittedKept DEF Provable
<1>5. ASSUME NEW ro \in book.orders, CancelOrder(ro) PROVE Provable'
  <2>1. /\ book' = Release(book, {ro}) /\ cancelled' = cancelled \cup {ro.id}
        /\ UNCHANGED <<submitted, accounts, resolved, resolved_now, height, committed, verdict, evicted>>
      BY <1>5 DEF CancelOrder, marketVars, blockVars, cashVars
  <2>2. book'.orders = book.orders \ {ro}
      BY <2>1 DEF Release
  <2>3. \A r \in book.orders : r \in book'.orders \/ r.id \in cancelled'
      BY <2>1, <2>2
  <2> QED BY <1>0, <1>1, <2>1, <2>3, GapsKept, CommittedKept DEF Provable
<1>6. ASSUME NEW c \in CashMoves, Deposit(c[1], c[2]) \/ Withdraw(c[1], c[2]) PROVE Provable'
  <2>1. PICK new : Moved(c[1], new)
      BY <1>0, <1>6, CashMoved
  <2>2. /\ accounts' = [accounts EXCEPT ![c[1]].balance = new]
        /\ UNCHANGED <<book, submitted, cancelled, resolved, resolved_now, height, committed, verdict, evicted>>
      BY <2>1 DEF Moved, marketVars, orderVars, blockVars
  <2>3. accounts \in [AllAccounts -> [balance : Int, position : [PositionKeys -> Int]]]
      BY <1>0 DEF Held, Sound, TypesOK
  <2>4. \A a \in AllAccounts : accounts'[a].position = accounts[a].position
      BY <2>2, <2>3
  <2>5. Balanced'
      BY <1>0, <2>2, <2>4, SamePositions
  <2> QED BY <1>0, <2>2, <2>5, GapsKept, CommittedKept DEF Provable
<1>7. ASSUME NEW m \in Markets, NEW p \in Payouts, Resolve(m, p) PROVE Provable'
  <2>1. Balanced'
      BY <1>0, <1>7, ResolveBalanced
  <2>2. /\ resolved' = resolved \cup {m} /\ resolved_now' = resolved_now \cup {m}
        /\ UNCHANGED <<book, submitted, cancelled, height, committed, verdict, evicted>>
      BY <1>7 DEF Resolve, orderVars, blockVars
  <2> QED BY <1>0, <2>1, <2>2, GapsKept, CommittedKept DEF Provable
<1>8. CASE ProduceBlock
  <2>1. PICK t : \E s : Blocks(t, s)
      BY <1>0, <1>8, BlockSteps
  <2>2. PICK s : Blocks(t, s)
      BY <2>1
  <2>3. CASE Commits(t, s)
      BY <2>2, <2>3, CommitsExplained
  <2>4. CASE Refuses(t, s)
    <3>1. UNCHANGED <<accounts, resolved, resolved_now, book, cancelled, submitted, height, committed, verdict, evicted>>
        BY <2>4 DEF Refuses
    <3> QED BY <1>0, <1>1, <3>1, GapsKept, CommittedKept DEF Provable
  <2> QED BY <2>2, <2>3, <2>4 DEF Blocks
<1> QED BY <1>2, <1>3, <1>4, <1>5, <1>6, <1>7, <1>8 DEF Next

-----------------------------------------------------------------------------
(* Rounded sums *)

LEMMA SumConstant ==
    ASSUME NEW f, NEW S, IsFiniteSet(S), NEW K \in Int, \A x \in S : f[x] = K
    PROVE  /\ SumFunctionOnSet(f, S) = Times(K, Cardinality(S)) /\ Summands(f, S)
           /\ Cardinality(S) \in Nat
<1> DEFINE Q == {s \in SUBSET S : SumFunctionOnSet(f, s) # Times(K, Cardinality(s))}
<1>1. \A s \in SUBSET S : Summands(f, s) /\ IsFiniteSet(s) /\ Cardinality(s) \in Nat
    BY FS_Subset, FS_CardinalityType DEF Summands
<1>2. Q = {}
  <2> SUFFICES ASSUME Q # {} PROVE FALSE
      OBVIOUS
  <2>1. PICK q \in Q : \A x \in q : q \ {x} \notin Q
      BY MinimalSubset
  <2>2. q \in SUBSET S /\ SumFunctionOnSet(f, q) # Times(K, Cardinality(q))
      BY <2>1, Zenon
  <2>3. q # {}
    <3>1. SumFunctionOnSet(f, {}) = 0 /\ Cardinality({}) = 0 /\ Times(K, 0) = 0
        BY SumEmpty, FS_EmptySet, Units01
    <3> QED BY <2>2, <3>1
  <2>4. PICK x \in q : TRUE
      BY <2>3
  <2>5. PICK r : r = q \ {x}
      OBVIOUS
  <2>6. SumFunctionOnSet(f, q) = f[x] + SumFunctionOnSet(f, r)
      BY <1>1, <2>2, <2>5, SumSplit
  <2>7. SumFunctionOnSet(f, r) = Times(K, Cardinality(r)) /\ f[x] = K /\ r \in SUBSET S
      BY <2>1, <2>2, <2>4, <2>5
  <2>8. Cardinality(r) = Cardinality(q) - 1 /\ Cardinality(r) \in Nat /\ Cardinality(q) \in Nat
      BY <1>1, <2>2, <2>4, <2>5, <2>7, FS_RemoveElement
  <2>9. Cardinality(q) = Cardinality(r) + 1
      BY <2>8
  <2>10. Times(K, Cardinality(r) + 1) = Times(K, Cardinality(r)) + K /\ Times(K, Cardinality(r)) \in Int
      BY <2>8, OneMore, TimesInt
  <2> QED BY <2>2, <2>6, <2>7, <2>9, <2>10
<1> QED BY <1>1, <1>2

(* Sums that agree but on L, and there by at most K, are K for each of L apart. *)
Within(x, y, d) == x \in Int /\ y \in Int /\ d \in Int /\ x - y <= d /\ y - x <= d

LEMMA SumAbove ==
    ASSUME NEW f, NEW e, NEW S, Summands(f, S), Summands(e, S), NEW L, L \subseteq S, NEW K \in Int,
           \A x \in S \ L : f[x] = e[x], \A x \in L : f[x] <= e[x] + K
    PROVE  /\ SumFunctionOnSet(f, S) <= SumFunctionOnSet(e, S) + Times(K, Cardinality(L))
           /\ Cardinality(L) \in Nat
<1>1. PICK c, h : c = [x \in L |-> K] /\ h = [x \in L |-> e[x] + K]
    OBVIOUS
<1>2. IsFiniteSet(L) /\ Summands(f, L) /\ Summands(e, L) /\ Summands(f, S \ L) /\ Summands(e, S \ L)
    BY FS_Subset DEF Summands
<1>3. \A x \in L : c[x] = K /\ h[x] = e[x] + c[x] /\ h[x] \in Int /\ f[x] <= h[x]
    BY <1>1, <1>2 DEF Summands
<1>4. SumFunctionOnSet(c, L) = Times(K, Cardinality(L)) /\ Summands(c, L) /\ Cardinality(L) \in Nat
    BY <1>2, <1>3, SumConstant
<1>5. SumFunctionOnSet(h, L) = SumFunctionOnSet(e, L) + SumFunctionOnSet(c, L)
    BY <1>2, <1>3, <1>4, SumPlus
<1>6. Summands(h, L)
    BY <1>2, <1>3 DEF Summands
<1>7. SumFunctionOnSet(f, L) <= SumFunctionOnSet(h, L)
    BY <1>2, <1>3, <1>6, SumMonotone
<1>8. SumFunctionOnSet(f, S \ L) = SumFunctionOnSet(e, S \ L)
    BY <1>2, SumSame
<1>9. /\ SumFunctionOnSet(f, S \ L) = SumFunctionOnSet(f, S) - SumFunctionOnSet(f, L)
      /\ SumFunctionOnSet(e, S \ L) = SumFunctionOnSet(e, S) - SumFunctionOnSet(e, L)
    BY SumMinus
<1>10. /\ SumFunctionOnSet(f, S) \in Int /\ SumFunctionOnSet(f, L) \in Int /\ SumFunctionOnSet(h, L) \in Int
       /\ SumFunctionOnSet(e, S) \in Int /\ SumFunctionOnSet(e, L) \in Int /\ SumFunctionOnSet(c, L) \in Int
    BY <1>2, <1>4, <1>6, SumType
<1>11. PICK fS, fL, hL, eS, eL, cL :
           /\ fS = SumFunctionOnSet(f, S) /\ fL = SumFunctionOnSet(f, L) /\ hL = SumFunctionOnSet(h, L)
           /\ eS = SumFunctionOnSet(e, S) /\ eL = SumFunctionOnSet(e, L) /\ cL = SumFunctionOnSet(c, L)
    OBVIOUS
<1>12. fS \in Int /\ fL \in Int /\ hL \in Int /\ eS \in Int /\ eL \in Int /\ cL \in Int
    BY <1>10, <1>11
<1>13. fL <= hL /\ hL = eL + cL /\ fS - fL = eS - eL
    BY <1>5, <1>7, <1>8, <1>9, <1>11
<1>14. fS <= eS + cL
    BY <1>12, <1>13
<1> QED BY <1>4, <1>11, <1>14

LEMMA SumWithin ==
    ASSUME NEW f, NEW e, NEW S, Summands(f, S), Summands(e, S), NEW L, L \subseteq S, NEW K \in Nat,
           \A x \in S \ L : f[x] = e[x], \A x \in L : Within(f[x], e[x], K)
    PROVE  /\ Within(SumFunctionOnSet(f, S), SumFunctionOnSet(e, S), Times(K, Cardinality(L)))
           /\ Cardinality(L) \in Nat
<1>1. \A x \in L : f[x] <= e[x] + K /\ e[x] <= f[x] + K
    BY DEF Within
<1>2. /\ SumFunctionOnSet(f, S) <= SumFunctionOnSet(e, S) + Times(K, Cardinality(L))
      /\ Cardinality(L) \in Nat
    BY <1>1, SumAbove
<1>3. SumFunctionOnSet(e, S) <= SumFunctionOnSet(f, S) + Times(K, Cardinality(L))
    BY <1>1, SumAbove
<1>4. SumFunctionOnSet(f, S) \in Int /\ SumFunctionOnSet(e, S) \in Int
    BY SumType
<1>5. Times(K, Cardinality(L)) \in Int
    BY <1>2, TimesNat
<1> QED BY <1>2, <1>3, <1>4, <1>5 DEF Within

LEMMA WithinAdds ==
    ASSUME NEW x, NEW y, NEW d, Within(x, y, d), NEW u, NEW v, NEW e, Within(u, v, e)
    PROVE  Within(x + u, y + v, d + e)
BY DEF Within

(* A factor comes out of a sum. *)
LEMMA SumTimes ==
    ASSUME NEW f, NEW h, NEW S, NEW k \in Int, Summands(f, S), \A x \in S : h[x] = Times(k, f[x])
    PROVE  SumFunctionOnSet(h, S) = Times(k, SumFunctionOnSet(f, S)) /\ Summands(h, S)
<1>1. \A x \in S : h[x] = k * f[x]
    BY DEF Times
<1>2. SumFunctionOnSet(h, S) = k * SumFunctionOnSet(f, S)
    BY <1>1, SumScale
<1>3. \A x \in S : h[x] \in Int
    BY TimesInt DEF Summands
<1> QED BY <1>2, <1>3 DEF Times, Summands

(* g sums f over the members of S with one key each. *)
Grouped(f, S, key, A, g) ==
    /\ Summands(f, S) /\ IsFiniteSet(A)
    /\ \A x \in S : key[x] \in A
    /\ \A a \in A : g[a] = SumFunctionOnSet(f, {x \in S : key[x] = a})

LEMMA GroupedSum ==
    ASSUME NEW f, NEW S, NEW key, NEW A, NEW g, Grouped(f, S, key, A, g)
    PROVE  SumFunctionOnSet(g, A) = SumFunctionOnSet(f, S)
<1>1. Summands(f, S)
    BY DEF Grouped
<1>2. IsFiniteSet(A)
    BY DEF Grouped
<1>3. \A x \in S : key[x] \in A
    BY DEF Grouped
<1>4. \A a \in A : g[a] = SumFunctionOnSet(f, {x \in S : key[x] = a})
    BY Zenon DEF Grouped
<1> HIDE DEF Grouped
<1> QED BY <1>1, <1>2, <1>3, <1>4, SumGroups, SMTT(120)

-----------------------------------------------------------------------------
(* Amounts *)

Unit == DOLLAR \div SHARE_SCALE

LEMMA QuotientRest ==
    ASSUME NEW n \in Nat, NEW d \in Nat, d > 0
    PROVE  n = d * (n \div d) + (n % d)
BY SMTT(30)

LEMMA UnitIs == Unit \in Int /\ Times(SHARE_SCALE, Unit) = DOLLAR
<1>1. DOLLAR \in Nat /\ SHARE_SCALE \in Nat \ {0} /\ DOLLAR % SHARE_SCALE = 0
    BY OrderBookAssumption
<1>2. DOLLAR = SHARE_SCALE * (DOLLAR \div SHARE_SCALE) + (DOLLAR % SHARE_SCALE)
  <2>1. SHARE_SCALE \in Nat /\ SHARE_SCALE > 0
      BY <1>1
  <2> QED BY <1>1, <2>1, QuotientRest
<1>3. Unit \in Int /\ Times(SHARE_SCALE, Unit) \in Int
  <2>1. DOLLAR \in Int
      BY <1>1
  <2> QED BY <1>1, <2>1, Quotient DEF Unit
<1> QED BY <1>1, <1>2, <1>3 DEF Unit, Times

LEMMA TimesMinus ==
    ASSUME NEW x \in Int, NEW y \in Int
    PROVE  Times(x, -y) = -Times(x, y) /\ Times(-x, y) = -Times(x, y) /\ Times(x, y) \in Int
BY DEF Times

(* What is paid differs from the price by less than a nano. *)
LEMMA Rounded ==
    ASSUME NEW p \in Nat, NEW q \in Nat
    PROVE  /\ Within(Times(SHARE_SCALE, Notional(p, q)), Times(p, q), SHARE_SCALE)
           /\ q = 0 => Times(SHARE_SCALE, Notional(p, q)) = Times(p, q)
<1>1. /\ Notional(p, q) \in Nat
      /\ Times(SHARE_SCALE, Notional(p, q)) <= Times(p, q)
      /\ Times(p, q) < Times(SHARE_SCALE, Notional(p, q)) + SHARE_SCALE
    BY Paid
<1>2. SHARE_SCALE \in Nat /\ Times(p, q) \in Nat /\ Times(SHARE_SCALE, Notional(p, q)) \in Nat
    BY <1>1, ScaleType, TimesNat
<1>3. Within(Times(SHARE_SCALE, Notional(p, q)), Times(p, q), SHARE_SCALE)
    BY <1>1, <1>2 DEF Within
<1>4. ASSUME q = 0 PROVE Times(SHARE_SCALE, Notional(p, q)) = Times(p, q)
  <2>1. Notional(p, 0) = 0 /\ Times(SHARE_SCALE, 0) = 0 /\ Times(p, 0) = 0
      BY <1>2, PaidNothing, Units01
  <2> QED BY <1>4, <2>1
<1> QED BY <1>3, <1>4

(* The same with a sign. *)
LEMMA RoundedMinus ==
    ASSUME NEW p \in Nat, NEW q \in Nat
    PROVE  /\ Within(Times(SHARE_SCALE, -Notional(p, q)), Times(p, -q), SHARE_SCALE)
           /\ Within(Times(SHARE_SCALE, -Notional(p, q)), -Times(p, q), SHARE_SCALE)
           /\ q = 0 => /\ Times(SHARE_SCALE, -Notional(p, q)) = Times(p, -q)
                       /\ Times(SHARE_SCALE, -Notional(p, q)) = -Times(p, q)
<1>1. /\ Within(Times(SHARE_SCALE, Notional(p, q)), Times(p, q), SHARE_SCALE)
      /\ q = 0 => Times(SHARE_SCALE, Notional(p, q)) = Times(p, q)
    BY Rounded
<1>2. Notional(p, q) \in Int /\ SHARE_SCALE \in Int
    BY Paid, ScaleType
<1>3. /\ Times(SHARE_SCALE, -Notional(p, q)) = -Times(SHARE_SCALE, Notional(p, q)) /\ Times(p, -q) = -Times(p, q)
    BY <1>2, TimesMinus
<1>4. Within(-Times(SHARE_SCALE, Notional(p, q)), -Times(p, q), SHARE_SCALE)
    BY <1>1 DEF Within
<1> QED BY <1>1, <1>3, <1>4

-----------------------------------------------------------------------------
(* Cash and open shares *)

Balances(accts) == [a \in AllAccounts |-> accts[a].balance]
Wealth(accts) == SumFunctionOnSet(Balances(accts), AllAccounts)

Opens(accts) == [m \in Markets |-> TotalPosition(accts, <<m, "yes">>)]
Open(accts) == SumFunctionOnSet(Opens(accts), Markets)

LEMMA WealthType ==
    ASSUME NEW accts, AccountsType(accts)
    PROVE  /\ Wealth(accts) \in Int /\ Summands(Balances(accts), AllAccounts)
           /\ Open(accts) \in Int /\ Summands(Opens(accts), Markets)
           /\ \A a \in AllAccounts : Balances(accts)[a] = accts[a].balance /\ accts[a].balance \in Int
           /\ \A m \in Markets : Opens(accts)[m] = TotalPosition(accts, <<m, "yes">>)
<1>1. \A a \in AllAccounts : Balances(accts)[a] = accts[a].balance /\ accts[a].balance \in Int
    BY DEF AccountsType, Balances
<1>2. \A m \in Markets : Opens(accts)[m] = TotalPosition(accts, <<m, "yes">>) /\ Opens(accts)[m] \in Int
  <2> TAKE m \in Markets
  <2>1. TotalPosition(accts, <<m, "yes">>) \in Int
      BY MarketKeys, TotalIs
  <2> QED BY <2>1 DEF Opens
<1>3. Summands(Balances(accts), AllAccounts) /\ Summands(Opens(accts), Markets)
    BY <1>1, <1>2, AllFinite DEF Summands
<1> QED BY <1>1, <1>2, <1>3, SumType DEF Wealth, Open

(* What a batch moves of one outcome. *)
OnKey(S, k) == {x \in S : Key(x) = k}
Flow(batch, s, k) == SumFunctionOnSet(Moving(batch, s), OnKey(batch, k))
Cost(batch, s) == SumFunctionOnSet(Paying(batch, s), batch)

Flows(batch, s) ==
    /\ Wealth(Settled(batch, s)) = Wealth(accounts) + Cost(batch, s)
    /\ Cost(batch, s) \in Int
    /\ \A k \in PositionKeys :
          /\ TotalPosition(Settled(batch, s), k) = TotalPosition(accounts, k) + Flow(batch, s, k)
          /\ Flow(batch, s, k) \in Int

LEMMA SettledFlows ==
    ASSUME TypesOK, NEW batch, IsFiniteSet(batch), \A x \in batch : WireOK(x), NEW s, Executes(batch, s)
    PROVE  Flows(batch, s)
<1>1. PICK new : new = Settled(batch, s)
    OBVIOUS
<1>2. AccountsType(accounts) /\ AccountsType(new)
    BY <1>1, SettledTypes DEF TypesOK, AccountsType
<1>3. IsFiniteSet(AllAccounts) /\ \A x \in batch : x.account \in AllAccounts
    BY AllFinite DEF AllAccounts, WireOK, OrderOK
<1>4. PICK pay, move : pay = Paying(batch, s) /\ move = Moving(batch, s)
    OBVIOUS
<1>5. \A x \in batch : pay[x] \in Int /\ move[x] \in Int
    BY <1>4, BatchMoves
<1>6. PICK key : key = [x \in batch |-> x.account]
    OBVIOUS
<1>7. Wealth(new) = Wealth(accounts) + Cost(batch, s) /\ Cost(batch, s) \in Int
  <2>1. PICK g : g = [a \in AllAccounts |-> SumFunctionOnSet(pay, Mine(batch, a))]
      OBVIOUS
  <2>2. Summands(pay, batch)
      BY <1>5 DEF Summands
  <2>3. \A x \in batch : key[x] \in AllAccounts
      BY <1>3, <1>6
  <2>4. \A a \in AllAccounts : g[a] = SumFunctionOnSet(pay, {x \in batch : key[x] = a})
    <3> TAKE a \in AllAccounts
    <3>1. Mine(batch, a) = {x \in batch : key[x] = a}
        BY <1>6 DEF Mine
    <3> QED BY <2>1, <3>1
  <2>5. SumFunctionOnSet(g, AllAccounts) = SumFunctionOnSet(pay, batch)
    <3>1. PICK A : A = AllAccounts
        OBVIOUS
    <3>2. IsFiniteSet(A) /\ \A x \in batch : key[x] \in A
        BY <1>3, <2>3, <3>1
    <3>3. \A a \in A : g[a] = SumFunctionOnSet(pay, {x \in batch : key[x] = a})
        BY <2>4, <3>1
    <3>4. Grouped(pay, batch, key, A, g)
        BY <2>2, <3>2, <3>3, Zenon DEF Grouped
    <3>5. SumFunctionOnSet(g, A) = SumFunctionOnSet(pay, batch)
        BY <3>4, GroupedSum
    <3> QED BY <3>1, <3>5
  <2>6. \A a \in AllAccounts : Balances(new)[a] = Balances(accounts)[a] + g[a] /\ g[a] \in Int
    <3> TAKE a \in AllAccounts
    <3>1. /\ new[a].balance = accounts[a].balance + SumFunctionOnSet(pay, Mine(batch, a))
          /\ Summands(pay, Mine(batch, a))
        BY <1>1, <1>4, SettledAre
    <3> QED BY <1>2, <2>1, <3>1, SumType, WealthType
  <2>7. Summands(g, AllAccounts)
      BY <1>3, <2>6 DEF Summands
  <2>8. SumFunctionOnSet(Balances(new), AllAccounts)
          = SumFunctionOnSet(Balances(accounts), AllAccounts) + SumFunctionOnSet(g, AllAccounts)
      BY <1>2, <2>6, <2>7, SumPlus, WealthType
  <2>9. SumFunctionOnSet(pay, batch) \in Int
      BY <2>2, SumType
  <2> QED BY <1>4, <2>5, <2>8, <2>9 DEF Wealth, Cost
<1>8. ASSUME NEW k \in PositionKeys
      PROVE  /\ TotalPosition(new, k) = TotalPosition(accounts, k) + Flow(batch, s, k)
             /\ Flow(batch, s, k) \in Int
  <2>0. PICK S : S = OnKey(batch, k)
      OBVIOUS
  <2>1. PICK g : g = [a \in AllAccounts |-> SumFunctionOnSet(move, MineOn(batch, a, k))]
      OBVIOUS
  <2>s. S \subseteq batch /\ IsFiniteSet(S)
      BY <2>0, FS_Subset DEF OnKey
  <2>2. Summands(move, S)
      BY <1>5, <2>s DEF Summands
  <2>3. \A x \in S : key[x] \in AllAccounts
      BY <1>3, <1>6, <2>s
  <2>4. \A a \in AllAccounts : g[a] = SumFunctionOnSet(move, {x \in S : key[x] = a})
    <3> TAKE a \in AllAccounts
    <3>1. MineOn(batch, a, k) = {x \in S : key[x] = a}
        BY <1>6, <2>0 DEF MineOn, OnKey
    <3> QED BY <2>1, <3>1
  <2>5. SumFunctionOnSet(g, AllAccounts) = SumFunctionOnSet(move, S)
    <3>1. PICK A : A = AllAccounts
        OBVIOUS
    <3>2. IsFiniteSet(A) /\ \A x \in S : key[x] \in A
        BY <1>3, <2>3, <3>1
    <3>3. \A a \in A : g[a] = SumFunctionOnSet(move, {x \in S : key[x] = a})
        BY <2>4, <3>1
    <3>4. Grouped(move, S, key, A, g)
        BY <2>2, <3>2, <3>3, Zenon DEF Grouped
    <3>5. SumFunctionOnSet(g, A) = SumFunctionOnSet(move, S)
        BY <3>4, GroupedSum
    <3> QED BY <3>1, <3>5
  <2>6. \A a \in AllAccounts : Holding(new, k)[a] = Holding(accounts, k)[a] + g[a] /\ g[a] \in Int
    <3> TAKE a \in AllAccounts
    <3>1. /\ new[a].position[k] = accounts[a].position[k] + SumFunctionOnSet(move, MineOn(batch, a, k))
          /\ Summands(move, MineOn(batch, a, k))
        BY <1>1, <1>4, <1>8, SettledAre
    <3>2. Holding(new, k)[a] = new[a].position[k] /\ Holding(accounts, k)[a] = accounts[a].position[k]
        BY DEF Holding
    <3> QED BY <2>1, <3>1, <3>2, SumType
  <2>7. Summands(g, AllAccounts)
      BY <1>3, <2>6 DEF Summands
  <2>8. /\ TotalPosition(new, k) = SumFunctionOnSet(Holding(new, k), AllAccounts)
        /\ TotalPosition(accounts, k) = SumFunctionOnSet(Holding(accounts, k), AllAccounts)
        /\ Summands(Holding(accounts, k), AllAccounts)
      BY <1>2, <1>8, TotalIs
  <2>9. SumFunctionOnSet(Holding(new, k), AllAccounts)
          = SumFunctionOnSet(Holding(accounts, k), AllAccounts) + SumFunctionOnSet(g, AllAccounts)
      BY <2>6, <2>7, <2>8, SumPlus
  <2>10. SumFunctionOnSet(move, S) \in Int
      BY <2>2, SumType
  <2> QED BY <1>4, <2>0, <2>5, <2>8, <2>9, <2>10 DEF Flow
<1> QED BY <1>1, <1>7, <1>8 DEF Flows

-----------------------------------------------------------------------------
(* What the fills of a batch would cost, unrounded *)

Exactly(batch, s) == [x \in batch |-> -Times(Price(s.price, x), PositionDelta(x, s.fill[x.id]))]

Filled(batch, s) == {x \in batch : s.fill[x.id] > 0}

LEMMA ExactlyIs ==
    ASSUME NEW batch, \A x \in batch : WireOK(x), NEW s, Executes(batch, s), NEW x \in batch
    PROVE  /\ Exactly(batch, s)[x] = -Times(Price(s.price, x), Moving(batch, s)[x])
           /\ Exactly(batch, s)[x] \in Int
           /\ Within(Times(SHARE_SCALE, Paying(batch, s)[x]), Exactly(batch, s)[x], SHARE_SCALE)
           /\ s.fill[x.id] = 0 => Times(SHARE_SCALE, Paying(batch, s)[x]) = Exactly(batch, s)[x]
<1>1. PICK p, n : p = Price(s.price, x) /\ n = s.fill[x.id]
    OBVIOUS
<1>2. /\ p \in Nat /\ n \in Nat
      /\ Paying(batch, s)[x] = BalanceDelta(x, s.price, n)
      /\ Moving(batch, s)[x] = PositionDelta(x, n)
    BY <1>1, BatchMoves
<1>3. Exactly(batch, s)[x] = -Times(p, PositionDelta(x, n))
    BY <1>1 DEF Exactly
<1>4. Notional(p, n) \in Nat /\ SHARE_SCALE \in Nat
    BY <1>2, Paid, ScaleType
<1>5. CASE x.side = "buy"
  <2>1. PositionDelta(x, n) = n /\ BalanceDelta(x, s.price, n) = -Notional(p, n)
      BY <1>1, <1>5 DEF PositionDelta, BalanceDelta
  <2>2. -Times(p, n) \in Int
      BY <1>2, TimesInt
  <2>3. Exactly(batch, s)[x] = -Times(p, n) /\ Paying(batch, s)[x] = -Notional(p, n)
      BY <1>2, <1>3, <2>1
  <2> QED BY <1>1, <1>2, <1>3, <2>2, <2>3, RoundedMinus
<1>6. CASE x.side # "buy"
  <2>1. PositionDelta(x, n) = -n /\ BalanceDelta(x, s.price, n) = Notional(p, n)
      BY <1>1, <1>6 DEF PositionDelta, BalanceDelta
  <2>2. Times(p, n) \in Int /\ Times(p, -n) = -Times(p, n)
    <3>1. p \in Int /\ n \in Int
        BY <1>2
    <3> QED BY <3>1, TimesMinus
  <2>3. -(-Times(p, n)) = Times(p, n)
      BY <2>2
  <2>4. Exactly(batch, s)[x] = Times(p, n) /\ Paying(batch, s)[x] = Notional(p, n)
      BY <1>2, <1>3, <2>1, <2>2, <2>3
  <2> QED BY <1>1, <1>2, <1>3, <2>2, <2>4, Rounded
<1> QED BY <1>5, <1>6

LEMMA CostWithin ==
    ASSUME NEW batch, IsFiniteSet(batch), \A x \in batch : WireOK(x), NEW s, Executes(batch, s)
    PROVE  /\ Within(Times(SHARE_SCALE, Cost(batch, s)), SumFunctionOnSet(Exactly(batch, s), batch),
                     Times(SHARE_SCALE, Cardinality(Filled(batch, s))))
           /\ Cardinality(Filled(batch, s)) \in Nat
           /\ Summands(Exactly(batch, s), batch)
<1>1. PICK f, e, pay, L : /\ f = [x \in batch |-> Times(SHARE_SCALE, Paying(batch, s)[x])]
                          /\ e = Exactly(batch, s) /\ pay = Paying(batch, s) /\ L = Filled(batch, s)
    OBVIOUS
<1>2. \A x \in batch : /\ f[x] = Times(SHARE_SCALE, pay[x]) /\ pay[x] \in Int /\ e[x] \in Int
                       /\ Within(f[x], e[x], SHARE_SCALE) /\ (s.fill[x.id] = 0 => f[x] = e[x])
                       /\ s.fill[x.id] \in Nat
    BY <1>1, ExactlyIs, BatchMoves
<1>3. SHARE_SCALE \in Nat /\ SHARE_SCALE \in Int
    BY ScaleType
<1>4. Summands(pay, batch) /\ Summands(e, batch)
    BY <1>2 DEF Summands
<1>5. SumFunctionOnSet(f, batch) = Times(SHARE_SCALE, SumFunctionOnSet(pay, batch)) /\ Summands(f, batch)
    BY <1>2, <1>3, <1>4, SumTimes
<1>6. L \subseteq batch /\ (\A x \in batch \ L : s.fill[x.id] = 0)
    BY <1>1, <1>2 DEF Filled
<1>7. (\A x \in batch \ L : f[x] = e[x]) /\ \A x \in L : Within(f[x], e[x], SHARE_SCALE)
    BY <1>2, <1>6
<1>8. /\ Within(SumFunctionOnSet(f, batch), SumFunctionOnSet(e, batch), Times(SHARE_SCALE, Cardinality(L)))
      /\ Cardinality(L) \in Nat
    BY <1>3, <1>4, <1>5, <1>6, <1>7, SumWithin
<1> QED BY <1>1, <1>4, <1>5, <1>8 DEF Cost

(* By market: the YES side at the price, the NO side at the rest of a dollar. *)
Due(batch, s) ==
    [m \in Markets |-> -Times(s.price[m], Flow(batch, s, <<m, "yes">>))
                       - Times(DOLLAR - s.price[m], Flow(batch, s, <<m, "no">>))]

LEMMA KeyExact ==
    ASSUME TypesOK, NEW batch, IsFiniteSet(batch), \A x \in batch : WireOK(x), NEW s, Executes(batch, s),
           NEW k \in PositionKeys, NEW p \in Int, \A x \in OnKey(batch, k) : Price(s.price, x) = p
    PROVE  /\ SumFunctionOnSet(Exactly(batch, s), OnKey(batch, k)) = -Times(p, Flow(batch, s, k))
           /\ Summands(Exactly(batch, s), OnKey(batch, k)) /\ Times(p, Flow(batch, s, k)) \in Int
<1>1. PICK S, e, move : S = OnKey(batch, k) /\ e = Exactly(batch, s) /\ move = Moving(batch, s)
    OBVIOUS
<1>2. S \subseteq batch /\ IsFiniteSet(S)
    BY <1>1, FS_Subset DEF OnKey
<1>3. ASSUME NEW x \in S PROVE move[x] \in Int /\ e[x] = Times(-p, move[x])
  <2>1. x \in batch /\ Price(s.price, x) = p
      BY <1>1, <1>2
  <2>2. move[x] \in Int
      BY <1>1, <2>1, BatchMoves
  <2>3. e[x] = -Times(p, move[x])
      BY <1>1, <2>1, ExactlyIs
  <2> QED BY <2>2, <2>3, TimesMinus
<1>4. Summands(move, S)
    BY <1>2, <1>3 DEF Summands
<1>5. SumFunctionOnSet(e, S) = Times(-p, SumFunctionOnSet(move, S)) /\ Summands(e, S)
  <2>1. -p \in Int
      OBVIOUS
  <2> QED BY <1>3, <1>4, <2>1, SumTimes
<1>6. SumFunctionOnSet(move, S) \in Int
    BY <1>4, SumType
<1>7. Times(-p, SumFunctionOnSet(move, S)) = -Times(p, SumFunctionOnSet(move, S))
      /\ Times(p, SumFunctionOnSet(move, S)) \in Int
    BY <1>6, TimesMinus
<1> QED BY <1>1, <1>5, <1>7 DEF Flow

LEMMA ExactByMarket ==
    ASSUME TypesOK, NEW batch, IsFiniteSet(batch), \A x \in batch : WireOK(x), NEW s, Executes(batch, s)
    PROVE  /\ SumFunctionOnSet(Exactly(batch, s), batch) = SumFunctionOnSet(Due(batch, s), Markets)
           /\ Summands(Due(batch, s), Markets)
<1>1. PICK e, key, g : e = Exactly(batch, s) /\ key = [x \in batch |-> x.market] /\ g = Due(batch, s)
    OBVIOUS
<1>2. DOLLAR \in Nat /\ \A m \in Markets : s.price[m] \in Int
    BY OrderBookAssumption DEF Executes
<1>3. ASSUME NEW m \in Markets
      PROVE  g[m] = SumFunctionOnSet(e, {x \in batch : key[x] = m}) /\ g[m] \in Int
  <2>1. PICK y, n, Y, N, p : /\ y = <<m, "yes">> /\ n = <<m, "no">> /\ Y = OnKey(batch, y) /\ N = OnKey(batch, n)
                             /\ p = s.price[m]
      OBVIOUS
  <2>2. y \in PositionKeys /\ n \in PositionKeys /\ p \in Int /\ DOLLAR - p \in Int
      BY <1>2, <1>3, <2>1, MarketKeys
  <2>3. \A x \in Y : Price(s.price, x) = p
      BY <2>1 DEF OnKey, Key, Price
  <2>4. \A x \in N : Price(s.price, x) = DOLLAR - p
      BY <2>1 DEF OnKey, Key, Price
  <2>5. SumFunctionOnSet(e, Y) = -Times(p, Flow(batch, s, y)) /\ Summands(e, Y) /\ Times(p, Flow(batch, s, y)) \in Int
      BY <1>1, <2>1, <2>2, <2>3, KeyExact
  <2>6. /\ SumFunctionOnSet(e, N) = -Times(DOLLAR - p, Flow(batch, s, n)) /\ Summands(e, N)
        /\ Times(DOLLAR - p, Flow(batch, s, n)) \in Int
      BY <1>1, <2>1, <2>2, <2>4, KeyExact
  <2>7. {x \in batch : key[x] = m} = Y \cup N
    <3>1. \A x \in batch : x.outcome \in {"yes", "no"}
        BY DEF WireOK, OrderOK, Outcomes
    <3> QED BY <1>1, <2>1, <3>1 DEF OnKey, Key
  <2>8. Y \cap N = {}
      BY <2>1 DEF OnKey, Key
  <2>9. SumFunctionOnSet(e, Y \cup N) = SumFunctionOnSet(e, Y) + SumFunctionOnSet(e, N)
      BY <2>5, <2>6, <2>8, SumUnion
  <2>10. g[m] = -Times(p, Flow(batch, s, y)) - Times(DOLLAR - p, Flow(batch, s, n))
      BY <1>1, <1>3, <2>1 DEF Due
  <2>11. PICK u, v : u = Times(p, Flow(batch, s, y)) /\ v = Times(DOLLAR - p, Flow(batch, s, n))
      OBVIOUS
  <2>12. -u - v = -u + (-v) /\ -u - v \in Int
      BY <2>5, <2>6, <2>11
  <2> QED BY <2>5, <2>6, <2>7, <2>9, <2>10, <2>11, <2>12
<1>4. Summands(e, batch)
    BY <1>1, CostWithin
<1>5. IsFiniteSet(Markets)
    BY AllFinite
<1>6. \A x \in batch : key[x] \in Markets
    BY <1>1 DEF WireOK, OrderOK
<1>7. \A m \in Markets : g[m] = SumFunctionOnSet(e, {x \in batch : key[x] = m})
    BY <1>3
<1>8. Grouped(e, batch, key, Markets, g)
    BY <1>4, <1>5, <1>6, <1>7, Zenon DEF Grouped
<1>9. SumFunctionOnSet(g, Markets) = SumFunctionOnSet(e, batch)
    BY <1>8, GroupedSum
<1>10. Summands(g, Markets)
    BY <1>3, <1>5 DEF Summands
<1> QED BY <1>1, <1>9, <1>10

-----------------------------------------------------------------------------
(* Minting *)

MintPrice(accts, price, m) == IF MintOutcome(accts, m) = "yes" THEN price[m] ELSE DOLLAR - price[m]
MintDue(accts, price) == [m \in Markets |-> Times(MintPrice(accts, price, m), MintQty(accts, m))]
Mintings(accts) == {m \in Markets : Imbalance(accts, m) # 0}

LEMMA RevenueWithin ==
    ASSUME NEW accts, AccountsType(accts), NEW price, \A m \in Markets : price[m] \in 0..DOLLAR
    PROVE  /\ Within(Times(SHARE_SCALE, SumFunctionOnSet(Revenue(accts, price), Markets)),
                     SumFunctionOnSet(MintDue(accts, price), Markets),
                     Times(SHARE_SCALE, Cardinality(Mintings(accts))))
           /\ Cardinality(Mintings(accts)) \in Nat
           /\ Summands(MintDue(accts, price), Markets)
           /\ SumFunctionOnSet(Revenue(accts, price), Markets) \in Int
<1>1. PICK f, e, r, L : /\ r = Revenue(accts, price) /\ f = [m \in Markets |-> Times(SHARE_SCALE, r[m])]
                        /\ e = MintDue(accts, price) /\ L = Mintings(accts)
    OBVIOUS
<1>2. SHARE_SCALE \in Nat /\ SHARE_SCALE \in Int /\ DOLLAR \in Nat
    BY ScaleType, OrderBookAssumption
<1>3. ASSUME NEW m \in Markets
      PROVE  /\ r[m] \in Int /\ e[m] \in Int /\ f[m] = Times(SHARE_SCALE, r[m])
             /\ Within(f[m], e[m], SHARE_SCALE) /\ (Imbalance(accts, m) = 0 => f[m] = e[m])
  <2>1. PICK p, q : p = MintPrice(accts, price, m) /\ q = MintQty(accts, m)
      OBVIOUS
  <2>2. p \in Nat
      BY <1>2, <1>3, <2>1 DEF MintPrice
  <2>3. q \in Nat
      BY <1>3, <2>1, ImbalanceType
  <2>4. Imbalance(accts, m) = 0 => q = 0
    <3>1. PICK i : i = Imbalance(accts, m)
        OBVIOUS
    <3>2. i = 0 => -i = 0
        BY MinusZero
    <3> QED BY <2>1, <3>1, <3>2 DEF MintQty
  <2>5. r[m] = Notional(p, q) /\ e[m] = Times(p, q) /\ f[m] = Times(SHARE_SCALE, r[m])
      BY <1>1, <1>3, <2>1 DEF Revenue, MintRevenue, MintDue, MintPrice
  <2>6. /\ Within(Times(SHARE_SCALE, Notional(p, q)), Times(p, q), SHARE_SCALE)
        /\ q = 0 => Times(SHARE_SCALE, Notional(p, q)) = Times(p, q)
      BY <2>2, <2>3, Rounded
  <2>7. Notional(p, q) \in Nat /\ Times(p, q) \in Nat
      BY <2>2, <2>3, Paid, TimesNat
  <2> QED BY <2>4, <2>5, <2>6, <2>7
<1>4. IsFiniteSet(Markets)
    BY AllFinite
<1>5. Summands(r, Markets) /\ Summands(e, Markets)
    BY <1>3, <1>4 DEF Summands
<1>6. SumFunctionOnSet(f, Markets) = Times(SHARE_SCALE, SumFunctionOnSet(r, Markets)) /\ Summands(f, Markets)
    BY <1>2, <1>3, <1>5, SumTimes
<1>7. /\ L \subseteq Markets /\ (\A m \in Markets \ L : f[m] = e[m])
      /\ \A m \in L : Within(f[m], e[m], SHARE_SCALE)
    BY <1>1, <1>3 DEF Mintings
<1>8. /\ Within(SumFunctionOnSet(f, Markets), SumFunctionOnSet(e, Markets), Times(SHARE_SCALE, Cardinality(L)))
      /\ Cardinality(L) \in Nat
    BY <1>2, <1>5, <1>6, <1>7, SumWithin
<1>9. SumFunctionOnSet(r, Markets) \in Int
    BY <1>5, SumType
<1> QED BY <1>1, <1>5, <1>6, <1>8, <1>9

-----------------------------------------------------------------------------
(* One market: fills and minting together pay a dollar for a complete set. *)

LEMMA MarketBalances ==
    ASSUME NEW p \in Int, NEW Y \in Int, NEW N \in Int, NEW d, NEW u, NEW c,
           d = -Times(p, Y) - Times(DOLLAR - p, N),
           Y - N > 0 => u = Times(p, Y - N) /\ c = Y - (Y - N),
           ~(Y - N > 0) => u = Times(DOLLAR - p, -(Y - N)) /\ c = Y
    PROVE  d + u = Times(-DOLLAR, c) /\ u \in Int /\ d \in Int
<1>0. DOLLAR \in Int
    BY OrderBookAssumption
<1>1. PICK A, B, C, E : A = Times(p, Y) /\ B = Times(p, N) /\ C = Times(DOLLAR, N) /\ E = Times(DOLLAR, Y)
    OBVIOUS
<1>2. A \in Int /\ B \in Int /\ C \in Int /\ E \in Int
    BY <1>0, <1>1, TimesInt
<1>3. Times(DOLLAR - p, N) = C - B /\ Times(DOLLAR - p, Y) = E - A
  <2>1. Times(DOLLAR - p, N) = Times(N, DOLLAR - p) /\ Times(DOLLAR - p, Y) = Times(Y, DOLLAR - p)
    <3>1. DOLLAR - p \in Int
        BY <1>0
    <3> QED BY <3>1, Swap
  <2>2. /\ Times(N, DOLLAR - p) = Times(N, DOLLAR) - Times(N, p)
        /\ Times(Y, DOLLAR - p) = Times(Y, DOLLAR) - Times(Y, p)
      BY <1>0, Spread
  <2>3. Times(N, DOLLAR) = C /\ Times(N, p) = B /\ Times(Y, DOLLAR) = E /\ Times(Y, p) = A
      BY <1>0, <1>1, Swap
  <2> QED BY <2>1, <2>2, <2>3
<1>4. d = -A - (C - B)
    BY <1>1, <1>3
<1>5. Times(-DOLLAR, N) = -C /\ Times(-DOLLAR, Y) = -E
    BY <1>0, <1>1, TimesMinus
<1>6. CASE Y - N > 0
  <2>1. Times(p, Y - N) = A - B
      BY <1>1, Spread
  <2>2. c = N
      BY <1>6
  <2> QED BY <1>2, <1>4, <1>5, <1>6, <2>1, <2>2
<1>7. CASE ~(Y - N > 0)
  <2>1. -(Y - N) = N - Y
      OBVIOUS
  <2>2. Times(DOLLAR - p, N - Y) = Times(DOLLAR - p, N) - Times(DOLLAR - p, Y)
    <3>1. DOLLAR - p \in Int
        BY <1>0
    <3> QED BY <3>1, Spread
  <2>3. u = (C - B) - (E - A)
      BY <1>3, <1>7, <2>1, <2>2
  <2> QED BY <1>2, <1>4, <1>5, <1>7, <2>3
<1> QED BY <1>6, <1>7

-----------------------------------------------------------------------------
(* Cash and open shares drift by at most a nano for each rounded amount. *)

Endowment == Times(Cardinality(Accounts), InitialBalance)
         + Times(Times(Times(Cardinality(Accounts), Cardinality(Markets)), InitialShares), Unit)

(* Before and after: cash W and shares O, and W2 and O2. *)
Drift(W, O, W2, O2, n) ==
    /\ W \in Int /\ O \in Int /\ W2 \in Int /\ O2 \in Int /\ n \in Nat
    /\ Within(Times(SHARE_SCALE, W2 - W), Times(-DOLLAR, O2 - O), Times(SHARE_SCALE, n))

LEMMA DriftWithin ==
    ASSUME NEW W, NEW O, NEW W2, NEW O2, NEW n, Drift(W, O, W2, O2, n)
    PROVE  Within(W2 + Times(O2, Unit), W + Times(O, Unit), n)
<1>1. W \in Int /\ O \in Int /\ W2 \in Int /\ O2 \in Int /\ n \in Nat
    BY DEF Drift
<1>2. PICK w, o : w = W2 - W /\ o = O2 - O
    OBVIOUS
<1>3. w \in Int /\ o \in Int
    BY <1>1, <1>2
<1>4. /\ Within(Times(SHARE_SCALE, w), Times(-DOLLAR, o), Times(SHARE_SCALE, n))
    BY <1>2 DEF Drift
<1>5. SHARE_SCALE \in Nat \ {0} /\ SHARE_SCALE \in Int /\ DOLLAR \in Int /\ Unit \in Int
    BY ScaleType, OrderBookAssumption, UnitIs
<1>6. PICK g : g = Times(Unit, o)
    OBVIOUS
<1>7. g \in Int
    BY <1>3, <1>5, <1>6, TimesInt
<1>8. Times(-DOLLAR, o) = -Times(SHARE_SCALE, g)
  <2>1. Times(-DOLLAR, o) = -Times(DOLLAR, o)
      BY <1>3, <1>5, TimesMinus
  <2>2. Times(Times(SHARE_SCALE, Unit), o) = Times(SHARE_SCALE, g)
      BY <1>3, <1>5, <1>6, Swap
  <2> QED BY <2>1, <2>2, UnitIs
<1>9. PICK z : z = w + g
    OBVIOUS
<1>10. z \in Int /\ -z \in Int /\ n \in Int
    BY <1>1, <1>3, <1>7, <1>9
<1>11. Times(SHARE_SCALE, z) = Times(SHARE_SCALE, w) + Times(SHARE_SCALE, g)
    BY <1>3, <1>5, <1>7, <1>9, Spread
<1>12. Times(SHARE_SCALE, -z) = -Times(SHARE_SCALE, z) /\ Times(SHARE_SCALE, z) \in Int
    BY <1>5, <1>10, TimesMinus
<1>13. Times(SHARE_SCALE, w) \in Int /\ Times(SHARE_SCALE, g) \in Int /\ Times(SHARE_SCALE, n) \in Int
    BY <1>3, <1>5, <1>7, <1>10, TimesInt
<1>14. PICK A, B, C : A = Times(SHARE_SCALE, w) /\ B = Times(SHARE_SCALE, g) /\ C = Times(SHARE_SCALE, n)
    OBVIOUS
<1>15. Within(A, -B, C) /\ A \in Int /\ B \in Int /\ C \in Int
    BY <1>4, <1>8, <1>13, <1>14
<1>16. A + B <= C /\ -(A + B) <= C
    BY <1>15 DEF Within
<1>17. Times(SHARE_SCALE, z) <= Times(SHARE_SCALE, n) /\ Times(SHARE_SCALE, -z) <= Times(SHARE_SCALE, n)
    BY <1>11, <1>12, <1>14, <1>16
<1>18. z <= n /\ -z <= n
    BY <1>5, <1>10, <1>17, Cancel
<1>19. g = Times(O2, Unit) - Times(O, Unit) /\ Times(O2, Unit) \in Int /\ Times(O, Unit) \in Int
  <2>1. g = Times(Unit, O2) - Times(Unit, O)
      BY <1>1, <1>2, <1>5, <1>6, Spread
  <2>2. Times(Unit, O2) = Times(O2, Unit) /\ Times(Unit, O) = Times(O, Unit)
      BY <1>1, <1>5, Swap
  <2> QED BY <1>1, <1>5, <2>1, <2>2, TimesInt
<1>20. PICK a, b : a = Times(O2, Unit) /\ b = Times(O, Unit)
    OBVIOUS
<1>21. a \in Int /\ b \in Int /\ z = (W2 - W) + (a - b)
    BY <1>2, <1>9, <1>19, <1>20
<1>22. Within(W2 + a, W + b, n)
    BY <1>1, <1>10, <1>18, <1>21 DEF Within
<1> QED BY <1>20, <1>22

(* The books: what is held is what was put in, up to the rounded amounts. *)
Books(accts, put, n) ==
    /\ AccountsType(accts) /\ put \in Int /\ n \in Int
    /\ Within(Wealth(accts) + Times(Open(accts), Unit), Endowment + put, n)

LEMMA EndowmentType == Endowment \in Int
<1>1. Cardinality(Accounts) \in Int /\ Cardinality(Markets) \in Int
    BY MenuAssumption, FS_CardinalityType
<1>2. InitialBalance \in Int /\ InitialShares \in Int /\ Unit \in Int
    BY ExchangeAssumption, UnitIs
<1>3. Times(Cardinality(Accounts), InitialBalance) \in Int /\ Times(Cardinality(Accounts), Cardinality(Markets)) \in Int
    BY <1>1, <1>2, TimesInt
<1>4. Times(Times(Cardinality(Accounts), Cardinality(Markets)), InitialShares) \in Int
    BY <1>2, <1>3, TimesInt
<1>5. Times(Times(Times(Cardinality(Accounts), Cardinality(Markets)), InitialShares), Unit) \in Int
    BY <1>2, <1>4, TimesInt
<1> QED BY <1>3, <1>5 DEF Endowment

LEMMA BooksBacked ==
    ASSUME Books(accounts, injected, legs)
    PROVE  Backed
<1>1. PICK cash, open : cash = SumFunction([a \in AllAccounts |-> accounts[a].balance])
                        /\ open = SumFunction([m \in Markets |-> TotalPosition(accounts, <<m, "yes">>)])
    OBVIOUS
<1>2. cash = Wealth(accounts) /\ open = Open(accounts)
    BY <1>1 DEF SumFunction, Wealth, Open, Balances, Opens
<1>3. cash \in Int /\ open \in Int /\ Unit \in Int /\ injected \in Int /\ legs \in Int /\ Endowment \in Int
    BY <1>2, WealthType, UnitIs, EndowmentType DEF Books
<1>4. Times(open, Unit) \in Int
    BY <1>3, TimesInt
<1>5. Within(cash + Times(open, Unit), Endowment + injected, legs)
    BY <1>2 DEF Books
<1>6. PICK x : x = Times(open, Unit)
    OBVIOUS
<1>7. cash + x - Endowment - injected \in -legs..legs
    BY <1>3, <1>4, <1>5, <1>6 DEF Within
<1>8. /\ Times(open, Unit) = open * (DOLLAR \div SHARE_SCALE)
      /\ Endowment = Cardinality(Accounts) * InitialBalance
                 + Cardinality(Accounts) * Cardinality(Markets) * InitialShares * (DOLLAR \div SHARE_SCALE)
    BY DEF Times, Unit, Endowment
<1> QED BY <1>1, <1>6, <1>7, <1>8 DEF Backed

LEMMA BooksDrift ==
    ASSUME NEW accts, NEW new, NEW put, NEW n, Books(accts, put, n), AccountsType(new), NEW k,
           Drift(Wealth(accts), Open(accts), Wealth(new), Open(new), k)
    PROVE  Books(new, put, n + k)
<1>1. Within(Wealth(new) + Times(Open(new), Unit), Wealth(accts) + Times(Open(accts), Unit), k)
    BY DriftWithin
<1>2. Within(Wealth(accts) + Times(Open(accts), Unit), Endowment + put, n) /\ put \in Int
    BY DEF Books
<1>3. k \in Int /\ n \in Int
    BY DEF Drift, Books
<1>4. Within(Wealth(new) + Times(Open(new), Unit), Endowment + put, n + k)
    BY <1>1, <1>2, <1>3 DEF Within
<1> QED BY <1>2, <1>3, <1>4 DEF Books

(* One market of a block. *)
OpenDelta(accts, new, m) == Opens(new)[m] - Opens(accts)[m]

LEMMA MarketDrift ==
    ASSUME TypesOK, Balanced, NEW batch, IsFiniteSet(batch), \A x \in batch : WireOK(x), NEW s, Executes(batch, s),
           NEW new, Minted(Settled(batch, s), s.price, new), NEW m \in Markets
    PROVE  /\ OpenDelta(accounts, new, m) \in Int
           /\ Due(batch, s)[m] + MintDue(Settled(batch, s), s.price)[m] = Times(-DOLLAR, OpenDelta(accounts, new, m))
<1>1. PICK old, p, y, n : old = Settled(batch, s) /\ p = s.price[m] /\ y = <<m, "yes">> /\ n = <<m, "no">>
    OBVIOUS
<1>2. AccountsType(old) /\ AccountsType(accounts) /\ AccountsType(new)
    BY <1>1, SettledTypes DEF TypesOK, AccountsType, Minted
<1>3. p \in Int
    BY <1>1 DEF Executes
<1>4. y \in PositionKeys /\ n \in PositionKeys /\ y[1] = m /\ y[2] = "yes"
    BY <1>1, MarketKeys
<1>5. Flows(batch, s)
    BY SettledFlows
<1>6. PICK Y, N, T, U : /\ Y = Flow(batch, s, y) /\ N = Flow(batch, s, n)
                        /\ T = TotalPosition(accounts, y) /\ U = TotalPosition(accounts, n)
    OBVIOUS
<1>7. Y \in Int /\ N \in Int /\ TotalPosition(old, y) = T + Y /\ TotalPosition(old, n) = U + N
    BY <1>1, <1>4, <1>5, <1>6 DEF Flows
<1>8. T \in Int /\ U \in Int
    BY <1>2, <1>4, <1>6, TotalIs
<1>9. T - U = 0
    BY <1>1, <1>6 DEF Balanced, Imbalance
<1>10. Imbalance(old, m) = Y - N
  <2>1. Imbalance(old, m) = (T + Y) - (U + N)
      BY <1>1, <1>7 DEF Imbalance
  <2> QED BY <1>7, <1>8, <1>9, <2>1
<1>11. PICK d, u, c : d = Due(batch, s)[m] /\ u = MintDue(old, s.price)[m] /\ c = OpenDelta(accounts, new, m)
    OBVIOUS
<1>12. d = -Times(p, Y) - Times(DOLLAR - p, N)
    BY <1>1, <1>6, <1>11 DEF Due
<1>13. c = TotalPosition(new, y) - T
  <2>1. Opens(new)[m] = TotalPosition(new, y) /\ Opens(accounts)[m] = T
      BY <1>1, <1>6 DEF Opens
  <2> QED BY <1>11, <2>1 DEF OpenDelta
<1>14. TotalPosition(new, y) = TotalPosition(old, y) - (IF "yes" = MintOutcome(old, m) THEN MintQty(old, m) ELSE 0)
    BY <1>1, <1>4 DEF Minted
<1>15. ASSUME Y - N > 0 PROVE u = Times(p, Y - N) /\ c = Y - (Y - N)
  <2>1. MintOutcome(old, m) = "yes" /\ MintQty(old, m) = Y - N
      BY <1>10, <1>15 DEF MintOutcome, MintQty
  <2>2. u = Times(p, Y - N)
      BY <1>1, <1>11, <2>1 DEF MintDue, MintPrice
  <2>3. c = (T + Y) - (Y - N) - T
      BY <1>7, <1>13, <1>14, <2>1
  <2> QED BY <1>7, <1>8, <2>2, <2>3
<1>16. ASSUME ~(Y - N > 0) PROVE u = Times(DOLLAR - p, -(Y - N)) /\ c = Y
  <2>1. MintOutcome(old, m) = "no" /\ MintQty(old, m) = -(Y - N)
      BY <1>10, <1>16 DEF MintOutcome, MintQty
  <2>2. u = Times(DOLLAR - p, -(Y - N))
      BY <1>1, <1>11, <2>1 DEF MintDue, MintPrice
  <2>3. c = (T + Y) - 0 - T
      BY <1>7, <1>13, <1>14, <2>1
  <2> QED BY <1>7, <1>8, <2>2, <2>3
<1>17. d + u = Times(-DOLLAR, c)
    BY <1>3, <1>7, <1>12, <1>15, <1>16, MarketBalances
<1>18. c \in Int
    BY <1>7, <1>15, <1>16
<1> QED BY <1>1, <1>11, <1>17, <1>18

LEMMA MintedWealth ==
    ASSUME NEW accts, AccountsType(accts), NEW price, NEW new, Minted(accts, price, new)
    PROVE  Wealth(new) = Wealth(accts) + SumFunctionOnSet(Revenue(accts, price), Markets)
<1>1. PICK r, f, g : r = SumFunctionOnSet(Revenue(accts, price), Markets) /\ f = Balances(accts) /\ g = Balances(new)
    OBVIOUS
<1>2. r \in Int /\ new[MINT].balance = accts[MINT].balance + r /\ AccountsType(new)
    BY <1>1 DEF Minted
<1>3. MINT \in AllAccounts /\ \A a \in AllAccounts \ {MINT} : a \in Accounts
    BY DEF AllAccounts
<1>4. /\ Summands(f, AllAccounts) /\ \A a \in AllAccounts : f[a] = accts[a].balance /\ f[a] \in Int
      /\ \A a \in AllAccounts : g[a] = new[a].balance /\ g[a] \in Int
    BY <1>1, <1>2, WealthType
<1>5. \A a \in AllAccounts \ {MINT} : f[a] = g[a]
    BY <1>3, <1>4 DEF Minted
<1>6. SumFunctionOnSet(g, AllAccounts) = SumFunctionOnSet(f, AllAccounts) + (g[MINT] - f[MINT])
    BY <1>3, <1>4, <1>5, SumChange
<1>7. g[MINT] - f[MINT] = r
  <2>1. f[MINT] \in Int /\ g[MINT] = f[MINT] + r
      BY <1>2, <1>3, <1>4
  <2> QED BY <1>2, <2>1
<1> QED BY <1>1, <1>6, <1>7 DEF Wealth

LEMMA BlockDrift ==
    ASSUME TypesOK, Balanced, NEW batch, IsFiniteSet(batch), \A x \in batch : WireOK(x), NEW s, Executes(batch, s),
           NEW new, Minted(Settled(batch, s), s.price, new)
    PROVE  Drift(Wealth(accounts), Open(accounts), Wealth(new), Open(new),
                 Cardinality(Filled(batch, s)) + Cardinality(Mintings(Settled(batch, s))))
<1>1. PICK old : old = Settled(batch, s)
    OBVIOUS
<1>2. AccountsType(old) /\ AccountsType(accounts) /\ AccountsType(new)
    BY <1>1, SettledTypes DEF TypesOK, AccountsType, Minted
<1>3. PICK cost, rev, ex, due, md, F, M :
          /\ cost = Cost(batch, s) /\ rev = SumFunctionOnSet(Revenue(old, s.price), Markets)
          /\ ex = SumFunctionOnSet(Exactly(batch, s), batch) /\ due = Due(batch, s) /\ md = MintDue(old, s.price)
          /\ F = Cardinality(Filled(batch, s)) /\ M = Cardinality(Mintings(old))
    OBVIOUS
<1>4. /\ Within(Times(SHARE_SCALE, cost), ex, Times(SHARE_SCALE, F)) /\ F \in Nat
    BY <1>3, CostWithin
<1>5. ex = SumFunctionOnSet(due, Markets) /\ Summands(due, Markets)
    BY <1>3, ExactByMarket
<1>6. /\ Within(Times(SHARE_SCALE, rev), SumFunctionOnSet(md, Markets), Times(SHARE_SCALE, M))
      /\ M \in Nat /\ Summands(md, Markets) /\ rev \in Int
  <2>1. \A m \in Markets : s.price[m] \in 0..DOLLAR
      BY DEF Executes
  <2> QED BY <1>2, <1>3, <2>1, RevenueWithin
<1>7. Wealth(new) = Wealth(accounts) + cost + rev /\ cost \in Int
  <2>1. Wealth(new) = Wealth(old) + rev
      BY <1>1, <1>2, <1>3, MintedWealth
  <2>2. Wealth(old) = Wealth(accounts) + cost /\ cost \in Int
      BY <1>1, <1>3, SettledFlows DEF Flows
  <2> QED BY <2>1, <2>2
<1>8. PICK c, h : /\ c = [m \in Markets |-> OpenDelta(accounts, new, m)]
                  /\ h = [m \in Markets |-> due[m] + md[m]]
    OBVIOUS
<1>9. \A m \in Markets : c[m] \in Int /\ h[m] = due[m] + md[m] /\ h[m] = Times(-DOLLAR, c[m])
    BY <1>1, <1>3, <1>8, MarketDrift
<1>10. IsFiniteSet(Markets) /\ Summands(c, Markets)
    BY <1>9, AllFinite DEF Summands
<1>11. SumFunctionOnSet(h, Markets) = SumFunctionOnSet(due, Markets) + SumFunctionOnSet(md, Markets)
    BY <1>5, <1>6, <1>9, SumPlus
<1>12. -DOLLAR \in Int
    BY OrderBookAssumption
<1>13. SumFunctionOnSet(h, Markets) = Times(-DOLLAR, SumFunctionOnSet(c, Markets))
    BY <1>9, <1>10, <1>12, SumTimes
<1>14. /\ Summands(Opens(accounts), Markets) /\ Open(accounts) \in Int /\ Open(new) \in Int
       /\ Wealth(accounts) \in Int /\ Wealth(new) \in Int /\ Summands(Opens(new), Markets)
    BY <1>2, WealthType
<1>15. Open(new) = Open(accounts) + SumFunctionOnSet(c, Markets)
  <2>1. \A m \in Markets : Opens(new)[m] = Opens(accounts)[m] + c[m]
    <3> TAKE m \in Markets
    <3>1. Opens(new)[m] \in Int /\ Opens(accounts)[m] \in Int
        BY <1>14 DEF Summands
    <3>2. c[m] = Opens(new)[m] - Opens(accounts)[m]
        BY <1>8 DEF OpenDelta
    <3> QED BY <3>1, <3>2
  <2> QED BY <1>10, <1>14, <2>1, SumPlus DEF Open
<1>16. SumFunctionOnSet(c, Markets) \in Int
    BY <1>10, SumType
<1>17. Open(new) - Open(accounts) = SumFunctionOnSet(c, Markets) /\ Wealth(new) - Wealth(accounts) = cost + rev
    BY <1>6, <1>7, <1>14, <1>15, <1>16
<1>18. Within(Times(SHARE_SCALE, cost) + Times(SHARE_SCALE, rev),
              ex + SumFunctionOnSet(md, Markets), Times(SHARE_SCALE, F) + Times(SHARE_SCALE, M))
    BY <1>4, <1>6, WithinAdds
<1>19. /\ Times(SHARE_SCALE, cost + rev) = Times(SHARE_SCALE, cost) + Times(SHARE_SCALE, rev)
       /\ Times(SHARE_SCALE, F + M) = Times(SHARE_SCALE, F) + Times(SHARE_SCALE, M)
  <2>1. SHARE_SCALE \in Int /\ F \in Int /\ M \in Int
      BY <1>4, <1>6, ScaleType
  <2> QED BY <1>6, <1>7, <2>1, Spread
<1>20. ex + SumFunctionOnSet(md, Markets) = Times(-DOLLAR, Open(new) - Open(accounts))
    BY <1>5, <1>11, <1>13, <1>17
<1>21. Within(Times(SHARE_SCALE, Wealth(new) - Wealth(accounts)), Times(-DOLLAR, Open(new) - Open(accounts)),
              Times(SHARE_SCALE, F + M))
    BY <1>17, <1>18, <1>19, <1>20
<1>22. F + M \in Nat
    BY <1>4, <1>6
<1> QED BY <1>1, <1>3, <1>14, <1>21, <1>22 DEF Drift

LEMMA CommitsBooks ==
    ASSUME Held, Balanced, Books(accounts, injected, legs), NEW t, NEW s, Blocks(t, s), Commits(t, s)
    PROVE  Books(accounts', injected', legs')
<1>1. /\ Sound /\ TypesOK /\ LoopInv(t, PendingOrders) /\ Executes(t.batch, s)
      /\ accounts' = Final(t.batch, s) /\ injected' = injected
    BY DEF Held, Blocks, Sound, Commits
<1>2. IsFiniteSet(t.batch) /\ \A x \in t.batch : WireOK(x)
    BY <1>1, BatchFacts
<1>3. PICK old, new : old = Settled(t.batch, s) /\ new = accounts'
    OBVIOUS
<1>4. AccountsType(old)
    BY <1>1, <1>2, <1>3, SettledTypes
<1>5. Minted(old, s.price, new)
    BY <1>1, <1>3, <1>4, MintingIs DEF Executes, Final
<1>6. PICK F, M : F = Cardinality(Filled(t.batch, s)) /\ M = Cardinality(Mintings(old))
    OBVIOUS
<1>7. Drift(Wealth(accounts), Open(accounts), Wealth(new), Open(new), F + M)
    BY <1>1, <1>2, <1>3, <1>5, <1>6, BlockDrift
<1>8. legs' = legs + F + M
    BY <1>3, <1>6 DEF Commits, Filled, Mintings
<1>9. F \in Nat /\ M \in Nat
  <2>1. Filled(t.batch, s) \subseteq t.batch /\ Mintings(old) \subseteq Markets
      BY DEF Filled, Mintings
  <2> QED BY <1>2, <1>6, <2>1, AllFinite, FS_Subset, FS_CardinalityType
<1>10. legs \in Int
    BY DEF Books
<1>11. legs' = legs + (F + M)
    BY <1>8, <1>9, <1>10
<1>12. Books(new, injected, legs + (F + M))
    BY <1>5, <1>7, BooksDrift DEF Minted
<1> QED BY <1>1, <1>3, <1>11, <1>12

-----------------------------------------------------------------------------
(* A resolution *)

LEMMA TwoSum ==
    ASSUME NEW f, NEW x, NEW y, x # y, f[x] \in Int, f[y] \in Int
    PROVE  SumFunctionOnSet(f, {x, y}) = f[x] + f[y]
<1>1. IsFiniteSet({x}) /\ IsFiniteSet({y})
    BY FS_Singleton
<1>2. Summands(f, {x}) /\ Summands(f, {y})
    BY <1>1 DEF Summands
<1>3. SumFunctionOnSet(f, {x} \cup {y}) = SumFunctionOnSet(f, {x}) + SumFunctionOnSet(f, {y})
  <2>1. {x} \cap {y} = {}
      OBVIOUS
  <2> QED BY <1>2, <2>1, SumUnion
<1>4. SumFunctionOnSet(f, {x}) = f[x] /\ SumFunctionOnSet(f, {y}) = f[y]
    BY SumOne
<1>5. {x} \cup {y} = {x, y}
    OBVIOUS
<1> QED BY <1>3, <1>4, <1>5

Sides == AllAccounts \X Outcomes

LEMMA SidesFinite == IsFiniteSet(Sides)
<1>1. IsFiniteSet({"yes"}) /\ IsFiniteSet({"no"})
    BY FS_Singleton
<1>2. IsFiniteSet({"yes"} \cup {"no"})
    BY <1>1, FS_Union
<1>3. Outcomes = {"yes"} \cup {"no"}
    BY DEF Outcomes
<1>4. IsFiniteSet(Outcomes)
    BY <1>2, <1>3
<1> QED BY <1>4, AllFinite, FS_Product DEF Sides

LEMMA SideSum ==
    ASSUME NEW f, \A p \in Sides : f[p] \in Int, NEW g,
           \A a \in AllAccounts : g[a] = f[<<a, "yes">>] + f[<<a, "no">>]
    PROVE  /\ SumFunctionOnSet(g, AllAccounts) = SumFunctionOnSet(f, Sides)
           /\ Summands(f, Sides) /\ Summands(g, AllAccounts)
<1>1. PICK key, A, S : key = [p \in Sides |-> p[1]] /\ A = AllAccounts /\ S = Sides
    OBVIOUS
<1>2. Summands(f, S) /\ IsFiniteSet(A)
    BY <1>1, SidesFinite, AllFinite DEF Summands
<1>3. \A p \in S : key[p] \in A
    BY <1>1 DEF Sides
<1>4. ASSUME NEW a \in A PROVE g[a] = SumFunctionOnSet(f, {p \in S : key[p] = a}) /\ g[a] \in Int
  <2>1. PICK y, n : y = <<a, "yes">> /\ n = <<a, "no">>
      OBVIOUS
  <2>2. y \in S /\ n \in S /\ y # n
      BY <1>1, <1>4, <2>1 DEF Sides, Outcomes
  <2>3. f[y] \in Int /\ f[n] \in Int
      BY <1>1, <2>2
  <2>4. {p \in S : key[p] = a} = {y, n}
      BY <1>1, <1>4, <2>1 DEF Sides, Outcomes
  <2>5. g[a] = f[y] + f[n]
      BY <1>1, <1>4, <2>1
  <2> QED BY <2>2, <2>3, <2>4, <2>5, TwoSum
<1>5. \A a \in A : g[a] = SumFunctionOnSet(f, {p \in S : key[p] = a})
    BY <1>4
<1>6. Grouped(f, S, key, A, g)
    BY <1>2, <1>3, <1>5, Zenon DEF Grouped
<1>7. SumFunctionOnSet(g, A) = SumFunctionOnSet(f, S)
    BY <1>6, GroupedSum
<1>8. Summands(g, A)
    BY <1>2, <1>4 DEF Summands
<1> QED BY <1>1, <1>2, <1>7, <1>8

LEMMA WorthWithin ==
    ASSUME NEW p \in Nat, NEW q \in Int
    PROVE  /\ Worth(p, q) \in Int
           /\ Within(Times(SHARE_SCALE, Worth(p, q)), Times(p, q), SHARE_SCALE)
           /\ q = 0 => Times(SHARE_SCALE, Worth(p, q)) = Times(p, q)
<1>1. CASE q >= 0
  <2>1. q \in Nat /\ Worth(p, q) = Notional(p, q)
      BY <1>1 DEF Worth
  <2>2. Notional(p, q) \in Int
      BY <2>1, Paid
  <2> QED BY <2>1, <2>2, Rounded
<1>2. CASE ~(q >= 0)
  <2>1. -q \in Nat /\ Worth(p, q) = -Notional(p, -q) /\ q # 0 /\ -(-q) = q
      BY <1>2 DEF Worth
  <2>2. Notional(p, -q) \in Nat
      BY <2>1, Paid
  <2>3. Within(Times(SHARE_SCALE, -Notional(p, -q)), Times(p, -(-q)), SHARE_SCALE)
      BY <2>1, RoundedMinus
  <2> QED BY <2>1, <2>2, <2>3
<1> QED BY <1>1, <1>2

(* What one side of an account is worth at a resolution, and unrounded. *)
PayAt(payout, o) == IF o = "yes" THEN payout ELSE DOLLAR - payout
Redeems(accts, m, payout) == [p \in Sides |-> Worth(PayAt(payout, p[2]), accts[p[1]].position[<<m, p[2]>>])]
RedeemsDue(accts, m, payout) == [p \in Sides |-> Times(PayAt(payout, p[2]), accts[p[1]].position[<<m, p[2]>>])]
Redeeming(accts, m) == {p \in Sides : accts[p[1]].position[<<m, p[2]>>] # 0}

LEMMA RedeemsWithin ==
    ASSUME NEW accts, AccountsType(accts), NEW m \in Markets, NEW payout \in 0..DOLLAR
    PROVE  /\ Within(Times(SHARE_SCALE, SumFunctionOnSet(Redeems(accts, m, payout), Sides)),
                     SumFunctionOnSet(RedeemsDue(accts, m, payout), Sides),
                     Times(SHARE_SCALE, Cardinality(Redeeming(accts, m))))
           /\ Cardinality(Redeeming(accts, m)) \in Nat
           /\ \A p \in Sides : Redeems(accts, m, payout)[p] \in Int /\ RedeemsDue(accts, m, payout)[p] \in Int
<1>1. PICK w, e, f, L : /\ w = Redeems(accts, m, payout) /\ e = RedeemsDue(accts, m, payout) /\ L = Redeeming(accts, m)
                        /\ f = [p \in Sides |-> Times(SHARE_SCALE, w[p])]
    OBVIOUS
<1>2. SHARE_SCALE \in Nat /\ SHARE_SCALE \in Int /\ DOLLAR \in Nat
    BY ScaleType, OrderBookAssumption
<1>3. ASSUME NEW p \in Sides
      PROVE  /\ w[p] \in Int /\ e[p] \in Int /\ f[p] = Times(SHARE_SCALE, w[p])
             /\ Within(f[p], e[p], SHARE_SCALE) /\ (p \notin L => f[p] = e[p])
  <2>1. PICK r, q : r = PayAt(payout, p[2]) /\ q = accts[p[1]].position[<<m, p[2]>>]
      OBVIOUS
  <2>2. p[1] \in AllAccounts /\ p[2] \in Outcomes
      BY <1>3 DEF Sides
  <2>3. <<m, p[2]>> \in PositionKeys
      BY <2>2 DEF PositionKeys
  <2>4. q \in Int
      BY <2>1, <2>2, <2>3 DEF AccountsType
  <2>5. r \in Nat
      BY <1>2, <2>1 DEF PayAt
  <2>6. w[p] = Worth(r, q) /\ e[p] = Times(r, q) /\ f[p] = Times(SHARE_SCALE, w[p])
      BY <1>1, <1>3, <2>1 DEF Redeems, RedeemsDue
  <2>7. p \notin L => q = 0
      BY <1>1, <1>3, <2>1 DEF Redeeming
  <2>8. Times(r, q) \in Int
    <3>1. r \in Int
        BY <2>5
    <3> QED BY <2>4, <3>1, TimesInt
  <2>9. /\ Worth(r, q) \in Int
        /\ Within(Times(SHARE_SCALE, Worth(r, q)), Times(r, q), SHARE_SCALE)
        /\ q = 0 => Times(SHARE_SCALE, Worth(r, q)) = Times(r, q)
      BY <2>4, <2>5, WorthWithin
  <2> QED BY <2>6, <2>7, <2>8, <2>9, Zenon
<1>4. Summands(w, Sides) /\ Summands(e, Sides)
    BY <1>3, SidesFinite DEF Summands
<1>5. SumFunctionOnSet(f, Sides) = Times(SHARE_SCALE, SumFunctionOnSet(w, Sides)) /\ Summands(f, Sides)
    BY <1>2, <1>3, <1>4, SumTimes
<1>6. L \subseteq Sides
    BY <1>1 DEF Redeeming
<1>7. (\A p \in Sides \ L : f[p] = e[p]) /\ \A p \in L : Within(f[p], e[p], SHARE_SCALE)
    BY <1>3, <1>6
<1>8. /\ Within(SumFunctionOnSet(f, Sides), SumFunctionOnSet(e, Sides), Times(SHARE_SCALE, Cardinality(L)))
      /\ Cardinality(L) \in Nat
    BY <1>2, <1>4, <1>5, <1>6, <1>7, SumWithin
<1> QED BY <1>1, <1>3, <1>5, <1>8

(* Together the sides are owed a dollar for every complete set. *)
LEMMA RedeemsDueIs ==
    ASSUME NEW accts, AccountsType(accts), NEW m \in Markets, NEW payout \in 0..DOLLAR, Imbalance(accts, m) = 0
    PROVE  /\ SumFunctionOnSet(RedeemsDue(accts, m, payout), Sides) = Times(DOLLAR, Opens(accts)[m])
           /\ Opens(accts)[m] \in Int
<1>1. PICK y, n, hy, hn, T, e : /\ y = <<m, "yes">> /\ n = <<m, "no">> /\ hy = Holding(accts, y)
                                /\ hn = Holding(accts, n) /\ T = Opens(accts)[m] /\ e = RedeemsDue(accts, m, payout)
    OBVIOUS
<1>2. y \in PositionKeys /\ n \in PositionKeys
    BY <1>1, MarketKeys
<1>3. /\ TotalPosition(accts, y) = SumFunctionOnSet(hy, AllAccounts) /\ Summands(hy, AllAccounts)
      /\ TotalPosition(accts, n) = SumFunctionOnSet(hn, AllAccounts) /\ Summands(hn, AllAccounts)
      /\ TotalPosition(accts, y) \in Int /\ TotalPosition(accts, n) \in Int
    BY <1>1, <1>2, TotalIs
<1>4. T = SumFunctionOnSet(hy, AllAccounts) /\ T = SumFunctionOnSet(hn, AllAccounts) /\ T \in Int
  <2>1. T = TotalPosition(accts, y) /\ TotalPosition(accts, y) - TotalPosition(accts, n) = 0
      BY <1>1 DEF Opens, Imbalance
  <2> QED BY <1>3, <2>1
<1>5. DOLLAR \in Int /\ payout \in Int /\ DOLLAR - payout \in Int
    BY OrderBookAssumption
<1>6. PICK fy, fn, g : /\ fy = [a \in AllAccounts |-> Times(payout, hy[a])]
                       /\ fn = [a \in AllAccounts |-> Times(DOLLAR - payout, hn[a])]
                       /\ g = [a \in AllAccounts |-> fy[a] + fn[a]]
    OBVIOUS
<1>7. SumFunctionOnSet(fy, AllAccounts) = Times(payout, T) /\ Summands(fy, AllAccounts)
  <2>1. \A a \in AllAccounts : fy[a] = Times(payout, hy[a])
      BY <1>6
  <2>2. payout \in Int /\ Summands(hy, AllAccounts)
      BY <1>3, <1>5
  <2>3. SumFunctionOnSet(fy, AllAccounts) = Times(payout, SumFunctionOnSet(hy, AllAccounts)) /\ Summands(fy, AllAccounts)
      BY <2>1, <2>2, SumTimes
  <2> QED BY <1>4, <2>3
<1>8. SumFunctionOnSet(fn, AllAccounts) = Times(DOLLAR - payout, T) /\ Summands(fn, AllAccounts)
  <2>1. \A a \in AllAccounts : fn[a] = Times(DOLLAR - payout, hn[a])
      BY <1>6
  <2> QED BY <1>3, <1>4, <1>5, <2>1, SumTimes
<1>9. SumFunctionOnSet(g, AllAccounts) = Times(payout, T) + Times(DOLLAR - payout, T)
  <2>1. \A a \in AllAccounts : g[a] = fy[a] + fn[a]
      BY <1>6
  <2> QED BY <1>7, <1>8, <2>1, SumPlus
<1>10. \A a \in AllAccounts : g[a] = e[<<a, "yes">>] + e[<<a, "no">>]
  <2> TAKE a \in AllAccounts
  <2>1. <<a, "yes">> \in Sides /\ <<a, "no">> \in Sides
      BY DEF Sides, Outcomes
  <2>2. e[<<a, "yes">>] = Times(payout, accts[a].position[y]) /\ e[<<a, "no">>] = Times(DOLLAR - payout, accts[a].position[n])
      BY <1>1, <2>1 DEF RedeemsDue, PayAt
  <2>3. hy[a] = accts[a].position[y] /\ hn[a] = accts[a].position[n]
      BY <1>1 DEF Holding
  <2> QED BY <1>6, <2>2, <2>3
<1>11. \A p \in Sides : e[p] \in Int
    BY <1>1, RedeemsWithin
<1>12. SumFunctionOnSet(g, AllAccounts) = SumFunctionOnSet(e, Sides)
    BY <1>10, <1>11, SideSum
<1>13. Times(payout, T) + Times(DOLLAR - payout, T) = Times(DOLLAR, T)
  <2>1. Times(payout, T) = Times(T, payout) /\ Times(DOLLAR - payout, T) = Times(T, DOLLAR - payout)
        /\ Times(T, DOLLAR) = Times(DOLLAR, T)
      BY <1>4, <1>5, Swap
  <2>2. Times(T, DOLLAR - payout) = Times(T, DOLLAR) - Times(T, payout)
      BY <1>4, <1>5, Spread
  <2>3. Times(T, DOLLAR) \in Int /\ Times(T, payout) \in Int
      BY <1>4, <1>5, TimesInt
  <2> QED BY <2>1, <2>2, <2>3
<1> QED BY <1>1, <1>4, <1>9, <1>12, <1>13

LEMMA RedeemDrift ==
    ASSUME NEW accts, AccountsType(accts), NEW m \in Markets, NEW payout \in 0..DOLLAR, Imbalance(accts, m) = 0,
           NEW new, Redeemed(accts, m, payout, new)
    PROVE  Drift(Wealth(accts), Open(accts), Wealth(new), Open(new), Cardinality(Redeeming(accts, m)))
<1>1. PICK w, paid, owed, L, T : /\ w = Redeems(accts, m, payout) /\ paid = SumFunctionOnSet(w, Sides)
                                 /\ owed = SumFunctionOnSet(RedeemsDue(accts, m, payout), Sides)
                                 /\ L = Cardinality(Redeeming(accts, m)) /\ T = Opens(accts)[m]
    OBVIOUS
<1>2. /\ Within(Times(SHARE_SCALE, paid), owed, Times(SHARE_SCALE, L)) /\ L \in Nat
      /\ \A p \in Sides : w[p] \in Int
    BY <1>1, RedeemsWithin
<1>3. owed = Times(DOLLAR, T) /\ T \in Int
    BY <1>1, RedeemsDueIs
<1>4. AccountsType(new)
    BY DEF Redeemed
<1>5. /\ Summands(Balances(accts), AllAccounts) /\ Wealth(accts) \in Int /\ Wealth(new) \in Int
      /\ \A a \in AllAccounts : Balances(accts)[a] = accts[a].balance /\ Balances(new)[a] = new[a].balance
      /\ \A a \in AllAccounts : accts[a].balance \in Int
      /\ Summands(Opens(accts), Markets) /\ Open(accts) \in Int /\ Open(new) \in Int
      /\ \A n \in Markets : Opens(accts)[n] = TotalPosition(accts, <<n, "yes">>)
      /\ \A n \in Markets : Opens(new)[n] = TotalPosition(new, <<n, "yes">>)
    BY <1>4, WealthType
<1>6. Wealth(new) = Wealth(accts) + paid /\ paid \in Int
  <2>1. PICK g : g = [a \in AllAccounts |-> w[<<a, "yes">>] + w[<<a, "no">>]]
      OBVIOUS
  <2>2. \A a \in AllAccounts : g[a] = w[<<a, "yes">>] + w[<<a, "no">>]
      BY <2>1
  <2>3. SumFunctionOnSet(g, AllAccounts) = SumFunctionOnSet(w, Sides) /\ Summands(w, Sides) /\ Summands(g, AllAccounts)
      BY <1>2, <2>2, SideSum
  <2>4. \A a \in AllAccounts : Balances(new)[a] = Balances(accts)[a] + g[a]
    <3> TAKE a \in AllAccounts
    <3>1. <<a, "yes">> \in Sides /\ <<a, "no">> \in Sides
        BY DEF Sides, Outcomes
    <3>2. /\ w[<<a, "yes">>] = Worth(payout, accts[a].position[<<m, "yes">>])
          /\ w[<<a, "no">>] = Worth(DOLLAR - payout, accts[a].position[<<m, "no">>])
        BY <1>1, <3>1 DEF Redeems, PayAt
    <3>3. PICK u, v : u = w[<<a, "yes">>] /\ v = w[<<a, "no">>]
        OBVIOUS
    <3>4. u \in Int /\ v \in Int /\ g[a] = u + v
        BY <1>2, <2>2, <3>1, <3>3
    <3>5. new[a].balance = accts[a].balance + u + v
        BY <3>2, <3>3 DEF Redeemed
    <3>6. new[a].balance = accts[a].balance + g[a]
        BY <1>5, <3>4, <3>5
    <3> QED BY <1>5, <3>6
  <2>5. SumFunctionOnSet(Balances(new), AllAccounts)
          = SumFunctionOnSet(Balances(accts), AllAccounts) + SumFunctionOnSet(g, AllAccounts)
      BY <1>5, <2>3, <2>4, SumPlus
  <2>6. SumFunctionOnSet(w, Sides) \in Int
      BY <2>3, SumType
  <2> QED BY <1>1, <2>3, <2>5, <2>6 DEF Wealth
<1>7. \A a \in AllAccounts : \A k \in PositionKeys :
          new[a].position[k] = IF k[1] = m THEN 0 ELSE accts[a].position[k]
    BY DEF Redeemed
<1>8. Opens(new)[m] = 0
  <2>1. PICK y : y = <<m, "yes">>
      OBVIOUS
  <2>2. y \in PositionKeys /\ y[1] = m
      BY <2>1, MarketKeys
  <2>3. \A a \in AllAccounts : Holding(new, y)[a] = 0
      BY <1>7, <2>2 DEF Holding
  <2>4. SumFunctionOnSet(Holding(new, y), AllAccounts) = 0
      BY <2>3, AllFinite, SumZero
  <2>5. TotalPosition(new, y) = 0
      BY <1>4, <2>2, <2>4, TotalIs
  <2> QED BY <1>5, <2>1, <2>5
<1>9. \A n \in Markets \ {m} : Opens(accts)[n] = Opens(new)[n]
  <2> TAKE n \in Markets \ {m}
  <2>1. PICK y : y = <<n, "yes">>
      OBVIOUS
  <2>2. y \in PositionKeys /\ y[1] # m
      BY <2>1, MarketKeys
  <2>3. \A a \in AllAccounts : new[a].position[y] = accts[a].position[y]
      BY <1>7, <2>2
  <2>4. TotalPosition(new, y) = TotalPosition(accts, y)
      BY <2>3 DEF TotalPosition
  <2> QED BY <1>5, <2>1, <2>4
<1>10. Open(new) = Open(accts) + (0 - T)
  <2>1. PICK f, g : f = Opens(accts) /\ g = Opens(new)
      OBVIOUS
  <2>2. Summands(f, Markets) /\ g[m] = 0 /\ f[m] = T /\ \A n \in Markets \ {m} : f[n] = g[n]
      BY <1>1, <1>5, <1>8, <1>9, <2>1
  <2>3. SumFunctionOnSet(g, Markets) = SumFunctionOnSet(f, Markets) + (g[m] - f[m])
    <3>1. g[m] \in Int
        BY <2>2
    <3> QED BY <2>2, <3>1, SumChange
  <2> QED BY <2>1, <2>2, <2>3 DEF Open
<1>11. Open(new) - Open(accts) = -T /\ Wealth(new) - Wealth(accts) = paid
    BY <1>3, <1>5, <1>6, <1>10
<1>12. Times(-DOLLAR, -T) = Times(DOLLAR, T)
  <2>1. DOLLAR \in Int /\ -DOLLAR \in Int
      BY OrderBookAssumption
  <2>2. Times(-DOLLAR, -T) = -Times(-DOLLAR, T)
      BY <1>3, <2>1, TimesMinus
  <2>3. Times(-DOLLAR, T) = -Times(DOLLAR, T) /\ Times(DOLLAR, T) \in Int
      BY <1>3, <2>1, TimesMinus
  <2> QED BY <2>2, <2>3
<1>13. Within(Times(SHARE_SCALE, Wealth(new) - Wealth(accts)), Times(-DOLLAR, Open(new) - Open(accts)),
              Times(SHARE_SCALE, L))
    BY <1>2, <1>3, <1>11, <1>12
<1> QED BY <1>1, <1>2, <1>5, <1>13 DEF Drift

LEMMA ResolveBooks ==
    ASSUME Held, Balanced, Books(accounts, injected, legs), NEW m \in Markets, NEW payout \in Payouts,
           Resolve(m, payout)
    PROVE  Books(accounts', injected', legs')
<1>1. /\ accounts' = Redeem(accounts, m, payout) /\ injected' = injected
      /\ legs' = legs + Cardinality(Redeeming(accounts, m))
      /\ AccountsType(accounts) /\ payout \in 0..DOLLAR
    BY ExchangeAssumption DEF Held, Sound, TypesOK, AccountsType, Resolve, Redeeming, Sides
<1>2. PICK new : new = accounts'
    OBVIOUS
<1>3. Redeemed(accounts, m, payout, new)
    BY <1>1, <1>2, RedeemIs
<1>4. Drift(Wealth(accounts), Open(accounts), Wealth(new), Open(new), Cardinality(Redeeming(accounts, m)))
    BY <1>1, <1>3, RedeemDrift DEF Balanced
<1>5. Books(new, injected, legs + Cardinality(Redeeming(accounts, m)))
    BY <1>3, <1>4, BooksDrift DEF Redeemed
<1> QED BY <1>1, <1>2, <1>5

-----------------------------------------------------------------------------
(* Cash from outside *)

LEMMA CashBooks ==
    ASSUME Held, Books(accounts, injected, legs), NEW c \in CashMoves,
           Deposit(c[1], c[2]) \/ Withdraw(c[1], c[2])
    PROVE  Books(accounts', injected', legs')
<1>1. c[1] \in Accounts /\ c[2] \in Nat /\ AccountsType(accounts) /\ injected \in Int
    BY ExchangeAssumption DEF Books
<1>2. PICK a, n, was, new : a = c[1] /\ n = c[2] /\ was = accounts[a].balance /\ new = accounts'
    OBVIOUS
<1>3. a \in AllAccounts /\ was \in Int /\ n \in Nat
    BY <1>1, <1>2 DEF AllAccounts, AccountsType
<1>4. PICK d \in Int : new = [accounts EXCEPT ![a].balance = was + d] /\ injected' = injected + d
  <2>1. CASE Deposit(c[1], c[2])
    <3>1. new = [accounts EXCEPT ![a].balance = was + n] /\ injected' = injected + n
        BY <1>2, <2>1 DEF Deposit
    <3>2. n \in Int
        BY <1>3
    <3> QED BY <3>1, <3>2
  <2>2. CASE Withdraw(c[1], c[2])
    <3>1. new = [accounts EXCEPT ![a].balance = was - n] /\ injected' = injected - n
        BY <1>2, <2>2 DEF Withdraw
    <3>2. was - n = was + (-n) /\ injected - n = injected + (-n) /\ -n \in Int
        BY <1>1, <1>3
    <3> QED BY <3>1, <3>2
  <2> QED BY <2>1, <2>2
<1>5. legs' = legs
    BY DEF Deposit, Withdraw
<1>6. /\ AccountsType(new) /\ new[a].balance = was + d
      /\ \A b \in AllAccounts : new[b].position = accounts[b].position
      /\ \A b \in AllAccounts \ {a} : new[b].balance = accounts[b].balance
    BY <1>1, <1>3, <1>4 DEF AccountsType
<1>7. /\ Summands(Balances(accounts), AllAccounts) /\ Wealth(accounts) \in Int /\ Wealth(new) \in Int
      /\ \A b \in AllAccounts : Balances(accounts)[b] = accounts[b].balance /\ Balances(new)[b] = new[b].balance
      /\ Open(accounts) \in Int
    BY <1>1, <1>6, WealthType
<1>8. Wealth(new) = Wealth(accounts) + d
  <2>1. PICK f, g : f = Balances(accounts) /\ g = Balances(new)
      OBVIOUS
  <2>2. Summands(f, AllAccounts) /\ g[a] = was + d /\ f[a] = was /\ \A b \in AllAccounts \ {a} : f[b] = g[b]
      BY <1>2, <1>3, <1>6, <1>7, <2>1
  <2>3. g[a] \in Int /\ g[a] - f[a] = d
      BY <1>3, <2>2
  <2>4. SumFunctionOnSet(g, AllAccounts) = SumFunctionOnSet(f, AllAccounts) + (g[a] - f[a])
      BY <1>3, <2>2, <2>3, SumChange
  <2> QED BY <2>1, <2>3, <2>4 DEF Wealth
<1>9. Open(new) = Open(accounts)
  <2>1. \A k \in PositionKeys : TotalPosition(new, k) = TotalPosition(accounts, k)
      BY <1>6 DEF TotalPosition
  <2>2. Opens(new) = Opens(accounts)
      BY <2>1, MarketKeys DEF Opens
  <2> QED BY <2>2 DEF Open
<1>10. PICK x : x = Times(Open(accounts), Unit)
    OBVIOUS
<1>11. x \in Int /\ Endowment \in Int
    BY <1>7, <1>10, UnitIs, TimesInt, EndowmentType
<1>12. Within(Wealth(accounts) + x, Endowment + injected, legs)
    BY <1>10 DEF Books
<1>13. Within(Wealth(accounts) + d + x, Endowment + (injected + d), legs)
    BY <1>1, <1>7, <1>11, <1>12 DEF Within
<1>14. Within(Wealth(new) + Times(Open(new), Unit), Endowment + injected', legs')
    BY <1>4, <1>5, <1>8, <1>9, <1>10, <1>13
<1>15. injected' \in Int /\ legs' \in Int
    BY <1>1, <1>4, <1>5 DEF Books
<1>16. Books(new, injected', legs')
    BY <1>6, <1>14, <1>15 DEF Books
<1> QED BY <1>2, <1>16

-----------------------------------------------------------------------------
(* The books at the start *)

LEMMA TradersSum ==
    ASSUME NEW f, NEW K \in Int, f[MINT] = 0, \A a \in Accounts : f[a] = K
    PROVE  SumFunctionOnSet(f, AllAccounts) = Times(K, Cardinality(Accounts))
<1>1. IsFiniteSet(Accounts) /\ MINT \notin Accounts /\ AllAccounts \ {MINT} = Accounts /\ MINT \in AllAccounts
    BY MenuAssumption, ExchangeAssumption DEF AllAccounts
<1>2. Summands(f, AllAccounts)
  <2>1. \A a \in AllAccounts : f[a] \in Int
      BY DEF AllAccounts
  <2> QED BY <2>1, AllFinite DEF Summands
<1>3. SumFunctionOnSet(f, AllAccounts) = f[MINT] + SumFunctionOnSet(f, AllAccounts \ {MINT})
    BY <1>1, <1>2, SumSplit
<1>4. SumFunctionOnSet(f, Accounts) = Times(K, Cardinality(Accounts)) /\ Cardinality(Accounts) \in Nat
    BY <1>1, SumConstant
<1>5. PICK x \in Int : x = Times(K, Cardinality(Accounts))
    BY <1>4, TimesInt
<1>6. SumFunctionOnSet(f, AllAccounts) = 0 + x
    BY <1>1, <1>3, <1>4, <1>5
<1> QED BY <1>5, <1>6

LEMMA InitBooks ==
    ASSUME Init
    PROVE  Books(accounts, injected, legs)
<1>1. /\ accounts = [a \in AllAccounts |->
            [balance |-> IF a = MINT THEN 0 ELSE InitialBalance,
             position |-> [k \in PositionKeys |-> IF a = MINT THEN 0 ELSE InitialShares]]]
      /\ injected = 0 /\ legs = 0
    BY DEF Init
<1>2. AccountsType(accounts)
    BY InitHeld DEF Held, Sound, TypesOK, AccountsType
<1>3. PICK A, M, b, q : A = Cardinality(Accounts) /\ M = Cardinality(Markets) /\ b = InitialBalance /\ q = InitialShares
    OBVIOUS
<1>4. A \in Int /\ M \in Int /\ b \in Int /\ q \in Int /\ Unit \in Int
    BY <1>3, MenuAssumption, FS_CardinalityType, ExchangeAssumption, UnitIs
<1>5. MINT \notin Accounts /\ MINT \in AllAccounts /\ Accounts \subseteq AllAccounts
    BY ExchangeAssumption DEF AllAccounts
<1>6. Wealth(accounts) = Times(A, b)
  <2>1. Balances(accounts)[MINT] = 0 /\ \A a \in Accounts : Balances(accounts)[a] = b
      BY <1>1, <1>3, <1>5 DEF Balances
  <2>2. SumFunctionOnSet(Balances(accounts), AllAccounts) = Times(b, A)
      BY <1>3, <1>4, <2>1, TradersSum
  <2> QED BY <1>4, <2>2, Swap DEF Wealth
<1>7. \A m \in Markets : Opens(accounts)[m] = Times(q, A)
  <2> TAKE m \in Markets
  <2>1. PICK y : y = <<m, "yes">> /\ y \in PositionKeys
      BY MarketKeys
  <2>2. Holding(accounts, y)[MINT] = 0 /\ \A a \in Accounts : Holding(accounts, y)[a] = q
      BY <1>1, <1>3, <1>5, <2>1 DEF Holding
  <2>3. SumFunctionOnSet(Holding(accounts, y), AllAccounts) = Times(q, A)
      BY <1>3, <1>4, <2>2, TradersSum
  <2>4. TotalPosition(accounts, y) = Times(q, A)
      BY <1>2, <2>1, <2>3, TotalIs
  <2> QED BY <2>1, <2>4 DEF Opens
<1>8. Open(accounts) = Times(Times(q, A), M)
  <2>1. Times(q, A) \in Int
      BY <1>4, TimesInt
  <2> QED BY <1>3, <1>7, <2>1, AllFinite, SumConstant DEF Open
<1>9. Times(Times(q, A), M) = Times(Times(A, M), q)
  <2>1. Times(Times(q, A), M) = Times(q, Times(A, M)) /\ Times(A, M) \in Int
      BY <1>4, Swap, TimesInt
  <2> QED BY <1>4, <2>1, Swap
<1>10. Wealth(accounts) + Times(Open(accounts), Unit) = Endowment
    BY <1>3, <1>6, <1>8, <1>9 DEF Endowment
<1>11. Endowment \in Int /\ Endowment + 0 = Endowment
    BY EndowmentType
<1>12. Within(Endowment, Endowment + 0, 0)
    BY <1>11 DEF Within
<1> QED BY <1>1, <1>2, <1>10, <1>12 DEF Books

-----------------------------------------------------------------------------
(* The books balance. *)

LEMMA BooksKept ==
    ASSUME Books(accounts, injected, legs), UNCHANGED <<accounts, injected, legs>>
    PROVE  Books(accounts, injected, legs)'
<1>1. Books(accounts', injected', legs')
    BY DEF Books, Within, Wealth, Open, Balances, Opens, TotalPosition
<1> QED BY <1>1

Solid == Provable /\ Books(accounts, injected, legs)

LEMMA NextSolid == Solid /\ [Next]_vars => Solid'
<1> SUFFICES ASSUME Solid, [Next]_vars PROVE Solid'
    OBVIOUS
<1>0. Provable /\ Held /\ Balanced /\ Books(accounts, injected, legs) /\ Provable'
    BY NextProvable DEF Solid, Provable
<1>1. CASE UNCHANGED <<accounts, injected, legs>>
    BY <1>0, <1>1, BooksKept DEF Solid
<1>2. CASE UNCHANGED vars
    BY <1>1, <1>2 DEF vars, cashVars
<1>3. ASSUME NEW i \in 1..Len(Menu), AdmitDirect(i) \/ AdmitDeferred(i) \/ AdmitBundle(i) PROVE Solid'
    BY <1>1, <1>3 DEF AdmitDirect, AdmitDeferred, AdmitBundle, cashVars
<1>4. ASSUME NEW ro \in book.orders, CancelOrder(ro) PROVE Solid'
    BY <1>1, <1>4 DEF CancelOrder, cashVars
<1>5. ASSUME NEW c \in CashMoves, Deposit(c[1], c[2]) \/ Withdraw(c[1], c[2]) PROVE Solid'
  <2>1. Books(accounts', injected', legs')
      BY <1>0, <1>5, CashBooks
  <2> QED BY <1>0, <2>1 DEF Solid
<1>6. ASSUME NEW m \in Markets, NEW p \in Payouts, Resolve(m, p) PROVE Solid'
  <2>1. Books(accounts', injected', legs')
      BY <1>0, <1>6, ResolveBooks
  <2> QED BY <1>0, <2>1 DEF Solid
<1>7. CASE ProduceBlock
  <2>1. PICK t : \E s : Blocks(t, s)
      BY <1>0, <1>7, BlockSteps
  <2>2. PICK s : Blocks(t, s)
      BY <2>1
  <2>3. CASE Commits(t, s)
    <3>1. Books(accounts', injected', legs')
        BY <1>0, <2>2, <2>3, CommitsBooks
    <3> QED BY <1>0, <3>1 DEF Solid
  <2>4. CASE Refuses(t, s)
      BY <1>1, <2>4 DEF Refuses
  <2> QED BY <2>2, <2>3, <2>4 DEF Blocks
<1> QED BY <1>2, <1>3, <1>4, <1>5, <1>6, <1>7 DEF Next

-----------------------------------------------------------------------------
(* The theorems *)

LEMMA BackedBooks ==
    ASSUME TypesOK, Backed
    PROVE  Books(accounts, injected, legs)
<1>1. PICK cash, open : cash = SumFunction([a \in AllAccounts |-> accounts[a].balance])
                        /\ open = SumFunction([m \in Markets |-> TotalPosition(accounts, <<m, "yes">>)])
    OBVIOUS
<1>2. cash = Wealth(accounts) /\ open = Open(accounts)
    BY <1>1 DEF SumFunction, Wealth, Open, Balances, Opens
<1>3. AccountsType(accounts) /\ injected \in Int /\ legs \in Int
    BY DEF TypesOK, AccountsType
<1>4. cash \in Int /\ open \in Int /\ Unit \in Int /\ Endowment \in Int
    BY <1>2, <1>3, WealthType, UnitIs, EndowmentType
<1>5. /\ Times(open, Unit) = open * (DOLLAR \div SHARE_SCALE)
      /\ Endowment = Cardinality(Accounts) * InitialBalance
                 + Cardinality(Accounts) * Cardinality(Markets) * InitialShares * (DOLLAR \div SHARE_SCALE)
    BY DEF Times, Unit, Endowment
<1>6. PICK x : x = Times(open, Unit)
    OBVIOUS
<1>7. x \in Int
    BY <1>4, <1>6, TimesInt
<1>8. cash + x - Endowment - injected \in -legs..legs
    BY <1>1, <1>5, <1>6 DEF Backed
<1>9. Within(cash + x, Endowment + injected, legs)
    BY <1>3, <1>4, <1>7, <1>8 DEF Within
<1> QED BY <1>2, <1>3, <1>6, <1>9 DEF Books

LEMMA InvariantIs == StateInv <=> Accountable /\ Solid
<1>1. ASSUME StateInv PROVE Accountable /\ Solid
  <2>1. TypesOK /\ Backed
      BY <1>1 DEF StateInv, Held, Sound
  <2>2. Books(accounts, injected, legs)
      BY <2>1, BackedBooks
  <2> QED BY <1>1, <2>2 DEF StateInv, Accountable, Solid, Provable
<1>2. ASSUME Accountable, Solid PROVE StateInv
  <2>1. Backed
      BY <1>2, BooksBacked DEF Solid
  <2> QED BY <1>2, <2>1 DEF StateInv, Accountable, Solid, Provable
<1> QED BY <1>1, <1>2

LEMMA InitInvariant == Init => StateInv
<1> SUFFICES ASSUME Init PROVE StateInv
    OBVIOUS
<1>1. OneBundle /\ RefusedOnlyOvercommitted /\ CommittedOK /\ Explained
    BY DEF Init, OneBundle, RefusedOnlyOvercommitted, CommittedOK, Explained, Gaps
<1>2. Backed
    BY InitBooks, BooksBacked
<1> QED BY <1>1, <1>2, InitHeld, InitBalanced DEF StateInv

LEMMA NextInvariant == StateInv /\ [Next]_vars => StateInv'
<1> SUFFICES ASSUME StateInv, [Next]_vars PROVE StateInv'
    OBVIOUS
<1>1. Accountable /\ Solid
    BY InvariantIs
<1>2. Accountable' /\ Solid'
    BY <1>1, NextAccountable, NextSolid
<1>3. (StateInv <=> Accountable /\ Solid)'
    BY InvariantIs, PTL
<1> QED BY <1>2, <1>3

(* The inductive invariant: types, a book whose sums are those of its orders,
   waiting submissions that are each one made once, resting orders that accounts
   cover, positions that balance, and the properties below. *)
THEOREM InvariantAlways == Spec => []StateInv
BY InitInvariant, NextInvariant, PTL DEF Spec

(* The reservations that OrderBook keeps beside its orders are, in every
   reachable state, those that restore would sum from the orders, and no order
   fails validate_restored_reservations: a snapshot taken at any moment, after
   any fills in parts, cancellations and evictions, is accepted at the next
   start. *)
THEOREM RestorableAlways == Spec => []BookRestorable
<1>1. StateInv => BookRestorable
    BY HeldRestorable DEF StateInv
<1> QED BY <1>1, InvariantAlways, PTL

(* An account that sends no market maker's bundle always has the cash and the
   shares that its resting orders reserve: accept's reservations, settle's
   remainders, settle_fill and withdrawals keep them apart, whatever the solver
   fills. *)
THEOREM CoveredAlways == Spec => []Covered
<1>1. StateInv => Covered
    BY DEF StateInv, Held
<1> QED BY <1>1, InvariantAlways, PTL

(* would_complete_set, asked of a new order only, keeps every account's resting
   bids from funding a complete set, on one market or across the whole group,
   as orders rest at once, through the submission loop, are filled in part or
   leave. *)
THEOREM NoSelfCrossAlways == Spec => []NoSelfCross
<1>1. StateInv => NoSelfCross
    BY DEF StateInv, Held
<1> QED BY <1>1, InvariantAlways, PTL

(* collect_account_invariant_failures refuses a block, and halts production,
   only if some market maker's budget came on top of what the same account's
   resting and waiting orders had committed. *)
THEOREM RefusedAlways == Spec => []RefusedOnlyOvercommitted
<1>1. StateInv => RefusedOnlyOvercommitted
    BY DEF StateInv
<1> QED BY <1>1, InvariantAlways, PTL

(* Settlement, minting and resolution create and destroy no value: cash and open
   shares at a dollar a complete set are what deposits put in, within a nano for
   each amount that notional_nanos rounded. *)
THEOREM BackedAlways == Spec => []Backed
<1>1. StateInv => Backed
    BY DEF StateInv
<1> QED BY <1>1, InvariantAlways, PTL

(* Whatever the solver's prices, the verifier finds nothing in a committed block
   but the three gaps that GapsExplained names and, when a price may be below a
   nano for a unit of quantity, minting that pays nothing. *)
THEOREM ExplainedAlways == Spec => []Explained
<1>1. StateInv => Explained
    BY DEF StateInv
<1> QED BY <1>1, InvariantAlways, PTL

(* With prices of at least a nano for a unit of quantity on both sides, every
   committed block passes the verifier but for the three gaps. *)
THEOREM GapsAlways ==
    ASSUME PricesPay
    PROVE  Spec => []GapsExplained
<1>1. Explained => GapsExplained
  <2>1. Explained /\ PricesPay => GapsExplained
      BY DEF Explained, Gaps, GapsExplained, Sells
  <2> QED BY <2>1
<1> QED BY <1>1, ExplainedAlways, PTL
=============================================================================
