--------------------------- MODULE AccountProofs ---------------------------
(***************************************************************************)
(* The account in the hands of the executor and of the back test.          *)
(*                                                                         *)
(* Of a trading session, for any stocks, prices, funds, flags and loaded   *)
(* lots and any number of trades: the ledger explains the account, the     *)
(* funds that are out stay within the flag, and a gain is reported.        *)
(*                                                                         *)
(* Of a back test, for any history, prices, funds and signals: the days    *)
(* are whole, the report explains the funds, and nothing is held           *)
(* overnight.                                                              *)
(***************************************************************************)
EXTENDS Trading, Evaluation, FiniteSetTheorems, WellFoundedInduction, TLAPS

-----------------------------------------------------------------------------
(* Sums.                                                                   *)

\* A set of naturals that is not empty has a least element.
LEMMA LeastNat ==
    ASSUME NEW T, T \subseteq Nat, T # {}
    PROVE  \E x \in T : \A y \in T : x <= y
<1>1. IsWellFoundedOn(OpToRel(<, Nat), Nat)
  BY NatLessThanWellFounded
<1>2. PICK x \in T : \A y \in T : ~ (<<y, x>> \in OpToRel(<, Nat))
  BY <1>1, WFMin
<1>3. ASSUME NEW y \in T PROVE x <= y
  <2>1. <<y, x>> \in Nat \X Nat /\ ~(<<y, x>> \in OpToRel(<, Nat))
    BY <1>2
  <2>2. ~(y < x)
    BY <2>1 DEF OpToRel
  <2>3. QED
    BY <2>2
<1>4. QED
  BY <1>3

\* Induction, over a set that stands for the formula.
LEMMA EveryNat ==
    ASSUME NEW S, 0 \in S, \A n \in Nat : n \in S => n + 1 \in S
    PROVE  \A n \in Nat : n \in S
<1>1. SUFFICES ASSUME Nat \ S # {}
               PROVE  FALSE
  OBVIOUS
<1>2. PICK x \in Nat \ S : \A y \in Nat \ S : x <= y
  BY <1>1, LeastNat
<1>3. x - 1 \in Nat /\ ~ x <= x - 1 /\ (x - 1) + 1 = x
  BY <1>2
<1>4. QED
  BY <1>2, <1>3

\* The sums of the first elements of a sequence.
IsSum(f, s) == f = [i \in 0..Len(s) |-> IF i = 0 THEN 0 ELSE f[i - 1] + s[i]]

\* There are such sums.
LEMMA SumExists ==
    ASSUME NEW s \in Seq(Int)
    PROVE  \E f \in [0..Len(s) -> Int] : IsSum(f, s)
<1> DEFINE Sums(f, n) == f = [i \in 0..n |-> IF i = 0 THEN 0 ELSE f[i - 1] + s[i]]
           S == {n \in Nat : n <= Len(s) => \E f \in [0..n -> Int] : Sums(f, n)}
<1>1. 0 \in S
  <2> DEFINE f == [i \in 0..0 |-> 0]
  <2>1. f \in [0..0 -> Int] /\ Sums(f, 0)
    OBVIOUS
  <2>2. QED
    BY <2>1
<1>2. ASSUME NEW n \in Nat, n \in S, n + 1 <= Len(s)
      PROVE  \E g \in [0..n + 1 -> Int] : Sums(g, n + 1)
  <2>1. PICK f \in [0..n -> Int] : Sums(f, n)
    <3>1. Len(s) \in Nat /\ n <= Len(s)
      BY <1>2
    <3>2. QED
      BY <1>2, <3>1
  <2> DEFINE g == [i \in 0..n + 1 |-> IF i = n + 1 THEN f[n] + s[n + 1] ELSE f[i]]
  <2>2. g \in [0..n + 1 -> Int]
    BY <1>2, <2>1
  <2>3. ASSUME NEW i \in 0..n + 1
        PROVE  g[i] = IF i = 0 THEN 0 ELSE g[i - 1] + s[i]
    <3>1. CASE i = n + 1
      BY <1>2, <3>1
    <3>2. CASE i # n + 1
      <4>1. i \in 0..n /\ g[i] = f[i]
        BY <3>2
      <4>2. f[i] = IF i = 0 THEN 0 ELSE f[i - 1] + s[i]
        BY <2>1, <4>1
      <4>3. i # 0 => g[i - 1] = f[i - 1]
        BY <4>1
      <4>4. QED
        BY <4>1, <4>2, <4>3
    <3>3. QED
      BY <3>1, <3>2
  <2>4. Sums(g, n + 1)
    BY <2>3
  <2> HIDE DEF g, Sums
  <2>5. QED
    BY <2>2, <2>4
<1>3. \A n \in Nat : n \in S => n + 1 \in S
  <2> HIDE DEF Sums
  <2>1. QED
    BY <1>2
<1> HIDE DEF S
<1>4. \A n \in Nat : n \in S
  BY <1>1, <1>3, EveryNat
<1>5. Len(s) \in S
  BY <1>4
<1>6. QED
  BY <1>5 DEF S, IsSum

\* SumSeq is the last of them.
LEMMA SumDef ==
    ASSUME NEW s
    PROVE  SumSeq(s) = (CHOOSE f : IsSum(f, s))[Len(s)]
BY DEF SumSeq, IsSum

\* It is an integer that adds up step by step.
LEMMA SumIs ==
    ASSUME NEW s \in Seq(Int)
    PROVE  \E f \in [0..Len(s) -> Int] :
             /\ SumSeq(s) = f[Len(s)]
             /\ f[0] = 0
             /\ \A i \in 1..Len(s) : f[i] = f[i - 1] + s[i]
             /\ \A i \in 0..Len(s) - 1 : f[i + 1] = f[i] + s[i + 1]
<1> DEFINE f == CHOOSE f : IsSum(f, s)
<1>1. PICK g \in [0..Len(s) -> Int] : IsSum(g, s)
  BY SumExists
<1>2. IsSum(f, s)
  BY <1>1
<1>3. SumSeq(s) = f[Len(s)]
  BY SumDef
<1> HIDE DEF f
<1> DEFINE S == {n \in Nat : n <= Len(s) => f[n] = g[n]}
<1>4. /\ f[0] = 0 /\ g[0] = 0
      /\ \A i \in 1..Len(s) : f[i] = f[i - 1] + s[i] /\ g[i] = g[i - 1] + s[i]
  <2>1. ASSUME NEW h, IsSum(h, s)
        PROVE  h[0] = 0 /\ \A i \in 1..Len(s) : h[i] = h[i - 1] + s[i]
    <3>1. \A i \in 0..Len(s) : h[i] = IF i = 0 THEN 0 ELSE h[i - 1] + s[i]
      BY <2>1, Zenon DEF IsSum
    <3>2. Len(s) \in Nat
      OBVIOUS
    <3>3. QED
      BY <3>1, <3>2
  <2>2. QED
    BY <1>1, <1>2, <2>1
<1>5. \A n \in Nat : n \in S => n + 1 \in S
  <2>1. ASSUME NEW n \in Nat, n \in S, n + 1 <= Len(s)
        PROVE  f[n + 1] = g[n + 1]
    <3>1. n + 1 \in 1..Len(s) /\ (n + 1) - 1 = n /\ f[n] = g[n]
      BY <2>1
    <3>2. QED
      BY <1>4, <3>1
  <2>2. QED
    BY <2>1
<1>6. 0 \in S
  BY <1>4
<1> HIDE DEF S
<1>7. \A n \in Nat : n \in S
  BY <1>5, <1>6, EveryNat
<1>8. \A n \in 0..Len(s) : f[n] = g[n]
  BY <1>7 DEF S
<1>9. DOMAIN f = 0..Len(s) /\ f = [i \in 0..Len(s) |-> IF i = 0 THEN 0 ELSE f[i - 1] + s[i]]
  BY <1>2 DEF IsSum
<1>10. f \in [0..Len(s) -> Int]
  BY <1>8, <1>9
<1>11. \A i \in 0..Len(s) - 1 : f[i + 1] = f[i] + s[i + 1]
  BY <1>4
<1>12. QED
  BY <1>3, <1>4, <1>10, <1>11

\* The empty sum, and a sum with one element more.
LEMMA SumEmpty == SumSeq(<< >>) = 0
<1>1. << >> \in Seq(Int) /\ Len(<< >>) = 0
  OBVIOUS
<1>2. QED
  BY <1>1, SumIs

\* One more element adds itself to the sum.
LEMMA SumAppend ==
    ASSUME NEW s \in Seq(Int), NEW x \in Int
    PROVE  /\ SumSeq(s) \in Int
           /\ SumSeq(Append(s, x)) = SumSeq(s) + x
<1> DEFINE t == Append(s, x)
<1>1. /\ t \in Seq(Int) /\ Len(s) \in Nat /\ Len(t) = Len(s) + 1 /\ t[Len(s) + 1] = x
      /\ \A i \in 1..Len(s) : t[i] = s[i]
  OBVIOUS
<1> HIDE DEF t
<1>2. PICK f \in [0..Len(s) -> Int] :
        /\ SumSeq(s) = f[Len(s)] /\ f[0] = 0
        /\ \A i \in 0..Len(s) - 1 : f[i + 1] = f[i] + s[i + 1]
  BY SumIs
<1>3. PICK g \in [0..Len(t) -> Int] :
        /\ SumSeq(t) = g[Len(t)] /\ g[0] = 0
        /\ \A i \in 0..Len(t) - 1 : g[i + 1] = g[i] + t[i + 1]
  BY <1>1, SumIs
<1> DEFINE S == {n \in Nat : n <= Len(s) => f[n] = g[n]}
<1>4. 0 \in S
  BY <1>2, <1>3
<1>5. ASSUME NEW n \in Nat, n \in S, n + 1 <= Len(s)
      PROVE  f[n + 1] = g[n + 1]
  <2>1. n \in 0..Len(s) - 1 /\ n \in 0..Len(t) - 1 /\ t[n + 1] = s[n + 1] /\ f[n] = g[n]
    BY <1>1, <1>5
  <2>2. QED
    BY <1>2, <1>3, <2>1
<1>6. \A n \in Nat : n \in S => n + 1 \in S
  BY <1>5
<1> HIDE DEF S
<1>7. Len(s) \in S
  BY <1>1, <1>4, <1>6, EveryNat
<1>8. f[Len(s)] = g[Len(s)]
  BY <1>1, <1>7 DEF S
<1>9. g[Len(s) + 1] = g[Len(s)] + t[Len(s) + 1]
  <2>1. Len(s) \in 0..Len(t) - 1
    BY <1>1
  <2>2. QED
    BY <1>3, <2>1
<1>10. QED
  BY <1>1, <1>2, <1>3, <1>8, <1>9 DEF t

\* Sums are compared element by element; a price that is no higher than each
\* of them sells the lots for no more than they cost.
LEMMA SumBounded ==
    ASSUME NEW s \in Seq(Int), NEW t \in Seq(Int), NEW b \in Int, Len(s) = Len(t),
           \A i \in 1..Len(s) : b * s[i] <= t[i]
    PROVE  b * SumSeq(s) <= SumSeq(t)
<1>1. Len(s) \in Nat /\ \A i \in 1..Len(s) : s[i] \in Int /\ t[i] \in Int
  OBVIOUS
<1>2. PICK f \in [0..Len(s) -> Int] :
        /\ SumSeq(s) = f[Len(s)] /\ f[0] = 0
        /\ \A i \in 0..Len(s) - 1 : f[i + 1] = f[i] + s[i + 1]
  BY SumIs
<1>3. PICK g \in [0..Len(s) -> Int] :
        /\ SumSeq(t) = g[Len(s)] /\ g[0] = 0
        /\ \A i \in 0..Len(s) - 1 : g[i + 1] = g[i] + t[i + 1]
  <2>1. \E g \in [0..Len(t) -> Int] :
          /\ SumSeq(t) = g[Len(t)] /\ g[0] = 0
          /\ \A i \in 0..Len(t) - 1 : g[i + 1] = g[i] + t[i + 1]
    BY SumIs
  <2>2. QED
    BY <2>1
<1> DEFINE S == {n \in Nat : n <= Len(s) => b * f[n] <= g[n]}
<1>4. 0 \in S
  BY <1>2, <1>3
<1>5. ASSUME NEW n \in Nat, n \in S, n + 1 <= Len(s)
      PROVE  b * f[n + 1] <= g[n + 1]
  <2>1. n \in 0..Len(s) - 1 /\ n \in 0..Len(s) /\ n + 1 \in 1..Len(s) /\ b * f[n] <= g[n]
    BY <1>1, <1>5
  <2>2. f[n + 1] = f[n] + s[n + 1] /\ g[n + 1] = g[n] + t[n + 1] /\ b * s[n + 1] <= t[n + 1]
    BY <1>2, <1>3, <2>1
  <2>3. f[n] \in Int /\ g[n] \in Int /\ s[n + 1] \in Int /\ t[n + 1] \in Int
    BY <1>1, <2>1
  <2>4. \A x, y \in Int : b * (x + y) = b * x + b * y /\ b * x \in Int
    OBVIOUS
  <2>5. b * (f[n] + s[n + 1]) = b * f[n] + b * s[n + 1] /\ b * f[n] \in Int /\ b * s[n + 1] \in Int
    BY <2>3, <2>4
  <2> DEFINE p == b * f[n]
             q == b * s[n + 1]
             r == b * f[n + 1]
             gn == g[n]
             tm == t[n + 1]
             gm == g[n + 1]
  <2>6. /\ p \in Int /\ q \in Int /\ r = p + q /\ p <= gn /\ q <= tm
        /\ gn \in Int /\ tm \in Int /\ gm = gn + tm
    BY <2>1, <2>2, <2>3, <2>5
  <2> HIDE DEF p, q, r, gn, tm, gm
  <2>7. r <= gm
    BY <2>6
  <2>8. QED
    BY <2>7 DEF r, gm
<1>6. \A n \in Nat : n \in S => n + 1 \in S
  BY <1>5
<1> HIDE DEF S
<1>7. Len(s) \in S
  BY <1>1, <1>4, <1>6, EveryNat
<1>8. QED
  BY <1>1, <1>2, <1>3, <1>7 DEF S

\* A sum of naturals.
LEMMA SumOfNats ==
    ASSUME NEW s \in Seq(Nat)
    PROVE  SumSeq(s) \in Nat
<1>1. s \in Seq(Int) /\ Len(s) \in Nat /\ \A i \in 1..Len(s) : s[i] \in Nat
  OBVIOUS
<1>2. PICK f \in [0..Len(s) -> Int] :
        /\ SumSeq(s) = f[Len(s)] /\ f[0] = 0
        /\ \A i \in 0..Len(s) - 1 : f[i + 1] = f[i] + s[i + 1]
  BY <1>1, SumIs
<1> DEFINE S == {n \in Nat : n <= Len(s) => f[n] \in Nat}
<1>3. 0 \in S
  BY <1>2
<1>4. ASSUME NEW n \in Nat, n \in S, n + 1 <= Len(s)
      PROVE  f[n + 1] \in Nat
  <2>1. n \in 0..Len(s) - 1 /\ n + 1 \in 1..Len(s) /\ f[n] \in Nat
    BY <1>1, <1>4
  <2>2. f[n + 1] = f[n] + s[n + 1] /\ s[n + 1] \in Nat
    BY <1>1, <1>2, <2>1
  <2>3. QED
    BY <2>1, <2>2
<1>5. \A n \in Nat : n \in S => n + 1 \in S
  BY <1>4
<1> HIDE DEF S
<1>6. Len(s) \in S
  BY <1>1, <1>3, <1>5, EveryNat
<1>7. QED
  BY <1>1, <1>2, <1>6 DEF S

\* One element of a sum changes by d.
LEMMA SumChanged ==
    ASSUME NEW s \in Seq(Int), NEW t \in Seq(Int), NEW d \in Int, Len(s) = Len(t),
           NEW j \in 1..Len(s), t[j] = s[j] + d,
           \A i \in 1..Len(s) : i # j => t[i] = s[i]
    PROVE  SumSeq(t) = SumSeq(s) + d
<1>1. Len(s) \in Nat /\ \A i \in 1..Len(s) : s[i] \in Int /\ t[i] \in Int
  OBVIOUS
<1>2. PICK f \in [0..Len(s) -> Int] :
        /\ SumSeq(s) = f[Len(s)] /\ f[0] = 0
        /\ \A i \in 0..Len(s) - 1 : f[i + 1] = f[i] + s[i + 1]
  BY SumIs
<1>3. PICK g \in [0..Len(s) -> Int] :
        /\ SumSeq(t) = g[Len(s)] /\ g[0] = 0
        /\ \A i \in 0..Len(s) - 1 : g[i + 1] = g[i] + t[i + 1]
  <2>1. \E g \in [0..Len(t) -> Int] :
          /\ SumSeq(t) = g[Len(t)] /\ g[0] = 0
          /\ \A i \in 0..Len(t) - 1 : g[i + 1] = g[i] + t[i + 1]
    BY SumIs
  <2>2. QED
    BY <2>1
<1> DEFINE Shifted(n) == g[n] = f[n] + (IF n < j THEN 0 ELSE d)
           S == {n \in Nat : n <= Len(s) => Shifted(n)}
<1>4. 0 \in S
  BY <1>1, <1>2, <1>3
<1>5. ASSUME NEW n \in Nat, n \in S, n + 1 <= Len(s)
      PROVE  g[n + 1] = f[n + 1] + (IF n + 1 < j THEN 0 ELSE d)
  <2>1. n \in 0..Len(s) - 1 /\ n \in 0..Len(s) /\ n + 1 \in 1..Len(s) /\ g[n] = f[n] + (IF n < j THEN 0 ELSE d)
    BY <1>1, <1>5
  <2>2. f[n + 1] = f[n] + s[n + 1] /\ g[n + 1] = g[n] + t[n + 1]
    BY <1>2, <1>3, <2>1
  <2>3. f[n] \in Int /\ g[n] \in Int /\ s[n + 1] \in Int /\ t[n + 1] \in Int
    BY <1>1, <2>1
  <2> DEFINE fn == f[n]
             gn == g[n]
             fm == f[n + 1]
             gm == g[n + 1]
             sm == s[n + 1]
             tm == t[n + 1]
  <2>4. /\ fn \in Int /\ gn \in Int /\ sm \in Int /\ tm \in Int
        /\ fm = fn + sm /\ gm = gn + tm
    BY <2>2, <2>3
  <2>5. CASE n + 1 = j
    <3>1. tm = sm + d
      BY <2>5
    <3>2. gn = fn
      <4>1. n < j /\ fn + 0 = fn
        BY <2>4, <2>5
      <4>2. QED
        BY <2>1, <4>1
    <3> HIDE DEF fn, gn, fm, gm, sm, tm
    <3>3. gm = fm + d
      BY <2>4, <3>1, <3>2
    <3>4. ~ (n + 1 < j)
      BY <2>5
    <3>5. QED
      BY <3>3, <3>4 DEF fm, gm
  <2>6. CASE n + 1 # j
    <3>1. tm = sm
      BY <2>1, <2>6
    <3> DEFINE e == IF n < j THEN 0 ELSE d
    <3>2. gn = fn + e /\ e \in Int
      BY <2>1
    <3>3. (n < j) <=> (n + 1 < j)
      BY <2>6
    <3> HIDE DEF fn, gn, fm, gm, sm, tm, e
    <3>4. gm = fm + e
      BY <2>4, <3>1, <3>2
    <3>5. QED
      BY <3>3, <3>4 DEF fm, gm, e
  <2>7. QED
    BY <2>5, <2>6
<1>6. \A n \in Nat : n \in S => n + 1 \in S
  <2>1. \A n \in Nat : n \in S /\ n + 1 <= Len(s) => Shifted(n + 1)
    BY <1>5
  <2> HIDE DEF Shifted
  <2>2. QED
    BY <2>1
<1> HIDE DEF S
<1>7. Len(s) \in S
  BY <1>1, <1>4, <1>6, EveryNat
<1>8. QED
  BY <1>1, <1>2, <1>3, <1>7 DEF S

-----------------------------------------------------------------------------
(* Lots.                                                                   *)

\* A function over the first naturals is a sequence.
LEMMA SequenceOf ==
    ASSUME NEW S, NEW n \in Nat, NEW f \in [1..n -> S]
    PROVE  f \in Seq(S) /\ Len(f) = n /\ DOMAIN f = 1..n
OBVIOUS

\* A sequence that extends another by an element.
LEMMA AppendIs ==
    ASSUME NEW q \in Seq(Int), NEW x \in Int, NEW n \in Nat, Len(q) = n,
           NEW f \in [1..n + 1 -> Int],
           \A i \in 1..n + 1 : f[i] = IF i = n + 1 THEN x ELSE q[i]
    PROVE  f = Append(q, x)
<1> DEFINE a == Append(q, x)
<1>1. /\ a \in Seq(Int) /\ Len(a) = n + 1 /\ a[n + 1] = x /\ \A i \in 1..n : a[i] = q[i]
  OBVIOUS
<1> HIDE DEF a
<1>2. a \in [1..n + 1 -> Int]
  BY <1>1
<1>3. \A i \in 1..n + 1 : a[i] = f[i]
  BY <1>1
<1>4. a = [i \in 1..n + 1 |-> a[i]]
  BY <1>2
<1>5. a = f
  BY <1>3, <1>4
<1>6. QED
  BY <1>5 DEF a

\* What lots cost and how many shares they are.
Costs(lots) == [i \in DOMAIN lots |-> lots[i].price * lots[i].quantity]
Quantities(lots) == [i \in DOMAIN lots |-> lots[i].quantity]

\* The cost and the shares of lots are sums of numbers that are never negative.
LEMMA LotsAre ==
    ASSUME NEW lots \in Seq(Lot)
    PROVE  /\ Len(lots) \in Nat /\ DOMAIN lots = 1..Len(lots)
           /\ Cost(lots) = SumSeq(Costs(lots)) /\ Quantity(lots) = SumSeq(Quantities(lots))
           /\ Costs(lots) \in Seq(Nat) /\ Len(Costs(lots)) = Len(lots)
           /\ Quantities(lots) \in Seq(Nat) /\ Len(Quantities(lots)) = Len(lots)
           /\ Cost(lots) \in Nat /\ Quantity(lots) \in Nat
           /\ \A i \in 1..Len(lots) :
                /\ lots[i].price \in Nat /\ lots[i].quantity \in Nat
                /\ Costs(lots)[i] = lots[i].price * lots[i].quantity
                /\ Quantities(lots)[i] = lots[i].quantity
<1>1. Len(lots) \in Nat /\ DOMAIN lots = 1..Len(lots) /\ \A i \in 1..Len(lots) : lots[i] \in Lot
  OBVIOUS
<1>2. \A i \in 1..Len(lots) : lots[i].price \in Nat /\ lots[i].quantity \in Nat
  BY <1>1 DEF Lot
<1>3. \A x, y \in Nat : x * y \in Nat
  OBVIOUS
<1>4. Costs(lots) \in [1..Len(lots) -> Nat] /\ Quantities(lots) \in [1..Len(lots) -> Nat]
  BY <1>1, <1>2, <1>3 DEF Costs, Quantities
<1>5. /\ Costs(lots) \in Seq(Nat) /\ Len(Costs(lots)) = Len(lots)
      /\ Quantities(lots) \in Seq(Nat) /\ Len(Quantities(lots)) = Len(lots)
  BY <1>1, <1>4, SequenceOf
<1>6. Cost(lots) = SumSeq(Costs(lots)) /\ Quantity(lots) = SumSeq(Quantities(lots))
  BY DEF Cost, Quantity, Costs, Quantities
<1>7. Cost(lots) \in Nat /\ Quantity(lots) \in Nat
  BY <1>5, <1>6, SumOfNats
<1>8. \A i \in 1..Len(lots) :
        Costs(lots)[i] = lots[i].price * lots[i].quantity /\ Quantities(lots)[i] = lots[i].quantity
  BY <1>1 DEF Costs, Quantities
<1>9. QED
  BY <1>1, <1>2, <1>5, <1>6, <1>7, <1>8

\* No lots.
LEMMA NoLotsAre == << >> \in Seq(Lot) /\ Cost(<< >>) = 0 /\ Quantity(<< >>) = 0
<1>1. << >> \in Seq(Lot) /\ << >> \in Seq(Nat)
  OBVIOUS
<1>2. Costs(<< >>) = << >> /\ Quantities(<< >>) = << >>
  BY <1>1, LotsAre DEF Costs, Quantities
<1>3. QED
  BY <1>1, <1>2, SumEmpty, LotsAre

\* One lot more.
LEMMA LotBought ==
    ASSUME NEW lots \in Seq(Lot), NEW lot \in Lot
    PROVE  /\ Append(lots, lot) \in Seq(Lot)
           /\ Cost(Append(lots, lot)) = Cost(lots) + lot.price * lot.quantity
           /\ Quantity(Append(lots, lot)) = Quantity(lots) + lot.quantity
<1> DEFINE more == Append(lots, lot)
<1>1. /\ more \in Seq(Lot) /\ Len(more) = Len(lots) + 1 /\ Len(lots) \in Nat
      /\ more[Len(lots) + 1] = lot /\ \A i \in 1..Len(lots) : more[i] = lots[i]
      /\ DOMAIN more = 1..Len(lots) + 1 /\ DOMAIN lots = 1..Len(lots)
  OBVIOUS
<1>2. lot.price * lot.quantity \in Nat /\ lot.quantity \in Nat
  <2>1. \A x, y \in Nat : x * y \in Nat
    OBVIOUS
  <2>2. QED
    BY <2>1 DEF Lot
<1> HIDE DEF more
<1>3. Costs(more) = Append(Costs(lots), lot.price * lot.quantity)
  <2>1. Costs(lots) \in Seq(Nat) /\ Len(Costs(lots)) = Len(lots)
    BY LotsAre
  <2> DEFINE a == Append(Costs(lots), lot.price * lot.quantity)
  <2>2. /\ DOMAIN a = 1..Len(lots) + 1 /\ a[Len(lots) + 1] = lot.price * lot.quantity
        /\ \A i \in 1..Len(lots) : a[i] = Costs(lots)[i]
        /\ a = [i \in DOMAIN a |-> a[i]]
    BY <1>1, <2>1
  <2> HIDE DEF a
  <2>3. \A i \in 1..Len(lots) : a[i] = more[i].price * more[i].quantity
    BY <1>1, <2>2, LotsAre
  <2>4. \A i \in 1..Len(lots) + 1 : a[i] = more[i].price * more[i].quantity
    BY <1>1, <2>2, <2>3
  <2>5. Costs(more) = a
    BY <1>1, <2>2, <2>4 DEF Costs
  <2>6. QED
    BY <2>5 DEF a
<1>4. Quantities(more) = Append(Quantities(lots), lot.quantity)
  <2>1. Quantities(lots) \in Seq(Nat) /\ Len(Quantities(lots)) = Len(lots)
    BY LotsAre
  <2> DEFINE a == Append(Quantities(lots), lot.quantity)
  <2>2. /\ DOMAIN a = 1..Len(lots) + 1 /\ a[Len(lots) + 1] = lot.quantity
        /\ \A i \in 1..Len(lots) : a[i] = Quantities(lots)[i]
        /\ a = [i \in DOMAIN a |-> a[i]]
    BY <1>1, <2>1
  <2> HIDE DEF a
  <2>3. \A i \in 1..Len(lots) : a[i] = more[i].quantity
    BY <1>1, <2>2, LotsAre
  <2>4. \A i \in 1..Len(lots) + 1 : a[i] = more[i].quantity
    BY <1>1, <2>2, <2>3
  <2>5. Quantities(more) = a
    BY <1>1, <2>2, <2>4 DEF Quantities
  <2>6. QED
    BY <2>5 DEF a
<1>5. Costs(lots) \in Seq(Int) /\ Quantities(lots) \in Seq(Int)
  BY LotsAre
<1>6. /\ Cost(more) = Cost(lots) + lot.price * lot.quantity
      /\ Quantity(more) = Quantity(lots) + lot.quantity
  <2>1. /\ SumSeq(Costs(more)) = SumSeq(Costs(lots)) + lot.price * lot.quantity
        /\ SumSeq(Quantities(more)) = SumSeq(Quantities(lots)) + lot.quantity
    <3> DEFINE cost == lot.price * lot.quantity
    <3>1. cost \in Int /\ lot.quantity \in Int /\ Costs(more) = Append(Costs(lots), cost)
      BY <1>2, <1>3
    <3> HIDE DEF cost
    <3>2. SumSeq(Append(Costs(lots), cost)) = SumSeq(Costs(lots)) + cost
      BY <1>5, <3>1, SumAppend
    <3>3. SumSeq(Append(Quantities(lots), lot.quantity)) = SumSeq(Quantities(lots)) + lot.quantity
      BY <1>5, <3>1, SumAppend
    <3>4. SumSeq(Costs(more)) = SumSeq(Costs(lots)) + cost
      BY <3>1, <3>2
    <3>5. QED
      BY <1>4, <3>3, <3>4 DEF cost
  <2>2. /\ Cost(more) = SumSeq(Costs(more)) /\ Quantity(more) = SumSeq(Quantities(more))
        /\ Cost(lots) = SumSeq(Costs(lots)) /\ Quantity(lots) = SumSeq(Quantities(lots))
    BY <1>1, LotsAre
  <2>3. QED
    BY <2>1, <2>2
<1>7. QED
  BY <1>1, <1>6 DEF more

\* A sale that no lot makes a profit of brings no more than the lots cost.
LEMMA UnprofitableSale ==
    ASSUME NEW lots \in Seq(Lot), NEW bid \in Nat
    PROVE  /\ ProfitableAt(bid, lots) \in Nat
           /\ ProfitableAt(bid, lots) = 0 => bid * Quantity(lots) <= Cost(lots)
<1> DEFINE gains == {i \in DOMAIN lots : bid > lots[i].price}
<1>1. IsFiniteSet(gains) /\ Cardinality(gains) \in Nat
  <2>1. IsFiniteSet(1..Len(lots))
    BY FS_Interval, LotsAre
  <2>2. gains \in SUBSET (1..Len(lots))
    BY LotsAre
  <2>3. QED
    BY <2>1, <2>2, FS_Subset, FS_CardinalityType
<1>2. ASSUME Cardinality(gains) = 0
      PROVE  bid * Quantity(lots) <= Cost(lots)
  <2>1. gains = {}
    BY <1>1, <1>2, FS_EmptySet
  <2>2. ASSUME NEW i \in 1..Len(lots)
        PROVE  bid * Quantities(lots)[i] <= Costs(lots)[i]
    <3>1. /\ lots[i].price \in Nat /\ lots[i].quantity \in Nat /\ i \in DOMAIN lots
          /\ Costs(lots)[i] = lots[i].price * lots[i].quantity
          /\ Quantities(lots)[i] = lots[i].quantity
      BY <2>2, LotsAre
    <3>2. bid <= lots[i].price
      BY <2>1, <3>1
    <3>3. \A p, n \in Nat : bid <= p => bid * n <= p * n
      OBVIOUS
    <3>4. QED
      BY <3>1, <3>2, <3>3
  <2>3. Costs(lots) \in Seq(Int) /\ Quantities(lots) \in Seq(Int) /\ Len(Costs(lots)) = Len(lots)
        /\ Len(Quantities(lots)) = Len(lots)
    BY LotsAre
  <2>4. bid * SumSeq(Quantities(lots)) <= SumSeq(Costs(lots))
    BY <2>2, <2>3, SumBounded
  <2>5. QED
    BY <2>4, LotsAre
<1>3. QED
  BY <1>1, <1>2 DEF ProfitableAt

-----------------------------------------------------------------------------
(* The account.                                                            *)

\* The order lists every stock once.
LEMMA StocksAre ==
    /\ Len(Stocks) \in Nat /\ DOMAIN Stocks = 1..Len(Stocks)
    /\ \A i \in 1..Len(Stocks) : Stocks[i] \in Symbols
    /\ \A s \in Symbols : \E j \in 1..Len(Stocks) :
         Stocks[j] = s /\ \A i \in 1..Len(Stocks) : Stocks[i] = s => i = j
<1> DEFINE n == Cardinality(Symbols)
<1>1. IsFiniteSet(Symbols)
  BY TradingAssumption, FundsAssumption
<1>2. n \in Nat /\ \E f : f \in Bijection(1..n, Symbols)
  BY <1>1, FS_CardinalityType DEF ExistsBijection
<1>3. \E f \in [1..n -> Symbols] : IsInjective(f)
  BY <1>2 DEF Bijection, Injection
<1>4. Stocks \in [1..n -> Symbols] /\ IsInjective(Stocks)
  BY <1>3 DEF Stocks, SetToSeq
<1>5. Stocks \in Injection(1..n, Symbols)
  BY <1>4 DEF Injection
<1>6. Cardinality(1..n) = n
  BY <1>2, FS_Interval
<1>7. Stocks \in Surjection(1..n, Symbols)
  BY <1>1, <1>5, <1>6, FS_Injection
<1> HIDE DEF n
<1>8. Len(Stocks) = n /\ DOMAIN Stocks = 1..n
  BY <1>2, <1>4, SequenceOf
<1>9. \A s \in Symbols : \E j \in 1..n : Stocks[j] = s
  BY <1>7 DEF Surjection
<1>10. \A i, j \in 1..n : Stocks[i] = Stocks[j] => i = j
  BY <1>4, <1>8 DEF IsInjective
<1>11. \A i \in 1..n : Stocks[i] \in Symbols
  BY <1>4
<1>12. QED
  BY <1>2, <1>8, <1>9, <1>10, <1>11

\* The lots of one stock change.
LEMMA TotalChanged ==
    ASSUME NEW h \in [Symbols -> Seq(Lot)], NEW s \in Symbols, NEW lots \in Seq(Lot)
    PROVE  /\ TotalCost(h) \in Int
           /\ TotalCost([h EXCEPT ![s] = lots]) = TotalCost(h) + (Cost(lots) - Cost(h[s]))
<1> DEFINE Of(g) == [i \in DOMAIN Stocks |-> Cost(g[Stocks[i]])]
           k == [h EXCEPT ![s] = lots]
           n == Len(Stocks)
<1>1. n \in Nat /\ DOMAIN Stocks = 1..n /\ \A i \in 1..n : Stocks[i] \in Symbols
  BY StocksAre
<1>2. PICK j \in 1..n : Stocks[j] = s /\ \A i \in 1..n : Stocks[i] = s => i = j
  BY StocksAre
<1>3. ASSUME NEW g \in [Symbols -> Seq(Lot)]
      PROVE  /\ Of(g) \in Seq(Int) /\ Len(Of(g)) = n /\ TotalCost(g) = SumSeq(Of(g))
             /\ \A i \in 1..n : Of(g)[i] = Cost(g[Stocks[i]])
             /\ TotalCost(g) \in Int
  <2>1. \A i \in 1..n : Cost(g[Stocks[i]]) \in Int
    BY <1>1, LotsAre
  <2>2. Of(g) \in [1..n -> Int]
    BY <1>1, <2>1
  <2>3. Of(g) \in Seq(Int) /\ Len(Of(g)) = n
    BY <1>1, <2>2, SequenceOf
  <2>4. TotalCost(g) = SumSeq(Of(g))
    BY DEF TotalCost
  <2>5. SumSeq(Of(g)) \in Int
    <3> HIDE DEF Of
    <3>1. QED
      BY <2>3, 0 \in Int, SumAppend
  <2>6. QED
    BY <1>1, <2>3, <2>4, <2>5
<1>4. k \in [Symbols -> Seq(Lot)] /\ k[s] = lots /\ \A r \in Symbols : r # s => k[r] = h[r]
  OBVIOUS
<1> DEFINE d == Cost(lots) - Cost(h[s])
<1>5. d \in Int /\ Cost(lots) = Cost(h[s]) + d
  BY LotsAre
<1>6. /\ Of(h) \in Seq(Int) /\ Of(k) \in Seq(Int) /\ Len(Of(h)) = n /\ Len(Of(k)) = n
      /\ TotalCost(h) = SumSeq(Of(h)) /\ TotalCost(k) = SumSeq(Of(k))
      /\ \A i \in 1..n : Of(h)[i] = Cost(h[Stocks[i]]) /\ Of(k)[i] = Cost(k[Stocks[i]])
  BY <1>3, <1>4
<1>7. Of(k)[j] = Of(h)[j] + d
  BY <1>2, <1>4, <1>5, <1>6
<1>8. \A i \in 1..n : i # j => Of(k)[i] = Of(h)[i]
  BY <1>1, <1>2, <1>4, <1>6
<1> HIDE DEF Of, d, k, n
<1>9. SumSeq(Of(k)) = SumSeq(Of(h)) + d
  <2>1. /\ j \in 1..Len(Of(h)) /\ Len(Of(h)) = Len(Of(k))
        /\ \A i \in 1..Len(Of(h)) : i # j => Of(k)[i] = Of(h)[i]
    BY <1>2, <1>6, <1>8
  <2>2. QED
    BY <1>5, <1>6, <1>7, <2>1, SumChanged
<1>10. QED
  BY <1>3, <1>6, <1>9 DEF d, k

\* The cash, the shares and the cash taken of a trade are integers.
LEMMA TradeMoves ==
    ASSUME NEW t \in Trade, NEW s
    PROVE  Cash(t) \in Int /\ Shares(t, s) \in Int /\ Taken(t) \in Nat
<1>1. t.price \in Nat /\ t.quantity \in Int
  <2>1. t.price \in Prices \cup {0} /\ t.quantity \in Int
    BY DEF Trade, Price
  <2>2. Prices \subseteq Nat \ {0}
    BY TradingAssumption, FundsAssumption
  <2>3. \A x \in Prices \cup {0} : x \in Nat
    BY <2>2
  <2>4. QED
    BY <2>1, <2>3
<1>2. \A x, y \in Int : x * y \in Int /\ (- x) * y \in Int /\ - (x * y) \in Int /\ - x \in Int
  OBVIOUS
<1>3. Cash(t) \in Int
  BY <1>1, <1>2 DEF Cash
<1>4. Shares(t, s) \in Int
  BY <1>1 DEF Shares
<1>5. Taken(t) \in Nat
  <2> DEFINE x == t.price
             y == t.quantity
  <2>1. x \in Nat /\ y \in Int
    BY <1>1
  <2>2. Taken(t) = IF t.action = "SELL" /\ y < 0 THEN - x * y ELSE 0
    BY DEF Taken
  <2> HIDE DEF x, y
  <2>3. ASSUME y < 0 PROVE - x * y \in Nat
    <3>1. - y \in Nat /\ x * (- y) \in Nat
      BY <2>1, <2>3
    <3>2. - x * y = x * (- y)
      BY <2>1
    <3>3. QED
      BY <3>1, <3>2
  <2>4. QED
    BY <2>2, <2>3
<1>6. QED
  BY <1>3, <1>4, <1>5

\* A ledger with one trade more, valued trade by trade.
LEMMA ValuesGrow ==
    ASSUME NEW ledger \in Seq(Trade), NEW t \in Trade, NEW v \in [Trade -> Int]
    PROVE  /\ SumSeq([i \in DOMAIN ledger |-> v[ledger[i]]]) \in Int
           /\ SumSeq([i \in DOMAIN Append(ledger, t) |-> v[Append(ledger, t)[i]]])
                = SumSeq([i \in DOMAIN ledger |-> v[ledger[i]]]) + v[t]
<1> DEFINE more == Append(ledger, t)
           n == Len(ledger)
           q == [i \in DOMAIN ledger |-> v[ledger[i]]]
           f == [i \in DOMAIN more |-> v[more[i]]]
           x == v[t]
<1>1. /\ more \in Seq(Trade) /\ n \in Nat /\ DOMAIN ledger = 1..n /\ DOMAIN more = 1..n + 1
      /\ more[n + 1] = t /\ \A i \in 1..n : more[i] = ledger[i] /\ ledger[i] \in Trade
      /\ \A i \in 1..n + 1 : more[i] \in Trade
  OBVIOUS
<1>2. x \in Int
  OBVIOUS
<1>3. q \in [1..n -> Int] /\ \A i \in 1..n : q[i] = v[ledger[i]]
  BY <1>1
<1>4. q \in Seq(Int) /\ Len(q) = n
  BY <1>1, <1>3, SequenceOf
<1>5. f \in [1..n + 1 -> Int] /\ \A i \in 1..n + 1 : f[i] = v[more[i]]
  BY <1>1
<1>6. \A i \in 1..n + 1 : f[i] = IF i = n + 1 THEN x ELSE q[i]
  BY <1>1, <1>3, <1>5
<1>7. n \in Nat
  BY <1>1
<1> HIDE DEF q, f, x, n
<1>8. f = Append(q, x)
  BY <1>2, <1>4, <1>5, <1>6, <1>7, AppendIs
<1>9. SumSeq(q) \in Int /\ SumSeq(f) = SumSeq(q) + x
  BY <1>2, <1>4, <1>8, SumAppend
<1>10. QED
  BY <1>9 DEF q, f, x

\* What a ledger with one trade more moves and takes.
LEMMA LedgerGrows ==
    ASSUME NEW ledger \in Seq(Trade), NEW t \in Trade, NEW s
    PROVE  /\ CashOf(ledger) \in Int /\ SharesOf(ledger, s) \in Int /\ TakenBy(ledger) \in Nat
           /\ CashOf(Append(ledger, t)) = CashOf(ledger) + Cash(t)
           /\ SharesOf(Append(ledger, t), s) = SharesOf(ledger, s) + Shares(t, s)
           /\ TakenBy(Append(ledger, t)) = TakenBy(ledger) + Taken(t)
<1> DEFINE more == Append(ledger, t)
<1>1. /\ more \in Seq(Trade)
      /\ \A i \in DOMAIN ledger : ledger[i] \in Trade
      /\ \A i \in DOMAIN more : more[i] \in Trade
  OBVIOUS
<1>2. CashOf(ledger) \in Int /\ CashOf(more) = CashOf(ledger) + Cash(t)
  <2> DEFINE v == [u \in Trade |-> Cash(u)]
  <2>1. v \in [Trade -> Int] /\ v[t] = Cash(t)
    BY TradeMoves
  <2>2. /\ [i \in DOMAIN ledger |-> v[ledger[i]]] = [i \in DOMAIN ledger |-> Cash(ledger[i])]
        /\ [i \in DOMAIN more |-> v[more[i]]] = [i \in DOMAIN more |-> Cash(more[i])]
    BY <1>1
  <2> HIDE DEF v
  <2>3. /\ SumSeq([i \in DOMAIN ledger |-> v[ledger[i]]]) \in Int
        /\ SumSeq([i \in DOMAIN more |-> v[more[i]]])
             = SumSeq([i \in DOMAIN ledger |-> v[ledger[i]]]) + v[t]
    BY <2>1, ValuesGrow
  <2>4. QED
    BY <2>1, <2>2, <2>3 DEF CashOf
<1>3. SharesOf(ledger, s) \in Int /\ SharesOf(more, s) = SharesOf(ledger, s) + Shares(t, s)
  <2> DEFINE v == [u \in Trade |-> Shares(u, s)]
  <2>1. v \in [Trade -> Int] /\ v[t] = Shares(t, s)
    BY TradeMoves
  <2>2. /\ [i \in DOMAIN ledger |-> v[ledger[i]]] = [i \in DOMAIN ledger |-> Shares(ledger[i], s)]
        /\ [i \in DOMAIN more |-> v[more[i]]] = [i \in DOMAIN more |-> Shares(more[i], s)]
    BY <1>1
  <2> HIDE DEF v
  <2>3. /\ SumSeq([i \in DOMAIN ledger |-> v[ledger[i]]]) \in Int
        /\ SumSeq([i \in DOMAIN more |-> v[more[i]]])
             = SumSeq([i \in DOMAIN ledger |-> v[ledger[i]]]) + v[t]
    BY <2>1, ValuesGrow
  <2>4. QED
    BY <2>1, <2>2, <2>3 DEF SharesOf
<1>4. TakenBy(ledger) \in Nat /\ TakenBy(more) = TakenBy(ledger) + Taken(t)
  <2> DEFINE v == [u \in Trade |-> Taken(u)]
             q == [i \in DOMAIN ledger |-> Taken(ledger[i])]
  <2>1. v \in [Trade -> Int] /\ v[t] = Taken(t)
    <3>1. \A u \in Trade : Taken(u) \in Nat
      BY TradeMoves
    <3>2. \A u \in Trade : Taken(u) \in Int
      BY <3>1
    <3>3. QED
      BY <3>2
  <2>2. /\ [i \in DOMAIN ledger |-> v[ledger[i]]] = q
        /\ [i \in DOMAIN more |-> v[more[i]]] = [i \in DOMAIN more |-> Taken(more[i])]
    BY <1>1
  <2>3. q \in Seq(Nat)
    <3>1. Len(ledger) \in Nat /\ DOMAIN ledger = 1..Len(ledger)
      OBVIOUS
    <3>2. q \in [1..Len(ledger) -> Nat]
      BY <1>1, <3>1, TradeMoves
    <3> HIDE DEF q
    <3>3. QED
      BY <3>1, <3>2, SequenceOf
  <2> HIDE DEF v, q
  <2>4. SumSeq([i \in DOMAIN more |-> v[more[i]]])
          = SumSeq([i \in DOMAIN ledger |-> v[ledger[i]]]) + v[t]
    BY <2>1, ValuesGrow
  <2>5. SumSeq(q) \in Nat
    BY <2>3, SumOfNats
  <2>6. QED
    BY <2>1, <2>2, <2>4, <2>5 DEF TakenBy, q
<1>5. QED
  BY <1>2, <1>3, <1>4

\* No ledger moves nothing, and one trade what it moves itself.
LEMMA LedgerOfOne ==
    ASSUME NEW t \in Trade, NEW s
    PROVE  /\ CashOf(<< >>) = 0 /\ SharesOf(<< >>, s) = 0 /\ TakenBy(<< >>) = 0
           /\ CashOf(<<t>>) = Cash(t) /\ SharesOf(<<t>>, s) = Shares(t, s)
           /\ TakenBy(<<t>>) = Taken(t)
<1>1. << >> \in Seq(Trade) /\ Append(<< >>, t) = <<t>> /\ DOMAIN << >> = {}
  OBVIOUS
<1>2. CashOf(<< >>) = 0 /\ SharesOf(<< >>, s) = 0 /\ TakenBy(<< >>) = 0
  <2>1. /\ [i \in DOMAIN << >> |-> Cash(<< >>[i])] = << >>
        /\ [i \in DOMAIN << >> |-> Shares(<< >>[i], s)] = << >>
        /\ [i \in DOMAIN << >> |-> Taken(<< >>[i])] = << >>
    BY <1>1
  <2>2. QED
    BY <2>1, SumEmpty DEF CashOf, SharesOf, TakenBy
<1>3. /\ CashOf(<<t>>) = CashOf(<< >>) + Cash(t)
      /\ SharesOf(<<t>>, s) = SharesOf(<< >>, s) + Shares(t, s)
      /\ TakenBy(<<t>>) = TakenBy(<< >>) + Taken(t)
  BY <1>1, LedgerGrows
<1>4. Cash(t) \in Int /\ Shares(t, s) \in Int /\ Taken(t) \in Nat
  BY TradeMoves
<1>5. QED
  BY <1>2, <1>3, <1>4

-----------------------------------------------------------------------------
(* The int that a sale is summed in.                                       *)

\* A multiple of a number has no remainder.
LEMMA MultipleOf ==
    ASSUME NEW w \in Nat \ {0}, NEW k \in Int
    PROVE  (k * w) % w = 0
<1> DEFINE a == k * w
           d == a \div w
           r == a % w
<1>1. a \in Int
  OBVIOUS
<1>2. d \in Int /\ r \in Int /\ a = w * d + r /\ 0 <= r /\ r < w
  <2> HIDE DEF a
  <2>1. QED
    BY <1>1
<1> HIDE DEF d, r
<1>3. r = (k - d) * w
  BY <1>2 DEF a
<1> DEFINE e == k - d
<1>4. e \in Int /\ r = e * w
  BY <1>2, <1>3
<1> HIDE DEF e
<1>5. ~ (e >= 1)
  <2>1. SUFFICES ASSUME e >= 1 PROVE FALSE
    OBVIOUS
  <2>2. (e - 1) \in Nat /\ (e - 1) * w \in Nat /\ e * w = (e - 1) * w + w
    BY <1>4, <2>1
  <2>3. QED
    BY <1>2, <1>4, <2>2
<1>6. ~ (e <= -1)
  <2>1. SUFFICES ASSUME e <= -1 PROVE FALSE
    OBVIOUS
  <2>2. (- e) \in Nat /\ (- e - 1) \in Nat /\ (- e - 1) * w \in Nat /\ e * w = - ((- e - 1) * w) - w
    BY <1>4, <2>1
  <2>3. QED
    BY <1>2, <1>4, <2>2
<1>7. e = 0
  BY <1>4, <1>5, <1>6
<1>8. QED
  BY <1>4, <1>7 DEF r, a

\* A number that has no remainder is a multiple.
LEMMA MultipleIs ==
    ASSUME NEW w \in Nat \ {0}, NEW a \in Int, a % w = 0
    PROVE  \E k \in Int : a = k * w
<1>1. a \div w \in Int /\ a = w * (a \div w) + (a % w)
  OBVIOUS
<1>2. a = (a \div w) * w
  BY <1>1
<1>3. QED
  BY <1>1, <1>2

\* Multiples add up to one.
LEMMA MultiplesAdd ==
    ASSUME NEW w \in Nat \ {0}, NEW a \in Int, NEW b \in Int, a % w = 0, b % w = 0
    PROVE  (a - b) % w = 0
<1>1. PICK k \in Int : a = k * w
  BY MultipleIs
<1>2. PICK l \in Int : b = l * w
  BY MultipleIs
<1>3. k - l \in Int /\ a - b = (k - l) * w
  BY <1>1, <1>2
<1>4. ((k - l) * w) % w = 0
  BY <1>3, MultipleOf
<1>5. QED
  BY <1>3, <1>4

\* The int is the sum but for a multiple of its range, and never more.
LEMMA ToIntIs ==
    ASSUME NEW n \in Nat
    PROVE  /\ IntRange \in Nat \ {0}
           /\ ToInt(n) \in Int /\ ToInt(n) <= n /\ (n - ToInt(n)) % IntRange = 0
<1>1. MaxInt \in Nat
  BY TradingAssumption
<1>2. IntRange \in Nat \ {0}
  BY <1>1 DEF IntRange
<1> DEFINE x == n + MaxInt + 1
           w == IntRange
           d == x \div w
           r == x % w
<1>3. x \in Nat
  BY <1>1
<1>4. ToInt(n) = r - (MaxInt + 1)
  BY DEF ToInt
<1>5. d \in Nat /\ r \in Nat /\ x = w * d + r
  <2> HIDE DEF x, w
  <2>1. w \in Nat \ {0}
    BY <1>2 DEF w
  <2>2. QED
    BY <1>3, <2>1
<1>6. w * d \in Nat /\ w * d = d * w
  BY <1>2, <1>5
<1> HIDE DEF d, r, w
<1>7. ToInt(n) \in Int /\ n - ToInt(n) = d * w
  BY <1>1, <1>4, <1>5, <1>6 DEF x
<1>8. ToInt(n) <= n
  BY <1>1, <1>4, <1>5, <1>6 DEF x
<1>9. (d * w) % w = 0
  BY <1>2, <1>5, MultipleOf DEF w
<1>10. QED
  BY <1>2, <1>7, <1>8, <1>9 DEF w

-----------------------------------------------------------------------------
(* The inductive invariant.                                                *)

\* What all trades moved and took, wherever their records are.
CashMoved == CashOf(trades) + CashOf(lost) + CashOf(pending)
SharesMoved(s) == SharesOf(trades, s) + SharesOf(lost, s) + SharesOf(pending, s)
CashTaken == TakenBy(trades) + TakenBy(lost) + TakenBy(pending)

\* The shares of a stock that its trades do not explain.
Unexplained(s) == Quantity(positions[s]) - Quantity(loaded[s]) - SharesMoved(s)

Explained(s) == Unexplained(s) % IntRange = 0

InLedger ==
    /\ funds = InitialFunds + CashMoved
    /\ \A s \in Symbols : Explained(s)

\* The cap, the ledger and the report of gains are inductive with the types,
\* once it is known that only one trade at a time is on its way to its record.
TradingInv ==
    /\ TypeOK
    /\ Len(pending) <= 1
    /\ OutlayCapped
    /\ InLedger
    /\ GainsAreReported

\* What the types of the state and of the constants give, in the form the steps use.
LEMMA TypesAre ==
    ASSUME TypeOK
    PROVE  /\ loaded \in [Symbols -> Seq(Lot)] /\ positions \in [Symbols -> Seq(Lot)]
           /\ funds \in Int /\ InitialFunds \in Nat /\ UsePct \in Nat /\ BuyPct \in Nat
           /\ Price \subseteq Nat
           /\ \A s \in Symbols : HasQuote(s) => market[s].bid \in Price /\ market[s].ask \in Price
<1>1. Price \subseteq Nat
  <2>1. Prices \subseteq Nat \ {0}
    BY TradingAssumption, FundsAssumption
  <2>2. QED
    BY <2>1 DEF Price
<1>2. InitialFunds \in Nat /\ UsePct \in Nat /\ BuyPct \in Nat
  BY TradingAssumption, FundsAssumption
<1>3. ASSUME NEW s \in Symbols, HasQuote(s)
      PROVE  market[s].bid \in Price /\ market[s].ask \in Price
  <2>1. market[s] \in Quote
    BY <1>3 DEF TypeOK, HasQuote
  <2>2. QED
    BY <2>1 DEF Quote
<1>4. QED
  BY <1>1, <1>2, <1>3 DEF TypeOK

\* What the records say is integers.
LEMMA MovesAre ==
    ASSUME TypeOK, NEW s \in Symbols
    PROVE  /\ CashMoved \in Int /\ SharesMoved(s) \in Int /\ CashTaken \in Nat
           /\ \A ledger \in {trades, lost, pending} :
                CashOf(ledger) \in Int /\ SharesOf(ledger, s) \in Int /\ TakenBy(ledger) \in Nat
<1>1. ASSUME NEW ledger \in Seq(Trade)
      PROVE  CashOf(ledger) \in Int /\ SharesOf(ledger, s) \in Int /\ TakenBy(ledger) \in Nat
  <2>1. CASE Trade = {}
    <3>1. ledger = << >>
      <4>1. Len(ledger) \in Nat /\ \A i \in 1..Len(ledger) : ledger[i] \in Trade
        OBVIOUS
      <4>2. Len(ledger) = 0
        <5>1. SUFFICES ASSUME Len(ledger) # 0 PROVE FALSE
          OBVIOUS
        <5>2. ledger[1] \in Trade
          BY <4>1, <5>1
        <5>3. QED
          BY <2>1, <5>2
      <4>3. QED
        BY <4>2
    <3>2. /\ [i \in DOMAIN << >> |-> Cash(<< >>[i])] = << >>
          /\ [i \in DOMAIN << >> |-> Shares(<< >>[i], s)] = << >>
          /\ [i \in DOMAIN << >> |-> Taken(<< >>[i])] = << >>
      OBVIOUS
    <3>3. QED
      BY <3>1, <3>2, SumEmpty DEF CashOf, SharesOf, TakenBy
  <2>2. CASE Trade # {}
    <3>1. PICK t \in Trade : TRUE
      BY <2>2
    <3>2. QED
      BY <3>1, LedgerGrows
  <2>3. QED
    BY <2>1, <2>2
<1>2. trades \in Seq(Trade) /\ lost \in Seq(Trade) /\ pending \in Seq(Trade)
  BY DEF TypeOK
<1>3. \A ledger \in {trades, lost, pending} :
        CashOf(ledger) \in Int /\ SharesOf(ledger, s) \in Int /\ TakenBy(ledger) \in Nat
  BY <1>1, <1>2
<1>4. \A x, y, z \in Int : x + y + z \in Int
  OBVIOUS
<1>5. \A x, y, z \in Nat : x + y + z \in Nat
  OBVIOUS
<1>6. CashMoved \in Int
  BY <1>3, <1>4 DEF CashMoved
<1>7. SharesMoved(s) \in Int
  BY <1>3, <1>4 DEF SharesMoved
<1>8. CashTaken \in Nat
  BY <1>3, <1>5 DEF CashTaken
<1>9. QED
  BY <1>3, <1>6, <1>7, <1>8

\* What is recorded once a trade is on its way.
LEMMA Booked ==
    ASSUME TypeOK, pending = << >>, NEW t \in Trade, pending' = <<t>>, UNCHANGED <<trades, lost>>
    PROVE  /\ pending' \in Seq(Trade) /\ Len(pending') <= 1
           /\ \A s \in Symbols :
                /\ CashMoved' = CashMoved + Cash(t)
                /\ SharesMoved(s)' = SharesMoved(s) + Shares(t, s)
                /\ CashTaken' = CashTaken + Taken(t)
<1>1. pending' \in Seq(Trade) /\ Len(pending') <= 1
  OBVIOUS
<1>2. ASSUME NEW s \in Symbols
      PROVE  /\ CashMoved' = CashMoved + Cash(t)
             /\ SharesMoved(s)' = SharesMoved(s) + Shares(t, s)
             /\ CashTaken' = CashTaken + Taken(t)
  <2>1. Cash(t) \in Int /\ Shares(t, s) \in Int /\ Taken(t) \in Int
    BY TradeMoves
  <2>2. /\ CashOf(trades) \in Int /\ CashOf(lost) \in Int
        /\ SharesOf(trades, s) \in Int /\ SharesOf(lost, s) \in Int
        /\ TakenBy(trades) \in Int /\ TakenBy(lost) \in Int
    BY MovesAre
  <2>3. /\ CashOf(pending) = 0 /\ SharesOf(pending, s) = 0 /\ TakenBy(pending) = 0
        /\ CashOf(<<t>>) = Cash(t) /\ SharesOf(<<t>>, s) = Shares(t, s)
        /\ TakenBy(<<t>>) = Taken(t)
    BY LedgerOfOne
  <2>4. \A x, y, z \in Int : x + y + z = x + y + 0 + z
    OBVIOUS
  <2>5. CashMoved' = CashOf(trades) + CashOf(lost) + Cash(t) /\ CashMoved = CashOf(trades) + CashOf(lost) + 0
    BY <2>3 DEF CashMoved
  <2>6. /\ SharesMoved(s)' = SharesOf(trades, s) + SharesOf(lost, s) + Shares(t, s)
        /\ SharesMoved(s) = SharesOf(trades, s) + SharesOf(lost, s) + 0
    BY <2>3 DEF SharesMoved
  <2>7. CashTaken' = TakenBy(trades) + TakenBy(lost) + Taken(t) /\ CashTaken = TakenBy(trades) + TakenBy(lost) + 0
    BY <2>3 DEF CashTaken
  <2>8. QED
    BY <2>1, <2>2, <2>4, <2>5, <2>6, <2>7
<1>3. QED
  BY <1>1, <1>2

\* What is recorded does not change when a save succeeds, or fails.
LEMMA Saved ==
    ASSUME TypeOK, Len(pending) <= 1, SaveTrade, NEW s \in Symbols
    PROVE  CashMoved' = CashMoved /\ SharesMoved(s)' = SharesMoved(s) /\ CashTaken' = CashTaken
<1>1. trades \in Seq(Trade) /\ lost \in Seq(Trade) /\ pending \in Seq(Trade) /\ pending # << >>
  BY DEF TypeOK, SaveTrade
<1> DEFINE t == pending[1]
<1>2. pending = <<t>> /\ t \in Trade
  <2>1. Len(pending) = 1
    <3>1. Len(pending) \in Nat /\ (Len(pending) = 0 => pending = << >>)
      BY <1>1
    <3>2. Len(pending) # 0
      BY <1>1, <3>1
    <3> DEFINE m == Len(pending)
    <3>3. m \in Nat /\ m # 0 /\ m <= 1
      BY <3>1, <3>2
    <3> HIDE DEF m
    <3>4. m = 1
      BY <3>3
    <3>5. QED
      BY <3>4 DEF m
  <2>2. QED
    BY <1>1, <2>1
<1> HIDE DEF t
<1>3. /\ CashOf(pending) = Cash(t) /\ SharesOf(pending, s) = Shares(t, s) /\ TakenBy(pending) = Taken(t)
      /\ CashOf(pending') = 0 /\ SharesOf(pending', s) = 0 /\ TakenBy(pending') = 0
  BY <1>2, LedgerOfOne DEF SaveTrade
<1>4. ASSUME NEW ledger \in {trades, lost}
      PROVE  /\ CashOf(ledger) \in Int /\ SharesOf(ledger, s) \in Int /\ TakenBy(ledger) \in Int
             /\ CashOf(ledger \o pending) = CashOf(ledger) + Cash(t)
             /\ SharesOf(ledger \o pending, s) = SharesOf(ledger, s) + Shares(t, s)
             /\ TakenBy(ledger \o pending) = TakenBy(ledger) + Taken(t)
  <2>1. ledger \in Seq(Trade)
    BY <1>1
  <2>2. ledger \o pending = Append(ledger, t)
    BY <1>2, <2>1
  <2>3. /\ CashOf(ledger) \in Int /\ SharesOf(ledger, s) \in Int /\ TakenBy(ledger) \in Nat
        /\ CashOf(Append(ledger, t)) = CashOf(ledger) + Cash(t)
        /\ SharesOf(Append(ledger, t), s) = SharesOf(ledger, s) + Shares(t, s)
        /\ TakenBy(Append(ledger, t)) = TakenBy(ledger) + Taken(t)
    BY <1>2, <2>1, LedgerGrows
  <2>4. QED
    BY <2>2, <2>3
<1>5. Cash(t) \in Int /\ Shares(t, s) \in Int /\ Taken(t) \in Int
  BY <1>2, TradeMoves
<1>6. CASE trades' = trades \o pending /\ UNCHANGED lost
  <2>1. CashMoved' = (CashOf(trades) + Cash(t)) + CashOf(lost) + 0 /\ CashMoved = CashOf(trades) + CashOf(lost) + Cash(t)
    BY <1>3, <1>4, <1>6 DEF CashMoved
  <2>2. /\ SharesMoved(s)' = (SharesOf(trades, s) + Shares(t, s)) + SharesOf(lost, s) + 0
        /\ SharesMoved(s) = SharesOf(trades, s) + SharesOf(lost, s) + Shares(t, s)
    BY <1>3, <1>4, <1>6 DEF SharesMoved
  <2>3. CashTaken' = (TakenBy(trades) + Taken(t)) + TakenBy(lost) + 0 /\ CashTaken = TakenBy(trades) + TakenBy(lost) + Taken(t)
    BY <1>3, <1>4, <1>6 DEF CashTaken
  <2>4. CashMoved' = CashMoved
    <3> DEFINE x == CashOf(trades)
               y == CashOf(lost)
               z == Cash(t)
    <3>1. x \in Int /\ y \in Int /\ z \in Int
      BY <1>4, <1>5
    <3> HIDE DEF x, y, z
    <3>2. (x + z) + y + 0 = x + y + z /\ x + (y + z) + 0 = x + y + z
      BY <3>1
    <3>3. QED
      BY <2>1, <3>2 DEF x, y, z
  <2>5. SharesMoved(s)' = SharesMoved(s)
    BY <1>4, <1>5, <2>2
  <2>6. CashTaken' = CashTaken
    <3> DEFINE x == TakenBy(trades)
               y == TakenBy(lost)
               z == Taken(t)
    <3>1. x \in Int /\ y \in Int /\ z \in Int
      BY <1>4, <1>5
    <3> HIDE DEF x, y, z
    <3>2. (x + z) + y + 0 = x + y + z /\ x + (y + z) + 0 = x + y + z
      BY <3>1
    <3>3. QED
      BY <2>3, <3>2 DEF x, y, z
  <2>7. QED
    BY <2>4, <2>5, <2>6
<1>7. CASE lost' = lost \o pending /\ UNCHANGED trades
  <2>1. CashMoved' = CashOf(trades) + (CashOf(lost) + Cash(t)) + 0 /\ CashMoved = CashOf(trades) + CashOf(lost) + Cash(t)
    BY <1>3, <1>4, <1>7 DEF CashMoved
  <2>2. /\ SharesMoved(s)' = SharesOf(trades, s) + (SharesOf(lost, s) + Shares(t, s)) + 0
        /\ SharesMoved(s) = SharesOf(trades, s) + SharesOf(lost, s) + Shares(t, s)
    BY <1>3, <1>4, <1>7 DEF SharesMoved
  <2>3. CashTaken' = TakenBy(trades) + (TakenBy(lost) + Taken(t)) + 0 /\ CashTaken = TakenBy(trades) + TakenBy(lost) + Taken(t)
    BY <1>3, <1>4, <1>7 DEF CashTaken
  <2>4. CashMoved' = CashMoved
    <3> DEFINE x == CashOf(trades)
               y == CashOf(lost)
               z == Cash(t)
    <3>1. x \in Int /\ y \in Int /\ z \in Int
      BY <1>4, <1>5
    <3> HIDE DEF x, y, z
    <3>2. (x + z) + y + 0 = x + y + z /\ x + (y + z) + 0 = x + y + z
      BY <3>1
    <3>3. QED
      BY <2>1, <3>2 DEF x, y, z
  <2>5. SharesMoved(s)' = SharesMoved(s)
    BY <1>4, <1>5, <2>2
  <2>6. CashTaken' = CashTaken
    <3> DEFINE x == TakenBy(trades)
               y == TakenBy(lost)
               z == Taken(t)
    <3>1. x \in Int /\ y \in Int /\ z \in Int
      BY <1>4, <1>5
    <3> HIDE DEF x, y, z
    <3>2. (x + z) + y + 0 = x + y + z /\ x + (y + z) + 0 = x + y + z
      BY <3>1
    <3>3. QED
      BY <2>3, <3>2 DEF x, y, z
  <2>7. QED
    BY <2>4, <2>5, <2>6
<1>8. QED
  BY <1>6, <1>7 DEF SaveTrade

\* A quotient times its divisor, and the least and greatest of two numbers.
LEMMA Divided ==
    ASSUME NEW a \in Int, NEW b \in Nat \ {0}
    PROVE  a \div b \in Int /\ b * (a \div b) <= a
BY SMT

\* The least of two integers.
LEMMA MinOfTwo ==
    ASSUME NEW a \in Int, NEW b \in Int
    PROVE  Min({a, b}) \in Int /\ Min({a, b}) <= a /\ Min({a, b}) <= b
<1>1. \E x \in {a, b} : \A y \in {a, b} : x =< y
  OBVIOUS
<1>2. Min({a, b}) \in {a, b} /\ \A y \in {a, b} : Min({a, b}) =< y
  BY <1>1 DEF Min
<1>3. QED
  BY <1>2

\* The greatest of two integers.
LEMMA MaxOfTwo ==
    ASSUME NEW a \in Int, NEW b \in Int
    PROVE  Max({a, b}) \in {a, b} /\ Max({a, b}) >= a /\ Max({a, b}) >= b
<1>1. \E x \in {a, b} : \A y \in {a, b} : x >= y
  OBVIOUS
<1>2. Max({a, b}) \in {a, b} /\ \A y \in {a, b} : Max({a, b}) >= y
  BY <1>1 DEF Max
<1>3. QED
  BY <1>2

\* An order costs no more than what the flag leaves.
LEMMA OrderIsPaidFor ==
    ASSUME NEW price \in Nat, NEW n \in BuyQuantities(price), n # 0, funds \in Int
    PROVE  n \in Nat /\ price * n \in Nat
           /\ 100 * (InitialFunds - (funds - price * n)) <= UsePct * InitialFunds
<1> DEFINE free == InitialFunds * UsePct - 100 * Max({0, InitialFunds - funds})
<1>1. InitialFunds \in Nat /\ UsePct \in Nat /\ BuyPct \in Nat /\ MaxInt \in Nat
  BY TradingAssumption, FundsAssumption
<1>2. InitialFunds - funds \in Int
  BY <1>1
<1>3. /\ Max({0, InitialFunds - funds}) \in Int
      /\ Max({0, InitialFunds - funds}) >= InitialFunds - funds
  <2> DEFINE out == InitialFunds - funds
  <2>1. out \in Int /\ 0 \in Int
    BY <1>2
  <2> HIDE DEF out
  <2>2. Max({0, out}) \in {0, out} /\ Max({0, out}) >= out
    BY <2>1, MaxOfTwo
  <2>3. Max({0, out}) \in Int
    BY <2>1, <2>2
  <2>4. QED
    BY <2>2, <2>3 DEF out
<1>4. \A x, y \in Int : x * y \in Int /\ x * y = y * x
  OBVIOUS
<1>5. /\ InitialFunds * UsePct \in Int /\ funds * BuyPct \in Int
      /\ InitialFunds * UsePct = UsePct * InitialFunds
  BY <1>1, <1>4
<1> DEFINE cap == InitialFunds * UsePct
<1>6. free \in Int /\ free <= cap - 100 * (InitialFunds - funds)
  <2>1. cap \in Int
    BY <1>5
  <2> DEFINE used == Max({0, InitialFunds - funds})
             out == InitialFunds - funds
  <2>2. used \in Int /\ out \in Int /\ used >= out
    BY <1>2, <1>3
  <2> HIDE DEF cap, used, out
  <2>3. cap - 100 * used \in Int /\ cap - 100 * used <= cap - 100 * out
    BY <2>1, <2>2
  <2>4. QED
    BY <2>3 DEF used, out, cap
<1>7. PurchaseTarget = Min({funds * BuyPct, free})
  BY DEF PurchaseTarget
<1>8. PurchaseTarget \in Int /\ PurchaseTarget <= free
  <2> HIDE DEF free
  <2>1. QED
    BY <1>5, <1>6, <1>7, MinOfTwo
<1>9. /\ PurchaseTarget > 0
      /\ \/ price = 0 /\ n = MaxInt
         \/ price # 0 /\ n = MaxInt /\ PurchaseTarget \div (100 * price) > MaxInt
         \/ price # 0 /\ n = PurchaseTarget \div (100 * price)
  <2> DEFINE T == PurchaseTarget
  <2>1. T \in Int
    BY <1>8
  <2> HIDE DEF T
  <2>2. ~ (T <= 0)
    BY DEF BuyQuantities, T
  <2>3. n \in IF price = 0 \/ T \div (100 * price) > MaxInt THEN {0, MaxInt} ELSE {T \div (100 * price)}
    BY <2>2 DEF BuyQuantities, T
  <2>4. T > 0
    BY <2>1, <2>2
  <2>5. CASE price = 0
    BY <2>3, <2>4, <2>5 DEF T
  <2>6. CASE price # 0 /\ T \div (100 * price) > MaxInt
    BY <2>3, <2>4, <2>6 DEF T
  <2>7. CASE price # 0 /\ ~ (T \div (100 * price) > MaxInt)
    BY <2>3, <2>4, <2>7 DEF T
  <2>8. QED
    BY <2>5, <2>6, <2>7
<1>10. cap \in Int /\ cap = UsePct * InitialFunds
  BY <1>5
<1>11. CASE price = 0
  <2>1. n \in Nat /\ price * n = 0
    BY <1>1, <1>9, <1>11
  <2>2. 0 <= free
    BY <1>6, <1>8, <1>9
  <2>3. 100 * (InitialFunds - funds) <= cap
    <3> HIDE DEF free, cap
    <3>1. QED
      BY <1>1, <1>6, <1>10, <2>2
  <2>4. InitialFunds - (funds - price * n) = InitialFunds - funds
    BY <1>1, <2>1
  <2>5. QED
    BY <1>10, <2>1, <2>3, <2>4
<1>12. CASE price # 0
  <2> DEFINE T == PurchaseTarget
             unit == 100 * price
             q == T \div unit
  <2>1. unit \in Nat \ {0}
    BY <1>12
  <2>2. T \in Int /\ T <= free /\ T > 0
    BY <1>8, <1>9
  <2>3. (n = MaxInt /\ q > MaxInt) \/ n = q
    BY <1>9, <1>12
  <2>4. q \in Nat /\ unit * q <= T
    <3> HIDE DEF T, unit
    <3>1. T \div unit \in Int /\ unit * (T \div unit) <= T
      BY <2>1, <2>2, Divided
    <3>2. T \div unit >= 0
      BY <2>1, <2>2
    <3>3. QED
      BY <3>1, <3>2
  <2> HIDE DEF q
  <2>5. n \in Nat /\ n <= q
    BY <1>1, <2>3, <2>4
  <2> HIDE DEF T, unit
  <2>6. unit * n <= unit * q
    <3>1. unit * (q - n) \in Nat /\ unit * (q - n) = unit * q - unit * n
      BY <2>1, <2>4, <2>5
    <3>2. unit * q \in Int /\ unit * n \in Int
      BY <2>1, <2>4, <2>5
    <3>3. QED
      BY <3>1, <3>2
  <2> DEFINE u == unit * n
             v == unit * q
  <2>7. u \in Int /\ v \in Int /\ u <= v /\ v <= T
    BY <2>1, <2>4, <2>5, <2>6
  <2>8. free \in Int
    BY <1>6
  <2>9. u <= free
    <3> HIDE DEF u, v, free
    <3>1. QED
      BY <2>2, <2>7, <2>8
  <2>10. price * n \in Nat /\ u = 100 * (price * n)
    BY <2>5 DEF unit
  <2> DEFINE c == price * n
  <2>11. c \in Nat /\ 100 * c <= free
    BY <2>9, <2>10
  <2> HIDE DEF c, free, cap
  <2>12. 100 * (InitialFunds - (funds - c)) <= cap
    BY <1>1, <1>6, <1>10, <2>11
  <2>13. QED
    BY <1>10, <2>5, <2>11, <2>12 DEF c
<1>13. QED
  BY <1>11, <1>12

\* Nothing the account owes to a sale that took money counts against the cap.
LEMMA Capped ==
    ASSUME NEW out \in Int, NEW took \in Nat, NEW cap \in Int, 100 * out <= cap
    PROVE  100 * (out - took) <= cap
OBVIOUS

\* A purchase: what it costs goes from the funds to the lots.
LEMMA BuyInv ==
    ASSUME TradingInv, NEW s \in Symbols, Buy(s)
    PROVE  TradingInv'
<1> DEFINE ask == market[s].ask
<1>1. TypeOK /\ HasQuote(s) /\ pending = << >> /\ traded < MaxTrades
  BY DEF TradingInv, Buy, MayTrade
<1>2. PICK n \in BuyQuantities(ask) :
        /\ n # 0
        /\ positions' = [positions EXCEPT ![s] = Append(@, [price |-> ask, quantity |-> n])]
        /\ funds' = funds - ask * n
        /\ pending' = <<[symbol |-> s, action |-> "BUY", price |-> ask, quantity |-> n]>>
        /\ traded' = traded + 1
  BY DEF Buy, Record
<1>3. UNCHANGED <<loaded, market, trades, lost, metrics>>
  BY DEF Buy
<1>4. ask \in Price /\ ask \in Nat /\ funds \in Int
  BY <1>1, TypesAre
<1> DEFINE lot == [price |-> ask, quantity |-> n]
           t == [symbol |-> s, action |-> "BUY", price |-> ask, quantity |-> n]
           cost == ask * n
           lots == positions[s]
<1>5. n \in Nat /\ cost \in Nat /\ 100 * (InitialFunds - (funds - cost)) <= UsePct * InitialFunds
  BY <1>2, <1>4, OrderIsPaidFor
<1> HIDE DEF ask
<1>6. lot \in Lot /\ lot.price = ask /\ lot.quantity = n
  BY <1>4, <1>5 DEF Lot
<1>7. t \in Trade /\ t.symbol = s /\ t.action = "BUY" /\ t.price = ask /\ t.quantity = n
  BY <1>4, <1>5 DEF Trade
<1>8. Cash(t) = - cost /\ Taken(t) = 0 /\ \A r \in Symbols : Shares(t, r) = IF r = s THEN n ELSE 0
  <2> HIDE DEF t
  <2>1. Cash(t) = - ask * n /\ - ask * n = - (ask * n) /\ Taken(t) = 0
    BY <1>4, <1>5, <1>7 DEF Cash, Taken
  <2>2. \A r \in Symbols : Shares(t, r) = IF r = s THEN n ELSE 0
    BY <1>7 DEF Shares
  <2>3. QED
    BY <2>1, <2>2
<1> HIDE DEF lot, t, cost, lots
<1>9. /\ positions' = [positions EXCEPT ![s] = Append(lots, lot)] /\ funds' = funds - cost
      /\ pending' = <<t>> /\ traded' = traded + 1
      /\ positions \in [Symbols -> Seq(Lot)] /\ lots \in Seq(Lot) /\ positions[s] = lots
  <2>1. positions \in [Symbols -> Seq(Lot)]
    BY <1>1, TypesAre
  <2>2. QED
    BY <1>2, <2>1 DEF lot, lots, t, cost
<1>10. /\ Append(lots, lot) \in Seq(Lot)
       /\ Cost(Append(lots, lot)) = Cost(lots) + cost
       /\ Quantity(Append(lots, lot)) = Quantity(lots) + n
       /\ Cost(lots) \in Nat /\ Quantity(lots) \in Nat
  BY <1>6, <1>9, LotBought, LotsAre DEF cost
<1>11. /\ pending' \in Seq(Trade) /\ Len(pending') <= 1
       /\ \A r \in Symbols :
            /\ CashMoved' = CashMoved + Cash(t)
            /\ SharesMoved(r)' = SharesMoved(r) + Shares(t, r)
            /\ CashTaken' = CashTaken + Taken(t)
  BY <1>1, <1>3, <1>7, <1>9, Booked
<1>12. TypeOK'
  <2>1. positions' \in [Symbols -> Seq(Lot)] /\ funds' \in Int
    BY <1>4, <1>5, <1>9, <1>10
  <2>2. traded' \in 0..MaxTrades
    BY <1>1, <1>9, TradingAssumption, FundsAssumption DEF TypeOK
  <2>3. QED
    BY <1>1, <1>3, <1>11, <2>1, <2>2 DEF TypeOK
<1>13. OutlayCapped'
  <2> DEFINE out == InitialFunds - (funds - cost)
             cap == UsePct * InitialFunds
  <2>1. out \in Int /\ cap \in Int /\ 100 * out <= cap
    BY <1>4, <1>5, TradingAssumption, FundsAssumption
  <2>2. CashTaken \in Nat /\ CashTaken' = CashTaken
    <3>1. CashTaken \in Nat
      BY <1>1, MovesAre
    <3>2. CashTaken' = CashTaken + 0
      BY <1>8, <1>11
    <3>3. QED
      BY <3>1, <3>2
  <2> HIDE DEF out, cap
  <2>3. 100 * (out - CashTaken) <= cap
    BY <2>1, <2>2, Capped
  <2>4. 100 * (InitialFunds - funds' - CashTaken') <= UsePct * InitialFunds
    BY <1>9, <2>2, <2>3 DEF out, cap
  <2>5. QED
    BY <2>4 DEF OutlayCapped, CashTaken
<1>14. InLedger'
  <2>1. funds = InitialFunds + CashMoved /\ \A r \in Symbols : Explained(r)
    BY DEF TradingInv, InLedger
  <2>2. funds' = InitialFunds + CashMoved'
    <3> DEFINE m == CashMoved
    <3>1. /\ m \in Int /\ CashMoved' = m + (- cost) /\ funds = InitialFunds + m
          /\ funds' = funds - cost /\ InitialFunds \in Int /\ cost \in Int
      BY <1>1, <1>5, <1>8, <1>9, <1>11, <2>1, MovesAre, TradingAssumption, FundsAssumption
    <3> HIDE DEF m
    <3>2. QED
      BY <3>1
  <2>3. ASSUME NEW r \in Symbols
        PROVE  Explained(r)'
    <3> DEFINE Q == Quantity(positions[r])
               L == Quantity(loaded[r])
               M == SharesMoved(r)
               d == IF r = s THEN n ELSE 0
    <3>1. Q \in Int /\ L \in Int /\ M \in Int /\ d \in Int
      BY <1>1, <1>5, TypesAre, LotsAre, MovesAre
    <3>2. SharesMoved(r)' = M + d
      BY <1>8, <1>11
    <3>3. Quantity(positions[r])' = Q + d
      <4>1. CASE r = s
        BY <1>9, <1>10, <4>1
      <4>2. CASE r # s
        BY <1>9, <3>1, <4>2
      <4>3. QED
        BY <4>1, <4>2
    <3>4. Quantity(loaded[r])' = L
      BY <1>3
    <3>5. Unexplained(r) = Q - L - M /\ Unexplained(r)' = (Q + d) - L - (M + d)
      BY <3>2, <3>3, <3>4 DEF Unexplained
    <3> HIDE DEF Q, L, M, d
    <3>6. Unexplained(r)' = Unexplained(r)
      BY <3>1, <3>5
    <3>7. QED
      BY <2>1, <3>6 DEF Explained, IntRange
  <2>4. QED
    BY <2>2, <2>3 DEF InLedger
<1>15. GainsAreReported'
  <2>1. /\ TotalCost(positions) \in Int /\ TotalCost(loaded) \in Int
        /\ TotalCost(positions') = TotalCost(positions) + (Cost(Append(lots, lot)) - Cost(lots))
    BY <1>1, <1>9, <1>10, TypesAre, TotalChanged
  <2>2. funds' + TotalCost(positions') = funds + TotalCost(positions)
    <3> DEFINE total == TotalCost(positions)
               c == Cost(lots)
    <3>1. /\ TotalCost(positions') = total + ((c + cost) - c) /\ funds' = funds - cost
          /\ total \in Int /\ c \in Int /\ cost \in Int /\ funds \in Int
      BY <1>4, <1>5, <1>9, <1>10, <2>1
    <3> HIDE DEF total, c
    <3>2. funds' + TotalCost(positions') = funds + total
      BY <3>1
    <3>3. QED
      BY <3>2 DEF total
  <2>3. QED
    BY <1>3, <2>2 DEF TradingInv, GainsAreReported
<1>16. QED
  BY <1>11, <1>12, <1>13, <1>14, <1>15 DEF TradingInv

\* A sale: the lots go, and each that made a profit is counted.
LEMMA SellInv ==
    ASSUME TradingInv, NEW s \in Symbols, Sell(s)
    PROVE  TradingInv'
<1> DEFINE bid == market[s].bid
           lots == positions[s]
           n == ToInt(Quantity(lots))
           profits == ProfitableAt(bid, lots)
<1>1. TypeOK /\ HasQuote(s) /\ pending = << >> /\ traded < MaxTrades
  BY DEF TradingInv, Sell, MayTrade
<1>2. /\ metrics' = [metrics EXCEPT !.sales = @ + Len(lots), !.profitable = @ + profits]
      /\ traded' = traded + 1
      /\ UNCHANGED <<loaded, market, trades, lost>>
  BY DEF Sell, Record
<1>3. \/ n = 0 /\ UNCHANGED <<positions, funds, pending>>
      \/ /\ positions' = [positions EXCEPT ![s] = << >>]
         /\ funds' = funds + bid * n
         /\ pending' = <<[symbol |-> s, action |-> "SELL", price |-> bid, quantity |-> n]>>
  BY DEF Sell, Record, NoLots
<1>4. /\ bid \in Price /\ bid \in Nat /\ funds \in Int /\ InitialFunds \in Nat /\ UsePct \in Nat
      /\ positions \in [Symbols -> Seq(Lot)] /\ loaded \in [Symbols -> Seq(Lot)] /\ lots \in Seq(Lot)
  BY <1>1, TypesAre
<1>5. /\ Quantity(lots) \in Nat /\ Cost(lots) \in Nat /\ Len(lots) \in Nat
      /\ n \in Int /\ n <= Quantity(lots) /\ (Quantity(lots) - n) % IntRange = 0 /\ IntRange \in Nat \ {0}
  BY <1>4, LotsAre, ToIntIs
<1>6. profits \in Nat /\ (profits = 0 => bid * Quantity(lots) <= Cost(lots))
  BY <1>4, UnprofitableSale
<1>7. bid * n \in Int /\ bid * n <= bid * Quantity(lots) /\ bid * Quantity(lots) \in Int
  <2> DEFINE q == Quantity(lots)
  <2>1. bid \in Nat /\ q \in Nat /\ n \in Int /\ q - n \in Nat
    BY <1>4, <1>5
  <2> HIDE DEF bid, n, q
  <2>2. bid * (q - n) \in Nat /\ bid * (q - n) = bid * q - bid * n /\ bid * q \in Int /\ bid * n \in Int
    BY <2>1
  <2>3. QED
    BY <2>2 DEF q
<1> DEFINE t == [symbol |-> s, action |-> "SELL", price |-> bid, quantity |-> n]
           gain == bid * n
<1>8. t \in Trade /\ t.symbol = s /\ t.action = "SELL" /\ t.price = bid /\ t.quantity = n
  <2> HIDE DEF bid, n
  <2>1. QED
    BY <1>4, <1>5 DEF Trade
<1>9. Cash(t) = gain /\ \A r \in Symbols : Shares(t, r) = IF r = s THEN - n ELSE 0
  <2> HIDE DEF t
  <2>1. QED
    BY <1>8 DEF Cash, Shares
<1>10. gain \in Int /\ (profits = 0 => gain <= Cost(lots))
  <2> DEFINE whole == bid * Quantity(lots)
             c == Cost(lots)
  <2>1. gain \in Int /\ whole \in Int /\ c \in Int /\ gain <= whole /\ (profits = 0 => whole <= c)
    BY <1>5, <1>6, <1>7
  <2> HIDE DEF gain, whole, c, profits
  <2>2. QED
    BY <2>1 DEF c
<1>11. Taken(t) \in Nat /\ Taken(t) >= - gain
  <2>1. Taken(t) = IF n < 0 THEN - bid * n ELSE 0
    <3> HIDE DEF t, n, bid
    <3>1. QED
      BY <1>8 DEF Taken
  <2>2. Taken(t) \in Nat
    <3> HIDE DEF t
    <3>1. QED
      BY <1>8, TradeMoves
  <2>3. bid \in Nat /\ n \in Int /\ - bid * n = - gain
    BY <1>4, <1>5
  <2>4. n >= 0 => gain >= 0
    <3> HIDE DEF n, bid
    <3>1. QED
      BY <2>3 DEF gain
  <2> HIDE DEF t, gain, n, bid
  <2>5. QED
    BY <1>10, <2>1, <2>2, <2>3, <2>4
<1>12. metrics \in Metrics /\ metrics' \in Metrics /\ metrics'.profitable = metrics.profitable + profits
  <2>1. metrics \in Metrics
    BY <1>1 DEF TypeOK
  <2> DEFINE sold == Len(lots)
  <2>2. sold \in Nat /\ profits \in Nat
    BY <1>5, <1>6
  <2>3. metrics' = [metrics EXCEPT !.sales = @ + sold, !.profitable = @ + profits]
    BY <1>2
  <2> HIDE DEF sold, profits
  <2>4. metrics.sales + sold \in Nat /\ metrics.profitable + profits \in Nat
    BY <2>1, <2>2 DEF Metrics
  <2>5. QED
    BY <2>1, <2>3, <2>4 DEF Metrics
<1>13. metrics.profitable \in Nat
  BY <1>12 DEF Metrics
<1>14. traded' \in 0..MaxTrades
  BY <1>1, <1>2, TradingAssumption, FundsAssumption DEF TypeOK
<1>15. CASE n = 0 /\ UNCHANGED <<positions, funds, pending>>
  <2>1. TypeOK'
    BY <1>1, <1>2, <1>12, <1>14, <1>15 DEF TypeOK
  <2>2. OutlayCapped' /\ InLedger' /\ Len(pending') <= 1
    BY <1>1, <1>2, <1>15 DEF TradingInv, OutlayCapped, InLedger, Explained, Unexplained, SharesMoved, CashMoved, IntRange
  <2>3. GainsAreReported'
    <3> HIDE DEF profits
    <3>1. metrics.profitable > 0 => metrics'.profitable > 0
      BY <1>6, <1>12, <1>13
    <3>2. QED
      BY <1>2, <1>15, <3>1 DEF TradingInv, GainsAreReported
  <2>4. QED
    BY <2>1, <2>2, <2>3 DEF TradingInv
<1>16. CASE /\ positions' = [positions EXCEPT ![s] = << >>]
            /\ funds' = funds + gain
            /\ pending' = <<t>>
  <2> HIDE DEF t, gain, n, lots, profits, bid
  <2>1. /\ pending' \in Seq(Trade) /\ Len(pending') <= 1
        /\ \A r \in Symbols :
             /\ CashMoved' = CashMoved + Cash(t)
             /\ SharesMoved(r)' = SharesMoved(r) + Shares(t, r)
             /\ CashTaken' = CashTaken + Taken(t)
    BY <1>1, <1>2, <1>8, <1>16, Booked
  <2>2. TypeOK'
    <3>1. positions' \in [Symbols -> Seq(Lot)] /\ funds' \in Int
      BY <1>4, <1>10, <1>16, NoLotsAre
    <3>2. QED
      BY <1>1, <1>2, <1>12, <1>14, <2>1, <3>1 DEF TypeOK
  <2>3. OutlayCapped'
    <3> DEFINE took == CashTaken
               more == Taken(t)
               cap == UsePct * InitialFunds
    <3>1. took \in Nat /\ more \in Nat /\ more >= - gain /\ cap \in Int /\ CashTaken' = took + more
      BY <1>1, <1>4, <1>11, <2>1, MovesAre
    <3>2. 100 * (InitialFunds - funds - took) <= cap
      BY DEF TradingInv, OutlayCapped, CashTaken
    <3> HIDE DEF took, more, cap
    <3>3. 100 * (InitialFunds - (funds + gain) - (took + more)) <= cap
      BY <1>4, <1>10, <3>1, <3>2
    <3>4. 100 * (InitialFunds - funds' - CashTaken') <= cap
      BY <1>16, <3>1, <3>3
    <3>5. QED
      BY <3>4 DEF OutlayCapped, CashTaken, cap
  <2>4. InLedger'
    <3>1. funds = InitialFunds + CashMoved /\ \A r \in Symbols : Explained(r)
      BY DEF TradingInv, InLedger
    <3>2. funds' = InitialFunds + CashMoved'
      <4> DEFINE m == CashMoved
      <4>1. m \in Int /\ CashMoved' = m + gain /\ funds = InitialFunds + m
        BY <1>1, <1>9, <2>1, <3>1, MovesAre
      <4> HIDE DEF m
      <4>2. QED
        BY <1>4, <1>10, <1>16, <4>1
    <3>3. ASSUME NEW r \in Symbols
          PROVE  Explained(r)'
      <4> DEFINE Q == Quantity(positions[r])
                 L == Quantity(loaded[r])
                 M == SharesMoved(r)
      <4>1. Q \in Int /\ L \in Int /\ M \in Int
        BY <1>1, <1>4, LotsAre, MovesAre
      <4>2. Quantity(loaded[r])' = L
        BY <1>2
      <4>3. CASE r = s
        <5>1. Quantity(positions[r])' = 0
          BY <1>4, <1>16, <4>3, NoLotsAre
        <5>2. SharesMoved(r)' = M + (- n)
          BY <1>9, <2>1, <4>3
        <5>3. (Q - n) % IntRange = 0 /\ n \in Int /\ IntRange \in Nat \ {0}
          BY <1>5, <4>3 DEF lots
        <5>4. Unexplained(r) = Q - L - M /\ Unexplained(r)' = 0 - L - (M + (- n))
          BY <4>2, <5>1, <5>2 DEF Unexplained
        <5>5. Unexplained(r) % IntRange = 0
          BY <3>1 DEF Explained
        <5> HIDE DEF Q, L, M
        <5>6. Unexplained(r) \in Int /\ Q - n \in Int /\ Unexplained(r)' = Unexplained(r) - (Q - n)
          BY <4>1, <5>3, <5>4
        <5>7. (Unexplained(r) - (Q - n)) % IntRange = 0
          BY <5>3, <5>5, <5>6, MultiplesAdd
        <5>8. QED
          BY <5>6, <5>7 DEF Explained, IntRange
      <4>4. CASE r # s
        <5>1. positions'[r] = positions[r]
          BY <1>4, <1>16, <4>4
        <5>2. SharesMoved(r)' = M
          BY <1>9, <2>1, <4>1, <4>4
        <5>3. Unexplained(r)' = Unexplained(r)
          BY <4>2, <5>1, <5>2 DEF Unexplained
        <5>4. QED
          BY <3>1, <5>3 DEF Explained, IntRange
      <4>5. QED
        BY <4>3, <4>4
    <3>4. QED
      BY <3>2, <3>3 DEF InLedger
  <2>5. GainsAreReported'
    <3>1. /\ TotalCost(positions) \in Int /\ TotalCost(loaded) \in Int
          /\ TotalCost(positions') = TotalCost(positions) + (Cost(<< >>) - Cost(lots))
      BY <1>4, <1>16, NoLotsAre, TotalChanged DEF lots
    <3>2. /\ funds' + TotalCost(positions') = funds + TotalCost(positions) + (gain - Cost(lots))
          /\ funds' + TotalCost(positions') \in Int
      <4> DEFINE total == TotalCost(positions)
                 c == Cost(lots)
      <4>1. /\ TotalCost(positions') = total + (0 - c) /\ funds' = funds + gain
            /\ total \in Int /\ c \in Int /\ gain \in Int /\ funds \in Int
        BY <1>4, <1>5, <1>10, <1>16, <3>1, NoLotsAre
      <4> HIDE DEF total, c
      <4>2. funds' + TotalCost(positions') = funds + total + (gain - c) /\ funds' + TotalCost(positions') \in Int
        BY <4>1
      <4>3. QED
        BY <4>2 DEF total, c
    <3>3. CASE metrics'.profitable > 0
      BY <3>3 DEF GainsAreReported
    <3>4. CASE ~ (metrics'.profitable > 0)
      <4>1. metrics.profitable = 0 /\ profits = 0
        BY <1>6, <1>12, <1>13, <3>4
      <4>2. ~ (funds + TotalCost(positions) > InitialFunds + TotalCost(loaded))
        BY <4>1 DEF TradingInv, GainsAreReported
      <4>3. gain <= Cost(lots)
        BY <1>10, <4>1
      <4>4. ~ (funds' + TotalCost(positions') > InitialFunds + TotalCost(loaded'))
        <5> DEFINE before == funds + TotalCost(positions)
                   after == funds' + TotalCost(positions')
                   start == InitialFunds + TotalCost(loaded)
                   c == Cost(lots)
        <5>1. /\ before \in Int /\ start \in Int /\ c \in Int /\ gain \in Int
              /\ after = before + (gain - c) /\ gain <= c /\ ~ (before > start)
          <6>1. InitialFunds \in Int /\ funds \in Int /\ Cost(lots) \in Int /\ gain \in Int
            BY <1>4, <1>5, <1>10
          <6>2. /\ TotalCost(positions) \in Int /\ TotalCost(loaded) \in Int
                /\ after = before + (gain - c) /\ gain <= c /\ ~ (before > start)
            BY <3>1, <3>2, <4>2, <4>3
          <6>3. before \in Int /\ start \in Int
            BY <6>1, <6>2
          <6>4. QED
            BY <6>1, <6>2, <6>3
        <5> HIDE DEF before, after, start, c
        <5>2. ~ (after > start)
          BY <5>1
        <5>3. QED
          BY <1>2, <5>2 DEF after, start
      <4>5. QED
        BY <4>4 DEF GainsAreReported
    <3>5. QED
      BY <3>3, <3>4
  <2>6. QED
    BY <2>1, <2>2, <2>3, <2>4, <2>5 DEF TradingInv
<1>17. QED
  BY <1>3, <1>15, <1>16

\* The ledger does not change when a trade is stored, or lost.
LEMMA SaveInv ==
    ASSUME TradingInv, SaveTrade
    PROVE  TradingInv'
<1>1. /\ pending \in Seq(Trade) /\ trades \in Seq(Trade) /\ lost \in Seq(Trade) /\ pending' = << >>
      /\ UNCHANGED <<loaded, market, positions, funds, metrics, traded>>
      /\ \/ trades' = trades \o pending /\ UNCHANGED lost
         \/ lost' = lost \o pending /\ UNCHANGED trades
  BY DEF TradingInv, TypeOK, SaveTrade
<1>2. trades' \in Seq(Trade) /\ lost' \in Seq(Trade) /\ pending' \in Seq(Trade) /\ Len(pending') <= 1
  <2>1. trades \o pending \in Seq(Trade) /\ lost \o pending \in Seq(Trade) /\ << >> \in Seq(Trade) /\ Len(<< >>) = 0
    BY <1>1
  <2>2. trades' \in Seq(Trade) /\ lost' \in Seq(Trade)
    BY <1>1, <2>1
  <2>3. QED
    BY <1>1, <2>1, <2>2
<1>3. TypeOK'
  BY <1>1, <1>2 DEF TradingInv, TypeOK
<1>4. ASSUME NEW s \in Symbols
      PROVE  CashMoved' = CashMoved /\ SharesMoved(s)' = SharesMoved(s) /\ CashTaken' = CashTaken
  BY Saved DEF TradingInv
<1>5. Symbols # {}
  <2>1. PICK t \in Trade : TRUE
    <3>1. pending[1] \in Trade
      <4>1. pending # << >>
        BY DEF SaveTrade
      <4>2. QED
        BY <1>1, <4>1
    <3>2. QED
      BY <3>1
  <2>2. t.symbol \in Symbols
    BY DEF Trade
  <2>3. QED
    BY <2>2
<1>6. CashMoved' = CashMoved /\ CashTaken' = CashTaken
  BY <1>4, <1>5
<1>7. OutlayCapped' /\ GainsAreReported'
  <2>1. 100 * (InitialFunds - funds - CashTaken) <= UsePct * InitialFunds
    BY DEF TradingInv, OutlayCapped, CashTaken
  <2>2. 100 * (InitialFunds - funds' - CashTaken') <= UsePct * InitialFunds
    BY <1>1, <1>6, <2>1
  <2>3. OutlayCapped'
    BY <2>2 DEF OutlayCapped, CashTaken
  <2>4. QED
    BY <1>1, <2>3 DEF TradingInv, GainsAreReported
<1>8. InLedger'
  <2>1. funds' = InitialFunds + CashMoved'
    BY <1>1, <1>6 DEF TradingInv, InLedger
  <2>2. ASSUME NEW s \in Symbols
        PROVE  Explained(s)'
    <3>1. Explained(s)
      BY DEF TradingInv, InLedger
    <3>2. Unexplained(s)' = Unexplained(s)
      BY <1>1, <1>4 DEF Unexplained
    <3>3. QED
      BY <3>1, <3>2 DEF Explained, IntRange
  <2>3. QED
    BY <2>1, <2>2 DEF InLedger
<1>9. QED
  BY <1>2, <1>3, <1>7, <1>8 DEF TradingInv

\* A quote changes nothing but the market.
LEMMA QuoteInv ==
    ASSUME TradingInv, NEW s \in Symbols, UpdateMarket(s)
    PROVE  TradingInv'
<1>1. PICK bid, ask \in Price : market' = [market EXCEPT ![s] = [bid |-> bid, ask |-> ask]]
  BY DEF UpdateMarket
<1>2. UNCHANGED <<loaded, positions, funds, pending, trades, lost, metrics, traded>>
  BY DEF UpdateMarket
<1>3. market' \in [Symbols -> Quote \cup {NoQuote}]
  BY <1>1 DEF TradingInv, TypeOK, Quote
<1>4. QED
  BY <1>2, <1>3 DEF TradingInv, TypeOK, OutlayCapped, InLedger, Explained, Unexplained, SharesMoved, CashMoved, IntRange, GainsAreReported

\* A session begins with its initial funds, an empty ledger and what it loads.
LEMMA InitInv == Init => TradingInv
<1> SUFFICES ASSUME Init
             PROVE  TradingInv
  OBVIOUS
<1>1. /\ InitialFunds \in Nat /\ UsePct \in Nat /\ MaxTrades \in Nat /\ Holdings \subseteq Seq(Lot)
  BY TradingAssumption, FundsAssumption
<1>2. loaded \in [Symbols -> Seq(Lot)] /\ positions = loaded /\ funds = InitialFunds
  BY <1>1 DEF Init, Loaded
<1>3. << >> \in Seq(Trade) /\ << >> \o << >> = << >> /\ DOMAIN << >> = {}
  OBVIOUS
<1>4. TypeOK
  <2>1. market \in [Symbols -> Quote \cup {NoQuote}]
    BY DEF Init
  <2>2. metrics \in Metrics
    BY DEF Init, Metrics
  <2>3. funds \in Int /\ traded \in 0..MaxTrades
    BY <1>1, <1>2 DEF Init
  <2>4. pending \in Seq(Trade) /\ trades \in Seq(Trade) /\ lost \in Seq(Trade)
    BY <1>3 DEF Init
  <2>5. QED
    BY <1>2, <2>1, <2>2, <2>3, <2>4 DEF TypeOK
<1>5. /\ CashMoved = 0 /\ CashTaken = 0 /\ \A s : SharesMoved(s) = 0
  <2>1. /\ [i \in DOMAIN << >> |-> Cash(<< >>[i])] = << >>
        /\ [i \in DOMAIN << >> |-> Taken(<< >>[i])] = << >>
        /\ \A s : [i \in DOMAIN << >> |-> Shares(<< >>[i], s)] = << >>
    BY <1>3
  <2>2. CashOf(<< >>) = 0 /\ TakenBy(<< >>) = 0 /\ \A s : SharesOf(<< >>, s) = 0
    BY <2>1, SumEmpty DEF CashOf, TakenBy, SharesOf
  <2>3. QED
    BY <2>2 DEF Init, CashMoved, CashTaken, SharesMoved
<1>6. OutlayCapped
  <2>1. UsePct * InitialFunds \in Nat
    BY <1>1
  <2>2. InitialFunds - funds - CashTaken = 0
    BY <1>1, <1>2, <1>5
  <2>3. QED
    BY <2>1, <2>2 DEF OutlayCapped, CashTaken
<1>7. GainsAreReported
  <2>1. ~ (funds + TotalCost(positions) > InitialFunds + TotalCost(loaded))
    <3>1. CASE Symbols = {}
      <4>1. Len(Stocks) = 0
        BY <3>1, StocksAre
      <4>2. DOMAIN Stocks = {}
        BY <4>1, StocksAre
      <4>3. [i \in DOMAIN Stocks |-> Cost(loaded[Stocks[i]])] = << >>
        BY <4>2
      <4>4. TotalCost(loaded) = 0
        BY <4>3, SumEmpty DEF TotalCost
      <4>5. QED
        BY <1>1, <1>2, <4>4
    <3>2. CASE Symbols # {}
      <4>1. TotalCost(loaded) \in Int
        BY <1>2, <3>2, NoLotsAre, TotalChanged
      <4>2. QED
        BY <1>1, <1>2, <4>1
    <3>3. QED
      BY <3>1, <3>2
  <2>2. QED
    BY <2>1 DEF GainsAreReported
<1>8. InLedger
  <2>1. funds = InitialFunds + CashMoved
    BY <1>1, <1>2, <1>5
  <2>2. ASSUME NEW s \in Symbols
        PROVE  Explained(s)
    <3>1. Quantity(loaded[s]) \in Nat /\ positions[s] = loaded[s]
      BY <1>2, LotsAre
    <3>2. Unexplained(s) = 0
      BY <1>5, <3>1 DEF Unexplained
    <3>3. IntRange \in Nat \ {0} /\ (0 * IntRange) % IntRange = 0 /\ 0 * IntRange = 0
      <4>1. IntRange \in Nat \ {0}
        BY TradingAssumption DEF IntRange
      <4>2. QED
        BY <4>1, 0 \in Int, MultipleOf
    <3>4. QED
      BY <3>2, <3>3 DEF Explained
  <2>3. QED
    BY <2>1, <2>2 DEF InLedger
<1>9. Len(pending) <= 1
  BY DEF Init
<1>10. QED
  BY <1>4, <1>6, <1>7, <1>8, <1>9 DEF TradingInv

\* Every step keeps the invariant.
LEMMA NextInv == TradingInv /\ [Next]_vars => TradingInv'
<1> SUFFICES ASSUME TradingInv, [Next]_vars
             PROVE  TradingInv'
  OBVIOUS
<1>1. ASSUME NEW s \in Symbols, Buy(s)
      PROVE  TradingInv'
  BY <1>1, BuyInv
<1>2. ASSUME NEW s \in Symbols, Sell(s)
      PROVE  TradingInv'
  BY <1>2, SellInv
<1>3. ASSUME NEW s \in Symbols, UpdateMarket(s)
      PROVE  TradingInv'
  BY <1>3, QuoteInv
<1>4. CASE SaveTrade
  BY <1>4, SaveInv
<1>5. CASE UNCHANGED vars
  BY <1>5 DEF vars, TradingInv, TypeOK, OutlayCapped, InLedger, Explained, Unexplained, SharesMoved, CashMoved, IntRange,
                GainsAreReported
<1>6. QED
  BY <1>1, <1>2, <1>3, <1>4, <1>5 DEF Next

-----------------------------------------------------------------------------
(* Theorems about a trading session.                                       *)

\* The inductive invariant holds throughout a session.
THEOREM TradingInvariant == Spec => []TradingInv
<1>1. QED
  BY InitInv, NextInv, PTL DEF Spec

\* The trades table explains the account but for the trades whose saves failed,
\* for any loaded lots, any sequence of trades, any failures and any width of
\* the int a sale is summed in: the funds exactly, the shares up to that width.
THEOREM LedgerExplainsAccount == Spec => []LedgerReplays
<1>1. TradingInv => LedgerReplays
  BY DEF TradingInv, InLedger, LedgerReplays, Explained, Unexplained, CashMoved, SharesMoved
<1>2. QED
  BY <1>1, TradingInvariant, PTL

\* Whatever quotes come between the trades, and whatever an int makes of a
\* sale, executor::buy never lets the account have more out than max_fund_use
\* and what such sales took, for any flags, funds, prices and width of the int.
THEOREM OutlayStaysCapped == Spec => []OutlayCapped
<1>1. TradingInv => OutlayCapped
  BY DEF TradingInv
<1>2. QED
  BY <1>1, TradingInvariant, PTL

\* An account that is worth more, at cost, than it was has counted a
\* profitable sale, for any lots it held and any prices.
THEOREM NoGainUnreported == Spec => []GainsAreReported
<1>1. TradingInv => GainsAreReported
  BY DEF TradingInv
<1>2. QED
  BY <1>1, TradingInvariant, PTL

-----------------------------------------------------------------------------
(* The back test.                                                          *)

\* What a candle is.
LEMMA CandlesAre ==
    ASSUME NEW c \in Candles
    PROVE  /\ c.day \in Nat /\ c.time \in Nat /\ c.low \in Nat /\ c.close \in Nat
           /\ c \in [day : Days, time : Times, low : BarPrices, close : BarPrices]
<1>1. Days \subseteq Nat /\ Times \subseteq 0..(24 * 60 - 1) /\ BarPrices \subseteq Nat
  BY EvaluationAssumption, FundsAssumption
<1>2. c \in [day : Days, time : Times, low : BarPrices, close : BarPrices]
  BY DEF Candles
<1>3. c.day \in Days /\ c.time \in Times /\ c.low \in BarPrices /\ c.close \in BarPrices
  BY <1>2
<1>4. Times \subseteq Nat
  BY <1>1
<1>5. QED
  BY <1>1, <1>2, <1>3, <1>4

\* The clock of New York on one day (UTC): until the evening it runs along.
LEMMA MarketClock ==
    ASSUME NEW a \in Candles, NEW b \in Candles, a.day = b.day
    PROVE  /\ MarketTime(a) \in Nat /\ MarketTime(b) \in Nat
           /\ MarketTime(a) \in 929..959 /\ a.time < b.time => MarketTime(b) >= 929
<1> DEFINE off == Behind[a.day]
           x == a.time
           y == b.time
           clock(t) == IF t + 1 - off < 0 THEN (t + 1 - off) + 1440 ELSE t + 1 - off
<1>1. MarketTime(a) = clock(x) /\ MarketTime(b) = clock(y)
  BY DEF MarketTime
<1>2. a.day \in Days /\ x \in Times /\ y \in Times
  BY CandlesAre
<1>3. Times \subseteq 0..1439
  BY EvaluationAssumption
<1>4. off = 240 \/ off = 300
  <2>1. Behind \in [Days -> {240, 300}]
    BY EvaluationAssumption
  <2>2. Behind[a.day] \in {240, 300}
    BY <1>2, <2>1
  <2>3. QED
    BY <2>2
<1> HIDE DEF off, x, y
<1>5. x \in 0..1439 /\ y \in 0..1439
  BY <1>2, <1>3
<1>6. x \in Nat /\ y \in Nat /\ x <= 1439 /\ y <= 1439
  BY <1>5
<1>7. clock(x) \in Nat /\ clock(y) \in Nat
  BY <1>4, <1>6
<1>8. ASSUME clock(x) \in 929..959, x < y PROVE clock(y) >= 929
  <2>1. clock(x) >= 929 /\ clock(x) <= 959
    BY <1>7, <1>8
  <2>2. QED
    BY <1>4, <1>6, <1>8, <2>1
<1>9. QED
  BY <1>1, <1>7, <1>8 DEF x, y

\* The same for two candles in order.
LEMMA MarketRunsOn ==
    ASSUME NEW a \in Candles, NEW b \in Candles, a.day = b.day,
           MarketTime(a) \in 929..959, a.time < b.time
    PROVE  MarketTime(b) >= 929
  BY MarketClock

\* The order of the rows is transitive.
LEMMA LaterStill ==
    ASSUME NEW a \in Candles, NEW b \in Candles,
           NEW c \in Candles, Before(a, b), Before(b, c)
    PROVE  Before(a, c)
<1>1. /\ a.day \in Nat /\ b.day \in Nat /\ c.day \in Nat
      /\ a.time \in Nat /\ b.time \in Nat /\ c.time \in Nat
  BY CandlesAre
<1>2. QED
  BY <1>1 DEF Before

-----------------------------------------------------------------------------
(* The report's sums.                                                      *)

Deltas(report) == [i \in DOMAIN report |-> report[i].delta]

\* The deltas of a report are a sequence of integers.
LEMMA DeltasAre ==
    ASSUME NEW report \in Seq(DayMetrics)
    PROVE  /\ Len(report) \in Nat /\ DOMAIN report = 1..Len(report)
           /\ \A i \in 1..Len(report) : report[i] \in DayMetrics /\ report[i].delta \in Int
           /\ Deltas(report) \in Seq(Int) /\ Len(Deltas(report)) = Len(report)
           /\ \A i \in 1..Len(report) : Deltas(report)[i] = report[i].delta
           /\ SumSeq(Deltas(report)) \in Int
<1>1. /\ Len(report) \in Nat /\ DOMAIN report = 1..Len(report)
      /\ \A i \in 1..Len(report) : report[i] \in DayMetrics
  OBVIOUS
<1>2. \A i \in 1..Len(report) : report[i].delta \in Int
  BY <1>1 DEF DayMetrics
<1>3. Deltas(report) \in [1..Len(report) -> Int] /\ \A i \in 1..Len(report) : Deltas(report)[i] = report[i].delta
  BY <1>1, <1>2 DEF Deltas
<1>4. Deltas(report) \in Seq(Int) /\ Len(Deltas(report)) = Len(report)
  BY <1>1, <1>3, SequenceOf
<1>5. SumSeq(Deltas(report)) \in Int
  BY <1>4, SumAppend
<1>6. QED
  BY <1>1, <1>2, <1>3, <1>4, <1>5

\* A month is added.
LEMMA MonthAdded ==
    ASSUME NEW report \in Seq(DayMetrics), NEW m \in DayMetrics
    PROVE  /\ Append(report, m) \in Seq(DayMetrics)
           /\ SumSeq(Deltas(Append(report, m))) = SumSeq(Deltas(report)) + m.delta
<1> DEFINE more == Append(report, m)
           n == Len(report)
<1>1. /\ n \in Nat /\ more \in Seq(DayMetrics) /\ Len(more) = n + 1
      /\ more[n + 1] = m /\ \A i \in 1..n : more[i] = report[i]
  OBVIOUS
<1>2. m.delta \in Int
  BY DEF DayMetrics
<1> HIDE DEF more
<1>3. /\ Deltas(report) \in Seq(Int) /\ Len(Deltas(report)) = n
      /\ \A i \in 1..n : Deltas(report)[i] = report[i].delta
  BY DeltasAre
<1>4. Deltas(more) \in [1..n + 1 -> Int] /\ \A i \in 1..n + 1 : Deltas(more)[i] = more[i].delta
  <2>1. Deltas(more) \in Seq(Int) /\ Len(Deltas(more)) = n + 1
    BY <1>1, DeltasAre
  <2>2. \A i \in 1..n + 1 : Deltas(more)[i] = more[i].delta
    BY <1>1, DeltasAre
  <2>3. QED
    BY <2>1, <2>2
<1>5. ASSUME NEW i \in 1..n + 1
      PROVE  Deltas(more)[i] = IF i = n + 1 THEN m.delta ELSE Deltas(report)[i]
  <2>1. CASE i = n + 1
    BY <1>1, <1>4, <2>1
  <2>2. CASE i # n + 1
    <3>1. i \in 1..n
      BY <1>1, <2>2
    <3>2. QED
      BY <1>1, <1>3, <1>4, <2>2, <3>1
  <2>3. QED
    BY <2>1, <2>2
<1>6. Deltas(more) = Append(Deltas(report), m.delta)
  BY <1>1, <1>2, <1>3, <1>4, <1>5, AppendIs
<1>7. SumSeq(Deltas(more)) = SumSeq(Deltas(report)) + m.delta
  BY <1>2, <1>3, <1>6, SumAppend
<1>8. QED
  BY <1>1, <1>7 DEF more

\* The last month changes.
LEMMA MonthChanged ==
    ASSUME NEW report \in Seq(DayMetrics), report # << >>, NEW m \in DayMetrics,
           NEW d \in Int, m.delta = report[Len(report)].delta + d
    PROVE  /\ [report EXCEPT ![Len(report)] = m] \in Seq(DayMetrics)
           /\ SumSeq(Deltas([report EXCEPT ![Len(report)] = m])) = SumSeq(Deltas(report)) + d
<1> DEFINE new == [report EXCEPT ![Len(report)] = m]
           n == Len(report)
<1>1. /\ n \in Nat /\ n >= 1 /\ new \in Seq(DayMetrics) /\ Len(new) = n
      /\ new[n] = m /\ \A i \in 1..n : i # n => new[i] = report[i]
  OBVIOUS
<1> HIDE DEF new
<1>2. /\ Deltas(report) \in Seq(Int) /\ Len(Deltas(report)) = n
      /\ \A i \in 1..n : Deltas(report)[i] = report[i].delta
      /\ Deltas(new) \in Seq(Int) /\ Len(Deltas(new)) = n
      /\ \A i \in 1..n : Deltas(new)[i] = new[i].delta
  BY <1>1, DeltasAre
<1>3. n \in 1..Len(Deltas(report)) /\ Deltas(new)[n] = Deltas(report)[n] + d
  BY <1>1, <1>2
<1>4. \A i \in 1..Len(Deltas(report)) : i # n => Deltas(new)[i] = Deltas(report)[i]
  BY <1>1, <1>2
<1> HIDE DEF n
<1>5. SumSeq(Deltas(new)) = SumSeq(Deltas(report)) + d
  <2> DEFINE s == Deltas(report)
             t == Deltas(new)
  <2>1. /\ s \in Seq(Int) /\ t \in Seq(Int) /\ Len(s) = Len(t) /\ n \in 1..Len(s) /\ t[n] = s[n] + d
        /\ \A i \in 1..Len(s) : i # n => t[i] = s[i]
    BY <1>2, <1>3, <1>4
  <2> HIDE DEF s, t
  <2>2. SumSeq(t) = SumSeq(s) + d
    BY <2>1, SumChanged
  <2>3. QED
    BY <2>2 DEF s, t
<1>6. QED
  BY <1>1, <1>5 DEF new, n

\* What single shares bring is what they cost and what they gain.
Gains(price, lots) == [i \in DOMAIN lots |-> price - lots[i].price]
LEMMA SaleExplained ==
    ASSUME NEW lots \in Seq(Lot), NEW price \in Nat,
           \A i \in DOMAIN lots : lots[i].quantity = 1
    PROVE  /\ SumSeq(Gains(price, lots)) \in Int
           /\ price * Quantity(lots) = Cost(lots) + SumSeq(Gains(price, lots))
<1> DEFINE n == Len(lots)
           c == Costs(lots)
           q == Quantities(lots)
           g == Gains(price, lots)
<1>1. n \in Nat /\ DOMAIN lots = 1..n /\ \A i \in 1..n : lots[i].price \in Nat
  BY LotsAre
<1>2. g \in [1..n -> Int] /\ \A i \in 1..n : g[i] = price - lots[i].price
  BY <1>1 DEF Gains
<1>3. g \in Seq(Int) /\ Len(g) = n
  BY <1>1, <1>2, SequenceOf
<1>4. /\ c \in Seq(Int) /\ Len(c) = n /\ q \in Seq(Int) /\ Len(q) = n
      /\ Cost(lots) = SumSeq(c) /\ Quantity(lots) = SumSeq(q)
  BY LotsAre
<1>5. \A i \in 1..n : c[i] = lots[i].price /\ q[i] = 1
  <2>1. ASSUME NEW i \in 1..n PROVE c[i] = lots[i].price /\ q[i] = 1
    <3>1. lots[i].quantity = 1 /\ lots[i].price \in Nat
      BY <1>1
    <3>2. c[i] = lots[i].price * lots[i].quantity /\ q[i] = lots[i].quantity
      BY LotsAre
    <3>3. \A x \in Nat : x * 1 = x
      OBVIOUS
    <3>4. QED
      BY <3>1, <3>2, <3>3
  <2>2. QED
    BY <2>1
<1>6. \A i \in 1..n : g[i] = price - c[i]
  BY <1>2, <1>5
<1> HIDE DEF n, c, q, g
<1>7. ASSUME NEW s \in Seq(Int), Len(s) = n
      PROVE  \E f \in [0..n -> Int] : /\ SumSeq(s) = f[n] /\ f[0] = 0
                                      /\ \A i \in 0..n - 1 : f[i + 1] = f[i] + s[i + 1]
  <2>1. \E f \in [0..Len(s) -> Int] :
          /\ SumSeq(s) = f[Len(s)] /\ f[0] = 0
          /\ \A i \in 0..Len(s) - 1 : f[i + 1] = f[i] + s[i + 1]
    BY SumIs
  <2>2. QED
    BY <1>7, <2>1
<1>8. PICK f \in [0..n -> Int] : /\ SumSeq(c) = f[n] /\ f[0] = 0
                                 /\ \A i \in 0..n - 1 : f[i + 1] = f[i] + c[i + 1]
  BY <1>4, <1>7
<1>9. PICK h \in [0..n -> Int] : /\ SumSeq(q) = h[n] /\ h[0] = 0
                                 /\ \A i \in 0..n - 1 : h[i + 1] = h[i] + q[i + 1]
  BY <1>4, <1>7
<1>10. PICK k \in [0..n -> Int] : /\ SumSeq(g) = k[n] /\ k[0] = 0
                                  /\ \A i \in 0..n - 1 : k[i + 1] = k[i] + g[i + 1]
  BY <1>3, <1>7
<1> DEFINE S == {m \in Nat : m <= n => h[m] = m /\ price * m = f[m] + k[m]}
<1>11. 0 \in S
  BY <1>8, <1>9, <1>10
<1>12. ASSUME NEW m \in Nat, m \in S, m + 1 <= n
       PROVE  h[m + 1] = m + 1 /\ price * (m + 1) = f[m + 1] + k[m + 1]
  <2>1. m \in 0..n - 1 /\ m \in 0..n /\ m + 1 \in 1..n /\ h[m] = m /\ price * m = f[m] + k[m]
    BY <1>1, <1>12
  <2>2. /\ f[m + 1] = f[m] + c[m + 1] /\ h[m + 1] = h[m] + 1 /\ k[m + 1] = k[m] + (price - c[m + 1])
    BY <1>5, <1>6, <1>8, <1>9, <1>10, <2>1
  <2>3. c[m + 1] \in Int /\ f[m] \in Int /\ k[m] \in Int
    BY <1>1, <1>4, <2>1
  <2>4. price * (m + 1) = price * m + price /\ price * m \in Int
    OBVIOUS
  <2> DEFINE p == price * m
             fm == f[m]
             km == k[m]
             x == c[m + 1]
             pn == price * (m + 1)
  <2>5. /\ p \in Int /\ fm \in Int /\ km \in Int /\ x \in Int /\ pn = p + price /\ p = fm + km
    BY <2>1, <2>3, <2>4
  <2> HIDE DEF p, fm, km, x, pn
  <2>6. pn = (fm + x) + (km + (price - x))
    BY <2>5
  <2>7. QED
    BY <2>1, <2>2, <2>6 DEF fm, km, x, pn
<1>13. \A m \in Nat : m \in S => m + 1 \in S
  BY <1>12
<1> HIDE DEF S
<1>14. n \in S
  BY <1>1, <1>11, <1>13, EveryNat
<1>15. h[n] = n /\ price * n = f[n] + k[n] /\ k[n] \in Int
  BY <1>1, <1>14 DEF S
<1>16. QED
  BY <1>4, <1>8, <1>9, <1>10, <1>15 DEF g

-----------------------------------------------------------------------------
(* The invariant, in parts.                                                *)

\* The types, where arithmetic needs them.
LEMMA BackTestTypes ==
    ASSUME BackTestInv
    PROVE  /\ BackTestTypeOK
           /\ read \in Nat /\ evaluated \in Nat /\ evaluated <= read /\ read <= MaxCandles
           /\ MaxCandles \in Nat /\ InitialFunds \in Nat
           /\ gathered \in Seq(Candles) /\ day \in Seq(Candles)
           /\ Len(gathered) \in Nat /\ Len(day) \in Nat /\ at \in Nat /\ at <= Len(day)
           /\ DOMAIN gathered = 1..Len(gathered) /\ DOMAIN day = 1..Len(day)
           /\ held \in Seq(Lot) /\ cash \in Int
           /\ today \in DayMetrics /\ months \in Seq(DayMetrics)
           /\ Len(months) \in Nat /\ DOMAIN months = 1..Len(months)
<1>1. BackTestTypeOK
  BY DEF BackTestInv, DaysAreWhole
<1>2. InitialFunds \in Nat /\ MaxCandles \in Nat
  BY EvaluationAssumption, FundsAssumption
<1>3. read \in 0..MaxCandles /\ evaluated \in 0..read
  BY <1>1 DEF BackTestTypeOK
<1>4. gathered \in Seq(Candles) /\ day \in Seq(Candles) /\ at \in 0..Len(day)
  BY <1>1 DEF BackTestTypeOK
<1>5. held \in Seq(Lot) /\ cash \in Int /\ today \in DayMetrics /\ months \in Seq(DayMetrics)
  BY <1>1 DEF BackTestTypeOK
<1>6. read \in Nat /\ evaluated \in Nat /\ evaluated <= read /\ read <= MaxCandles
  BY <1>2, <1>3
<1>7. /\ Len(gathered) \in Nat /\ Len(day) \in Nat /\ at \in Nat /\ at <= Len(day)
      /\ DOMAIN gathered = 1..Len(gathered) /\ DOMAIN day = 1..Len(day)
  BY <1>4
<1>8. Len(months) \in Nat /\ DOMAIN months = 1..Len(months)
  BY <1>5
<1>9. QED
  BY <1>1, <1>2, <1>4, <1>5, <1>6, <1>7, <1>8

\* The account and the report, with the sums named.
Balanced(place, lots, left, so_far, report) ==
    left + Cost(lots) =
      InitialFunds + (SumSeq(Deltas(report)) + (IF place = "trading" THEN so_far.delta ELSE 0))
Linked(report) == \A m \in 2..Len(report) : report[m].initial = report[m - 1].available

LEMMA ReportIs ==
    /\ ReportExplainsFunds <=>
         /\ Balanced(pc, held, cash, today, months) /\ Linked(months)
         /\ pc = "done" /\ months # << >> => months[Len(months)].available = cash
    /\ ReportExplainsFunds' <=>
         /\ Balanced(pc', held', cash', today', months') /\ Linked(months')
         /\ pc' = "done" /\ months' # << >> => months'[Len(months')].available = cash'
BY DEF ReportExplainsFunds, Balanced, Linked, Deltas, Last

\* Two ordered days, the second after the first, are ordered from any candle on.
LEMMA AheadInOrder ==
    ASSUME NEW d \in Seq(Candles), NEW g \in Seq(Candles), NEW p \in 0..Len(d),
           InOrder(d), InOrder(g),
           \A i \in DOMAIN d, j \in DOMAIN g : Before(d[i], g[j]),
           NEW i \in 1..(Len(SubSeq(d, p + 1, Len(d)) \o g) - 1)
    PROVE  Before((SubSeq(d, p + 1, Len(d)) \o g)[i], (SubSeq(d, p + 1, Len(d)) \o g)[i + 1])
<1> DEFINE rest == SubSeq(d, p + 1, Len(d))
           ahead == rest \o g
           n == Len(d) - p
<1>1. /\ Len(d) \in Nat /\ Len(g) \in Nat /\ p \in Nat /\ p <= Len(d) /\ n \in Nat
      /\ DOMAIN d = 1..Len(d) /\ DOMAIN g = 1..Len(g)
  OBVIOUS
<1>2. rest \in Seq(Candles) /\ Len(rest) = n
  <2>1. rest = [j \in 1..(Len(d) - (p + 1) + 1) |-> d[p + 1 + j - 1]]
    BY <1>1
  <2>2. Len(d) - (p + 1) + 1 = n /\ \A j \in 1..n : p + 1 + j - 1 \in 1..Len(d)
    BY <1>1
  <2>3. \A j \in 1..Len(d) : d[j] \in Candles
    OBVIOUS
  <2> HIDE DEF rest, n
  <2>4. rest = [j \in 1..n |-> d[p + 1 + j - 1]]
    BY <2>1, <2>2
  <2>5. rest \in [1..n -> Candles]
    BY <2>2, <2>3, <2>4
  <2>6. n \in Nat
    BY <1>1
  <2>7. QED
    BY <2>5, <2>6, SequenceOf
<1>3. \A j \in 1..n : p + j \in 1..Len(d) /\ rest[j] = d[p + j]
  <2>1. ASSUME NEW j \in 1..n
        PROVE  p + j \in 1..Len(d) /\ rest[j] = d[p + j]
    <3>1. j \in 1..(Len(d) - (p + 1) + 1) /\ (p + 1) + j - 1 = p + j /\ p + j \in 1..Len(d)
      BY <1>1
    <3>2. rest[j] = d[(p + 1) + j - 1]
      BY <1>1, <3>1
    <3>3. QED
      BY <3>1, <3>2
  <2>2. QED
    BY <2>1
<1> HIDE DEF rest
<1>4. /\ Len(ahead) = n + Len(g)
      /\ \A j \in 1..n : ahead[j] = rest[j]
      /\ \A j \in 1..Len(g) : ahead[n + j] = g[j]
  <2>1. rest \in Seq(Candles)
    BY <1>2
  <2> HIDE DEF n
  <2>2. Len(ahead) = Len(rest) + Len(g)
    BY <2>1
  <2>3. \A j \in 1..Len(rest) + Len(g) : ahead[j] = IF j <= Len(rest) THEN rest[j] ELSE g[j - Len(rest)]
    BY <2>1
  <2> HIDE DEF ahead
  <2>4. \A j \in 1..n : j \in 1..n + Len(g) /\ j <= n
    BY <1>1
  <2>5. \A j \in 1..Len(g) : n + j \in 1..n + Len(g) /\ ~ n + j <= n /\ (n + j) - n = j
    BY <1>1
  <2>6. QED
    BY <1>2, <2>2, <2>3, <2>4, <2>5
<1>5. i \in Nat /\ 1 <= i /\ i + 1 <= n + Len(g)
  BY <1>1, <1>4
<1> HIDE DEF ahead
<1>6. CASE i + 1 <= n
  <2>1. i \in 1..n /\ i + 1 \in 1..n /\ p + i < p + (i + 1)
    BY <1>1, <1>5, <1>6
  <2>2. ahead[i] = d[p + i] /\ ahead[i + 1] = d[p + (i + 1)] /\ p + i \in 1..Len(d) /\ p + (i + 1) \in 1..Len(d)
    BY <1>3, <1>4, <2>1
  <2>3. Before(ahead[i], ahead[i + 1])
    BY <1>1, <2>1, <2>2 DEF InOrder
  <2>4. QED
    BY <2>3 DEF ahead, rest
<1>7. CASE i = n
  <2>1. i \in 1..n /\ 1 \in 1..Len(g) /\ p + i \in 1..Len(d)
    <3>1. n \in Nat /\ Len(g) \in Nat
      BY <1>1
    <3> HIDE DEF n
    <3>2. i \in 1..n /\ 1 \in 1..Len(g)
      BY <1>5, <1>7, <3>1
    <3>3. QED
      BY <1>3, <3>2
  <2>2. ahead[i] = d[p + i] /\ ahead[i + 1] = g[1]
    BY <1>3, <1>4, <1>7, <2>1
  <2>3. Before(ahead[i], ahead[i + 1])
    BY <1>1, <2>1, <2>2
  <2>4. QED
    BY <2>3 DEF ahead, rest
<1>8. CASE i > n
  <2> DEFINE j == i - n
  <2>1. j \in 1..Len(g) /\ j + 1 \in 1..Len(g) /\ j < j + 1 /\ i = n + j /\ i + 1 = n + (j + 1)
    BY <1>1, <1>5, <1>8
  <2> HIDE DEF j, n
  <2>2. ahead[i] = g[j] /\ ahead[i + 1] = g[j + 1]
    BY <1>4, <2>1
  <2>3. Before(ahead[i], ahead[i + 1])
    BY <1>1, <2>1, <2>2 DEF InOrder
  <2>4. QED
    BY <2>3 DEF ahead, rest
<1>9. i + 1 <= n \/ i = n \/ i > n
  <2>1. n \in Nat /\ i \in Nat
    BY <1>1, <1>5
  <2> HIDE DEF n
  <2>2. QED
    BY <2>1
<1>10. QED
  BY <1>6, <1>7, <1>8, <1>9

\* So whole days follow from what the invariant says of the generator.
OneDate(candles) == \A i, j \in DOMAIN candles : candles[i].day = candles[j].day

LEMMA DaysFollow ==
    ASSUME BackTestTypeOK', GeneratorInv', OneDate(day'), OneDate(gathered'),
           read' = evaluated' + (Len(day') - at') + Len(gathered'),
           pc' = "done" => evaluated' = read'
    PROVE  DaysAreWhole'
<1>1. day' \in Seq(Candles) /\ gathered' \in Seq(Candles) /\ at' \in 0..Len(day')
  BY DEF BackTestTypeOK
<1>2. /\ InOrder(day') /\ InOrder(gathered')
      /\ \A i \in DOMAIN day', j \in DOMAIN gathered' : Before(day'[i], gathered'[j])
  BY DEF GeneratorInv, InOrder, Before
<1>3. \A i \in 1..(Len(SubSeq(day', at' + 1, Len(day')) \o gathered') - 1) :
        Before((SubSeq(day', at' + 1, Len(day')) \o gathered')[i],
                        (SubSeq(day', at' + 1, Len(day')) \o gathered')[i + 1])
  BY <1>1, <1>2, AheadInOrder
<1>4. \A s \in {day', gathered'} : \A i, j \in DOMAIN s : s[i].day = s[j].day
  BY DEF OneDate
<1>5. QED
  BY <1>3, <1>4 DEF DaysAreWhole, Before

-----------------------------------------------------------------------------
(* The generator.                                                          *)

\* What the invariant says while run() asks the generator for a day.
LEMMA WhileReading ==
    ASSUME BackTestInv
    PROVE  /\ Balanced(pc, held, cash, today, months) /\ Linked(months)
           /\ OneDate(day) /\ OneDate(gathered)
           /\ read = evaluated + (Len(day) - at) + Len(gathered)
           /\ GeneratorInv /\ SharesOfOne /\ FlatOvernight
           /\ pc # "trading" => /\ at = Len(day)
                                /\ months # << >> => months[Len(months)].available = cash
           /\ pc = "trading" => day # << >> /\ months # << >>
           /\ ended => gathered = << >>
           /\ gathered # << >> => last = gathered[Len(gathered)]
<1>1. /\ DaysAreWhole /\ ReportExplainsFunds /\ FlatOvernight
      /\ GeneratorInv /\ PhaseInv /\ SharesOfOne
  BY DEF BackTestInv
<1>2. /\ read = evaluated + (Len(day) - at) + Len(gathered) /\ OneDate(day) /\ OneDate(gathered)
  BY <1>1 DEF DaysAreWhole, OneDate
<1>3. /\ pc # "trading" => /\ at = Len(day)
                           /\ months # << >> => months[Len(months)].available = cash
      /\ pc = "trading" => day # << >> /\ months # << >>
      /\ ended => gathered = << >>
  BY <1>1 DEF PhaseInv, Last
<1>4. gathered # << >> => last = gathered[Len(gathered)]
  BY <1>1 DEF GeneratorInv, Last
<1>5. QED
  BY <1>1, <1>2, <1>3, <1>4, ReportIs

\* The next row is later than everything before it.
LEMMA NextIsLater ==
    ASSUME BackTestInv, gathered # << >>,
           NEW c \in Candles, Before(last, c)
    PROVE  /\ \A i \in DOMAIN gathered : Before(gathered[i], c)
           /\ \A i \in DOMAIN day : Before(day[i], c)
<1> DEFINE n == Len(gathered)
<1>1. /\ gathered \in Seq(Candles) /\ day \in Seq(Candles)
      /\ DOMAIN gathered = 1..n /\ DOMAIN day = 1..Len(day) /\ n \in Nat
  BY BackTestTypes
<1>2. n \in 1..n /\ last = gathered[n] /\ last \in Candles
  BY <1>1, WhileReading
<1>3. /\ InOrder(gathered)
      /\ \A i \in DOMAIN day, j \in DOMAIN gathered : Before(day[i], gathered[j])
  BY WhileReading DEF GeneratorInv
<1>4. ASSUME NEW i \in 1..n
      PROVE  Before(gathered[i], c)
  <2>1. CASE i = n
    BY <1>2, <2>1
  <2>2. CASE i # n
    <3>1. gathered[i] \in Candles
      BY <1>1
    <3> HIDE DEF n
    <3>2. i < n
      BY <1>1, <2>2
    <3>3. Before(gathered[i], gathered[n])
      BY <1>1, <1>2, <1>3, <3>2 DEF InOrder
    <3>4. QED
      BY <1>2, <3>1, <3>3, LaterStill
  <2>3. QED
    BY <2>1, <2>2
<1>5. ASSUME NEW i \in 1..Len(day)
      PROVE  Before(day[i], c)
  <2>1. day[i] \in Candles /\ Before(day[i], gathered[n])
    BY <1>1, <1>2, <1>3
  <2>2. QED
    BY <1>2, <2>1, LaterStill
<1>6. QED
  BY <1>1, <1>4, <1>5

\* A day that begins leaves the report as it was, with a month that may begin
\* with what there is.
LEMMA DayBegins ==
    ASSUME BackTestInv, pc = "reading", StartDay(gathered)
    PROVE  /\ pc' = "trading" /\ day' = gathered /\ at' = 0
           /\ UNCHANGED <<fiveMinute, evaluated, held, cash>>
           /\ today' \in DayMetrics /\ months' \in Seq(DayMetrics) /\ months' # << >>
           /\ ReportExplainsFunds'
<1>1. /\ cash \in Int /\ InitialFunds \in Nat /\ months \in Seq(DayMetrics)
      /\ Len(months) \in Nat /\ held \in Seq(Lot)
  BY BackTestTypes
<1>2. ASSUME NEW x \in Int
      PROVE  LET m == NewMetrics(x) IN
             m \in DayMetrics /\ m.initial = x /\ m.delta = 0
  BY DEF NewMetrics, DayMetrics
<1>3. /\ Balanced(pc, held, cash, today, months) /\ Linked(months)
      /\ months # << >> => months[Len(months)].available = cash
  BY WhileReading
<1>4. /\ months' \in Seq(DayMetrics) /\ months' # << >> /\ Linked(months')
      /\ SumSeq(Deltas(months')) = SumSeq(Deltas(months))
  <2>1. CASE months = << >>
    <3> DEFINE m == NewMetrics(InitialFunds)
    <3>1. months' = <<m>> /\ <<m>> = Append(months, m)
      BY <2>1 DEF StartDay
    <3>2. m \in DayMetrics /\ m.delta = 0
      BY <1>1, <1>2
    <3> HIDE DEF m
    <3>3. Len(months') = 1 /\ SumSeq(Deltas(months')) = SumSeq(Deltas(months)) + 0
      BY <1>1, <3>1, <3>2, MonthAdded
    <3>4. SumSeq(Deltas(months)) \in Int
      BY <1>1, DeltasAre
    <3>5. Linked(months')
      BY <3>3 DEF Linked
    <3>6. months' \in Seq(DayMetrics) /\ months' # << >>
      BY <3>1, <3>2
    <3>7. QED
      BY <3>3, <3>4, <3>5, <3>6
  <2>2. CASE months # << >> /\ months' = Append(months, NewMetrics(cash))
    <3> DEFINE m == NewMetrics(cash)
               n == Len(months)
    <3>1. m \in DayMetrics /\ m.delta = 0 /\ m.initial = cash
      BY <1>1, <1>2
    <3>2. months' = Append(months, m)
      BY <2>2
    <3> HIDE DEF m
    <3>3. /\ months' \in Seq(DayMetrics) /\ Len(months') = n + 1 /\ months'[n + 1] = m
          /\ \A i \in 1..n : months'[i] = months[i]
      BY <1>1, <3>1, <3>2
    <3>4. SumSeq(Deltas(months')) = SumSeq(Deltas(months)) + 0
      BY <1>1, <3>1, <3>2, MonthAdded
    <3>5. SumSeq(Deltas(months)) \in Int
      BY <1>1, DeltasAre
    <3>6. ASSUME NEW i \in 2..n + 1
          PROVE  months'[i].initial = months'[i - 1].available
      <4>1. CASE i = n + 1
        <5>1. i - 1 = n /\ n \in 1..n /\ months[n].available = cash
          BY <1>1, <1>3, <2>2, <4>1
        <5>2. QED
          BY <3>1, <3>3, <4>1, <5>1
      <4>2. CASE i # n + 1
        <5>1. i \in 2..n /\ i \in 1..n /\ i - 1 \in 1..n
          BY <1>1, <4>2
        <5>2. QED
          BY <1>3, <3>3, <5>1 DEF Linked
      <4>3. QED
        BY <4>1, <4>2
    <3>7. Linked(months')
      BY <3>3, <3>6 DEF Linked
    <3>8. months' # << >>
      BY <1>1, <3>3
    <3>9. QED
      BY <3>3, <3>4, <3>5, <3>7, <3>8
  <2>3. CASE months # << >> /\ months' = months
    BY <1>1, <1>3, <2>3
  <2>4. QED
    BY <2>1, <2>2, <2>3 DEF StartDay, CarryOver
<1>5. /\ pc' = "trading" /\ day' = gathered /\ at' = 0 /\ today' = NewMetrics(cash)
      /\ UNCHANGED <<fiveMinute, evaluated, held, cash>>
  BY DEF StartDay
<1>6. today' \in DayMetrics /\ today'.delta = 0
  BY <1>1, <1>2, <1>5
<1>7. Balanced(pc', held', cash', today', months')
  BY <1>3, <1>4, <1>5, <1>6 DEF Balanced
<1>8. QED
  BY <1>4, <1>5, <1>6, <1>7, ReportIs

\* The generator reads a row.
LEMMA ReadCandleInv ==
    ASSUME BackTestInv,
           NEW c \in Candles, ReadCandle(c)
    PROVE  BackTestInv'
<1>1. /\ gathered \in Seq(Candles) /\ Len(gathered) \in Nat /\ DOMAIN gathered = 1..Len(gathered)
      /\ day \in Seq(Candles) /\ Len(day) \in Nat /\ DOMAIN day = 1..Len(day)
      /\ read \in Nat /\ evaluated \in Nat /\ evaluated <= read /\ MaxCandles \in Nat
      /\ at \in Nat /\ BackTestTypeOK
  BY BackTestTypes
<1>2. /\ pc = "reading" /\ ended = FALSE /\ read < MaxCandles /\ Before(last, c)
      /\ read' = read + 1 /\ last' = c /\ ended' = ended
  BY <1>1 DEF ReadCandle, BackTestTypeOK
<1>3. /\ OneDate(gathered) /\ OneDate(day) /\ at = Len(day)
      /\ read = evaluated + (Len(day) - at) + Len(gathered)
      /\ GeneratorInv /\ SharesOfOne /\ FlatOvernight
  BY <1>2, WhileReading
<1>4. CASE gathered # << >> /\ last.day # c.day
  <2>1. StartDay(gathered) /\ gathered' = <<c>>
    BY <1>4 DEF ReadCandle, GatherAnew
  <2>2. /\ pc' = "trading" /\ day' = gathered /\ at' = 0
        /\ UNCHANGED <<fiveMinute, evaluated, held, cash>>
        /\ today' \in DayMetrics /\ months' \in Seq(DayMetrics) /\ months' # << >>
        /\ ReportExplainsFunds'
    BY <1>2, <2>1, DayBegins
  <2>3. gathered' \in Seq(Candles) /\ Len(gathered') = 1 /\ DOMAIN gathered' = {1} /\ gathered'[1] = c
    BY <2>1
  <2>4. read' \in 0..MaxCandles /\ evaluated' \in 0..read' /\ at' \in 0..Len(day')
    BY <1>1, <1>2, <2>2
  <2>5. BackTestTypeOK'
    BY <1>1, <1>2, <2>2, <2>3, <2>4 DEF BackTestTypeOK
  <2>6. read' = evaluated' + (Len(day') - at') + Len(gathered')
    BY <1>1, <1>2, <1>3, <2>2, <2>3
  <2>7. OneDate(day') /\ OneDate(gathered')
    BY <1>3, <2>2, <2>3 DEF OneDate
  <2>8. GeneratorInv'
    <3>1. InOrder(gathered) /\ \A i \in DOMAIN gathered : Before(gathered[i], c)
      BY <1>2, <1>3, <1>4, NextIsLater DEF GeneratorInv
    <3>2. InOrder(day') /\ InOrder(gathered')
      BY <2>2, <2>3, <3>1 DEF InOrder
    <3>3. \A i \in DOMAIN day', j \in DOMAIN gathered' : Before(day'[i], gathered'[j])
      BY <2>2, <2>3, <3>1
    <3>4. gathered' # << >> /\ last' = gathered'[Len(gathered')]
      BY <1>2, <2>3
    <3>5. QED
      BY <3>2, <3>3, <3>4 DEF GeneratorInv, InOrder, Before, Last
  <2>9. DaysAreWhole'
    BY <2>2, <2>5, <2>6, <2>7, <2>8, DaysFollow
  <2>10. PhaseInv'
    BY <1>2, <1>4, <2>2 DEF PhaseInv
  <2>11. FlatOvernight' /\ SharesOfOne'
    BY <1>3, <2>2 DEF FlatOvernight, SharesOfOne
  <2>12. QED
    BY <2>2, <2>8, <2>9, <2>10, <2>11 DEF BackTestInv
<1>5. CASE ~(gathered # << >> /\ last.day # c.day)
  <2> DEFINE n == Len(gathered)
  <2>1. /\ gathered' = Append(gathered, c)
        /\ UNCHANGED <<fiveMinute, pc, day, at, evaluated, held, cash, today, months>>
    BY <1>5 DEF ReadCandle
  <2>2. /\ gathered' \in Seq(Candles) /\ Len(gathered') = n + 1 /\ DOMAIN gathered' = 1..n + 1
        /\ gathered'[n + 1] = c /\ \A i \in 1..n : gathered'[i] = gathered[i]
    BY <1>1, <2>1
  <2>3. \A i \in 1..n + 1 : i \in 1..n \/ i = n + 1
    BY <1>1
  <2>4. read' \in 0..MaxCandles /\ evaluated' \in 0..read'
    BY <1>1, <1>2, <2>1
  <2>5. BackTestTypeOK'
    BY <1>1, <1>2, <2>1, <2>2, <2>4 DEF BackTestTypeOK
  <2>6. read' = evaluated' + (Len(day') - at') + Len(gathered')
    BY <1>1, <1>2, <1>3, <2>1, <2>2
  <2>7. \A i \in 1..n : gathered[i].day = c.day
    <3>1. ASSUME NEW i \in 1..n PROVE gathered[i].day = c.day
      <4>1. gathered # << >> /\ n \in 1..n
        BY <1>1, <3>1
      <4>2. last = gathered[n] /\ last.day = c.day
        BY <1>5, <4>1, WhileReading
      <4>3. gathered[i].day = gathered[n].day
        BY <1>1, <1>3, <4>1 DEF OneDate
      <4>4. QED
        BY <4>2, <4>3
    <3>2. QED
      BY <3>1
  <2>8. OneDate(day') /\ OneDate(gathered')
    <3>1. \A i \in 1..n + 1 : gathered'[i].day = c.day
      BY <2>2, <2>3, <2>7
    <3>2. QED
      BY <1>3, <2>1, <2>2, <3>1 DEF OneDate
  <2>9. GeneratorInv'
    <3>1. /\ InOrder(gathered) /\ InOrder(day)
          /\ \A i \in DOMAIN day, j \in DOMAIN gathered : Before(day[i], gathered[j])
      BY <1>3 DEF GeneratorInv
    <3>2. \A i \in 1..n : Before(gathered[i], c)
      <4>1. ASSUME NEW i \in 1..n PROVE gathered # << >>
        BY <1>1, <4>1
      <4>2. QED
        BY <1>1, <1>2, <4>1, NextIsLater
    <3>3. \A i \in DOMAIN day : Before(day[i], c)
      <4>1. CASE gathered = << >>
        <5>1. day = << >>
          BY <1>2, <1>3, <4>1 DEF GeneratorInv
        <5>2. QED
          BY <5>1
      <4>2. CASE gathered # << >>
        BY <1>2, <4>2, NextIsLater
      <4>3. QED
        BY <4>1, <4>2
    <3>4. InOrder(gathered')
      <4>1. ASSUME NEW i \in 1..n + 1, NEW j \in 1..n + 1, i < j
            PROVE  Before(gathered'[i], gathered'[j])
        <5>1. i \in 1..n
          BY <1>1, <4>1
        <5>2. CASE j = n + 1
          BY <2>2, <3>2, <5>1, <5>2
        <5>3. CASE j \in 1..n
          BY <1>1, <2>2, <3>1, <4>1, <5>1, <5>3 DEF InOrder
        <5>4. QED
          BY <2>3, <5>2, <5>3
      <4>2. QED
        BY <2>2, <4>1 DEF InOrder
    <3>5. \A i \in DOMAIN day', j \in DOMAIN gathered' : Before(day'[i], gathered'[j])
      BY <1>1, <2>1, <2>2, <2>3, <3>1, <3>3
    <3>6. gathered' # << >> /\ last' = gathered'[Len(gathered')]
      BY <1>1, <1>2, <2>2
    <3>7. InOrder(day')
      BY <2>1, <3>1
    <3>8. QED
      BY <3>4, <3>5, <3>6, <3>7 DEF GeneratorInv, InOrder, Before, Last
  <2>10. DaysAreWhole'
    BY <1>2, <2>1, <2>5, <2>6, <2>8, <2>9, DaysFollow
  <2>11. PhaseInv' /\ ReportExplainsFunds'
    <3>1. PhaseInv /\ ReportExplainsFunds
      BY DEF BackTestInv
    <3>2. QED
      BY <1>2, <2>1, <3>1 DEF PhaseInv, ReportExplainsFunds
  <2>12. FlatOvernight' /\ SharesOfOne'
    BY <1>3, <2>1 DEF FlatOvernight, SharesOfOne
  <2>13. QED
    BY <2>9, <2>10, <2>11, <2>12 DEF BackTestInv
<1>6. QED
  BY <1>4, <1>5

\* After the last row the last day is yielded.
LEMMA LastDayInv ==
    ASSUME BackTestInv, LastDay
    PROVE  BackTestInv'
<1>1. /\ gathered \in Seq(Candles) /\ Len(gathered) \in Nat /\ DOMAIN gathered = 1..Len(gathered)
      /\ day \in Seq(Candles) /\ Len(day) \in Nat
      /\ read \in Nat /\ evaluated \in Nat /\ at \in Nat /\ BackTestTypeOK
  BY BackTestTypes
<1>2. /\ pc = "reading" /\ ended' = TRUE /\ gathered' = << >> /\ UNCHANGED <<read, last>>
  BY DEF LastDay
<1>3. /\ OneDate(gathered) /\ OneDate(day) /\ at = Len(day)
      /\ read = evaluated + (Len(day) - at) + Len(gathered)
      /\ GeneratorInv /\ SharesOfOne /\ FlatOvernight
  BY <1>2, WhileReading
<1>4. gathered' \in Seq(Candles) /\ Len(gathered') = 0 /\ DOMAIN gathered' = {} /\ OneDate(gathered')
  <2>1. << >> \in Seq(Candles) /\ Len(<< >>) = 0 /\ DOMAIN << >> = {}
    OBVIOUS
  <2>2. QED
    BY <1>2, <2>1 DEF OneDate
<1>5. CASE gathered # << >>
  <2>1. StartDay(gathered)
    BY <1>5 DEF LastDay
  <2>2. /\ pc' = "trading" /\ day' = gathered /\ at' = 0
        /\ UNCHANGED <<fiveMinute, evaluated, held, cash>>
        /\ today' \in DayMetrics /\ months' \in Seq(DayMetrics) /\ months' # << >>
        /\ ReportExplainsFunds'
    BY <1>2, <2>1, DayBegins
  <2>3. BackTestTypeOK'
    <3>1. at' \in 0..Len(day')
      BY <1>1, <2>2
    <3>2. QED
      BY <1>1, <1>2, <1>4, <2>2, <3>1 DEF BackTestTypeOK
  <2>4. read' = evaluated' + (Len(day') - at') + Len(gathered')
    BY <1>1, <1>2, <1>3, <1>4, <2>2
  <2>5. GeneratorInv'
    BY <1>2, <1>3, <1>4, <2>2 DEF GeneratorInv, InOrder, Before
  <2>6. DaysAreWhole'
    BY <1>3, <1>4, <2>2, <2>3, <2>4, <2>5, DaysFollow
  <2>7. PhaseInv'
    BY <1>2, <1>5, <2>2 DEF PhaseInv
  <2>8. FlatOvernight' /\ SharesOfOne'
    BY <1>3, <2>2 DEF FlatOvernight, SharesOfOne
  <2>9. QED
    BY <2>2, <2>5, <2>6, <2>7, <2>8 DEF BackTestInv
<1>6. CASE gathered = << >>
  <2>1. /\ pc' = "done"
        /\ UNCHANGED <<fiveMinute, day, at, evaluated, held, cash, today, months>>
    BY <1>6 DEF LastDay
  <2>2. BackTestTypeOK'
    BY <1>1, <1>2, <1>4, <2>1 DEF BackTestTypeOK
  <2>3. Len(gathered) = 0
    BY <1>6
  <2>4. read' = evaluated' + (Len(day') - at') + Len(gathered') /\ evaluated' = read'
    BY <1>1, <1>2, <1>3, <1>4, <2>1, <2>3
  <2>5. GeneratorInv'
    BY <1>2, <1>3, <1>4, <2>1 DEF GeneratorInv, InOrder, Before
  <2>6. DaysAreWhole'
    BY <1>3, <1>4, <2>1, <2>2, <2>4, <2>5, DaysFollow
  <2>7. PhaseInv'
    <3>1. PhaseInv
      BY DEF BackTestInv
    <3>2. QED
      BY <1>2, <2>1, <3>1 DEF PhaseInv
  <2>8. ReportExplainsFunds'
    <3>1. /\ Balanced(pc, held, cash, today, months) /\ Linked(months)
          /\ months # << >> => months[Len(months)].available = cash
      BY <1>2, WhileReading
    <3>2. QED
      BY <1>2, <2>1, <3>1, ReportIs DEF Balanced
  <2>9. FlatOvernight' /\ SharesOfOne'
    BY <1>3, <2>1 DEF FlatOvernight, SharesOfOne
  <2>10. QED
    BY <2>5, <2>6, <2>7, <2>8, <2>9 DEF BackTestInv
<1>7. QED
  BY <1>5, <1>6

\* What add_metrics adds, and what it replaces.
LEMMA MetricsAdd ==
    ASSUME NEW a \in DayMetrics, NEW b \in DayMetrics
    PROVE  LET m == AddMetrics(a, b) IN
           /\ m \in DayMetrics /\ m.delta = a.delta + b.delta
           /\ m.initial = a.initial /\ m.available = b.available
<1> DEFINE m == AddMetrics(a, b)
<1>1. /\ a.initial \in Int /\ a.sales \in Nat /\ a.profitable \in Nat /\ a.delta \in Int
      /\ b.available \in Int /\ b.sales \in Nat /\ b.profitable \in Nat /\ b.delta \in Int
      /\ a = [initial |-> a.initial, available |-> a.available, sales |-> a.sales,
              profitable |-> a.profitable, delta |-> a.delta]
  BY DEF DayMetrics
<1>2. m = [initial |-> a.initial, available |-> b.available, sales |-> a.sales + b.sales,
           profitable |-> a.profitable + b.profitable, delta |-> a.delta + b.delta]
  <2> DEFINE sales == a.sales + b.sales
             profitable == a.profitable + b.profitable
             delta == a.delta + b.delta
  <2>1. m = [a EXCEPT !.available = b.available, !.sales = sales,
                      !.profitable = profitable, !.delta = delta]
    BY DEF AddMetrics
  <2> HIDE DEF m, sales, profitable, delta
  <2>2. m = [initial |-> a.initial, available |-> b.available, sales |-> sales,
             profitable |-> profitable, delta |-> delta]
    BY <1>1, <2>1
  <2>3. QED
    BY <2>2 DEF sales, profitable, delta
<1>3. /\ a.sales + b.sales \in Nat /\ a.profitable + b.profitable \in Nat /\ a.delta + b.delta \in Int
  BY <1>1
<1> HIDE DEF m
<1>4. m \in DayMetrics
  BY <1>1, <1>2, <1>3 DEF DayMetrics
<1>5. QED
  BY <1>2, <1>4 DEF m

\* A day's metrics are added to the month's.
LEMMA EndDayInv ==
    ASSUME BackTestInv, EndDay
    PROVE  BackTestInv'
<1> DEFINE n == Len(months)
           closed == [today EXCEPT !.available = cash]
           sum == AddMetrics(months[n], closed)
<1>1. /\ day \in Seq(Candles) /\ Len(day) \in Nat /\ Len(gathered) \in Nat
      /\ read \in Nat /\ evaluated \in Nat /\ at \in Nat /\ cash \in Int
      /\ held \in Seq(Lot) /\ today \in DayMetrics /\ InitialFunds \in Nat
      /\ months \in Seq(DayMetrics) /\ n \in Nat /\ BackTestTypeOK
  BY BackTestTypes
<1>2. /\ pc = "trading" /\ at = Len(day) /\ today' = closed /\ months' = [months EXCEPT ![n] = sum]
      /\ pc' = (IF ended THEN "done" ELSE "reading")
      /\ UNCHANGED <<fiveMinute, read, last, gathered, ended, day, at, evaluated, held, cash>>
  BY DEF EndDay
<1>3. /\ OneDate(gathered) /\ OneDate(day) /\ months # << >> /\ day # << >>
      /\ read = evaluated + (Len(day) - at) + Len(gathered) /\ (ended => gathered = << >>)
      /\ GeneratorInv /\ SharesOfOne /\ FlatOvernight
      /\ Balanced(pc, held, cash, today, months) /\ Linked(months)
  BY <1>2, WhileReading
<1>4. months[n] \in DayMetrics /\ n >= 1
  BY <1>1, <1>3
<1>5. /\ closed \in DayMetrics /\ closed.delta = today.delta /\ closed.available = cash
      /\ today.delta \in Int
  BY <1>1 DEF DayMetrics
<1>6. /\ sum \in DayMetrics /\ sum.delta = months[n].delta + today.delta
      /\ sum.initial = months[n].initial /\ sum.available = cash
  BY <1>4, <1>5, MetricsAdd
<1> HIDE DEF closed, sum
<1>7. /\ months' \in Seq(DayMetrics) /\ Len(months') = n /\ months'[n] = sum
      /\ \A i \in 1..n : i # n => months'[i] = months[i]
  BY <1>1, <1>2, <1>4, <1>6
<1>8. SumSeq(Deltas(months')) = SumSeq(Deltas(months)) + today.delta
  BY <1>1, <1>2, <1>3, <1>5, <1>6, MonthChanged
<1>9. Linked(months')
  <2>1. ASSUME NEW i \in 2..n PROVE months'[i].initial = months'[i - 1].available
    <3> HIDE DEF n
    <3>1. i \in 1..n /\ i - 1 \in 1..n /\ i - 1 # n
      BY <1>1
    <3>2. months'[i].initial = months[i].initial /\ months'[i - 1] = months[i - 1]
      BY <1>6, <1>7, <3>1
    <3>3. months[i].initial = months[i - 1].available
      BY <1>3 DEF Linked, n
    <3>4. QED
      BY <3>2, <3>3
  <2>2. QED
    BY <1>7, <2>1 DEF Linked
<1>10. ReportExplainsFunds'
  <2>1. SumSeq(Deltas(months)) \in Int
    BY <1>1, DeltasAre
  <2>2. pc' # "trading"
    BY <1>2
  <2>3. Balanced(pc', held', cash', today', months')
    BY <1>2, <1>3, <1>5, <1>8, <2>1, <2>2 DEF Balanced
  <2>4. months'[Len(months')].available = cash'
    BY <1>2, <1>6, <1>7
  <2>5. QED
    BY <1>9, <2>3, <2>4, ReportIs
<1>11. BackTestTypeOK'
  BY <1>1, <1>2, <1>5, <1>7 DEF BackTestTypeOK
<1>12. GeneratorInv'
  BY <1>2, <1>3 DEF GeneratorInv, InOrder, Before, Last
<1>13. DaysAreWhole'
  <2>1. pc' = "done" => Len(gathered) = 0
    BY <1>2, <1>3
  <2>2. pc' = "done" => evaluated' = read'
    BY <1>1, <1>2, <1>3, <2>1
  <2>3. QED
    BY <1>2, <1>3, <1>11, <1>12, <2>2, DaysFollow
<1>14. PhaseInv'
  <2>1. months'[Len(months')].available = cash'
    BY <1>2, <1>6, <1>7
  <2>2. QED
    BY <1>2, <1>3, <2>1 DEF PhaseInv, Last
<1>15. FlatOvernight' /\ SharesOfOne'
  BY <1>2, <1>3 DEF FlatOvernight, SharesOfOne
<1>16. QED
  BY <1>10, <1>12, <1>13, <1>14, <1>15 DEF BackTestInv

-----------------------------------------------------------------------------
(* A candle is evaluated.                                                  *)

\* The analyzer's buffer keeps its size and what is in it.
LEMMA SignalsKept ==
    ASSUME BackTestTypeOK, NEW time, NEW minutes, NEW price, NEW lots,
           NEW canBuy, NEW act, Analyze(time, minutes, price, lots, canBuy, act)
    PROVE  /\ fiveMinute' \in Seq([act : {"NO_ACTION", "HOLD", "BUY", "SELL"}, confidence : Nat])
           /\ Len(fiveMinute') <= DecisionWindow
<1> DEFINE D == [act : {"NO_ACTION", "HOLD", "BUY", "SELL"}, confidence : Nat]
           canSell == lots # << >>
<1>1. /\ fiveMinute \in Seq(D) /\ Len(fiveMinute) <= DecisionWindow /\ Len(fiveMinute) \in Nat
      /\ DecisionWindow \in Nat /\ DecisionWindow >= 1 /\ Confidences \subseteq Nat
  <2>1. DecisionWindow \in 1..5 /\ Confidences \subseteq Nat
    BY AnalyzerAssumption
  <2>2. fiveMinute \in Seq(D) /\ Len(fiveMinute) <= DecisionWindow
    BY DEF BackTestTypeOK
  <2>3. QED
    BY <2>1, <2>2
<1>2. CASE fiveMinute' = fiveMinute
  BY <1>1, <1>2
<1>3. CASE fiveMinute' # fiveMinute
  <2>1. PICK trend \in MacdSignals(TrendSpan, minutes, time, canBuy, canSell) :
          fiveMinute' = Remember(trend)
    BY <1>3 DEF Analyze
  <2>2. \A a \in {"NO_ACTION", "HOLD", "BUY", "SELL"}, c \in Nat : Decision(a, c) \in D
    BY DEF Decision
  <2>3. trend = NoAction \/ \E a \in {"HOLD", "BUY", "SELL"}, c \in Confidences : trend = Decision(a, c)
    BY <2>1 DEF MacdSignals
  <2>4. trend \in D
    <3>1. CASE trend = NoAction
      BY <2>2, <3>1 DEF NoAction
    <3>2. ASSUME NEW a \in {"HOLD", "BUY", "SELL"}, NEW c \in Confidences, trend = Decision(a, c)
          PROVE  trend \in D
      <4>1. c \in Nat /\ a \in {"NO_ACTION", "HOLD", "BUY", "SELL"}
        BY <1>1
      <4>2. QED
        BY <2>2, <3>2, <4>1
    <3>3. QED
      BY <2>3, <3>1, <3>2
  <2> HIDE DEF D
  <2>5. CASE Len(fiveMinute) < DecisionWindow
    <3>1. fiveMinute' = Append(fiveMinute, trend)
      BY <2>1, <2>5 DEF Remember
    <3>2. QED
      BY <1>1, <2>4, <2>5, <3>1 DEF D
  <2>6. CASE ~ Len(fiveMinute) < DecisionWindow
    <3>1. fiveMinute' = Append(Tail(fiveMinute), trend) /\ fiveMinute # << >>
      BY <1>1, <2>1, <2>6 DEF Remember
    <3>2. Tail(fiveMinute) \in Seq(D) /\ Len(Tail(fiveMinute)) = Len(fiveMinute) - 1
      BY <1>1, <3>1
    <3>3. QED
      BY <1>1, <2>4, <3>1, <3>2 DEF D
  <2>7. QED
    BY <2>5, <2>6
<1>4. QED
  BY <1>2, <1>3

\* From a minute before EJECT_TIME on the analyzer sells what there is, and
\* after the market has closed it only holds.
LEMMA LastHalfHour ==
    ASSUME NEW time \in Nat, time >= Eject - 1, NEW minutes, NEW price, NEW lots,
           NEW canBuy, NEW act, Analyze(time, minutes, price, lots, canBuy, act)
    PROVE  /\ time < 16 * 60 /\ lots # << >> => act = "SELL"
           /\ time >= 16 * 60 \/ lots = << >> => act = "HOLD"
<1> DEFINE canSell == lots # << >>
           hours == MarketHours(time, canSell)
           eager == (100 * (time - Exit)) \div (Eject - Exit)
<1>1. Exit = 840 /\ Eject = 930 /\ OpensAt = 600 /\ 16 * 60 = 960
  BY DEF Exit, Eject, OpensAt
<1>2. time >= 929
  BY <1>1
<1>3. CASE time >= 960
  <2>1. hours = Decision("HOLD", 100)
    BY <1>1, <1>3 DEF MarketHours
  <2>2. Overrules(hours) /\ hours.act = "HOLD"
    BY <2>1 DEF Decision, Overrules
  <2>3. act = "HOLD"
    BY <2>2 DEF Analyze
  <2>4. QED
    BY <1>1, <1>3, <2>3
<1>4. CASE ~ time >= 960
  <2>1. hours = Decision(IF canSell THEN "SELL" ELSE "HOLD", Least(100, eager))
    BY <1>1, <1>2, <1>4 DEF MarketHours
  <2>2. eager \in Int /\ eager >= 98
    <3>1. eager = (100 * (time - 840)) \div 90
      BY <1>1
    <3>2. 100 * (time - 840) \in Int /\ 100 * (time - 840) >= 8900
      BY <1>2
    <3>3. \A x \in Int : x >= 8900 => x \div 90 \in Int /\ x \div 90 >= 98
      OBVIOUS
    <3>4. QED
      BY <3>1, <3>2, <3>3
  <2> HIDE DEF eager
  <2>3. Least(100, eager) >= 98
    BY <2>2 DEF Least
  <2>4. Overrules(hours) /\ hours.act = (IF canSell THEN "SELL" ELSE "HOLD")
    BY <2>1, <2>3 DEF Decision, Overrules
  <2>5. act = hours.act
    BY <2>4 DEF Analyze
  <2>6. QED
    BY <1>1, <1>4, <2>4, <2>5
<1>5. QED
  BY <1>3, <1>4

\* A share that is bought is explained by what it cost.
LEMMA BuyExplained ==
    ASSUME BackTestInv, pc = "trading", pc' = pc, months' = months,
           NEW c \in Candles, BuyShare(c)
    PROVE  /\ held' \in Seq(Lot) /\ cash' \in Int /\ today' \in DayMetrics
           /\ SharesOfOne' /\ Balanced(pc', held', cash', today', months')
<1> DEFINE lot == [price |-> c.close, quantity |-> 1]
           n == Len(held)
<1>1. /\ held \in Seq(Lot) /\ cash \in Int /\ today \in DayMetrics /\ InitialFunds \in Nat
      /\ months \in Seq(DayMetrics) /\ c.close \in Nat
  BY BackTestTypes, CandlesAre
<1>2. Balanced(pc, held, cash, today, months) /\ SharesOfOne
  BY WhileReading
<1>3. held' = Append(held, lot) /\ cash' = cash - c.close /\ today' = today
  BY DEF BuyShare
<1>4. lot \in Lot /\ lot.price = c.close /\ lot.quantity = 1 /\ lot.price * lot.quantity = c.close
  BY <1>1 DEF Lot
<1> HIDE DEF lot
<1>5. held' \in Seq(Lot) /\ Cost(held') = Cost(held) + lot.price * lot.quantity
  BY <1>1, <1>3, <1>4, LotBought
<1>6. Cost(held') = Cost(held) + c.close
  BY <1>4, <1>5
<1>7. Cost(held) \in Nat /\ SumSeq(Deltas(months)) \in Int /\ today.delta \in Int
  BY <1>1, LotsAre, DeltasAre DEF DayMetrics
<1>8. Balanced(pc', held', cash', today', months')
  <2> DEFINE spent == Cost(held)
             more == Cost(held')
             sum == SumSeq(Deltas(months))
             delta == today.delta
             close == c.close
  <2>1. /\ spent \in Int /\ sum \in Int /\ delta \in Int /\ close \in Int /\ more = spent + close
        /\ cash + spent = InitialFunds + (sum + delta)
    BY <1>1, <1>2, <1>6, <1>7 DEF Balanced
  <2> HIDE DEF spent, more, sum, delta, close
  <2>2. (cash - close) + more = InitialFunds + (sum + delta)
    BY <1>1, <2>1
  <2>3. QED
    BY <1>3, <2>2 DEF Balanced, more, sum, delta, close
<1>9. SharesOfOne'
  <2>1. /\ DOMAIN held = 1..n /\ DOMAIN held' = 1..n + 1 /\ n \in Nat
        /\ held'[n + 1] = lot /\ \A i \in 1..n : held'[i] = held[i]
    BY <1>1, <1>3, <1>4
  <2>2. \A i \in 1..n + 1 : i \in 1..n \/ i = n + 1
    BY <2>1
  <2>3. QED
    BY <1>2, <1>4, <2>1, <2>2 DEF SharesOfOne
<1>10. QED
  BY <1>1, <1>3, <1>5, <1>8, <1>9

\* A sale is explained by its gain.
LEMMA SellExplained ==
    ASSUME BackTestInv, pc = "trading", pc' = pc, months' = months,
           NEW c \in Candles, SellShares(c)
    PROVE  /\ held' \in Seq(Lot) /\ cash' \in Int /\ today' \in DayMetrics
           /\ SharesOfOne' /\ Balanced(pc', held', cash', today', months')
<1> DEFINE gain == SumSeq(Gains(c.close, held))
           income == c.close * Quantity(held)
           winners == ProfitableAt(c.close, held)
<1>1. /\ held \in Seq(Lot) /\ cash \in Int /\ today \in DayMetrics /\ InitialFunds \in Nat
      /\ months \in Seq(DayMetrics) /\ c.close \in Nat /\ Len(held) \in Nat
  BY BackTestTypes, CandlesAre, LotsAre
<1>2. Balanced(pc, held, cash, today, months) /\ \A i \in DOMAIN held : held[i].quantity = 1
  BY WhileReading DEF SharesOfOne
<1>3. /\ today' = [today EXCEPT !.sales = @ + Len(held), !.profitable = @ + winners, !.delta = @ + gain]
      /\ cash' = cash + income /\ held' = << >>
  BY DEF SellShares, Gains
<1>4. gain \in Int /\ income = Cost(held) + gain /\ Cost(held) \in Nat /\ winners \in Nat
  BY <1>1, <1>2, SaleExplained, LotsAre, UnprofitableSale
<1> HIDE DEF gain, income, winners
<1>5. held' \in Seq(Lot) /\ Cost(held') = 0 /\ SharesOfOne'
  <2>1. DOMAIN << >> = {}
    OBVIOUS
  <2>2. QED
    BY <1>3, <2>1, NoLotsAre DEF SharesOfOne
<1>6. today' \in DayMetrics /\ today'.delta = today.delta + gain /\ today.delta \in Int
  <2> DEFINE m == today
             sold == Len(held)
  <2>1. /\ m.initial \in Int /\ m.available \in Int /\ m.sales \in Nat /\ m.profitable \in Nat
        /\ m.delta \in Int /\ sold \in Nat
        /\ m = [initial |-> m.initial, available |-> m.available, sales |-> m.sales,
                profitable |-> m.profitable, delta |-> m.delta]
    BY <1>1 DEF DayMetrics
  <2> DEFINE sales == m.sales + sold
             profitable == m.profitable + winners
             delta == m.delta + gain
  <2>2. today' = [m EXCEPT !.sales = sales, !.profitable = profitable, !.delta = delta]
    BY <1>3
  <2>3. sales \in Nat /\ profitable \in Nat /\ delta \in Int
    <3> HIDE DEF m, sold
    <3>1. QED
      BY <1>4, <2>1
  <2> HIDE DEF m, sold, sales, profitable, delta
  <2>4. today' = [initial |-> m.initial, available |-> m.available, sales |-> sales,
                  profitable |-> profitable, delta |-> delta]
    BY <2>1, <2>2
  <2>5. today' \in DayMetrics /\ today'.delta = delta
    BY <2>1, <2>3, <2>4 DEF DayMetrics
  <2>6. QED
    BY <2>1, <2>5 DEF delta, m
<1>7. Balanced(pc', held', cash', today', months')
  <2> DEFINE spent == Cost(held)
             sum == SumSeq(Deltas(months))
             delta == today.delta
             after == today'.delta
             rest == Cost(held')
  <2>1. /\ spent \in Int /\ sum \in Int /\ delta \in Int /\ after = delta + gain /\ rest = 0
        /\ cash + spent = InitialFunds + (sum + delta)
    BY <1>1, <1>2, <1>4, <1>5, <1>6, DeltasAre DEF Balanced
  <2>2. income = spent + gain
    BY <1>4
  <2>3. gain \in Int /\ cash \in Int /\ InitialFunds \in Int
    BY <1>1, <1>4
  <2> HIDE DEF spent, sum, delta, after, rest
  <2>4. (cash + income) + rest = InitialFunds + (sum + after)
    BY <2>1, <2>2, <2>3
  <2>5. QED
    BY <1>3, <2>4 DEF Balanced, sum, after, rest
<1>8. cash' \in Int
  BY <1>1, <1>3, <1>4
<1>9. QED
  BY <1>5, <1>6, <1>7, <1>8

\* One candle is evaluated.
LEMMA MinuteInv ==
    ASSUME BackTestInv, Minute
    PROVE  BackTestInv'
<1> DEFINE c == day[at + 1]
<1>1. /\ day \in Seq(Candles) /\ Len(day) \in Nat /\ DOMAIN day = 1..Len(day)
      /\ read \in Nat /\ evaluated \in Nat /\ at \in Nat /\ Len(gathered) \in Nat
      /\ held \in Seq(Lot) /\ cash \in Int /\ today \in DayMetrics
      /\ BackTestTypeOK
  BY BackTestTypes
<1>2. /\ pc = "trading" /\ at < Len(day) /\ at' = at + 1 /\ evaluated' = evaluated + 1
      /\ UNCHANGED <<pc, read, last, gathered, ended, day, months>>
  BY DEF Minute
<1>3. PICK act \in {"NO_ACTION", "HOLD", "BUY", "SELL"} :
        /\ Analyze(MarketTime(c), evaluated', c.close, held, c.low < cash, act)
        /\ \/ act = "BUY" /\ BuyShare(c)
           \/ act = "SELL" /\ held # << >> /\ SellShares(c)
           \/ act = "SELL" /\ held = << >> /\ UNCHANGED <<held, cash, today>>
           \/ act \in {"NO_ACTION", "HOLD"} /\ UNCHANGED <<held, cash, today>>
  BY DEF Minute
<1>4. /\ OneDate(gathered) /\ OneDate(day) /\ day # << >> /\ months # << >>
      /\ read = evaluated + (Len(day) - at) + Len(gathered) /\ (ended => gathered = << >>)
      /\ GeneratorInv /\ SharesOfOne /\ FlatOvernight
      /\ Balanced(pc, held, cash, today, months) /\ Linked(months)
  BY <1>2, WhileReading
<1>5. at + 1 \in 1..Len(day) /\ c \in Candles
  BY <1>1, <1>2
<1> HIDE DEF c
<1>6. /\ held' \in Seq(Lot) /\ cash' \in Int /\ today' \in DayMetrics
      /\ SharesOfOne' /\ Balanced(pc', held', cash', today', months')
  <2>1. CASE BuyShare(c)
    BY <1>2, <1>5, <2>1, BuyExplained
  <2>2. CASE SellShares(c)
    BY <1>2, <1>5, <2>2, SellExplained
  <2>3. CASE UNCHANGED <<held, cash, today>>
    BY <1>1, <1>2, <1>4, <2>3 DEF SharesOfOne
  <2>4. QED
    BY <1>3, <2>1, <2>2, <2>3
<1>7. /\ fiveMinute' \in Seq([act : {"NO_ACTION", "HOLD", "BUY", "SELL"}, confidence : Nat])
      /\ Len(fiveMinute') <= DecisionWindow
  BY <1>1, <1>3, SignalsKept
<1>8. BackTestTypeOK'
  <2>1. at' \in 0..Len(day') /\ evaluated' \in 0..read'
    BY <1>1, <1>2, <1>4
  <2>2. QED
    BY <1>1, <1>2, <1>6, <1>7, <2>1 DEF BackTestTypeOK
<1>9. GeneratorInv'
  BY <1>2, <1>4 DEF GeneratorInv, InOrder, Before, Last
<1>10. DaysAreWhole'
  <2>1. read' = evaluated' + (Len(day') - at') + Len(gathered')
    BY <1>1, <1>2, <1>4
  <2>2. QED
    BY <1>2, <1>4, <1>8, <1>9, <2>1, DaysFollow
<1>11. PhaseInv'
  BY <1>2, <1>4 DEF PhaseInv
<1>12. ReportExplainsFunds'
  BY <1>2, <1>4, <1>6, ReportIs
<1>13. FlatOvernight'
  <2>1. SUFFICES ASSUME NEW i \in 1..at + 1, MarketTime(day[i]) \in 929..959
                 PROVE  held' = << >>
    BY <1>2 DEF FlatOvernight, Eject
  <2>2. \A x \in 929..959 : x >= 929 /\ x < 960
    OBVIOUS
  <2>3. /\ i \in 1..Len(day) /\ day[i] \in Candles /\ c \in Candles /\ c.day = day[i].day
        /\ MarketTime(c) \in Nat
    <3>1. i \in 1..Len(day)
      BY <1>1, <1>5, <2>1
    <3>2. day[i] \in Candles
      BY <1>1, <3>1
    <3>3. c.day = day[i].day
      BY <1>1, <1>4, <1>5, <3>1 DEF OneDate, c
    <3>4. QED
      BY <1>5, <3>1, <3>2, <3>3, MarketClock
  <2>4. CASE i = at + 1
    <3>1. MarketTime(c) \in 929..959
      BY <2>1, <2>4 DEF c
    <3>2. MarketTime(c) >= Eject - 1 /\ MarketTime(c) < 16 * 60
      <4>1. Eject - 1 = 929 /\ 16 * 60 = 960
        BY DEF Eject
      <4>2. MarketTime(c) >= 929 /\ MarketTime(c) < 960
        BY <2>2, <3>1
      <4>3. QED
        BY <4>1, <4>2
    <3>3. (held # << >> => act = "SELL") /\ (held = << >> => act = "HOLD")
      BY <1>3, <2>3, <3>2, LastHalfHour
    <3>4. QED
      BY <1>3, <3>3 DEF SellShares
  <2>5. CASE i # at + 1
    <3>1. i \in 1..at /\ i < at + 1
      BY <1>1, <2>1, <2>5
    <3>2. held = << >>
      BY <1>4, <2>1, <3>1 DEF FlatOvernight, Eject
    <3>3. day[i].time < c.time
      <4>1. Before(day[i], c) /\ day[i].day = c.day
        BY <1>1, <1>4, <1>5, <2>3, <3>1 DEF GeneratorInv, InOrder, c
      <4>2. day[i].day \in Nat
        BY <2>3, CandlesAre
      <4>3. QED
        BY <4>1, <4>2 DEF Before
    <3>4. MarketTime(c) >= Eject - 1
      <4> DEFINE d == day[i]
      <4>0. d \in Candles /\ c \in Candles /\ d.day = c.day /\ MarketTime(d) \in 929..959 /\ d.time < c.time
        BY <2>1, <2>3, <3>3
      <4> HIDE DEF d
      <4>1. MarketTime(c) >= 929
        BY <4>0, MarketRunsOn
      <4>2. Eject - 1 = 929
        BY DEF Eject
      <4>3. QED
        BY <4>1, <4>2
    <3>5. act = "HOLD"
      BY <1>3, <2>3, <3>2, <3>4, LastHalfHour
    <3>6. QED
      BY <1>3, <3>2, <3>5
  <2>6. QED
    BY <2>4, <2>5
<1>14. QED
  BY <1>6, <1>9, <1>10, <1>11, <1>12, <1>13 DEF BackTestInv

\* The invariant holds before the first row is read.
LEMMA BackTestInitInv ==
    ASSUME BackTestInit
    PROVE  BackTestInv
<1>1. /\ fiveMinute = << >> /\ pc = "reading" /\ read = 0 /\ last = NoCandle
      /\ gathered = << >> /\ ended = FALSE /\ day = << >> /\ at = 0 /\ evaluated = 0
      /\ held = << >> /\ cash = InitialFunds
      /\ today = NewMetrics(InitialFunds) /\ months = << >>
  BY DEF BackTestInit
<1>2. InitialFunds \in Nat /\ MaxCandles \in Nat /\ DecisionWindow \in 1..5
  BY EvaluationAssumption, AnalyzerAssumption, FundsAssumption
<1>3. \A S : << >> \in Seq(S)
  OBVIOUS
<1>4. Len(<< >>) = 0 /\ DOMAIN << >> = {} /\ << >> \o << >> = << >>
  OBVIOUS
<1>5. today \in DayMetrics
  BY <1>1, <1>2 DEF NewMetrics, DayMetrics
<1>6. BackTestTypeOK
  <2>1. /\ fiveMinute \in Seq([act : {"NO_ACTION", "HOLD", "BUY", "SELL"}, confidence : Nat])
        /\ gathered \in Seq(Candles) /\ day \in Seq(Candles)
        /\ held \in Seq(Lot) /\ months \in Seq(DayMetrics)
    BY <1>1, <1>3
  <2>2. /\ Len(fiveMinute) <= DecisionWindow /\ read \in 0..MaxCandles /\ evaluated \in 0..read
        /\ at \in 0..Len(day) /\ cash \in Int
    BY <1>1, <1>2, <1>4
  <2>3. pc \in {"reading", "trading", "done"} /\ ended \in BOOLEAN /\ last \in Candles \cup {NoCandle}
    BY <1>1
  <2>4. QED
    BY <1>5, <2>1, <2>2, <2>3 DEF BackTestTypeOK
<1>7. GeneratorInv /\ PhaseInv /\ SharesOfOne /\ FlatOvernight
  BY <1>1, <1>4 DEF GeneratorInv, InOrder, PhaseInv, SharesOfOne,
                    FlatOvernight
<1>8. DaysAreWhole
  <2>1. InOrder(day) /\ InOrder(gathered)
    BY <1>7 DEF GeneratorInv
  <2>2. day \in Seq(Candles) /\ gathered \in Seq(Candles) /\ at \in 0..Len(day)
    BY <1>6 DEF BackTestTypeOK
  <2>3. \A i \in DOMAIN day, j \in DOMAIN gathered : Before(day[i], gathered[j])
    BY <1>1, <1>4
  <2>4. \A i \in 1..(Len(SubSeq(day, at + 1, Len(day)) \o gathered) - 1) :
          Before((SubSeq(day, at + 1, Len(day)) \o gathered)[i],
                          (SubSeq(day, at + 1, Len(day)) \o gathered)[i + 1])
    BY <2>1, <2>2, <2>3, AheadInOrder
  <2>5. QED
    BY <1>1, <1>4, <1>6, <2>4 DEF DaysAreWhole
<1>9. ReportExplainsFunds
  <2>1. Deltas(months) = << >>
    <3>1. Len(Deltas(months)) = 0 /\ Deltas(months) \in Seq(Int)
      BY <1>1, <1>3, <1>4, DeltasAre
    <3>2. QED
      BY <3>1
  <2>2. Balanced(pc, held, cash, today, months)
    BY <1>1, <1>2, <2>1, SumEmpty, NoLotsAre DEF Balanced
  <2>3. Linked(months)
    BY <1>1, <1>4 DEF Linked
  <2>4. QED
    BY <1>1, <2>2, <2>3, ReportIs
<1>10. QED
  BY <1>7, <1>8, <1>9 DEF BackTestInv

\* Every step keeps it.
LEMMA BackTestNextInv ==
    ASSUME BackTestInv, [BackTestNext]_backTestVars
    PROVE  BackTestInv'
<1>1. ASSUME NEW c \in Candles, ReadCandle(c)
      PROVE  BackTestInv'
  BY <1>1, ReadCandleInv
<1>2. CASE LastDay
  BY <1>2, LastDayInv
<1>3. CASE Minute
  BY <1>3, MinuteInv
<1>4. CASE EndDay
  BY <1>4, EndDayInv
<1>5. CASE UNCHANGED backTestVars
  <2>1. UNCHANGED <<fiveMinute, pc, read, last, gathered, ended, day, at, evaluated, held, cash, today, months>>
    BY <1>5 DEF backTestVars
  <2>2. BackTestTypeOK'
    BY <2>1, BackTestTypes DEF BackTestTypeOK
  <2>3. GeneratorInv' /\ PhaseInv' /\ SharesOfOne' /\ FlatOvernight'
    BY <2>1 DEF BackTestInv, GeneratorInv, InOrder, Before,
                Last, PhaseInv, SharesOfOne, FlatOvernight
  <2>4. DaysAreWhole'
    BY <2>1, <2>2 DEF BackTestInv, DaysAreWhole, Before
  <2>5. ReportExplainsFunds'
    BY <2>1 DEF BackTestInv, ReportExplainsFunds
  <2>6. QED
    BY <2>3, <2>4, <2>5 DEF BackTestInv
<1>6. QED
  BY <1>1, <1>2, <1>3, <1>4, <1>5 DEF BackTestNext

-----------------------------------------------------------------------------
(* Theorems about a back test.                                             *)

\* The inductive invariant of the back test holds throughout it.
THEOREM BackTestInvariant == BackTestSpec => []BackTestInv
<1>1. BackTestInit => BackTestInv
  BY BackTestInitInv
<1>2. BackTestInv /\ [BackTestNext]_backTestVars => BackTestInv'
  BY BackTestNextInv
<1>3. QED
  BY <1>1, <1>2, PTL DEF BackTestSpec

\* get_days loses, repeats and mixes no candle, for any days, prices and number
\* of rows.
THEOREM BackTestDaysAreWhole == BackTestSpec => []DaysAreWhole
<1>1. BackTestInv => DaysAreWhole
  BY DEF BackTestInv
<1>2. QED
  BY <1>1, BackTestInvariant, PTL

\* The report of evaluate explains the funds it ends with, whatever is bought
\* and sold at whatever prices.
THEOREM BackTestReportExplainsFunds ==
    BackTestSpec => []ReportExplainsFunds
<1>1. BackTestInv => ReportExplainsFunds
  BY DEF BackTestInv
<1>2. QED
  BY <1>1, BackTestInvariant, PTL

\* The howling analyzer leaves nothing held overnight if it is shown a candle
\* of the last half hour, for any signals, thresholds and windows.
THEOREM BackTestFlatOvernight == BackTestSpec => []FlatOvernight
<1>1. BackTestInv => FlatOvernight
  BY DEF BackTestInv
<1>2. QED
  BY <1>1, BackTestInvariant, PTL

=============================================================================
