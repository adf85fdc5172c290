--------------------------- MODULE StrategyProofs ---------------------------
(***************************************************************************)
(* Proofs about what the program computes from prices: BarAlgorithms, the  *)
(* signals of the strategies over a series of bars; TickCandles, candles   *)
(* from ticks; WalkForward, the parts of a tuned backtest and its figures. *)
(* Their loops are recursive functions, and what a loop computes is proved *)
(* by the least round at which it would fail: the library's induction      *)
(* theorems take an operator as a parameter, a least number needs none.    *)
(***************************************************************************)
EXTENDS BarAlgorithms, WalkForward, TickCandles, FiniteSetTheorems,
        SequenceTheorems, WellFoundedInduction, TLAPS

LEMMA LeastOf ==
    ASSUME NEW S \in SUBSET Nat, S # {}
    PROVE  \E m \in S : \A n \in S : m <= n
<1> DEFINE R == {p \in Nat \X Nat : p[1] < p[2]}
<1>1. IsWellFoundedOn(R, Nat)
  BY NatLessThanWellFounded DEF OpToRel
<1>2. \A n, m \in Nat : n < m => <<n, m>> \in R
  OBVIOUS
<1> HIDE DEF R
<1>3. PICK m \in S : \A n \in S : ~(<<n, m>> \in R)
  BY <1>1, WFMin
<1>4. ASSUME NEW n \in S PROVE m <= n
  <2>1. n \in Nat /\ m \in Nat
    OBVIOUS
  <2>2. ~(n < m)
    BY <1>2, <1>3, <2>1
  <2> QED BY <2>1, <2>2
<1> QED BY <1>3, <1>4
-----------------------------------------------------------------------------
(* What a loop computes from the m-th round to the n-th: a function of the *)
(* round, whose value each round makes from the one before. There is one,  *)
(* its values have the type that every round keeps, and two loops with the *)
(* same rounds compute the same: by the least round where they would not.  *)
Recurs(f, base, step, m, n) ==
    f = [i \in m .. n |-> IF i = m THEN base ELSE step[i][f[i - 1]]]

Rounds(m, n) == m \in Nat /\ n \in Nat /\ m <= n

LEMMA RecursAt ==
    ASSUME NEW f, NEW base, NEW step, NEW m, NEW n, Rounds(m, n), Recurs(f, base, step, m, n)
    PROVE  f[m] = base /\ \A i \in m + 1 .. n : i - 1 \in m .. n /\ f[i] = step[i][f[i - 1]]
<1>1. f = [i \in m .. n |-> IF i = m THEN base ELSE step[i][f[i - 1]]]
  BY DEF Recurs
<1>2. m \in m .. n /\ \A i \in m + 1 .. n : i \in m .. n /\ i - 1 \in m .. n /\ i # m
  BY DEF Rounds
<1> QED BY <1>1, <1>2

LEMMA RecursExists ==
    ASSUME NEW base, NEW step, NEW m, NEW n, Rounds(m, n)
    PROVE  \E f : Recurs(f, base, step, m, n)
<1> USE DEF Rounds
<1> DEFINE Without == {k \in Nat : m <= k /\ ~\E f : Recurs(f, base, step, m, k)}
<1>1. ASSUME Without # {} PROVE FALSE
  <2>1. PICK k \in Without : \A j \in Without : k <= j
    BY <1>1, LeastOf
  <2>2. CASE k = m
    <3> DEFINE f == [i \in m .. m |-> base]
    <3>1. f = [i \in m .. m |-> IF i = m THEN base ELSE step[i][f[i - 1]]]
      OBVIOUS
    <3> QED BY <2>1, <2>2, <3>1 DEF Recurs
  <2>3. CASE k # m
    <3>1. k \in Nat /\ m <= k - 1 /\ k - 1 \in Nat /\ ~(k <= k - 1)
      BY <2>1, <2>3
    <3>2. PICK g : Recurs(g, base, step, m, k - 1)
      BY <2>1, <3>1
    <3> DEFINE f == [i \in m .. k |-> IF i = k THEN step[k][g[k - 1]] ELSE g[i]]
    <3>3. \A i \in m .. k - 1 : g[i] = (IF i = m THEN base ELSE step[i][g[i - 1]])
      BY <3>2 DEF Recurs
    <3>4. ASSUME NEW i \in m .. k PROVE f[i] = (IF i = m THEN base ELSE step[i][f[i - 1]])
      <4>1. CASE i = k
        BY <2>3, <3>1, <4>1
      <4>2. CASE i # k
        <5>1. i \in m .. k - 1 /\ f[i] = g[i] /\ (i # m => f[i - 1] = g[i - 1])
          BY <3>1, <4>2
        <5> QED BY <3>3, <5>1
      <4> QED BY <4>1, <4>2
    <3>5. DOMAIN f = m .. k /\ f = [i \in m .. k |-> f[i]]
      OBVIOUS
    <3> HIDE DEF f
    <3>6. f = [i \in m .. k |-> IF i = m THEN base ELSE step[i][f[i - 1]]]
      BY <3>4, <3>5
    <3> QED BY <2>1, <3>6 DEF Recurs
  <2> QED BY <2>2, <2>3
<1> QED BY <1>1

Keeps(step, m, n, T) == \A i \in m + 1 .. n, x \in T : step[i][x] \in T

LEMMA RecursTyped ==
    ASSUME NEW f, NEW base, NEW step, NEW m, NEW n, Rounds(m, n), Recurs(f, base, step, m, n),
           NEW T, base \in T, Keeps(step, m, n, T)
    PROVE  \A i \in m .. n : f[i] \in T
<1> USE DEF Rounds
<1> DEFINE Out == {i \in Nat : i \in m .. n /\ f[i] \notin T}
<1>1. ASSUME Out # {} PROVE FALSE
  <2>1. PICK k \in Out : \A j \in Out : k <= j
    BY <1>1, LeastOf
  <2>2. f[m] = base /\ \A i \in m + 1 .. n : i - 1 \in m .. n /\ f[i] = step[i][f[i - 1]]
    BY RecursAt
  <2>3. k # m
    BY <2>1, <2>2
  <2>4. k \in m + 1 .. n /\ k - 1 \in Nat /\ ~(k <= k - 1)
    BY <2>1, <2>3
  <2>5. f[k - 1] \in T
    BY <2>1, <2>2, <2>4
  <2> QED BY <2>1, <2>2, <2>4, <2>5 DEF Keeps
<1> QED BY <1>1

LEMMA RecursAgree ==
    ASSUME NEW f, NEW g, NEW base, NEW step, NEW other, NEW m, NEW n, NEW k,
           Rounds(m, k), Rounds(k, n), Recurs(f, base, step, m, n), Recurs(g, base, other, m, k),
           \A i \in m + 1 .. k : other[i] = step[i]
    PROVE  \A i \in m .. k : f[i] = g[i]
<1> DEFINE Out == {i \in Nat : i \in m .. k /\ f[i] # g[i]}
<1>0. Rounds(m, n)
  BY DEF Rounds
<1>1. ASSUME Out # {} PROVE FALSE
  <2>1. PICK j \in Out : \A i \in Out : j <= i
    BY <1>1, LeastOf
  <2>2. f[m] = base /\ \A i \in m + 1 .. n : i - 1 \in m .. n /\ f[i] = step[i][f[i - 1]]
    BY <1>0, RecursAt
  <2>3. g[m] = base /\ \A i \in m + 1 .. k : i - 1 \in m .. k /\ g[i] = other[i][g[i - 1]]
    BY RecursAt
  <2>4. j # m
    BY <2>1, <2>2, <2>3
  <2>5. j \in m + 1 .. k /\ j \in m + 1 .. n /\ j - 1 \in Nat /\ ~(j <= j - 1)
    BY <2>1, <2>4 DEF Rounds
  <2>6. f[j - 1] = g[j - 1]
    BY <2>1, <2>3, <2>5 DEF Rounds
  <2> QED BY <2>1, <2>2, <2>3, <2>5, <2>6
<1> QED BY <1>1 DEF Rounds

Succeeds(next, n) == next = n + 1

LEMMA RecursNext ==
    ASSUME NEW f, NEW g, NEW base, NEW step, NEW other, NEW m, NEW n, NEW next, Rounds(m, n), Succeeds(next, n),
           Recurs(f, base, step, m, next), Recurs(g, base, other, m, n),
           \A i \in m + 1 .. n : other[i] = step[i]
    PROVE  f[next] = step[next][g[n]]
<1>1. Rounds(n, next) /\ Rounds(m, next) /\ n \in m .. n /\ next \in m + 1 .. next /\ next - 1 = n
  BY DEF Rounds, Succeeds
<1>2. f[n] = g[n]
  <2>1. \A i \in m .. n : f[i] = g[i]
    BY <1>1, RecursAgree
  <2> QED BY <1>1, <2>1
<1>3. f[next] = step[next][f[n]]
  <2>1. \A i \in m + 1 .. next : i - 1 \in m .. next /\ f[i] = step[i][f[i - 1]]
    BY <1>1, RecursAt
  <2> QED BY <1>1, <2>1
<1> QED BY <1>2, <1>3

-----------------------------------------------------------------------------
(* The sum of the first members of a list of numbers.                      *)
Numbers(s, n) == \A i \in 1 .. n : s[i] \in Int
Adding(s, n) == [i \in 1 .. n |-> [x \in Int |-> x + s[i]]]

LEMMA TotalIs ==
    ASSUME NEW s, NEW n \in Nat, Numbers(s, n)
    PROVE  \E f : Recurs(f, 0, Adding(s, n), 0, n) /\ Total(s, n) = f[n] /\ f[n] \in Int
<1> DEFINE IsSum(f) == f = [i \in 0 .. n |-> IF i = 0 THEN 0 ELSE f[i - 1] + s[i]]
           c == CHOOSE f : IsSum(f)
<1>1. \A i \in 1 .. n, x \in Int : Adding(s, n)[i][x] = x + s[i] /\ x + s[i] \in Int
  BY DEF Adding, Numbers
<1>0. Rounds(0, n)
  BY DEF Rounds
<1>2. PICK g : Recurs(g, 0, Adding(s, n), 0, n)
  BY <1>0, RecursExists
<1>3. \A i \in 0 .. n : g[i] \in Int
  <2>1. Keeps(Adding(s, n), 0, n, Int) /\ 0 \in Int
    BY <1>1 DEF Keeps
  <2> QED BY <1>0, <1>2, <2>1, RecursTyped
<1>4. IsSum(g)
  <2>1. g = [i \in 0 .. n |-> IF i = 0 THEN 0 ELSE Adding(s, n)[i][g[i - 1]]]
    BY <1>2 DEF Recurs
  <2>2. \A i \in 0 .. n : i # 0 => Adding(s, n)[i][g[i - 1]] = g[i - 1] + s[i]
    <3>1. \A i \in 0 .. n : i # 0 => i \in 1 .. n /\ i - 1 \in 0 .. n
      OBVIOUS
    <3> QED BY <1>1, <1>3, <3>1
  <2> QED BY <2>1, <2>2
<1>5. IsSum(c)
  BY <1>4
<1>6. Total(s, n) = c[n]
  BY Zenon DEF Total
<1> DEFINE T == Int \cup {c[i] : i \in 0 .. n}
           step == [i \in 1 .. n |-> [x \in T |-> x + s[i]]]
<1> HIDE DEF c
<1>7. Recurs(c, 0, step, 0, n)
  <2>1. \A i \in 0 .. n : i # 0 => step[i][c[i - 1]] = c[i - 1] + s[i]
    <3>1. \A i \in 0 .. n : i # 0 => i \in 1 .. n /\ i - 1 \in 0 .. n /\ c[i - 1] \in T
      OBVIOUS
    <3> QED BY <3>1
  <2>2. c = [i \in 0 .. n |-> IF i = 0 THEN 0 ELSE step[i][c[i - 1]]]
    BY <1>5, <2>1
  <2> QED BY <2>2 DEF Recurs
<1>8. \A i \in 0 .. n : c[i] \in Int
  <2>1. Keeps(step, 0, n, Int) /\ 0 \in Int
    BY <1>1 DEF Keeps
  <2> HIDE DEF step
  <2> QED BY <1>0, <1>7, <2>1, RecursTyped
<1>9. Recurs(c, 0, Adding(s, n), 0, n)
  <2>1. \A i \in 0 .. n : i # 0 => Adding(s, n)[i][c[i - 1]] = c[i - 1] + s[i]
    <3>1. \A i \in 0 .. n : i # 0 => i \in 1 .. n /\ i - 1 \in 0 .. n
      OBVIOUS
    <3> QED BY <1>1, <1>8, <3>1
  <2>2. c = [i \in 0 .. n |-> IF i = 0 THEN 0 ELSE Adding(s, n)[i][c[i - 1]]]
    BY <1>5, <2>1
  <2> QED BY <2>2 DEF Recurs
<1> QED BY <1>6, <1>8, <1>9

LEMMA TotalOfNone == ASSUME NEW s PROVE Total(s, 0) = 0
<1>1. 0 \in Nat /\ Numbers(s, 0) /\ Rounds(0, 0)
  BY DEF Numbers, Rounds
<1>2. PICK f : Recurs(f, 0, Adding(s, 0), 0, 0) /\ Total(s, 0) = f[0]
  BY <1>1, TotalIs
<1> QED BY <1>1, <1>2, RecursAt

LEMMA TotalNext ==
    ASSUME NEW s, NEW t, NEW n \in Nat, NEW next, Succeeds(next, n), Numbers(t, next),
           \A i \in 1 .. n : s[i] = t[i]
    PROVE  Total(t, next) = Total(s, n) + t[next]
<1>1. n \in Nat /\ next \in Nat /\ Rounds(0, n) /\ Numbers(s, n) /\ next \in 1 .. next /\ t[next] \in Int
      /\ \A i \in 1 .. n : i \in 1 .. next
  BY DEF Numbers, Rounds, Succeeds
<1>2. PICK f : Recurs(f, 0, Adding(t, next), 0, next) /\ Total(t, next) = f[next]
  BY <1>1, TotalIs
<1>3. PICK g : Recurs(g, 0, Adding(s, n), 0, n) /\ Total(s, n) = g[n] /\ g[n] \in Int
  BY <1>1, TotalIs
<1>4. ASSUME NEW i \in 0 + 1 .. n PROVE Adding(s, n)[i] = Adding(t, next)[i]
  <2>1. i \in 1 .. n /\ i \in 1 .. next /\ s[i] = t[i]
    BY <1>1
  <2>2. Adding(s, n)[i] = [x \in Int |-> x + s[i]] /\ Adding(t, next)[i] = [x \in Int |-> x + t[i]]
    BY <2>1 DEF Adding
  <2> QED BY <2>1, <2>2
<1>5. f[next] = Adding(t, next)[next][g[n]]
  BY <1>1, <1>2, <1>3, <1>4, RecursNext
<1>6. Adding(t, next)[next][g[n]] = g[n] + t[next]
  BY <1>1, <1>3 DEF Adding
<1> QED BY <1>2, <1>3, <1>5, <1>6

LEMMA TotalSame ==
    ASSUME NEW s, NEW t, NEW n \in Nat, Numbers(t, n), \A i \in 1 .. n : s[i] = t[i]
    PROVE  Total(s, n) = Total(t, n) /\ Total(s, n) \in Int
<1>1. Rounds(0, n) /\ Rounds(n, n) /\ Numbers(s, n) /\ n \in 0 .. n
  BY DEF Numbers, Rounds
<1>2. PICK f : Recurs(f, 0, Adding(t, n), 0, n) /\ Total(t, n) = f[n]
  BY TotalIs
<1>3. PICK g : Recurs(g, 0, Adding(s, n), 0, n) /\ Total(s, n) = g[n] /\ g[n] \in Int
  BY <1>1, TotalIs
<1>4. \A i \in 0 + 1 .. n : Adding(s, n)[i] = Adding(t, n)[i]
  BY DEF Adding
<1>5. \A i \in 0 .. n : f[i] = g[i]
  BY <1>1, <1>2, <1>3, <1>4, RecursAgree
<1> QED BY <1>1, <1>2, <1>3, <1>5

LEMMA TotalOfNaturals ==
    ASSUME NEW s, NEW n \in Nat, \A i \in 1 .. n : s[i] \in Nat
    PROVE  Total(s, n) \in Nat
<1>1. Rounds(0, n) /\ Numbers(s, n) /\ n \in 0 .. n /\ 0 \in Nat
  BY DEF Numbers, Rounds
<1>2. PICK f : Recurs(f, 0, Adding(s, n), 0, n) /\ Total(s, n) = f[n]
  BY <1>1, TotalIs
<1>3. Keeps(Adding(s, n), 0, n, Nat)
  <2>1. \A i \in 1 .. n, x \in Int : Adding(s, n)[i][x] = x + s[i]
    BY DEF Adding
  <2>2. \A i \in 1 .. n, x \in Nat : x \in Int /\ x + s[i] \in Nat
    OBVIOUS
  <2> QED BY <2>1, <2>2 DEF Keeps
<1>4. \A i \in 0 .. n : f[i] \in Nat
  BY <1>1, <1>2, <1>3, RecursTyped
<1> QED BY <1>1, <1>2, <1>4

-----------------------------------------------------------------------------
(* Wilder's average over two values, and the EMA, as they go on.           *)
Naturals(s, n) == \A i \in 1 .. n : s[i] \in Nat
Wilders(s, n) == [i \in 1 .. n |-> [x \in Nat |-> (x * (2 - 1) + s[i]) \div 2]]

LEMMA WilderIs ==
    ASSUME NEW s, NEW n, n = Len(s), Rounds(2, n), Naturals(s, n)
    PROVE  \E f : /\ Recurs(f, Total(s, 2) \div 2, Wilders(s, n), 2, n)
                  /\ Wilder(s, 2) = f[n] /\ f[n] \in Nat
<1> DEFINE seed == Total(s, 2) \div 2
           IsAvg(f) == f = [i \in 2 .. n |-> IF i = 2 THEN seed ELSE (f[i - 1] * (2 - 1) + s[i]) \div 2]
           c == CHOOSE f : IsAvg(f)
<1>1. \A i \in 1 .. n, x \in Nat : /\ Wilders(s, n)[i][x] = (x * (2 - 1) + s[i]) \div 2
                                   /\ (x * (2 - 1) + s[i]) \div 2 \in Nat
  <2>1. \A x, y \in Nat : (x * (2 - 1) + y) \div 2 \in Nat
    OBVIOUS
  <2> QED BY <2>1 DEF Wilders, Naturals
<1>2. seed \in Nat
  <2>1. Total(s, 2) \in Nat
    <3>1. 2 \in Nat /\ \A i \in 1 .. 2 : s[i] \in Nat
      BY DEF Naturals, Rounds
    <3> QED BY <3>1, TotalOfNaturals
  <2> QED BY <2>1
<1> HIDE DEF seed
<1>3. PICK g : Recurs(g, seed, Wilders(s, n), 2, n)
  BY RecursExists
<1>4. \A i \in 2 .. n : g[i] \in Nat
  <2>1. Keeps(Wilders(s, n), 2, n, Nat)
    <3>1. \A i \in 2 + 1 .. n : i \in 1 .. n
      BY DEF Rounds
    <3> QED BY <1>1, <3>1 DEF Keeps
  <2> QED BY <1>2, <1>3, <2>1, RecursTyped
<1>5. \A i \in 2 .. n : i # 2 => i \in 1 .. n /\ i - 1 \in 2 .. n
  BY DEF Rounds
<1>6. IsAvg(g)
  <2>1. g = [i \in 2 .. n |-> IF i = 2 THEN seed ELSE Wilders(s, n)[i][g[i - 1]]]
    BY <1>3 DEF Recurs
  <2>2. \A i \in 2 .. n : i # 2 => Wilders(s, n)[i][g[i - 1]] = (g[i - 1] * (2 - 1) + s[i]) \div 2
    BY <1>1, <1>4, <1>5
  <2> QED BY <2>1, <2>2
<1>7. IsAvg(c)
  BY <1>6
<1>8. Wilder(s, 2) = c[n]
  BY Zenon DEF Wilder, seed
<1> DEFINE T == Nat \cup {c[i] : i \in 2 .. n}
           step == [i \in 1 .. n |-> [x \in T |-> (x * (2 - 1) + s[i]) \div 2]]
<1> HIDE DEF c
<1>9. Recurs(c, seed, step, 2, n)
  <2>1. \A i \in 2 .. n : i # 2 => step[i][c[i - 1]] = (c[i - 1] * (2 - 1) + s[i]) \div 2
    <3>1. \A i \in 2 .. n : i # 2 => c[i - 1] \in T
      BY <1>5
    <3> QED BY <1>5, <3>1
  <2>2. c = [i \in 2 .. n |-> IF i = 2 THEN seed ELSE step[i][c[i - 1]]]
    BY <1>7, <2>1
  <2> QED BY <2>2 DEF Recurs
<1>10. \A i \in 2 .. n : c[i] \in Nat
  <2>1. Keeps(step, 2, n, Nat)
    <3>1. \A i \in 1 .. n, x \in Nat : step[i][x] = (x * (2 - 1) + s[i]) \div 2
      OBVIOUS
    <3> QED BY <1>1, <3>1 DEF Keeps
  <2> HIDE DEF step
  <2> QED BY <1>2, <1>9, <2>1, RecursTyped
<1>11. Recurs(c, seed, Wilders(s, n), 2, n)
  <2>1. \A i \in 2 .. n : i # 2 => Wilders(s, n)[i][c[i - 1]] = (c[i - 1] * (2 - 1) + s[i]) \div 2
    BY <1>1, <1>5, <1>10
  <2>2. c = [i \in 2 .. n |-> IF i = 2 THEN seed ELSE Wilders(s, n)[i][c[i - 1]]]
    BY <1>7, <2>1
  <2> QED BY <2>2 DEF Recurs
<1>12. c[n] \in Nat
  BY <1>10 DEF Rounds
<1> QED BY <1>8, <1>11, <1>12 DEF seed

LEMMA WilderFirst ==
    ASSUME NEW s, Len(s) = 2, Naturals(s, 2)
    PROVE  Wilder(s, 2) = Total(s, 2) \div 2
<1>1. Rounds(2, 2) /\ 2 = Len(s)
  BY DEF Rounds
<1>2. PICK f : Recurs(f, Total(s, 2) \div 2, Wilders(s, 2), 2, 2) /\ Wilder(s, 2) = f[2]
  BY <1>1, WilderIs
<1> QED BY <1>1, <1>2, RecursAt

LEMMA WilderNext ==
    ASSUME NEW s, NEW t, NEW n, NEW next, n = Len(s), next = Len(t), Rounds(2, n), Succeeds(next, n),
           Naturals(t, next), \A i \in 1 .. n : s[i] = t[i]
    PROVE  Wilder(t, 2) = (Wilder(s, 2) * (2 - 1) + t[next]) \div 2 /\ Wilder(s, 2) \in Nat
<1>1. /\ Rounds(2, next) /\ Naturals(s, n) /\ next \in 1 .. next /\ t[next] \in Nat
      /\ \A i \in 1 .. n : i \in 1 .. next
  BY DEF Naturals, Rounds, Succeeds
<1>2. Total(s, 2) = Total(t, 2)
  <2>1. 2 \in Nat /\ Numbers(t, 2) /\ \A i \in 1 .. 2 : s[i] = t[i]
    BY <1>1 DEF Naturals, Numbers, Rounds
  <2> QED BY <2>1, TotalSame
<1>3. PICK f : Recurs(f, Total(t, 2) \div 2, Wilders(t, next), 2, next) /\ Wilder(t, 2) = f[next]
  BY <1>1, WilderIs
<1>4. PICK g : /\ Recurs(g, Total(s, 2) \div 2, Wilders(s, n), 2, n)
               /\ Wilder(s, 2) = g[n] /\ g[n] \in Nat
  BY <1>1, WilderIs
<1>5. ASSUME NEW i \in 2 + 1 .. n PROVE Wilders(s, n)[i] = Wilders(t, next)[i]
  <2>1. i \in 1 .. n /\ i \in 1 .. next /\ s[i] = t[i]
    BY <1>1 DEF Rounds
  <2>2. /\ Wilders(s, n)[i] = [x \in Nat |-> (x * (2 - 1) + s[i]) \div 2]
        /\ Wilders(t, next)[i] = [x \in Nat |-> (x * (2 - 1) + t[i]) \div 2]
    BY <2>1 DEF Wilders
  <2> QED BY <2>1, <2>2
<1> DEFINE seed == Total(t, 2) \div 2
<1>6. Recurs(f, seed, Wilders(t, next), 2, next) /\ Recurs(g, seed, Wilders(s, n), 2, n)
  BY <1>2, <1>3, <1>4
<1> HIDE DEF seed
<1>7. f[next] = Wilders(t, next)[next][g[n]]
  BY <1>5, <1>6, RecursNext
<1>8. Wilders(t, next)[next][g[n]] = (g[n] * (2 - 1) + t[next]) \div 2
  BY <1>1, <1>4 DEF Wilders
<1> QED BY <1>3, <1>4, <1>7, <1>8

Emas(s, n, p) == [i \in 1 .. n |-> [x \in Nat |-> x + (2 * (s[i] - x)) \div (p + 1)]]

LEMMA EmaStep ==
    ASSUME NEW p \in {1, 3}, NEW x \in Nat, NEW y \in Nat
    PROVE  x + (2 * (y - x)) \div (p + 1) \in Nat
<1>1. CASE p = 1
  <2>1. (2 * (y - x)) \div 2 = y - x
    OBVIOUS
  <2> QED BY <1>1, <2>1
<1>2. CASE p = 3
  <2>1. (2 * (y - x)) \div 4 \in Int /\ 4 * ((2 * (y - x)) \div 4) > 2 * (y - x) - 4
    OBVIOUS
  <2>2. \A q \in Int : 4 * q > 2 * (y - x) - 4 => x + q \in Nat
    OBVIOUS
  <2> QED BY <1>2, <2>1, <2>2
<1> QED BY <1>1, <1>2

LEMMA EmaIs ==
    ASSUME NEW s, NEW n, NEW p \in {1, 3}, n = Len(s), Rounds(p, n), Naturals(s, n)
    PROVE  \E f : /\ Recurs(f, Total(s, p) \div p, Emas(s, n, p), p, n)
                  /\ Smoothed(s, p) = f[n] /\ f[n] \in Nat
<1> DEFINE seed == Total(s, p) \div p
           IsAvg(f) == f = [i \in p .. n |-> IF i = p THEN seed
                                             ELSE f[i - 1] + (2 * (s[i] - f[i - 1])) \div (p + 1)]
           c == CHOOSE f : IsAvg(f)
<1>1. \A i \in 1 .. n, x \in Nat : /\ Emas(s, n, p)[i][x] = x + (2 * (s[i] - x)) \div (p + 1)
                                   /\ x + (2 * (s[i] - x)) \div (p + 1) \in Nat
  <2>1. \A x, y \in Nat : x + (2 * (y - x)) \div (p + 1) \in Nat
    BY EmaStep
  <2> QED BY <2>1 DEF Emas, Naturals
<1>2. seed \in Nat
  <2>1. Total(s, p) \in Nat
    <3>1. p \in Nat /\ \A i \in 1 .. p : s[i] \in Nat
      BY DEF Naturals, Rounds
    <3> QED BY <3>1, TotalOfNaturals
  <2>2. Total(s, p) \div 1 \in Nat /\ Total(s, p) \div 3 \in Nat
    BY <2>1
  <2> QED BY <2>2
<1> HIDE DEF seed
<1>3. PICK g : Recurs(g, seed, Emas(s, n, p), p, n)
  BY RecursExists
<1>5. \A i \in p .. n : i # p => i \in 1 .. n /\ i - 1 \in p .. n
  BY DEF Rounds
<1>4. \A i \in p .. n : g[i] \in Nat
  <2>1. Keeps(Emas(s, n, p), p, n, Nat)
    <3>1. \A i \in p + 1 .. n : i \in 1 .. n
      BY DEF Rounds
    <3> QED BY <1>1, <3>1 DEF Keeps
  <2> QED BY <1>2, <1>3, <2>1, RecursTyped
<1>6. IsAvg(g)
  <2>1. g = [i \in p .. n |-> IF i = p THEN seed ELSE Emas(s, n, p)[i][g[i - 1]]]
    BY <1>3 DEF Recurs
  <2>2. \A i \in p .. n : i # p => Emas(s, n, p)[i][g[i - 1]] = g[i - 1] + (2 * (s[i] - g[i - 1])) \div (p + 1)
    BY <1>1, <1>4, <1>5
  <2> QED BY <2>1, <2>2
<1>7. IsAvg(c)
  BY <1>6
<1>8. Smoothed(s, p) = c[n]
  BY Zenon DEF Smoothed, seed
<1> DEFINE T == Nat \cup {c[i] : i \in p .. n}
           step == [i \in 1 .. n |-> [x \in T |-> x + (2 * (s[i] - x)) \div (p + 1)]]
<1> HIDE DEF c
<1>9. Recurs(c, seed, step, p, n)
  <2>1. \A i \in p .. n : i # p => step[i][c[i - 1]] = c[i - 1] + (2 * (s[i] - c[i - 1])) \div (p + 1)
    <3>1. \A i \in p .. n : i # p => c[i - 1] \in T
      BY <1>5
    <3> QED BY <1>5, <3>1
  <2>2. c = [i \in p .. n |-> IF i = p THEN seed ELSE step[i][c[i - 1]]]
    BY <1>7, <2>1
  <2> QED BY <2>2 DEF Recurs
<1>10. \A i \in p .. n : c[i] \in Nat
  <2>1. Keeps(step, p, n, Nat)
    <3>1. \A i \in 1 .. n, x \in Nat : step[i][x] = x + (2 * (s[i] - x)) \div (p + 1)
      OBVIOUS
    <3>2. \A i \in p + 1 .. n : i \in 1 .. n
      BY DEF Rounds
    <3> HIDE DEF step
    <3> QED BY <1>1, <3>1, <3>2 DEF Keeps
  <2> HIDE DEF step
  <2> QED BY <1>2, <1>9, <2>1, RecursTyped
<1>11. Recurs(c, seed, Emas(s, n, p), p, n)
  <2>1. \A i \in p .. n : i # p => Emas(s, n, p)[i][c[i - 1]] = c[i - 1] + (2 * (s[i] - c[i - 1])) \div (p + 1)
    BY <1>1, <1>5, <1>10
  <2>2. c = [i \in p .. n |-> IF i = p THEN seed ELSE Emas(s, n, p)[i][c[i - 1]]]
    BY <1>7, <2>1
  <2> QED BY <2>2 DEF Recurs
<1>12. c[n] \in Nat
  BY <1>10 DEF Rounds
<1> QED BY <1>8, <1>11, <1>12 DEF seed

LEMMA EmaFirst ==
    ASSUME NEW s, NEW p \in {1, 3}, Len(s) = p, Naturals(s, p)
    PROVE  Smoothed(s, p) = Total(s, p) \div p
<1>1. Rounds(p, p) /\ p = Len(s)
  BY DEF Rounds
<1>2. PICK f : Recurs(f, Total(s, p) \div p, Emas(s, p, p), p, p) /\ Smoothed(s, p) = f[p]
  BY <1>1, EmaIs
<1> QED BY <1>1, <1>2, RecursAt

EmaAfter(x, y, p) == x + (2 * (y - x)) \div (p + 1)
FastOrSlow(p) == p \in {1, 3}

LEMMA EmaNext ==
    ASSUME NEW s, NEW t, NEW n, NEW next, NEW p, FastOrSlow(p), n = Len(s), next = Len(t), Rounds(p, n),
           Succeeds(next, n), Naturals(t, next), \A i \in 1 .. n : s[i] = t[i]
    PROVE  Smoothed(t, p) = EmaAfter(Smoothed(s, p), t[next], p) /\ Smoothed(s, p) \in Nat
<1>0. p \in {1, 3}
  BY DEF FastOrSlow
<1>1. /\ Rounds(p, next) /\ Naturals(s, n) /\ next \in 1 .. next /\ t[next] \in Nat
      /\ \A i \in 1 .. n : i \in 1 .. next
  BY DEF Naturals, Rounds, Succeeds
<1>2. Total(s, p) = Total(t, p)
  <2>1. p \in Nat /\ Numbers(t, p) /\ \A i \in 1 .. p : s[i] = t[i]
    BY <1>0, <1>1 DEF Naturals, Numbers, Rounds
  <2> QED BY <2>1, TotalSame
<1>3. PICK f : Recurs(f, Total(t, p) \div p, Emas(t, next, p), p, next) /\ Smoothed(t, p) = f[next]
  BY <1>0, <1>1, EmaIs
<1>4. PICK g : /\ Recurs(g, Total(s, p) \div p, Emas(s, n, p), p, n)
               /\ Smoothed(s, p) = g[n] /\ g[n] \in Nat
  BY <1>0, <1>1, EmaIs
<1>5. ASSUME NEW i \in p + 1 .. n PROVE Emas(s, n, p)[i] = Emas(t, next, p)[i]
  <2>1. i \in 1 .. n /\ i \in 1 .. next /\ s[i] = t[i]
    BY <1>1 DEF Rounds
  <2>2. /\ Emas(s, n, p)[i] = [x \in Nat |-> x + (2 * (s[i] - x)) \div (p + 1)]
        /\ Emas(t, next, p)[i] = [x \in Nat |-> x + (2 * (t[i] - x)) \div (p + 1)]
    BY <2>1 DEF Emas
  <2> QED BY <2>1, <2>2
<1> DEFINE seed == Total(t, p) \div p
<1>6. Recurs(f, seed, Emas(t, next, p), p, next) /\ Recurs(g, seed, Emas(s, n, p), p, n)
  BY <1>2, <1>3, <1>4
<1> HIDE DEF seed
<1>7. f[next] = Emas(t, next, p)[next][g[n]]
  BY <1>5, <1>6, RecursNext
<1>8. Emas(t, next, p)[next][g[n]] = g[n] + (2 * (t[next] - g[n])) \div (p + 1)
  BY <1>1, <1>4 DEF Emas
<1> QED BY <1>3, <1>4, <1>7, <1>8 DEF EmaAfter

-----------------------------------------------------------------------------
(* A list of numbers and the same with one more: what build_indicator_table*)
(* carries over it is what the functions of indicators.py compute afresh.  *)
GoesOn(s, t, n) ==
    /\ n \in Nat /\ Len(s) = n /\ Len(t) = n + 1
    /\ Naturals(t, n + 1) /\ \A i \in 1 .. n : s[i] = t[i]

Average(s) == IF Len(s) < 2 THEN Unknown ELSE Wilder(s, 2)

LEMMA TotalGoesOn ==
    ASSUME NEW s, NEW t, NEW n, GoesOn(s, t, n)
    PROVE  Total(t, n + 1) = Total(s, n) + t[n + 1] /\ Total(t, n + 1) \in Nat /\ t[n + 1] \in Nat
<1> DEFINE next == n + 1
<1>1. /\ n \in Nat /\ next \in Nat /\ Succeeds(next, n) /\ Numbers(t, next)
      /\ \A i \in 1 .. n : s[i] = t[i]
  BY DEF GoesOn, Succeeds, Naturals, Numbers
<1>2. (\A i \in 1 .. next : t[i] \in Nat) /\ t[next] \in Nat
  BY DEF GoesOn, Naturals
<1> HIDE DEF next
<1>3. Total(t, next) = Total(s, n) + t[next]
  BY <1>1, TotalNext
<1>4. Total(t, next) \in Nat
  BY <1>1, <1>2, TotalOfNaturals
<1> QED BY <1>2, <1>3, <1>4 DEF next

LEMMA AverageGoesOn ==
    ASSUME NEW s, NEW t, NEW n, GoesOn(s, t, n)
    PROVE  /\ Carried(Average(s), n + 1, Total(t, n + 1), t[n + 1], 2) = Average(t)
           /\ Average(t) \in Nat \cup {Unknown}
<1> DEFINE next == n + 1
<1>1. n \in Nat /\ Len(s) = n /\ Len(t) = next /\ next = n + 1
  BY DEF GoesOn
<1>2. Naturals(t, next) /\ Succeeds(next, n) /\ \A i \in 1 .. n : s[i] = t[i]
  BY DEF GoesOn, Succeeds
<1>3. Total(t, next) \in Nat /\ t[next] \in Nat
  BY TotalGoesOn
<1> HIDE DEF next
<1>4. CASE n = 0
  <2>1. Average(s) = Unknown /\ Average(t) = Unknown /\ next # 2
    BY <1>1, <1>4 DEF Average
  <2> QED BY <1>1, <2>1 DEF Carried
<1>5. CASE n = 1
  <2>1. next = 2 /\ Len(t) = 2 /\ Naturals(t, 2)
    BY <1>1, <1>2, <1>5
  <2>2. Wilder(t, 2) = Total(t, 2) \div 2
    BY <2>1, WilderFirst
  <2>3. Average(t) = Wilder(t, 2)
    BY <2>1 DEF Average
  <2>4. Total(t, 2) \div 2 \in Nat
    BY <1>3, <2>1
  <2>5. Carried(Average(s), 2, Total(t, 2), t[2], 2) = Total(t, 2) \div 2
    BY DEF Carried
  <2> QED BY <1>1, <2>1, <2>2, <2>3, <2>4, <2>5
<1>6. CASE n > 1
  <2>1. Rounds(2, n) /\ n = Len(s) /\ next = Len(t)
    BY <1>1, <1>6 DEF Rounds
  <2>2. Wilder(t, 2) = (Wilder(s, 2) * (2 - 1) + t[next]) \div 2 /\ Wilder(s, 2) \in Nat
    BY <1>2, <2>1, WilderNext
  <2>3. Average(s) = Wilder(s, 2) /\ Average(t) = Wilder(t, 2) /\ Average(s) # Unknown /\ next # 2
    BY <1>1, <1>6, <2>2 DEF Average, Unknown
  <2>4. (Wilder(s, 2) * (2 - 1) + t[next]) \div 2 \in Nat
    BY <1>3, <2>2
  <2>5. Carried(Average(s), next, Total(t, next), t[next], 2) = (Average(s) * (2 - 1) + t[next]) \div 2
    BY <2>3 DEF Carried
  <2> QED BY <1>1, <2>2, <2>3, <2>4, <2>5
<1> QED BY <1>1, <1>4, <1>5, <1>6

AverageOf(s, p) == IF Len(s) < p THEN Unknown ELSE Smoothed(s, p)

LEMMA EmaGoesOn ==
    ASSUME NEW s, NEW t, NEW n, GoesOn(s, t, n)
    PROVE  /\ CarriedEma(AverageOf(s, 3), n + 1, Total(t, n + 1), t[n + 1]) = AverageOf(t, 3)
           /\ AverageOf(t, 3) \in Nat \cup {Unknown}
<1> DEFINE next == n + 1
<1>1. n \in Nat /\ Len(s) = n /\ Len(t) = next /\ next = n + 1
  BY DEF GoesOn
<1>2. Naturals(t, next) /\ Succeeds(next, n) /\ \A i \in 1 .. n : s[i] = t[i]
  BY DEF GoesOn, Succeeds
<1>3. Total(t, next) \in Nat /\ t[next] \in Nat
  BY TotalGoesOn
<1> HIDE DEF next
<1>4. CASE n < 2
  <2>1. AverageOf(s, 3) = Unknown /\ AverageOf(t, 3) = Unknown /\ next # 3
    BY <1>1, <1>4 DEF AverageOf
  <2> QED BY <1>1, <2>1 DEF CarriedEma, TrendPeriod
<1>5. CASE n = 2
  <2>1. next = 3 /\ Len(t) = 3 /\ Naturals(t, 3) /\ 3 \in {1, 3}
    BY <1>1, <1>2, <1>5
  <2>2. Smoothed(t, 3) = Total(t, 3) \div 3
    BY <2>1, EmaFirst
  <2>3. AverageOf(t, 3) = Smoothed(t, 3)
    BY <2>1 DEF AverageOf
  <2>4. Total(t, 3) \div 3 \in Nat
    BY <1>3, <2>1
  <2>5. CarriedEma(AverageOf(s, 3), 3, Total(t, 3), t[3]) = Total(t, 3) \div 3
    BY DEF CarriedEma, TrendPeriod
  <2> QED BY <1>1, <2>1, <2>2, <2>3, <2>4, <2>5
<1>6. CASE n > 2
  <2>1. Rounds(3, n) /\ n = Len(s) /\ next = Len(t) /\ 3 \in {1, 3}
    BY <1>1, <1>6 DEF Rounds
  <2>2. /\ Smoothed(t, 3) = Smoothed(s, 3) + (2 * (t[next] - Smoothed(s, 3))) \div (3 + 1)
        /\ Smoothed(s, 3) \in Nat
    <3>1. FastOrSlow(3)
      BY DEF FastOrSlow
    <3>2. Smoothed(t, 3) = EmaAfter(Smoothed(s, 3), t[next], 3) /\ Smoothed(s, 3) \in Nat
      BY <1>2, <2>1, <3>1, EmaNext
    <3> QED BY <3>2 DEF EmaAfter
  <2>3. AverageOf(s, 3) = Smoothed(s, 3) /\ AverageOf(t, 3) = Smoothed(t, 3) /\ AverageOf(s, 3) # Unknown /\ next # 3
    BY <1>1, <1>6, <2>2 DEF AverageOf, Unknown
  <2>4. Smoothed(s, 3) + (2 * (t[next] - Smoothed(s, 3))) \div (3 + 1) \in Nat
    BY <1>3, <2>1, <2>2, EmaStep
  <2>5. CarriedEma(AverageOf(s, 3), next, Total(t, next), t[next])
          = AverageOf(s, 3) + (2 * (t[next] - AverageOf(s, 3))) \div (3 + 1)
    BY <2>3 DEF CarriedEma, TrendPeriod
  <2> QED BY <1>1, <2>2, <2>3, <2>4, <2>5
<1> QED BY <1>1, <1>4, <1>5, <1>6

LEMMA GainIs == ASSUME NEW x \in Int PROVE Gain(x) \in Nat
<1>1. \E y \in {x, 0} : \A z \in {x, 0} : z <= y
  BY (x <= 0) \/ (0 <= x)
<1>2. Gain(x) \in {x, 0} /\ \A z \in {x, 0} : z <= Gain(x)
  BY <1>1 DEF Gain, Greatest
<1> QED BY <1>2

LEMMA GreatestOfThree ==
    ASSUME NEW x \in Int, NEW y \in Int, NEW z \in Int
    PROVE  Greatest({x, y, z}) \in {x, y, z} /\ \A w \in {x, y, z} : w <= Greatest({x, y, z})
<1>1. \E u \in {x, y, z} : \A w \in {x, y, z} : w <= u
  <2>1. CASE x <= y /\ z <= y
    BY <2>1
  <2>2. CASE y <= x /\ z <= x
    BY <2>2
  <2>3. CASE x <= z /\ y <= z
    BY <2>3
  <2> QED BY <2>1, <2>2, <2>3
<1> QED BY <1>1 DEF Greatest

LEMMA SizeIs == ASSUME NEW x \in Int PROVE Size(x) \in Nat
<1>1. \E y \in {x, -x} : \A z \in {x, -x} : z <= y
  <2>1. CASE x <= 0
    BY <2>1
  <2>2. CASE 0 <= x
    BY <2>2
  <2> QED BY <2>1, <2>2
<1>2. Size(x) \in {x, -x} /\ \A z \in {x, -x} : z <= Size(x)
  BY <1>1 DEF Size, Greatest
<1> QED BY <1>2

BarType == [at : 0 .. MaxHour, open : Closes, close : Closes, high : Int, low : Int]

LEMMA ClosesArePrices == \A p \in Closes : p \in Nat /\ p > 0
BY BarAssumption

LEMMA TrueRangeIs == ASSUME NEW b \in BarType, NEW c \in BarType PROVE TrueRange(b, c) \in Nat
<1> DEFINE x == b.high - b.low
           y == Size(b.high - c.close)
           z == Size(b.low - c.close)
<1>1. b.high \in Int /\ b.low \in Int /\ c.close \in Int
  <2>1. b.high \in Int /\ b.low \in Int /\ c.close \in Closes
    BY DEF BarType
  <2> QED BY <2>1, ClosesArePrices
<1>2. x \in Int /\ y \in Int /\ z \in Int /\ y \in Nat
  <2>1. b.high - b.low \in Int /\ b.high - c.close \in Int /\ b.low - c.close \in Int
    BY <1>1
  <2> QED BY <2>1, SizeIs
<1>3. TrueRange(b, c) = Greatest({x, y, z})
  BY DEF TrueRange
<1> HIDE DEF x, y, z
<1>4. Greatest({x, y, z}) \in {x, y, z} /\ \A w \in {x, y, z} : w <= Greatest({x, y, z})
  BY <1>2, GreatestOfThree
<1> QED BY <1>2, <1>3, <1>4

Heeds(u, ts, t) == u = Append(ts, t)

LEMMA OneMoreBar ==
    ASSUME NEW h \in Seq(BarType), NEW b \in BarType, NEW u, Heeds(u, h, b)
    PROVE  /\ u \in Seq(BarType) /\ Len(u) = Len(h) + 1 /\ Len(h) \in Nat /\ DOMAIN u = 1 .. Len(u)
           /\ u[Len(h) + 1] = b /\ u # <<>>
           /\ \A i \in 1 .. Len(h) : u[i] = h[i] /\ h[i] \in BarType
<1>1. /\ u \in Seq(BarType) /\ Len(u) = Len(h) + 1 /\ Len(h) \in Nat /\ u[Len(h) + 1] = b
      /\ \A i \in 1 .. Len(h) : u[i] = h[i] /\ h[i] \in BarType
  BY AppendProperties, ElementOfSeq DEF Heeds
<1> QED BY <1>1, LenProperties, EmptySeq

LEMMA ChangesGoOn ==
    ASSUME NEW h \in Seq(BarType), NEW b \in BarType, NEW u, Heeds(u, h, b), h # <<>>
    PROVE  /\ GoesOn(TrueRanges(h), TrueRanges(u), Len(h) - 1)
           /\ GoesOn(Gains(h), Gains(u), Len(h) - 1)
           /\ GoesOn(Losses(h), Losses(u), Len(h) - 1)
           /\ TrueRanges(u)[Len(h)] = TrueRange(b, Last(h))
           /\ Gains(u)[Len(h)] = Gain(b.close - Last(h).close)
           /\ Losses(u)[Len(h)] = Gain(Last(h).close - b.close)
<1>1. /\ u \in Seq(BarType) /\ Len(u) = Len(h) + 1 /\ Len(h) \in Nat /\ u[Len(h) + 1] = b
      /\ \A i \in 1 .. Len(h) : u[i] = h[i] /\ h[i] \in BarType
  BY OneMoreBar
<1>2. Len(h) # 0
  BY EmptySeq
<1>3. PICK n \in Nat : n >= 1 /\ Len(h) = n /\ Len(u) = n + 1
  BY <1>1, <1>2
<1>4. u[n + 1] = b /\ Last(h) = h[n] /\ u[n] = h[n]
  BY <1>1, <1>3 DEF Last
<1>5. \A i \in 1 .. n + 1 : u[i] \in BarType
  BY <1>1, <1>3, ElementOfSeq
<1>6. \A i \in 1 .. n - 1 : u[i] = h[i] /\ u[i + 1] = h[i + 1]
  BY <1>1, <1>3
<1>7. \A i \in 1 .. n : i + 1 \in 1 .. n + 1 /\ i \in 1 .. n + 1
  OBVIOUS
<1>8. \A i \in 1 .. n : u[i].close \in Int /\ u[i + 1].close \in Int
  <2>1. \A i \in 1 .. n + 1 : u[i].close \in Closes
    BY <1>5 DEF BarType
  <2>2. \A i \in 1 .. n + 1 : u[i].close \in Nat
    BY <2>1, ClosesArePrices
  <2> QED BY <1>7, <2>2
<1>9. n - 1 \in Nat /\ (n - 1) + 1 = n /\ (n + 1) - 1 = n /\ n \in 1 .. n
  BY <1>3
<1>10. GoesOn(TrueRanges(h), TrueRanges(u), n - 1) /\ TrueRanges(u)[n] = TrueRange(b, Last(h))
  <2>1. TrueRanges(h) = [i \in 1 .. n - 1 |-> TrueRange(h[i + 1], h[i])]
    BY <1>3 DEF TrueRanges
  <2>2. TrueRanges(u) = [i \in 1 .. n |-> TrueRange(u[i + 1], u[i])]
    BY <1>3, <1>9 DEF TrueRanges
  <2>3. Len(TrueRanges(h)) = n - 1 /\ Len(TrueRanges(u)) = n
    BY <1>9, <2>1, <2>2
  <2>4. \A i \in 1 .. n : TrueRanges(u)[i] \in Nat
    <3>1. \A i \in 1 .. n : TrueRange(u[i + 1], u[i]) \in Nat
      BY <1>5, <1>7, TrueRangeIs
    <3> QED BY <2>2, <3>1
  <2>5. \A i \in 1 .. n - 1 : TrueRanges(h)[i] = TrueRanges(u)[i]
    <3>1. \A i \in 1 .. n - 1 : i \in 1 .. n
      BY <1>3
    <3> QED BY <1>6, <2>1, <2>2, <3>1
  <2>6. TrueRanges(u)[n] = TrueRange(b, Last(h))
    BY <1>4, <1>9, <2>2
  <2> QED BY <1>9, <2>3, <2>4, <2>5, <2>6 DEF GoesOn, Naturals
<1>11. GoesOn(Gains(h), Gains(u), n - 1) /\ Gains(u)[n] = Gain(b.close - Last(h).close)
  <2>1. Gains(h) = [i \in 1 .. n - 1 |-> Gain(h[i + 1].close - h[i].close)]
    BY <1>3 DEF Gains
  <2>2. Gains(u) = [i \in 1 .. n |-> Gain(u[i + 1].close - u[i].close)]
    BY <1>3, <1>9 DEF Gains
  <2>3. Len(Gains(h)) = n - 1 /\ Len(Gains(u)) = n
    BY <1>9, <2>1, <2>2
  <2>4. \A i \in 1 .. n : Gains(u)[i] \in Nat
    <3>1. \A i \in 1 .. n : u[i + 1].close - u[i].close \in Int
      BY <1>8
    <3>2. \A i \in 1 .. n : Gain(u[i + 1].close - u[i].close) \in Nat
      BY <3>1, GainIs
    <3> QED BY <2>2, <3>2
  <2>5. \A i \in 1 .. n - 1 : Gains(h)[i] = Gains(u)[i]
    <3>1. \A i \in 1 .. n - 1 : i \in 1 .. n
      BY <1>3
    <3> QED BY <1>6, <2>1, <2>2, <3>1
  <2>6. Gains(u)[n] = Gain(b.close - Last(h).close)
    BY <1>4, <1>9, <2>2
  <2> QED BY <1>9, <2>3, <2>4, <2>5, <2>6 DEF GoesOn, Naturals
<1>12. GoesOn(Losses(h), Losses(u), n - 1) /\ Losses(u)[n] = Gain(Last(h).close - b.close)
  <2>1. Losses(h) = [i \in 1 .. n - 1 |-> Gain(h[i].close - h[i + 1].close)]
    BY <1>3 DEF Losses
  <2>2. Losses(u) = [i \in 1 .. n |-> Gain(u[i].close - u[i + 1].close)]
    BY <1>3, <1>9 DEF Losses
  <2>3. Len(Losses(h)) = n - 1 /\ Len(Losses(u)) = n
    BY <1>9, <2>1, <2>2
  <2>4. \A i \in 1 .. n : Losses(u)[i] \in Nat
    <3>1. \A i \in 1 .. n : u[i].close - u[i + 1].close \in Int
      BY <1>8
    <3>2. \A i \in 1 .. n : Gain(u[i].close - u[i + 1].close) \in Nat
      BY <3>1, GainIs
    <3> QED BY <2>2, <3>2
  <2>5. \A i \in 1 .. n - 1 : Losses(h)[i] = Losses(u)[i]
    <3>1. \A i \in 1 .. n - 1 : i \in 1 .. n
      BY <1>3
    <3> QED BY <1>6, <2>1, <2>2, <3>1
  <2>6. Losses(u)[n] = Gain(Last(h).close - b.close)
    BY <1>4, <1>9, <2>2
  <2> QED BY <1>9, <2>3, <2>4, <2>5, <2>6 DEF GoesOn, Naturals
<1> QED BY <1>3, <1>10, <1>11, <1>12

LEMMA ClosesGoOn ==
    ASSUME NEW h \in Seq(BarType), NEW b \in BarType, NEW u, Heeds(u, h, b)
    PROVE  GoesOn(ClosesOf(h), ClosesOf(u), Len(h)) /\ ClosesOf(u)[Len(h) + 1] = b.close
<1>1. /\ u \in Seq(BarType) /\ Len(u) = Len(h) + 1 /\ Len(h) \in Nat /\ u[Len(h) + 1] = b
      /\ \A i \in 1 .. Len(h) : u[i] = h[i] /\ h[i] \in BarType
  BY OneMoreBar
<1>2. PICK n \in Nat : Len(h) = n /\ Len(u) = n + 1
  BY <1>1
<1>3. \A i \in 1 .. n + 1 : u[i].close \in Nat
  <2>1. \A i \in 1 .. n + 1 : u[i] \in BarType
    BY <1>1, <1>2, ElementOfSeq
  <2>2. \A i \in 1 .. n + 1 : u[i].close \in Closes
    BY <2>1 DEF BarType
  <2> QED BY <2>2, ClosesArePrices
<1>4. ClosesOf(h) = [i \in 1 .. n |-> h[i].close] /\ ClosesOf(u) = [i \in 1 .. n + 1 |-> u[i].close]
  BY <1>2 DEF ClosesOf
<1>5. Len(ClosesOf(h)) = n /\ Len(ClosesOf(u)) = n + 1
  BY <1>4
<1>6. \A i \in 1 .. n : ClosesOf(h)[i] = ClosesOf(u)[i]
  <2>1. \A i \in 1 .. n : i \in 1 .. n + 1 /\ u[i] = h[i]
    BY <1>1, <1>2
  <2> QED BY <1>4, <2>1
<1>7. \A i \in 1 .. n + 1 : ClosesOf(u)[i] \in Nat
  BY <1>3, <1>4
<1>8. ClosesOf(u)[n + 1] = b.close
  <2>1. n + 1 \in 1 .. n + 1 /\ u[n + 1] = b
    BY <1>1, <1>2
  <2> QED BY <1>4, <2>1
<1> QED BY <1>2, <1>5, <1>6, <1>7, <1>8 DEF GoesOn, Naturals

(* The entry that is carried is that of the whole series.                  *)
ChangesCarried(e, h) ==
    /\ e.sums.range = Total(TrueRanges(h), Len(h) - 1) /\ e.atr = Average(TrueRanges(h))
    /\ e.sums.gain = Total(Gains(h), Len(h) - 1) /\ e.gain = Average(Gains(h))
    /\ e.sums.loss = Total(Losses(h), Len(h) - 1) /\ e.loss = Average(Losses(h))

ClosesCarried(e, h) ==
    /\ e.n = Len(h) /\ e.sums.close = Total(ClosesOf(h), Len(h))
    /\ e.ema = AverageOf(ClosesOf(h), 3)

EntryOK ==
    /\ bars \in Seq(BarType)
    /\ ClosesCarried(entry, bars)
    /\ bars = <<>> => entry = NoEntry
    /\ bars # <<>> => ChangesCarried(entry, bars)

LEMMA NextEntryIs ==
    ASSUME NEW e, NEW b
    PROVE  /\ NextEntry(e, b).n = e.n + 1
           /\ NextEntry(e, b).sums.close = e.sums.close + b.close
           /\ NextEntry(e, b).ema = CarriedEma(e.ema, e.n + 1, e.sums.close + b.close, b.close)
<1> QED BY DEF NextEntry

LEMMA NextChangesAre ==
    ASSUME NEW e, NEW b, bars # <<>>
    PROVE  LET r == TrueRange(b, Last(bars))
               up == Gain(b.close - Last(bars).close)
               down == Gain(0 - (b.close - Last(bars).close))
               now == NextEntry(e, b)
           IN /\ now.sums.range = e.sums.range + r /\ now.atr = Carried(e.atr, e.n, e.sums.range + r, r, 2)
              /\ now.sums.gain = e.sums.gain + up /\ now.gain = Carried(e.gain, e.n, e.sums.gain + up, up, 2)
              /\ now.sums.loss = e.sums.loss + down /\ now.loss = Carried(e.loss, e.n, e.sums.loss + down, down, 2)
<1> QED BY DEF NextEntry, AtrPeriod, RsiPeriod

LEMMA FirstChangesAre ==
    ASSUME NEW b, bars = <<>>
    PROVE  LET now == NextEntry(NoEntry, b)
           IN /\ now.sums.range = 0 /\ now.sums.gain = 0 + Gain(0) /\ now.sums.loss = 0 + Gain(0 - 0)
              /\ now.atr = Unknown /\ now.gain = Unknown /\ now.loss = Unknown
<1> QED BY DEF NextEntry, NoEntry, Carried, Unknown, AtrPeriod, RsiPeriod

LEMMA SeriesAreNaturals ==
    ASSUME NEW h \in Seq(BarType), h # <<>>
    PROVE  /\ Len(h) \in Nat \ {0} /\ Len(h) - 1 \in Nat
           /\ Naturals(ClosesOf(h), Len(h)) /\ Len(ClosesOf(h)) = Len(h)
           /\ Naturals(Gains(h), Len(h) - 1) /\ Len(Gains(h)) = Len(h) - 1
           /\ Naturals(Losses(h), Len(h) - 1) /\ Len(Losses(h)) = Len(h) - 1
           /\ Len(TrueRanges(h)) = Len(h) - 1
<1>1. PICK n \in Nat : n # 0 /\ Len(h) = n
  BY LenProperties, EmptySeq
<1>2. \A i \in 1 .. n : h[i].close \in Nat
  <2>1. \A i \in 1 .. n : h[i] \in BarType
    BY <1>1, ElementOfSeq
  <2>2. \A i \in 1 .. n : h[i].close \in Closes
    BY <2>1 DEF BarType
  <2> QED BY <2>2, ClosesArePrices
<1>3. n - 1 \in Nat /\ \A i \in 1 .. n - 1 : i \in 1 .. n /\ i + 1 \in 1 .. n
  BY <1>1
<1>4. Naturals(ClosesOf(h), n) /\ Len(ClosesOf(h)) = n
  <2>1. ClosesOf(h) = [i \in 1 .. n |-> h[i].close]
    BY <1>1 DEF ClosesOf
  <2> QED BY <1>2, <2>1 DEF Naturals
<1>5. Naturals(Gains(h), n - 1) /\ Len(Gains(h)) = n - 1
  <2>1. Gains(h) = [i \in 1 .. n - 1 |-> Gain(h[i + 1].close - h[i].close)]
    BY <1>1 DEF Gains
  <2>2. \A i \in 1 .. n - 1 : h[i + 1].close - h[i].close \in Int
    BY <1>2, <1>3
  <2>3. \A i \in 1 .. n - 1 : Gain(h[i + 1].close - h[i].close) \in Nat
    BY <2>2, GainIs
  <2> QED BY <1>3, <2>1, <2>3 DEF Naturals
<1>6. Naturals(Losses(h), n - 1) /\ Len(Losses(h)) = n - 1
  <2>1. Losses(h) = [i \in 1 .. n - 1 |-> Gain(h[i].close - h[i + 1].close)]
    BY <1>1 DEF Losses
  <2>2. \A i \in 1 .. n - 1 : h[i].close - h[i + 1].close \in Int
    BY <1>2, <1>3
  <2>3. \A i \in 1 .. n - 1 : Gain(h[i].close - h[i + 1].close) \in Nat
    BY <2>2, GainIs
  <2> QED BY <1>3, <2>1, <2>3 DEF Naturals
<1>7. Len(TrueRanges(h)) = n - 1
  <2>1. TrueRanges(h) = [i \in 1 .. n - 1 |-> TrueRange(h[i + 1], h[i])]
    BY <1>1 DEF TrueRanges
  <2> QED BY <1>3, <2>1
<1> QED BY <1>1, <1>3, <1>4, <1>5, <1>6, <1>7

LEMMA WilderIsNatural ==
    ASSUME NEW s, NEW n, n = Len(s), n \in Nat, Naturals(s, n)
    PROVE  n >= 2 => Wilder(s, 2) \in Nat
<1>1. ASSUME n >= 2 PROVE Wilder(s, 2) \in Nat
  <2>1. Rounds(2, n)
    BY <1>1 DEF Rounds
  <2> QED BY <2>1, WilderIs
<1> QED BY <1>1

LEMMA EntryStep ==
    ASSUME EntryOK, NEW b \in BarType, bars' = Append(bars, b), entry' = NextEntry(entry, b)
    PROVE  EntryOK'
<1> DEFINE h == bars
           u == bars'
           e == entry
           now == NextEntry(e, b)
           n == Len(h)
<1>1. h \in Seq(BarType) /\ Heeds(u, h, b) /\ ClosesCarried(e, h) /\ now = entry'
  BY DEF EntryOK, Heeds
<1>2. u \in Seq(BarType) /\ Len(u) = n + 1 /\ n \in Nat /\ u # <<>>
  BY <1>1, OneMoreBar
<1> HIDE DEF h, u, e, now, n
<1>3. ClosesCarried(now, u)
  <2>1. GoesOn(ClosesOf(h), ClosesOf(u), n) /\ ClosesOf(u)[n + 1] = b.close
    BY <1>1, ClosesGoOn DEF n
  <2>2. Total(ClosesOf(u), n + 1) = Total(ClosesOf(h), n) + b.close
    BY <2>1, TotalGoesOn
  <2>3. CarriedEma(AverageOf(ClosesOf(h), 3), n + 1, Total(ClosesOf(u), n + 1), b.close)
          = AverageOf(ClosesOf(u), 3)
    BY <2>1, EmaGoesOn
  <2>4. e.n = n /\ e.sums.close = Total(ClosesOf(h), n) /\ e.ema = AverageOf(ClosesOf(h), 3)
    BY <1>1 DEF ClosesCarried, n
  <2>5. /\ now.n = e.n + 1 /\ now.sums.close = e.sums.close + b.close
        /\ now.ema = CarriedEma(e.ema, e.n + 1, e.sums.close + b.close, b.close)
    BY NextEntryIs DEF now
  <2> QED BY <1>2, <2>2, <2>3, <2>4, <2>5 DEF ClosesCarried
<1>4. ASSUME h # <<>> PROVE ChangesCarried(now, u)
  <2> DEFINE r == TrueRange(b, Last(h))
             up == Gain(b.close - Last(h).close)
             down == Gain(0 - (b.close - Last(h).close))
  <2>1. /\ now.sums.range = e.sums.range + r /\ now.atr = Carried(e.atr, e.n, e.sums.range + r, r, 2)
        /\ now.sums.gain = e.sums.gain + up /\ now.gain = Carried(e.gain, e.n, e.sums.gain + up, up, 2)
        /\ now.sums.loss = e.sums.loss + down /\ now.loss = Carried(e.loss, e.n, e.sums.loss + down, down, 2)
    BY <1>4, NextChangesAre DEF h, now
  <2>2. /\ GoesOn(TrueRanges(h), TrueRanges(u), n - 1) /\ TrueRanges(u)[n] = r
        /\ GoesOn(Gains(h), Gains(u), n - 1) /\ Gains(u)[n] = up
        /\ GoesOn(Losses(h), Losses(u), n - 1) /\ Losses(u)[n] = Gain(Last(h).close - b.close)
    BY <1>1, <1>4, ChangesGoOn DEF n
  <2>3. Losses(u)[n] = down
    <3>1. Last(h).close \in Int /\ b.close \in Int
      <4>1. h[n] \in BarType
        <5>1. n \in 1 .. n
          BY <1>1, <1>2, <1>4, EmptySeq DEF n
        <5> QED BY <1>1, <5>1, ElementOfSeq DEF n
      <4>2. h[n].close \in Closes /\ b.close \in Closes
        BY <4>1 DEF BarType
      <4> QED BY <4>2, ClosesArePrices DEF Last, n
    <3>2. \A x, y \in Int : 0 - (x - y) = y - x
      OBVIOUS
    <3> QED BY <2>2, <3>1, <3>2
  <2>4. /\ e.sums.range = Total(TrueRanges(h), n - 1) /\ e.atr = Average(TrueRanges(h))
        /\ e.sums.gain = Total(Gains(h), n - 1) /\ e.gain = Average(Gains(h))
        /\ e.sums.loss = Total(Losses(h), n - 1) /\ e.loss = Average(Losses(h))
    BY <1>4 DEF EntryOK, ChangesCarried, h, e, n
  <2>5. e.n = n /\ (n - 1) + 1 = n /\ Len(u) - 1 = n
    BY <1>1, <1>2 DEF ClosesCarried, n
  <2> HIDE DEF r, up, down
  <2>6. now.sums.range = Total(TrueRanges(u), n) /\ now.atr = Average(TrueRanges(u))
    <3>1. Total(TrueRanges(u), (n - 1) + 1) = Total(TrueRanges(h), n - 1) + TrueRanges(u)[(n - 1) + 1]
      BY <2>2, TotalGoesOn
    <3>2. Carried(Average(TrueRanges(h)), (n - 1) + 1, Total(TrueRanges(u), (n - 1) + 1),
                  TrueRanges(u)[(n - 1) + 1], 2) = Average(TrueRanges(u))
      BY <2>2, AverageGoesOn
    <3> QED BY <2>1, <2>2, <2>4, <2>5, <3>1, <3>2
  <2>7. now.sums.gain = Total(Gains(u), n) /\ now.gain = Average(Gains(u))
    <3>1. Total(Gains(u), (n - 1) + 1) = Total(Gains(h), n - 1) + Gains(u)[(n - 1) + 1]
      BY <2>2, TotalGoesOn
    <3>2. Carried(Average(Gains(h)), (n - 1) + 1, Total(Gains(u), (n - 1) + 1),
                  Gains(u)[(n - 1) + 1], 2) = Average(Gains(u))
      BY <2>2, AverageGoesOn
    <3> QED BY <2>1, <2>2, <2>4, <2>5, <3>1, <3>2
  <2>8. now.sums.loss = Total(Losses(u), n) /\ now.loss = Average(Losses(u))
    <3>1. Total(Losses(u), (n - 1) + 1) = Total(Losses(h), n - 1) + Losses(u)[(n - 1) + 1]
      BY <2>2, TotalGoesOn
    <3>2. Carried(Average(Losses(h)), (n - 1) + 1, Total(Losses(u), (n - 1) + 1),
                  Losses(u)[(n - 1) + 1], 2) = Average(Losses(u))
      BY <2>2, AverageGoesOn
    <3> QED BY <2>1, <2>2, <2>3, <2>4, <2>5, <3>1, <3>2
  <2> QED BY <2>5, <2>6, <2>7, <2>8 DEF ChangesCarried
<1>5. ASSUME h = <<>> PROVE ChangesCarried(now, u)
  <2>1. e = NoEntry
    BY <1>5 DEF EntryOK, h, e
  <2>2. /\ now.sums.range = 0 /\ now.sums.gain = 0 + Gain(0) /\ now.sums.loss = 0 + Gain(0 - 0)
        /\ now.atr = Unknown /\ now.gain = Unknown /\ now.loss = Unknown
    BY <1>5, <2>1, FirstChangesAre DEF h, now
  <2>3. Gain(0) = 0 /\ 0 - 0 = 0
    <3>1. 0 - 0 = 0 /\ {0, 0} = {0} /\ 0 <= 0
      OBVIOUS
    <3>2. Greatest({0}) = 0
      BY <3>1 DEF Greatest
    <3> QED BY <3>1, <3>2 DEF Gain
  <2>4. n = 0 /\ Len(u) = 1
    BY <1>2, <1>5 DEF n
  <2>5. Len(TrueRanges(u)) = 0 /\ Len(Gains(u)) = 0 /\ Len(Losses(u)) = 0
    <3>1. /\ Len(TrueRanges(u)) = Len(u) - 1 /\ Len(Gains(u)) = Len(u) - 1
          /\ Len(Losses(u)) = Len(u) - 1
      BY ONLY <1>2, SeriesAreNaturals
    <3> QED BY <2>4, <3>1
  <2>6. Average(TrueRanges(u)) = Unknown /\ Average(Gains(u)) = Unknown /\ Average(Losses(u)) = Unknown
    BY <2>5 DEF Average
  <2>7. Total(TrueRanges(u), 0) = 0 /\ Total(Gains(u), 0) = 0 /\ Total(Losses(u), 0) = 0
    BY TotalOfNone
  <2> QED BY <2>2, <2>3, <2>4, <2>6, <2>7 DEF ChangesCarried
<1> QED BY <1>1, <1>2, <1>3, <1>4, <1>5 DEF EntryOK, u

LEMMA EmaTyped ==
    ASSUME NEW h \in Seq(BarType), h # <<>>, NEW p \in {1, 3}
    PROVE  Ema(h, p) \in Int
<1>1. /\ Len(h) \in Nat \ {0} /\ Naturals(ClosesOf(h), Len(h)) /\ Len(ClosesOf(h)) = Len(h)
  BY SeriesAreNaturals
<1>2. CASE Len(h) < p
  BY <1>2 DEF Ema, Unknown
<1>3. CASE ~(Len(h) < p)
  <2> DEFINE s == ClosesOf(h)
             n == Len(h)
  <2>1. n = Len(s) /\ Rounds(p, n) /\ Naturals(s, n)
    BY <1>1, <1>3 DEF Rounds
  <2> HIDE DEF s, n
  <2>2. Smoothed(s, p) \in Nat
    BY <2>1, EmaIs
  <2>3. Ema(h, p) = Smoothed(s, p)
    BY <1>3 DEF Ema, s
  <2> QED BY <2>2, <2>3
<1> QED BY <1>2, <1>3

LEMMA RsiTyped ==
    ASSUME NEW h \in Seq(BarType), h # <<>>
    PROVE  /\ RelativeStrength(h) \in Int
           /\ Len(h) >= 3 => Average(Gains(h)) \in Nat /\ Average(Losses(h)) \in Nat
<1>1. /\ Len(h) \in Nat \ {0} /\ Len(h) - 1 \in Nat
      /\ Naturals(Gains(h), Len(h) - 1) /\ Len(Gains(h)) = Len(h) - 1
      /\ Naturals(Losses(h), Len(h) - 1) /\ Len(Losses(h)) = Len(h) - 1
  BY SeriesAreNaturals
<1>2. CASE Len(h) < 3
  BY <1>1, <1>2 DEF RelativeStrength, RsiPeriod, Unknown
<1>3. CASE ~(Len(h) < 3)
  <2> DEFINE n == Len(h) - 1
             gain == Wilder(Gains(h), 2)
             loss == Wilder(Losses(h), 2)
  <2>1. n = Len(Gains(h)) /\ n = Len(Losses(h)) /\ n \in Nat /\ n >= 2 /\ ~(n < 2)
    BY <1>1, <1>3
  <2>2. Naturals(Gains(h), n) /\ Naturals(Losses(h), n)
    BY <1>1
  <2>3. gain \in Nat
    <3> HIDE DEF n
    <3> QED BY <2>1, <2>2, WilderIsNatural
  <2>4. loss \in Nat
    <3> HIDE DEF n
    <3> QED BY <2>1, <2>2, WilderIsNatural
  <2>5. Average(Gains(h)) = gain /\ Average(Losses(h)) = loss
    BY <2>1 DEF Average
  <2>6. RelativeStrength(h) = RsiOf(gain, loss)
    BY <1>1, <1>3 DEF RelativeStrength, RsiPeriod
  <2> HIDE DEF gain, loss
  <2>7. RsiOf(gain, loss) \in Int
    <3>1. CASE loss = 0
      BY <3>1 DEF RsiOf
    <3>2. CASE loss # 0
      <4>1. 100000 * gain \in Nat /\ gain + loss \in Nat \ {0}
        BY <2>3, <2>4, <3>2
      <4>2. \A x \in Nat, y \in Nat \ {0} : x \div y \in Int
        OBVIOUS
      <4>3. (100000 * gain) \div (gain + loss) \in Int
        BY <4>1, <4>2
      <4> QED BY <3>2, <4>3 DEF RsiOf
    <3> QED BY <3>1, <3>2
  <2> QED BY <2>3, <2>4, <2>5, <2>6, <2>7
<1> QED BY <1>1, <1>2, <1>3

LEMMA TableIs == EntryOK => TableMatches
<1> SUFFICES ASSUME EntryOK, bars # <<>>
             PROVE  /\ entry.ema = Ema(bars, TrendPeriod)
                    /\ entry.atr = AverageTrueRange(bars)
                    /\ Rsi(entry) = RelativeStrength(bars)
  BY DEF TableMatches
<1>1. bars \in Seq(BarType) /\ ClosesCarried(entry, bars) /\ ChangesCarried(entry, bars)
  BY DEF EntryOK
<1>2. /\ Len(bars) \in Nat \ {0} /\ Len(ClosesOf(bars)) = Len(bars)
      /\ Len(Gains(bars)) = Len(bars) - 1 /\ Len(Losses(bars)) = Len(bars) - 1
      /\ Len(TrueRanges(bars)) = Len(bars) - 1
  BY <1>1, SeriesAreNaturals
<1>3. /\ entry.ema = AverageOf(ClosesOf(bars), 3) /\ entry.atr = Average(TrueRanges(bars))
      /\ entry.gain = Average(Gains(bars)) /\ entry.loss = Average(Losses(bars))
  BY <1>1 DEF ClosesCarried, ChangesCarried
<1>4. entry.ema = Ema(bars, TrendPeriod)
  BY <1>2, <1>3 DEF AverageOf, Ema, TrendPeriod
<1>5. entry.atr = AverageTrueRange(bars)
  BY <1>2, <1>3 DEF Average, AverageTrueRange, AtrPeriod
<1>6. CASE Len(bars) < 3
  <2>1. entry.gain = Unknown /\ entry.loss = Unknown
    BY <1>2, <1>3, <1>6 DEF Average
  <2> QED BY <1>4, <1>5, <1>6, <2>1 DEF Rsi, RelativeStrength, RsiPeriod
<1>7. CASE ~(Len(bars) < 3)
  <2>1. Average(Gains(bars)) \in Nat /\ Average(Losses(bars)) \in Nat
    BY <1>1, <1>2, <1>7, RsiTyped
  <2>2. entry.gain # Unknown /\ entry.loss # Unknown
    BY <1>3, <2>1 DEF Unknown
  <2>3. entry.gain = Wilder(Gains(bars), 2) /\ entry.loss = Wilder(Losses(bars), 2)
    BY <1>2, <1>3, <1>7 DEF Average
  <2> QED BY <1>2, <1>4, <1>5, <1>7, <2>2, <2>3 DEF Rsi, RelativeStrength, RsiPeriod
<1> QED BY <1>6, <1>7

-----------------------------------------------------------------------------
(* The signals. What a breakout says of a bar depends on the bars up to it.*)
LEMMA FrontIs ==
    ASSUME NEW h \in Seq(BarType), Len(h) > 1
    PROVE  /\ Front(h) \in Seq(BarType) /\ Len(Front(h)) = Len(h) - 1 /\ Front(h) # <<>>
           /\ \A i \in 1 .. Len(h) - 1 : Front(h)[i] = h[i]
           /\ Len(h) \in Nat
<1>1. Len(h) \in Nat /\ Front(h) = SubSeq(h, 1, Len(h) - 1)
  BY LenProperties DEF Front
<1>2. /\ SubSeq(h, 1, Len(h) - 1) \in Seq(BarType)
      /\ Len(SubSeq(h, 1, Len(h) - 1)) = Len(h) - 1
      /\ \A i \in 1 .. Len(h) - 1 : SubSeq(h, 1, Len(h) - 1)[i] = h[i]
  <2>1. \A i \in 1 .. Len(h) - 1 : h[i] \in BarType
    BY <1>1, ElementOfSeq
  <2> QED BY <1>1, <2>1
<1>3. Front(h) # <<>>
  <2>1. Len(Front(h)) # 0
    BY <1>1, <1>2
  <2> QED BY <2>1, EmptySeq
<1> QED BY <1>1, <1>2, <1>3

LEMMA WindowSame ==
    ASSUME NEW g \in Seq(BarType), NEW h \in Seq(BarType), NEW n \in Nat, Len(g) >= n, Len(h) >= n,
           \A i \in 1 .. n : g[i] = h[i],
           NEW i \in 1 .. n, NEW p \in Nat, i - p >= 1
    PROVE  Window(g, i, p) = Window(h, i, p)
<1>1. /\ \A k \in 1 .. n : k \in 1 .. Len(g) /\ k \in 1 .. Len(h)
      /\ Len(g) \in Nat /\ Len(h) \in Nat
  BY LenProperties
<1> DEFINE G == SubSeq(g, i - p, i - 1)
           H == SubSeq(h, i - p, i - 1)
<1>2. /\ G \in Seq(BarType) /\ Len(G) = p /\ \A k \in 1 .. p : G[k] = g[(i - p) + k - 1]
  <2>1. \A k \in (i - p) .. (i - 1) : g[k] \in BarType
    BY <1>1, ElementOfSeq
  <2> QED BY <2>1, SubSeqProperties
<1>3. /\ H \in Seq(BarType) /\ Len(H) = p /\ \A k \in 1 .. p : H[k] = h[(i - p) + k - 1]
  <2>1. \A k \in (i - p) .. (i - 1) : h[k] \in BarType
    BY <1>1, ElementOfSeq
  <2> QED BY <2>1, SubSeqProperties
<1>4. \A k \in 1 .. p : (i - p) + k - 1 \in 1 .. n
  OBVIOUS
<1> HIDE DEF G, H
<1>5. G = H
  <2>1. \A k \in 1 .. Len(G) : G[k] = H[k]
    BY <1>2, <1>3, <1>4
  <2> QED BY <1>2, <1>3, <2>1, SeqEqual
<1>6. SubSeq(g, i - p, i - 1) = SubSeq(h, i - p, i - 1)
  BY <1>5 DEF G, H
<1> QED BY <1>6 DEF Window

LEMMA BreaksSame ==
    ASSUME NEW g \in Seq(BarType), NEW h \in Seq(BarType), NEW n \in Nat, Len(g) >= n, Len(h) >= n,
           \A i \in 1 .. n : g[i] = h[i], NEW i \in 1 .. n
    PROVE  /\ i - Entry >= 1 => (BreaksAbove(g, i) <=> BreaksAbove(h, i))
           /\ i - Exit >= 1 => (BreaksBelow(g, i) <=> BreaksBelow(h, i))
<1>1. Entry \in Nat /\ Exit \in Nat /\ g[i] = h[i]
  BY BarAssumption
<1>2. ASSUME i - Entry >= 1 PROVE BreaksAbove(g, i) <=> BreaksAbove(h, i)
  <2>1. Window(g, i, Entry) = Window(h, i, Entry)
    BY <1>1, <1>2, WindowSame
  <2> QED BY <1>1, <2>1 DEF BreaksAbove
<1>3. ASSUME i - Exit >= 1 PROVE BreaksBelow(g, i) <=> BreaksBelow(h, i)
  <2>1. Window(g, i, Exit) = Window(h, i, Exit)
    BY <1>1, <1>3, WindowSame
  <2> QED BY <1>1, <2>1 DEF BreaksBelow
<1> QED BY <1>2, <1>3

LEMMA EventsOnly ==
    ASSUME bars \in Seq(BarType)
    PROVE  SignalsAreEvents
<1> SUFFICES ASSUME Len(bars) > 1
             PROVE  /\ Donchian(Front(bars)) # "hold" => Donchian(bars) # Donchian(Front(bars))
                    /\ EmaTrend(Front(bars)) = "buy" => EmaTrend(bars) # "buy"
                    /\ RsiMeanReversion(Front(bars)) = "buy" => RsiMeanReversion(bars) # "buy"
  BY DEF SignalsAreEvents
<1> DEFINE before == Front(bars)
<1>1. PICK m \in Nat : m >= 1 /\ Len(before) = m /\ Len(bars) = m + 1
  BY FrontIs
<1>2. /\ before \in Seq(BarType) /\ before # <<>>
      /\ \A i \in 1 .. m : before[i] = bars[i]
  <2>1. \A i \in 1 .. Len(bars) - 1 : before[i] = bars[i]
    BY FrontIs
  <2>2. Len(bars) - 1 = m
    BY <1>1
  <2> QED BY <2>1, <2>2, FrontIs
<1>3. bars # <<>>
  BY <1>1, EmptySeq
<1> HIDE DEF before
<1>4. Donchian(before) # "hold" => Donchian(bars) # Donchian(before)
  <2> DEFINE long == Greatest({Entry, Exit})
  <2>1. ASSUME Donchian(before) # "hold" PROVE m - Entry >= 1 /\ m - Exit >= 1
    <3>1. Entry \in Nat /\ Exit \in Nat
      BY BarAssumption
    <3>2. \E x \in {Entry, Exit} : \A y \in {Entry, Exit} : y <= x
      BY <3>1
    <3>3. long \in {Entry, Exit} /\ \A y \in {Entry, Exit} : y <= long
      BY <3>2 DEF Greatest
    <3> HIDE DEF long
    <3>4. ~(m < long + 2)
      BY <1>1, <2>1 DEF Donchian, long
    <3> QED BY <3>1, <3>3, <3>4
  <2>2. ASSUME Donchian(before) # "hold"
        PROVE  /\ BreaksAbove(before, m) <=> BreaksAbove(bars, m)
               /\ BreaksBelow(before, m) <=> BreaksBelow(bars, m)
    <3>1. m \in Nat /\ m \in 1 .. m /\ Len(before) >= m /\ Len(bars) >= m
      BY <1>1
    <3>2. m - Entry >= 1 /\ m - Exit >= 1
      BY <2>1, <2>2
    <3> QED BY <1>2, <3>1, <3>2, BreaksSame
  <2>3. (m + 1) - 1 = m
    BY <1>1
  <2>4. /\ Donchian(before) = "buy" => BreaksAbove(before, m)
        /\ Donchian(before) = "sell" => BreaksBelow(before, m)
        /\ Donchian(before) \in {"buy", "sell", "hold"}
    BY <1>1, Zenon DEF Donchian
  <2>5. /\ Donchian(bars) = "buy" => ~BreaksAbove(bars, (m + 1) - 1)
        /\ Donchian(bars) = "sell" => ~BreaksBelow(bars, (m + 1) - 1)
    BY <1>1, Zenon DEF Donchian
  <2> QED BY <2>2, <2>3, <2>4, <2>5
<1>5. EmaTrend(before) = "buy" => EmaTrend(bars) # "buy"
  <2>1. Ema(before, 1) \in Int /\ Ema(before, 3) \in Int
    BY <1>2, EmaTyped
  <2>2. EmaTrend(before) = "buy" => Ema(before, 1) > Ema(before, 3)
    BY DEF EmaTrend
  <2>3. EmaTrend(bars) = "buy" => Ema(before, 1) <= Ema(before, 3)
    BY DEF EmaTrend, before
  <2> QED BY <2>1, <2>2, <2>3
<1>6. RsiMeanReversion(before) = "buy" => RsiMeanReversion(bars) # "buy"
  <2>1. RelativeStrength(before) \in Int /\ Oversold \in Int
    BY <1>2, RsiTyped, BarAssumption
  <2>2. RsiMeanReversion(before) = "buy" => Oversold > RelativeStrength(before)
    BY DEF RsiMeanReversion
  <2>3. RsiMeanReversion(bars) = "buy" => RelativeStrength(before) >= Oversold
    BY DEF RsiMeanReversion, before
  <2> QED BY <2>1, <2>2, <2>3
<1> QED BY <1>4, <1>5, <1>6 DEF before

(* The filters, whatever the series and the entry.                         *)
LEMMA ConfluenceIs ==
    ASSUME NEW f, NEW h, NEW e
    PROVE  Confluence(f, h, e) =
             (IF Donchian(h) = "buy" /\ ~AllowsBuy(f, e, Last(h).close) THEN "hold" ELSE Donchian(h))
BY DEF Confluence

LEMMA FilterExcept ==
    ASSUME NEW f \in Filters
    PROVE  /\ LET g == [f EXCEPT !.trend = FALSE]
              IN ~g.trend /\ g.volatility = f.volatility /\ (g.cap <=> f.cap)
           /\ LET g == [f EXCEPT !.cap = FALSE]
              IN ~g.cap /\ g.volatility = f.volatility /\ (g.trend <=> f.trend)
           /\ \A v : LET g == [f EXCEPT !.volatility = v]
                     IN g.volatility = v /\ (g.trend <=> f.trend) /\ (g.cap <=> f.cap)
BY DEF Filters

LEMMA OneFilterLess ==
    ASSUME NEW f \in Filters, NEW e, NEW close, AllowsBuy(f, e, close)
    PROVE  /\ AllowsBuy([f EXCEPT !.trend = FALSE], e, close)
           /\ AllowsBuy([f EXCEPT !.cap = FALSE], e, close)
           /\ AllowsBuy([f EXCEPT !.volatility = "any"], e, close)
<1> DEFINE Trend == e.ema # Unknown /\ close > e.ema
           Volatile == MedianRatio(e) # Unknown
           Low == Last(e.ratios) <= MedianRatio(e)
           Below == Rsi(e) # Unknown /\ Rsi(e) < MomentumCap
<1>1. \A g : AllowsBuy(g, e, close) <=>
        \/ g = NoFilters
        \/ /\ g.trend => Trend
           /\ g.volatility # "any" => Volatile /\ (Low <=> (g.volatility = "calm"))
           /\ g.cap => Below
  BY DEF AllowsBuy
<1> HIDE DEF Trend, Volatile, Low, Below
<1>2. NoFilters.volatility = "any" /\ ~NoFilters.trend /\ ~NoFilters.cap
  BY DEF NoFilters
<1>3. \A g : AllowsBuy(g, e, close) <=>
        /\ g.trend => Trend
        /\ g.volatility # "any" => Volatile /\ (Low <=> (g.volatility = "calm"))
        /\ g.cap => Below
  BY <1>1, <1>2
<1>4. /\ LET g == [f EXCEPT !.trend = FALSE]
         IN ~g.trend /\ g.volatility = f.volatility /\ (g.cap <=> f.cap)
      /\ LET g == [f EXCEPT !.cap = FALSE]
         IN ~g.cap /\ g.volatility = f.volatility /\ (g.trend <=> f.trend)
      /\ LET g == [f EXCEPT !.volatility = "any"]
         IN g.volatility = "any" /\ (g.trend <=> f.trend) /\ (g.cap <=> f.cap)
  BY FilterExcept
<1> QED BY <1>3, <1>4

LEMMA FiltersHold == FiltersOnlyHold
<1> SUFFICES ASSUME bars # <<>>
             PROVE  LET Acts(f) == Confluence(f, bars, entry)
                        free == Donchian(bars)
                    IN /\ \A f \in Filters : Acts(f) = free \/ (free = "buy" /\ Acts(f) = "hold")
                       /\ \A f \in Filters : Acts(f) = "buy" =>
                             /\ Acts([f EXCEPT !.trend = FALSE]) = "buy"
                             /\ Acts([f EXCEPT !.cap = FALSE]) = "buy"
                             /\ Acts([f EXCEPT !.volatility = "any"]) = "buy"
                       /\ free = "buy" /\ MedianRatio(entry) # Unknown =>
                             Cardinality({v \in {"calm", "expanding"} :
                                            Acts([NoFilters EXCEPT !.volatility = v]) = "buy"}) = 1
  BY Zenon DEF FiltersOnlyHold
<1> DEFINE Acts(f) == Confluence(f, bars, entry)
           free == Donchian(bars)
           Passes(f) == AllowsBuy(f, entry, Last(bars).close)
<1>1. \A f : Acts(f) = (IF free = "buy" /\ ~Passes(f) THEN "hold" ELSE free)
  BY ConfluenceIs
<1>2. \A f : Acts(f) = "buy" <=> free = "buy" /\ Passes(f)
  BY <1>1
<1>3. \A f \in Filters : Passes(f) =>
        /\ Passes([f EXCEPT !.trend = FALSE]) /\ Passes([f EXCEPT !.cap = FALSE])
        /\ Passes([f EXCEPT !.volatility = "any"])
  BY OneFilterLess
<1>4. ASSUME MedianRatio(entry) # Unknown
      PROVE  /\ Passes([NoFilters EXCEPT !.volatility = "calm"]) <=> Last(entry.ratios) <= MedianRatio(entry)
             /\ Passes([NoFilters EXCEPT !.volatility = "expanding"]) <=> ~(Last(entry.ratios) <= MedianRatio(entry))
  <2>1. NoFilters \in Filters /\ NoFilters.volatility = "any" /\ ~NoFilters.trend /\ ~NoFilters.cap
    BY DEF NoFilters, Filters
  <2>2. ASSUME NEW v \in {"calm", "expanding"}
        PROVE  LET g == [NoFilters EXCEPT !.volatility = v]
               IN g.volatility = v /\ ~g.trend /\ ~g.cap /\ g # NoFilters
    <3>1. LET g == [NoFilters EXCEPT !.volatility = v]
          IN g.volatility = v /\ (g.trend <=> NoFilters.trend) /\ (g.cap <=> NoFilters.cap)
      BY <2>1, FilterExcept
    <3> QED BY <2>1, <3>1
  <2> QED BY <1>4, <2>2 DEF AllowsBuy
<1> HIDE DEF Acts, free, Passes
<1>5. \A f \in Filters : Acts(f) = free \/ (free = "buy" /\ Acts(f) = "hold")
  BY <1>1
<1>6. \A f \in Filters : Acts(f) = "buy" =>
        /\ Acts([f EXCEPT !.trend = FALSE]) = "buy"
        /\ Acts([f EXCEPT !.cap = FALSE]) = "buy"
        /\ Acts([f EXCEPT !.volatility = "any"]) = "buy"
  BY <1>2, <1>3
<1>7. ASSUME free = "buy", MedianRatio(entry) # Unknown
      PROVE  Cardinality({v \in {"calm", "expanding"} :
                            Acts([NoFilters EXCEPT !.volatility = v]) = "buy"}) = 1
  <2> DEFINE Through == {v \in {"calm", "expanding"} : Acts([NoFilters EXCEPT !.volatility = v]) = "buy"}
  <2>1. Through = {"calm"} \/ Through = {"expanding"}
    BY <1>2, <1>4, <1>7
  <2>2. Cardinality({"calm"}) = 1 /\ Cardinality({"expanding"}) = 1
    BY FS_Singleton
  <2> QED BY <2>1, <2>2
<1> QED BY <1>5, <1>6, <1>7 DEF Acts, free

-----------------------------------------------------------------------------
(* Aggregation. The bars of a series in ascending order: one per hour.     *)
Ascending(h) == \A i, k \in 1 .. Len(h) : i < k => h[i].at < h[k].at

BarsInOrder(B) ==
    /\ \A b \in B : b.at \in 0 .. MaxHour /\ b.high \in Int /\ b.low \in Int
    /\ \A b, c \in B : b.at = c.at => b = c

LEMMA OrderIs ==
    ASSUME NEW h \in Seq(BarType), Ascending(h)
    PROVE  BarsInOrder(ToSet(h))
<1>1. \A b \in ToSet(h) : \E i \in 1 .. Len(h) : b = h[i]
  BY LenProperties DEF ToSet
<1>2. \A b \in ToSet(h) : b \in BarType
  BY <1>1, ElementOfSeq
<1>3. \A b \in ToSet(h) : b.at \in 0 .. MaxHour /\ b.high \in Int /\ b.low \in Int
  BY <1>2 DEF BarType
<1>4. ASSUME NEW b \in ToSet(h), NEW c \in ToSet(h), b.at = c.at PROVE b = c
  <2>1. PICK i \in 1 .. Len(h), k \in 1 .. Len(h) : b = h[i] /\ c = h[k]
    BY <1>1
  <2>2. ~(i < k) /\ ~(k < i)
    <3>1. b.at \in Int /\ c.at \in Int
      BY <1>3
    <3> QED BY <1>4, <2>1, <3>1 DEF Ascending
  <2>3. i = k
    BY <2>2
  <2> QED BY <2>1, <2>3
<1> QED BY <1>3, <1>4 DEF BarsInOrder

LEMMA GreatestIs ==
    ASSUME NEW S, NEW m \in S, \A y \in S : y \in Int, \A y \in S : y <= m
    PROVE  Greatest(S) = m
<1>1. \A x \in S : (\A y \in S : y <= x) => x = m
  OBVIOUS
<1> QED BY <1>1 DEF Greatest

LEMMA LeastIs ==
    ASSUME NEW S, NEW m \in S, \A y \in S : y \in Int, \A y \in S : m <= y
    PROVE  Least(S) = m
<1>1. \A x \in S : (\A y \in S : x <= y) => x = m
  OBVIOUS
<1> QED BY <1>1 DEF Least

(* The fields of a bar that aggregation compares.                          *)
Measured(b) == b.at \in Int /\ b.high \in Int /\ b.low \in Int
Before(b, c) == Measured(b) /\ Measured(c) /\ b.at < c.at
Higher(b, c) == c.high <= b.high
Lower(b, c) == b.low <= c.low
Spans(at, first, last, top, low) ==
    [at |-> at, open |-> first.open, close |-> last.close, high |-> top.high, low |-> low.low]
Spanned(S, first, last, top, low) ==
    /\ \A b \in S : Measured(b)
    /\ \A b, c \in S : b.at = c.at => b = c
    /\ first \in S /\ last \in S /\ top \in S /\ low \in S
    /\ \A b \in S : first.at <= b.at /\ b.at <= last.at /\ Higher(top, b) /\ Lower(low, b)

(* A bar made of bars: the first one's open, the last one's close, and the *)
(* extremes.                                                               *)
LEMMA JoinedOf ==
    ASSUME NEW S, NEW at, NEW first, NEW last, NEW top, NEW low, Spanned(S, first, last, top, low)
    PROVE  Joined(S, at) = Spans(at, first, last, top, low)
<1>0. /\ first \in S /\ last \in S /\ top \in S /\ low \in S
      /\ \A b \in S : b.at \in Int /\ b.high \in Int /\ b.low \in Int
      /\ \A b, c \in S : b.at = c.at => b = c
      /\ \A b \in S : first.at <= b.at /\ b.at <= last.at /\ b.high <= top.high /\ low.low <= b.low
  BY DEF Spanned, Measured, Higher, Lower
<1>1. (CHOOSE b \in S : \A c \in S : b.at <= c.at) = first
  <2>1. \A x \in S : (\A c \in S : x.at <= c.at) => x = first
    BY <1>0
  <2> QED BY <2>1
<1>2. (CHOOSE b \in S : \A c \in S : c.at <= b.at) = last
  <2>1. \A x \in S : (\A c \in S : c.at <= x.at) => x = last
    BY <1>0
  <2> QED BY <2>1
<1>3. Greatest({b.high : b \in S}) = top.high
  <2> DEFINE H == {b.high : b \in S}
  <2>1. top.high \in H /\ (\A y \in H : y \in Int) /\ \A y \in H : y <= top.high
    BY <1>0
  <2> HIDE DEF H
  <2> QED BY <2>1, GreatestIs DEF H
<1>4. Least({b.low : b \in S}) = low.low
  <2> DEFINE H == {b.low : b \in S}
  <2>1. low.low \in H /\ (\A y \in H : y \in Int) /\ \A y \in H : low.low <= y
    BY <1>0
  <2> HIDE DEF H
  <2> QED BY <2>1, LeastIs DEF H
<1> QED BY <1>1, <1>2, <1>3, <1>4 DEF Joined, Spans

(* The bars of two hours, and of four.                                     *)
Within(B, j, hours) == {b \in B : b.at \div hours = j}
Pair(B, j, x, y) == x \in B /\ y \in B /\ x.at = 2 * j /\ y.at = 2 * j + 1

LEMMA TwoHours ==
    ASSUME NEW B, BarsInOrder(B), NEW j \in Nat
    PROVE  /\ IsFiniteSet(Within(B, j, 2)) /\ Cardinality(Within(B, j, 2)) \in 0 .. 2
           /\ \A x, y : Pair(B, j, x, y) => Within(B, j, 2) = {x, y} /\ Cardinality(Within(B, j, 2)) = 2
           /\ Cardinality(Within(B, j, 2)) = 2 => \E x, y : Pair(B, j, x, y)
<1> DEFINE M == Within(B, j, 2)
<1>1. \A b \in B : b \in M <=> b.at = 2 * j \/ b.at = 2 * j + 1
  <2>1. \A a \in Nat : a \div 2 = j <=> a = 2 * j \/ a = 2 * j + 1
    OBVIOUS
  <2>2. \A b \in B : b.at \in Nat
    BY DEF BarsInOrder
  <2> QED BY <2>1, <2>2 DEF Within
<1>2. M \subseteq B /\ \A b, c \in B : b.at = c.at => b = c
  BY DEF Within, BarsInOrder
<1>3. ASSUME NEW x, NEW y, Pair(B, j, x, y)
      PROVE  M = {x, y} /\ IsFiniteSet(M) /\ Cardinality(M) = 2
  <2>1. x \in B /\ y \in B /\ x.at = 2 * j /\ y.at = 2 * j + 1
    BY <1>3 DEF Pair
  <2> HIDE DEF M
  <2>2. x \in M /\ y \in M /\ x # y
    BY <1>1, <2>1
  <2>3. M = {x} \cup {y} /\ M = {x, y}
    BY <1>1, <1>2, <2>1, <2>2
  <2>4. IsFiniteSet({x}) /\ Cardinality({x}) = 1 /\ y \notin {x}
    BY <2>2, FS_Singleton
  <2>5. IsFiniteSet({x} \cup {y}) /\ Cardinality({x} \cup {y}) = 2
    BY <2>4, FS_AddElement
  <2> QED BY <2>3, <2>5
<1>4. ASSUME ~\E x, y : Pair(B, j, x, y) PROVE IsFiniteSet(M) /\ Cardinality(M) \in 0 .. 1
  <2>1. \A b, c \in M : b = c
    <3>1. \A b, c \in M : b.at = c.at
      BY <1>1, <1>2, <1>4 DEF Pair
    <3> QED BY <1>2, <3>1
  <2> HIDE DEF M
  <2>2. CASE M = {}
    BY <2>2, FS_EmptySet
  <2>3. CASE M # {}
    <3>1. PICK b : b \in M
      BY <2>3
    <3>2. M = {b}
      BY <2>1, <3>1
    <3>3. IsFiniteSet({b}) /\ Cardinality({b}) = 1
      BY FS_Singleton
    <3> QED BY <3>2, <3>3
  <2> QED BY <2>2, <2>3
<1> HIDE DEF M
<1>5. /\ IsFiniteSet(M) /\ Cardinality(M) \in 0 .. 2
      /\ Cardinality(M) = 2 => \E x, y : Pair(B, j, x, y)
  <2>1. CASE \E x, y : Pair(B, j, x, y)
    BY <1>3, <2>1
  <2>2. CASE ~\E x, y : Pair(B, j, x, y)
    BY <1>4, <2>2
  <2> QED BY <2>1, <2>2
<1> QED BY <1>3, <1>5 DEF M

LEMMA FourHours ==
    ASSUME NEW B, BarsInOrder(B), NEW k \in Nat
    PROVE  /\ Within(B, k, 4) = Within(B, 2 * k, 2) \cup Within(B, 2 * k + 1, 2)
           /\ Cardinality(Within(B, k, 4)) = 4 <=>
                 /\ Cardinality(Within(B, 2 * k, 2)) = 2
                 /\ Cardinality(Within(B, 2 * k + 1, 2)) = 2
<1> DEFINE M == Within(B, 2 * k, 2)
           N == Within(B, 2 * k + 1, 2)
<1>1. Within(B, k, 4) = M \cup N /\ M \cap N = {}
  <2>1. \A a \in Nat : a \div 4 = k <=> a \div 2 = 2 * k \/ a \div 2 = 2 * k + 1
    OBVIOUS
  <2>2. \A b \in B : b.at \in Nat
    BY DEF BarsInOrder
  <2>3. 2 * k # 2 * k + 1
    OBVIOUS
  <2>4. Within(B, k, 4) = M \cup N
    BY <2>1, <2>2 DEF Within
  <2> QED BY <2>3, <2>4 DEF Within
<1>2. 2 * k \in Nat /\ 2 * k + 1 \in Nat
  OBVIOUS
<1>3. IsFiniteSet(M) /\ Cardinality(M) \in 0 .. 2 /\ IsFiniteSet(N) /\ Cardinality(N) \in 0 .. 2
  BY <1>2, TwoHours
<1> HIDE DEF M, N
<1>4. Cardinality(M \cup N) = Cardinality(M) + Cardinality(N)
  <2>1. Cardinality(M \cup N) = Cardinality(M) + Cardinality(N) - Cardinality({})
    BY <1>1, <1>3, FS_Union
  <2> QED BY <1>3, <2>1, FS_EmptySet
<1> QED BY <1>1, <1>3, <1>4 DEF M, N

LEMMA JoinedPair ==
    ASSUME NEW x, NEW y, NEW at, Before(x, y)
    PROVE  \E t \in {x, y}, l \in {x, y} :
              /\ Higher(t, x) /\ Higher(t, y) /\ Lower(l, x) /\ Lower(l, y)
              /\ Joined({x, y}, at) = Spans(at, x, y, t, l)
<1>1. PICK t \in {x, y} : Higher(t, x) /\ Higher(t, y)
  <2>1. x.high <= y.high \/ y.high <= x.high
    BY DEF Before, Measured
  <2>2. x.high <= x.high /\ y.high <= y.high
    BY DEF Before, Measured
  <2> QED BY <2>1, <2>2 DEF Higher
<1>2. PICK l \in {x, y} : Lower(l, x) /\ Lower(l, y)
  <2>1. x.low <= y.low \/ y.low <= x.low
    BY DEF Before, Measured
  <2>2. x.low <= x.low /\ y.low <= y.low
    BY DEF Before, Measured
  <2> QED BY <2>1, <2>2 DEF Lower
<1> DEFINE S == {x, y}
<1>3. \A b \in S : Measured(b)
  BY DEF Before
<1>4. \A b, c \in S : b.at = c.at => b = c
  BY DEF Before, Measured
<1>5. \A b \in S : x.at <= b.at /\ b.at <= y.at
  BY DEF Before, Measured
<1>6. \A b \in S : Higher(t, b) /\ Lower(l, b)
  BY <1>1, <1>2
<1>7. x \in S /\ y \in S /\ t \in S /\ l \in S
  OBVIOUS
<1> HIDE DEF S
<1>8. Joined(S, at) = Spans(at, x, y, t, l)
  <2>1. Spanned(S, x, y, t, l)
    BY <1>3, <1>4, <1>5, <1>6, <1>7 DEF Spanned
  <2> QED BY <2>1, JoinedOf
<1> QED BY <1>1, <1>2, <1>8 DEF S

(* Two halves of a bar joined are the bar.                                 *)
LEMMA JoinedTwice ==
    ASSUME NEW x, NEW y, NEW z, NEW w, NEW at \in Int, NEW mid \in Int, at < mid,
           Before(x, y), Before(y, z), Before(z, w)
    PROVE  /\ Joined({x, y} \cup {z, w}, at)
                = Joined({Joined({x, y}, at), Joined({z, w}, mid)}, at)
           /\ Joined({x, y}, at).at = at /\ Joined({z, w}, mid).at = mid
<1>1. PICK t \in {x, y}, l \in {x, y} :
         /\ Higher(t, x) /\ Higher(t, y) /\ Lower(l, x) /\ Lower(l, y)
         /\ Joined({x, y}, at) = Spans(at, x, y, t, l)
  BY JoinedPair
<1>2. PICK u \in {z, w}, m \in {z, w} :
         /\ Higher(u, z) /\ Higher(u, w) /\ Lower(m, z) /\ Lower(m, w)
         /\ Joined({z, w}, mid) = Spans(mid, z, w, u, m)
  BY JoinedPair
<1> DEFINE J == Spans(at, x, y, t, l)
           K == Spans(mid, z, w, u, m)
<1>3. /\ J.at = at /\ J.open = x.open /\ J.close = y.close /\ J.high = t.high /\ J.low = l.low
      /\ K.at = mid /\ K.open = z.open /\ K.close = w.close /\ K.high = u.high /\ K.low = m.low
  BY DEF Spans
<1>4. \A b \in {x, y, z, w} : Measured(b)
  BY DEF Before
<1>5. Before(J, K)
  <2>1. Measured(t) /\ Measured(l) /\ Measured(u) /\ Measured(m)
    BY <1>4
  <2> QED BY <1>3, <2>1 DEF Before, Measured
<1> HIDE DEF J, K
<1>6. PICK T \in {J, K}, L \in {J, K} :
         /\ Higher(T, J) /\ Higher(T, K) /\ Lower(L, J) /\ Lower(L, K)
         /\ Joined({J, K}, at) = Spans(at, J, K, T, L)
  BY <1>5, JoinedPair
<1> DEFINE S == {x, y} \cup {z, w}
<1>7. PICK top \in S : top.high = T.high /\ \A b \in S : Higher(top, b)
  <2>1. \A b, c, d \in {x, y, z, w} : Higher(b, c) /\ Higher(c, d) => Higher(b, d)
    BY <1>4 DEF Higher, Measured
  <2>2. \A b \in {x, y, z, w} : b = b
    OBVIOUS
  <2>3. CASE T = J
    <3>1. Higher(t, u)
      BY <1>3, <1>6, <2>3 DEF Higher
    <3>2. \A b \in S : Higher(t, b)
      BY <1>1, <1>2, <2>1, <3>1
    <3> QED BY <1>3, <2>3, <3>2
  <2>4. CASE T = K
    <3>1. Higher(u, t)
      BY <1>3, <1>6, <2>4 DEF Higher
    <3>2. \A b \in S : Higher(u, b)
      BY <1>1, <1>2, <2>1, <3>1
    <3> QED BY <1>3, <2>4, <3>2
  <2> QED BY <2>3, <2>4
<1>8. PICK low \in S : low.low = L.low /\ \A b \in S : Lower(low, b)
  <2>1. \A b, c, d \in {x, y, z, w} : Lower(b, c) /\ Lower(c, d) => Lower(b, d)
    BY <1>4 DEF Lower, Measured
  <2>3. CASE L = J
    <3>1. Lower(l, m)
      BY <1>3, <1>6, <2>3 DEF Lower
    <3>2. \A b \in S : Lower(l, b)
      BY <1>1, <1>2, <2>1, <3>1
    <3> QED BY <1>3, <2>3, <3>2
  <2>4. CASE L = K
    <3>1. Lower(m, l)
      BY <1>3, <1>6, <2>4 DEF Lower
    <3>2. \A b \in S : Lower(m, b)
      BY <1>1, <1>2, <2>1, <3>1
    <3> QED BY <1>3, <2>4, <3>2
  <2> QED BY <2>3, <2>4
<1>9. \A b \in S : Measured(b) /\ x.at <= b.at /\ b.at <= w.at
  BY <1>4 DEF Before, Measured
<1>10. \A b, c \in S : b.at = c.at => b = c
  BY DEF Before, Measured
<1>11. x \in S /\ w \in S
  OBVIOUS
<1> HIDE DEF S
<1>12. Joined(S, at) = Spans(at, x, w, top, low)
  <2>1. Spanned(S, x, w, top, low)
    BY <1>7, <1>8, <1>9, <1>10, <1>11 DEF Spanned
  <2> QED BY <2>1, JoinedOf
<1>13. Spans(at, x, w, top, low) = Spans(at, J, K, T, L)
  BY <1>3, <1>7, <1>8 DEF Spans
<1> QED BY <1>1, <1>2, <1>3, <1>6, <1>12, <1>13 DEF J, K, S

(* The bars that are whole, of two hours and of four.                      *)
Two(B, j) == j \in Nat /\ Cardinality(Within(B, j, 2)) = 2
TwoBar(B, j) == Joined(Within(B, j, 2), j * 2)
Four(B, k) == k \in Nat /\ Cardinality(Within(B, k, 4)) = 4
FourBar(B, k) == Joined(Within(B, k, 4), k * 4)

LEMMA TwoIsTwo ==
    ASSUME NEW B, BarsInOrder(B), NEW j, Two(B, j)
    PROVE  /\ j \in 0 .. MaxHour \div 2
           /\ \E x, y : /\ Pair(B, j, x, y) /\ Before(x, y) /\ Within(B, j, 2) = {x, y}
                        /\ TwoBar(B, j) = Joined({x, y}, j * 2)
           /\ TwoBar(B, j).at = j * 2
<1>1. j \in Nat /\ Cardinality(Within(B, j, 2)) = 2
  BY DEF Two
<1>2. PICK x, y : Pair(B, j, x, y)
  BY <1>1, TwoHours
<1>3. Within(B, j, 2) = {x, y}
  BY <1>1, <1>2, TwoHours
<1>4. x \in B /\ y \in B /\ x.at = 2 * j /\ y.at = 2 * j + 1 /\ x.at \in 0 .. MaxHour
  BY <1>2 DEF Pair, BarsInOrder
<1>5. j \in 0 .. MaxHour \div 2
  <2>1. \A n \in Nat, m \in Nat : 2 * m <= n => m <= n \div 2
    OBVIOUS
  <2>2. MaxHour \in Nat /\ 2 * j <= MaxHour
    BY <1>4, BarAssumption
  <2>3. j <= MaxHour \div 2
    BY <1>1, <2>1, <2>2
  <2> QED BY <1>1, <2>2, <2>3
<1>6. Before(x, y)
  <2>1. Measured(x) /\ Measured(y)
    BY <1>4 DEF BarsInOrder, Measured
  <2> QED BY <1>1, <1>4, <2>1 DEF Before
<1>7. TwoBar(B, j) = Joined({x, y}, j * 2)
  BY <1>3 DEF TwoBar
<1>8. Joined({x, y}, j * 2).at = j * 2
  BY DEF Joined
<1> QED BY <1>2, <1>3, <1>5, <1>6, <1>7, <1>8

LEMMA FourIsTwoTwos ==
    ASSUME NEW B, BarsInOrder(B), NEW k \in Nat
    PROVE  /\ Four(B, k) <=> Two(B, 2 * k) /\ Two(B, 2 * k + 1)
           /\ Four(B, k) =>
                 /\ k \in 0 .. MaxHour \div 4
                 /\ TwoBar(B, 2 * k).at = 4 * k /\ TwoBar(B, 2 * k + 1).at = 4 * k + 2
                 /\ FourBar(B, k) = Joined({TwoBar(B, 2 * k), TwoBar(B, 2 * k + 1)}, 4 * k)
<1> DEFINE i == 2 * k
           j == 2 * k + 1
<1>1. i \in Nat /\ j \in Nat /\ i * 2 = 4 * k /\ j * 2 = 4 * k + 2 /\ 2 * j = 4 * k + 2 /\ 2 * i = 4 * k
  OBVIOUS
<1>2. Four(B, k) <=> Two(B, i) /\ Two(B, j)
  <2>1. Cardinality(Within(B, k, 4)) = 4 <=>
           Cardinality(Within(B, i, 2)) = 2 /\ Cardinality(Within(B, j, 2)) = 2
    BY FourHours
  <2> QED BY <1>1, <2>1 DEF Four, Two
<1>3. Within(B, k, 4) = Within(B, i, 2) \cup Within(B, j, 2)
  BY FourHours
<1> HIDE DEF i, j
<1>4. ASSUME Four(B, k)
      PROVE  /\ k \in 0 .. MaxHour \div 4
             /\ TwoBar(B, i).at = 4 * k /\ TwoBar(B, j).at = 4 * k + 2
             /\ FourBar(B, k) = Joined({TwoBar(B, i), TwoBar(B, j)}, 4 * k)
  <2>1. Two(B, i) /\ Two(B, j)
    BY <1>2, <1>4
  <2>2. PICK x, y : /\ Pair(B, i, x, y) /\ Before(x, y) /\ Within(B, i, 2) = {x, y}
                    /\ TwoBar(B, i) = Joined({x, y}, i * 2)
    BY <2>1, TwoIsTwo
  <2>3. PICK z, w : /\ Pair(B, j, z, w) /\ Before(z, w) /\ Within(B, j, 2) = {z, w}
                    /\ TwoBar(B, j) = Joined({z, w}, j * 2)
    BY <2>1, TwoIsTwo
  <2>4. Before(y, z)
    <3>1. y.at = 2 * i + 1 /\ z.at = 2 * j
      BY <2>2, <2>3 DEF Pair
    <3>2. Measured(y) /\ Measured(z)
      BY <2>2, <2>3 DEF Before
    <3>3. 2 * i + 1 < 2 * j
      BY <1>1
    <3> QED BY <3>1, <3>2, <3>3 DEF Before
  <2>5. k \in 0 .. MaxHour \div 4
    <3>1. \A n \in Nat, m \in Nat : 4 * m <= n => m <= n \div 4
      OBVIOUS
    <3>2. x.at = 4 * k /\ x \in B
      BY <1>1, <2>2 DEF Pair
    <3>3. MaxHour \in Nat /\ 4 * k <= MaxHour
      BY <3>2, BarAssumption DEF BarsInOrder
    <3>4. k <= MaxHour \div 4
      BY <3>1, <3>3
    <3> QED BY <3>3, <3>4
  <2>6. Joined({x, y}, i * 2).at = i * 2 /\ Joined({z, w}, j * 2).at = j * 2
    BY DEF Joined
  <2>7. Joined({x, y} \cup {z, w}, 4 * k)
           = Joined({Joined({x, y}, 4 * k), Joined({z, w}, 4 * k + 2)}, 4 * k)
    <3>1. 4 * k \in Int /\ 4 * k + 2 \in Int /\ 4 * k < 4 * k + 2
      OBVIOUS
    <3> QED BY <2>2, <2>3, <2>4, <3>1, JoinedTwice
  <2>8. FourBar(B, k) = Joined({x, y} \cup {z, w}, 4 * k)
    <3>1. k * 4 = 4 * k
      OBVIOUS
    <3> QED BY <1>3, <2>2, <2>3, <3>1 DEF FourBar
  <2> QED BY <1>1, <2>2, <2>3, <2>5, <2>6, <2>7, <2>8
<1> QED BY <1>2, <1>4 DEF i, j

LEMMA AggregatesAreWhole ==
    ASSUME bars \in Seq(BarType), Ascending(bars)
    PROVE  AggregatesCompose
<1> DEFINE B == ToSet(bars)
           twos == AggregateBars(2)
           Halves == {q \in twos \X twos : q[1].at % 4 = 0 /\ q[2].at = q[1].at + 2}
<1>1. BarsInOrder(B)
  BY OrderIs
<1>2. \A k, h : Members(k, h) = Within(B, k, h)
  BY DEF Members, Within
<1>3. twos = {TwoBar(B, j) : j \in {i \in 0 .. MaxHour \div 2 : Two(B, i)}}
  <2>1. \A i \in 0 .. MaxHour \div 2 : Complete(i, 2) <=> Two(B, i)
    BY <1>2 DEF Complete, Two
  <2>2. \A i : Joined(Members(i, 2), i * 2) = TwoBar(B, i)
    BY <1>2 DEF TwoBar
  <2> QED BY <2>1, <2>2 DEF AggregateBars
<1>4. AggregateBars(4) = {FourBar(B, k) : k \in {i \in 0 .. MaxHour \div 4 : Four(B, i)}}
  <2>1. \A i \in 0 .. MaxHour \div 4 : Complete(i, 4) <=> Four(B, i)
    BY <1>2 DEF Complete, Four
  <2>2. \A i : Joined(Members(i, 4), i * 4) = FourBar(B, i)
    BY <1>2 DEF FourBar
  <2> QED BY <2>1, <2>2 DEF AggregateBars
<1> HIDE DEF B, twos
<1>5. ASSUME NEW b \in AggregateBars(4)
      PROVE  \E p \in Halves : b = Joined({p[1], p[2]}, p[1].at)
  <2>1. PICK k \in 0 .. MaxHour \div 4 : Four(B, k) /\ b = FourBar(B, k)
    BY <1>4
  <2>2. k \in Nat
    BY <2>1 DEF Four
  <2> DEFINE first == TwoBar(B, 2 * k)
             second == TwoBar(B, 2 * k + 1)
  <2>3. Two(B, 2 * k) /\ Two(B, 2 * k + 1)
    BY <1>1, <2>1, <2>2, FourIsTwoTwos
  <2>4. first.at = 4 * k /\ second.at = 4 * k + 2 /\ b = Joined({first, second}, 4 * k)
    BY <1>1, <2>1, <2>2, FourIsTwoTwos
  <2>5. first \in twos /\ second \in twos
    <3>1. 2 * k \in 0 .. MaxHour \div 2 /\ 2 * k + 1 \in 0 .. MaxHour \div 2
      BY <1>1, <2>3, TwoIsTwo
    <3> QED BY <1>3, <2>3, <3>1
  <2> HIDE DEF first, second
  <2>6. (4 * k) % 4 = 0
    BY <2>2
  <2>7. <<first, second>> \in Halves
    BY <2>4, <2>5, <2>6
  <2> QED BY <2>4, <2>7
<1>6. ASSUME NEW p \in Halves PROVE Joined({p[1], p[2]}, p[1].at) \in AggregateBars(4)
  <2>1. p[1] \in twos /\ p[2] \in twos /\ p[1].at % 4 = 0 /\ p[2].at = p[1].at + 2
    OBVIOUS
  <2>2. PICK i, j : Two(B, i) /\ p[1] = TwoBar(B, i) /\ Two(B, j) /\ p[2] = TwoBar(B, j)
    BY <1>3, <2>1
  <2>3. i \in Nat /\ j \in Nat /\ p[1].at = i * 2 /\ p[2].at = j * 2
    <3>1. TwoBar(B, i).at = i * 2 /\ TwoBar(B, j).at = j * 2
      BY <1>1, <2>2, TwoIsTwo
    <3> QED BY <2>2, <3>1 DEF Two
  <2>4. PICK k \in Nat : i = 2 * k /\ j = 2 * k + 1 /\ p[1].at = 4 * k
    <3>1. \A n \in Nat : (n * 2) % 4 = 0 => n \div 2 \in Nat /\ n = 2 * (n \div 2)
      OBVIOUS
    <3>2. (i * 2) % 4 = 0 /\ j * 2 = i * 2 + 2
      BY <2>1, <2>3
    <3>3. i \div 2 \in Nat /\ i = 2 * (i \div 2)
      BY <2>3, <3>1, <3>2
    <3>4. j = 2 * (i \div 2) + 1 /\ p[1].at = 4 * (i \div 2)
      BY <2>3, <3>2, <3>3
    <3> QED BY <3>3, <3>4
  <2>5. Four(B, k)
    BY <1>1, <2>2, <2>4, FourIsTwoTwos
  <2>6. /\ k \in 0 .. MaxHour \div 4
        /\ FourBar(B, k) = Joined({TwoBar(B, 2 * k), TwoBar(B, 2 * k + 1)}, 4 * k)
    BY <1>1, <2>5, FourIsTwoTwos
  <2>7. Joined({p[1], p[2]}, p[1].at) = FourBar(B, k)
    BY <2>2, <2>4, <2>6
  <2> QED BY <1>4, <2>5, <2>6, <2>7
<1>7. AggregateBars(4) = {Joined({p[1], p[2]}, p[1].at) : p \in Halves}
  BY <1>5, <1>6
<1> QED BY <1>7 DEF AggregatesCompose, twos

-----------------------------------------------------------------------------
(* Along a behaviour: the series is one of bars in ascending order, and    *)
(* what the table carries is what its definitions say of it.               *)
SeriesOK == EntryOK /\ Ascending(bars)

LEMMA SeriesInit == BarInit => SeriesOK
<1> SUFFICES ASSUME BarInit PROVE SeriesOK
  OBVIOUS
<1>1. bars = <<>> /\ entry = NoEntry
  BY DEF BarInit
<1>2. bars \in Seq(BarType) /\ Len(bars) = 0
  BY <1>1, EmptySeq
<1>3. entry.n = 0 /\ entry.sums.close = 0 /\ entry.ema = Unknown
  BY <1>1 DEF NoEntry
<1>4. Total(ClosesOf(bars), Len(bars)) = 0
  BY <1>2, TotalOfNone
<1>5. AverageOf(ClosesOf(bars), 3) = Unknown
  <2>1. Len(ClosesOf(bars)) = 0
    <3>1. 1 .. Len(bars) = {}
      BY <1>2
    <3>2. ClosesOf(bars) = <<>>
      BY <1>2, <3>1 DEF ClosesOf
    <3> QED BY <3>2
  <2> QED BY <2>1 DEF AverageOf
<1>6. ClosesCarried(entry, bars)
  BY <1>2, <1>3, <1>4, <1>5 DEF ClosesCarried
<1>7. Ascending(bars)
  BY <1>2 DEF Ascending
<1> QED BY <1>1, <1>2, <1>6, <1>7 DEF SeriesOK, EntryOK

LEMMA ExtremesOfTwo ==
    ASSUME NEW x \in Int, NEW y \in Int
    PROVE  Greatest({x, y}) \in Int /\ Least({x, y}) \in Int
<1>1. CASE x <= y
  <2>1. Greatest({x, y}) = y
    BY <1>1, GreatestIs
  <2>2. Least({x, y}) = x
    BY <1>1, LeastIs
  <2> QED BY <2>1, <2>2
<1>2. CASE y <= x
  <2>1. Greatest({x, y}) = x
    BY <1>2, GreatestIs
  <2>2. Least({x, y}) = y
    BY <1>2, LeastIs
  <2> QED BY <2>1, <2>2
<1> QED BY <1>1, <1>2

LEMMA SeriesStep == SeriesOK /\ [BarNext]_barVars => SeriesOK'
<1> SUFFICES ASSUME SeriesOK, [BarNext]_barVars PROVE SeriesOK'
  OBVIOUS
<1>1. CASE UNCHANGED barVars
  BY <1>1 DEF barVars, SeriesOK, EntryOK, ChangesCarried, ClosesCarried, Ascending
<1>2. ASSUME NEW at \in 0 .. MaxHour, NEW close \in Closes, NEW up \in BOOLEAN,
             BarCloses(at, close, up)
      PROVE  SeriesOK'
  <2> DEFINE open == IF bars = <<>> THEN close ELSE Last(bars).close
             bar == [at |-> at, open |-> open, close |-> close,
                     high |-> Greatest({open, close}) + (IF up THEN Reach ELSE 0),
                     low |-> Least({open, close}) - (IF up THEN 0 ELSE Reach)]
  <2>1. /\ bars # <<>> => at > Last(bars).at
        /\ bars' = Append(bars, bar) /\ entry' = NextEntry(entry, bar)
    BY <1>2 DEF BarCloses
  <2>2. bars \in Seq(BarType) /\ Len(bars) \in Nat /\ EntryOK /\ Ascending(bars)
    BY LenProperties DEF SeriesOK, EntryOK
  <2>3. bars # <<>> => Len(bars) \in 1 .. Len(bars) /\ Last(bars) = bars[Len(bars)] /\ Last(bars) \in BarType
    <3>1. bars # <<>> => Len(bars) # 0
      BY <2>2, EmptySeq
    <3>2. bars # <<>> => Len(bars) \in 1 .. Len(bars)
      BY <2>2, <3>1
    <3> QED BY <2>2, <3>2, ElementOfSeq DEF Last
  <2>4. open \in Closes
    BY <2>3 DEF BarType
  <2> HIDE DEF open
  <2>5. bar \in BarType
    <3>1. open \in Int /\ close \in Int
      BY <2>4, ClosesArePrices
    <3>2. Greatest({open, close}) \in Int /\ Least({open, close}) \in Int
      BY <3>1, ExtremesOfTwo
    <3>3. Reach \in Int
      BY BarAssumption
    <3>4. /\ Greatest({open, close}) + (IF up THEN Reach ELSE 0) \in Int
          /\ Least({open, close}) - (IF up THEN 0 ELSE Reach) \in Int
      BY <3>2, <3>3
    <3> QED BY <2>4, <3>4 DEF BarType
  <2>6. bar.at = at
    OBVIOUS
  <2> HIDE DEF bar
  <2>7. EntryOK'
    BY <2>1, <2>2, <2>5, EntryStep
  <2>8. Ascending(bars')
    <3>1. Heeds(bars', bars, bar)
      BY <2>1 DEF Heeds
    <3>2. /\ Len(bars') = Len(bars) + 1 /\ bars'[Len(bars) + 1] = bar
          /\ \A i \in 1 .. Len(bars) : bars'[i] = bars[i] /\ bars[i] \in BarType
      BY <2>2, <2>5, <3>1, OneMoreBar
    <3>3. \A i \in 1 .. Len(bars) : bars[i].at < at
      <4>1. SUFFICES ASSUME NEW i \in 1 .. Len(bars) PROVE bars[i].at < at
        OBVIOUS
      <4>2. bars # <<>>
        BY <2>2
      <4>3. bars[Len(bars)].at < at /\ bars[Len(bars)].at \in Int /\ bars[i].at \in Int
        <5>1. \A b \in BarType : b.at \in Int
          BY DEF BarType
        <5> QED BY <2>1, <2>3, <3>2, <4>2, <5>1
      <4>4. i < Len(bars) => bars[i].at < bars[Len(bars)].at
        BY <2>2, <2>3, <4>2 DEF Ascending
      <4>5. i = Len(bars) \/ i < Len(bars)
        BY <2>2
      <4> QED BY <4>3, <4>4, <4>5
    <3>4. ASSUME NEW i \in 1 .. Len(bars'), NEW k \in 1 .. Len(bars'), i < k
          PROVE  bars'[i].at < bars'[k].at
      <4>1. i \in 1 .. Len(bars) /\ (k \in 1 .. Len(bars) \/ k = Len(bars) + 1)
        BY <2>2, <3>2, <3>4
      <4>2. CASE k \in 1 .. Len(bars)
        BY <2>2, <3>2, <3>4, <4>1, <4>2 DEF Ascending
      <4>3. CASE k = Len(bars) + 1
        BY <2>6, <3>2, <3>3, <4>1, <4>3
      <4> QED BY <4>1, <4>2, <4>3
    <3> QED BY <3>4 DEF Ascending
  <2> QED BY <2>7, <2>8 DEF SeriesOK, Ascending
<1> QED BY <1>1, <1>2 DEF BarNext

(* bar_aggregation, indicators, build_indicator_table, strategies and the  *)
(* confluence filters: along every series, whatever its prices, its holes  *)
(* and the hour it begins at, aggregation composes, each snapshot of the   *)
(* table is what its definition says of the series up to that bar, a       *)
(* signal is an event, and the filters hold back entries only.             *)
THEOREM SeriesAreSound == BarSpec => []SignalsAreSound
<1>1. BarInit => SeriesOK
  BY SeriesInit
<1>2. SeriesOK /\ [BarNext]_barVars => SeriesOK'
  BY SeriesStep
<1>3. SeriesOK => SignalsAreSound
  <2> SUFFICES ASSUME SeriesOK PROVE SignalsAreSound
    OBVIOUS
  <2>1. EntryOK /\ bars \in Seq(BarType) /\ Ascending(bars)
    BY DEF SeriesOK, EntryOK
  <2>2. AggregatesCompose
    BY <2>1, AggregatesAreWhole
  <2>3. TableMatches
    BY <2>1, TableIs
  <2>4. SignalsAreEvents
    BY <2>1, EventsOnly
  <2> QED BY <2>2, <2>3, <2>4, FiltersHold DEF SignalsAreSound
<1> QED BY <1>1, <1>2, <1>3, PTL DEF BarSpec
-----------------------------------------------------------------------------
(* TickCandles. What a list of ticks says of a candle.                     *)
Ticks == [time : Nat, price : Int]
Candles == [at : Int, open : Int, high : Int, low : Int, close : Int, volume : Nat]

Heard(ts, i, at) == ts[i].price > 0 /\ Floor(ts[i].time) = at
Beyond(ts, i, at) == ts[i].price > 0 /\ Floor(ts[i].time) > at
OwnOf(ts, at) == {i \in DOMAIN ts : Heard(ts, i, at) /\ \A k \in 1 .. i : ~Beyond(ts, k, at)}

Shows(ts, c) ==
    /\ \E first, last \in OwnOf(ts, c.at) :
          /\ \A k \in OwnOf(ts, c.at) : first <= k /\ k <= last
          /\ c.open = ts[first].price /\ c.close = ts[last].price
    /\ \E k \in OwnOf(ts, c.at) : c.high = ts[k].price
    /\ \E k \in OwnOf(ts, c.at) : c.low = ts[k].price
    /\ \A k \in OwnOf(ts, c.at) : c.low <= ts[k].price /\ ts[k].price <= c.high
    /\ c.volume = Cardinality(OwnOf(ts, c.at))

LEMMA Floors == ASSUME NEW time \in Nat PROVE Floor(time) \in Nat
<1>1. time \div Bucket \in Nat
  BY TickAssumption
<1> QED BY <1>1, TickAssumption DEF Floor

LEMMA ShowsExact ==
    ASSUME ticks \in Seq(Ticks), NEW c \in Candles, Shows(ticks, c)
    PROVE  Exact(c)
<1> DEFINE own == OwnOf(ticks, c.at)
           prices == {ticks[k].price : k \in own}
<1>1. Own(c.at) = own
  BY DEF Own, OwnOf, Heard, Beyond
<1>2. own \subseteq Nat /\ \A k \in own : ticks[k].price \in Int
  <2>1. DOMAIN ticks \subseteq Nat /\ \A k \in DOMAIN ticks : ticks[k] \in Ticks
    BY LenProperties, ElementOfSeq
  <2> QED BY <2>1 DEF OwnOf, Ticks
<1>3. PICK first \in own, last \in own :
         /\ \A k \in own : first <= k /\ k <= last
         /\ c.open = ticks[first].price /\ c.close = ticks[last].price
  BY DEF Shows
<1>4. /\ \E k \in own : c.high = ticks[k].price
      /\ \E k \in own : c.low = ticks[k].price
      /\ \A k \in own : c.low <= ticks[k].price /\ ticks[k].price <= c.high
      /\ c.volume = Cardinality(own)
  BY DEF Shows
<1>5. c.high \in Int /\ c.low \in Int
  BY DEF Candles
<1> HIDE DEF own
<1>6. Min(own) = first /\ Max(own) = last
  <2>1. \A x \in own : (\A y \in own : x <= y) => x = first
    BY <1>2, <1>3
  <2>2. \A x \in own : (\A y \in own : x >= y) => x = last
    BY <1>2, <1>3
  <2>3. (\A y \in own : first <= y) /\ (\A y \in own : last >= y)
    BY <1>2, <1>3
  <2> QED BY <2>1, <2>2, <2>3 DEF Min, Max
<1>7. /\ c.high \in prices /\ \A y \in prices : y \in Int /\ y <= c.high
      /\ c.low \in prices /\ \A y \in prices : c.low <= y
  BY <1>2, <1>4
<1> HIDE DEF prices
<1>8. Max(prices) = c.high /\ Min(prices) = c.low
  <2>1. \A x \in prices : (\A y \in prices : x >= y) => x = c.high
    BY <1>5, <1>7
  <2>2. \A x \in prices : (\A y \in prices : x <= y) => x = c.low
    BY <1>5, <1>7
  <2>3. (\A y \in prices : c.high >= y) /\ (\A y \in prices : c.low <= y)
    BY <1>5, <1>7
  <2> QED BY <1>7, <2>1, <2>2, <2>3 DEF Min, Max
<1>9. own # {}
  BY <1>3
<1> QED BY <1>1, <1>3, <1>4, <1>6, <1>8, <1>9 DEF Exact, prices

LEMMA OneMoreTick ==
    ASSUME NEW ts \in Seq(Ticks), NEW t \in Ticks, NEW u, Heeds(u, ts, t)
    PROVE  /\ u \in Seq(Ticks) /\ DOMAIN u = DOMAIN ts \cup {Len(ts) + 1} /\ DOMAIN ts = 1 .. Len(ts)
           /\ Len(ts) \in Nat /\ u[Len(ts) + 1] = t /\ \A i \in DOMAIN ts : u[i] = ts[i]
BY AppendProperties DEF Heeds

Joins(ts, t, at) == t.price > 0 /\ Floor(t.time) = at /\ \A k \in DOMAIN ts : ~Beyond(ts, k, at)

LEMMA OwnAfter ==
    ASSUME NEW ts \in Seq(Ticks), NEW t \in Ticks, NEW u, Heeds(u, ts, t), NEW at \in Int
    PROVE  /\ Joins(ts, t, at) => OwnOf(u, at) = OwnOf(ts, at) \cup {Len(ts) + 1}
           /\ ~Joins(ts, t, at) => OwnOf(u, at) = OwnOf(ts, at)
<1> DEFINE n == Len(ts)
<1>1. /\ DOMAIN u = DOMAIN ts \cup {n + 1} /\ DOMAIN ts = 1 .. n /\ n \in Nat
      /\ u[n + 1] = t /\ \A i \in 1 .. n : u[i] = ts[i]
  <2>1. /\ DOMAIN u = DOMAIN ts \cup {Len(ts) + 1} /\ DOMAIN ts = 1 .. Len(ts) /\ Len(ts) \in Nat
        /\ u[Len(ts) + 1] = t /\ \A i \in DOMAIN ts : u[i] = ts[i]
    BY OneMoreTick
  <2> QED BY <2>1
<1> HIDE DEF n
<1>2. \A i \in 1 .. n : (Heard(u, i, at) <=> Heard(ts, i, at)) /\ (Beyond(u, i, at) <=> Beyond(ts, i, at))
  BY <1>1 DEF Heard, Beyond
<1>3. ASSUME NEW i \in 1 .. n PROVE i \in OwnOf(u, at) <=> i \in OwnOf(ts, at)
  <2>1. \A k \in 1 .. i : k \in 1 .. n
    BY <1>1
  <2> QED BY <1>1, <1>2, <2>1 DEF OwnOf
<1>4. n + 1 \in OwnOf(u, at) <=> Joins(ts, t, at)
  <2>1. Heard(u, n + 1, at) <=> t.price > 0 /\ Floor(t.time) = at
    BY <1>1 DEF Heard
  <2>2. Heard(u, n + 1, at) => ~Beyond(u, n + 1, at)
    <3>1. Floor(t.time) \in Nat
      BY Floors DEF Ticks
    <3> QED BY <1>1, <3>1 DEF Heard, Beyond
  <2>3. 1 .. n + 1 = 1 .. n \cup {n + 1}
    BY <1>1
  <2> QED BY <1>1, <1>2, <2>1, <2>2, <2>3 DEF OwnOf, Joins
<1>5. OwnOf(u, at) \subseteq 1 .. n \cup {n + 1} /\ OwnOf(ts, at) \subseteq 1 .. n
  BY <1>1 DEF OwnOf
<1> QED BY <1>1, <1>3, <1>4, <1>5 DEF n

LEMMA OwnIsFinite ==
    ASSUME NEW ts \in Seq(Ticks), NEW at
    PROVE  /\ IsFiniteSet(OwnOf(ts, at)) /\ OwnOf(ts, at) \subseteq 1 .. Len(ts) /\ Len(ts) \in Nat
           /\ \A k \in 1 .. Len(ts) : ts[k] \in Ticks
<1>1. DOMAIN ts = 1 .. Len(ts) /\ Len(ts) \in Nat /\ \A k \in 1 .. Len(ts) : ts[k] \in Ticks
  BY LenProperties, ElementOfSeq
<1>2. OwnOf(ts, at) \subseteq 1 .. Len(ts)
  BY <1>1 DEF OwnOf
<1>3. IsFiniteSet(1 .. Len(ts))
  BY <1>1, FS_Interval
<1> QED BY <1>1, <1>2, <1>3, FS_Subset

(* What the arrival of a tick leaves of a candle's ticks, and what it adds. *)
LEMMA OwnStill ==
    ASSUME NEW ts \in Seq(Ticks), NEW t \in Ticks, NEW u, Heeds(u, ts, t), NEW at \in Int,
           ~Joins(ts, t, at)
    PROVE  OwnOf(u, at) = OwnOf(ts, at) /\ \A k \in OwnOf(ts, at) : u[k] = ts[k]
<1>1. OwnOf(u, at) = OwnOf(ts, at)
  BY OwnAfter
<1>2. \A k \in DOMAIN ts : u[k] = ts[k]
  BY OneMoreTick
<1>3. OwnOf(ts, at) \subseteq DOMAIN ts
  BY DEF OwnOf
<1> QED BY <1>1, <1>2, <1>3

LEMMA OwnGrows ==
    ASSUME NEW ts \in Seq(Ticks), NEW t \in Ticks, NEW u, Heeds(u, ts, t), NEW at \in Int, Joins(ts, t, at)
    PROVE  /\ OwnOf(u, at) = OwnOf(ts, at) \cup {Len(ts) + 1}
           /\ u[Len(ts) + 1] = t /\ \A k \in OwnOf(ts, at) : u[k] = ts[k]
           /\ Cardinality(OwnOf(u, at)) = Cardinality(OwnOf(ts, at)) + 1
           /\ Len(ts) \in Nat /\ \A k \in OwnOf(ts, at) : k \in 1 .. Len(ts) /\ ts[k].price \in Int
<1> DEFINE own == OwnOf(ts, at)
           n == Len(ts)
<1>1. OwnOf(u, at) = own \cup {n + 1}
  BY OwnAfter
<1>2. u[n + 1] = t /\ \A k \in DOMAIN ts : u[k] = ts[k]
  BY OneMoreTick
<1>3. own \subseteq DOMAIN ts
  BY DEF OwnOf
<1>4. IsFiniteSet(own) /\ own \subseteq 1 .. n /\ n \in Nat /\ \A k \in 1 .. n : ts[k] \in Ticks
  BY OwnIsFinite
<1>5. \A k \in 1 .. n : ts[k].price \in Int
  BY <1>4 DEF Ticks
<1> HIDE DEF own, n
<1>6. n + 1 \notin own
  BY <1>4
<1>7. Cardinality(own \cup {n + 1}) = Cardinality(own) + 1
  BY <1>4, <1>6, FS_AddElement
<1>8. \A k \in own : k \in 1 .. n /\ ts[k].price \in Int
  BY <1>4, <1>5
<1> QED BY <1>1, <1>2, <1>3, <1>4, <1>7, <1>8 DEF own, n

(* A tick of another time, a late one or one without a price changes no    *)
(* candle; one of the candle's time is taken in by _MutableOHLCV.update.   *)
LEMMA ShowsSame ==
    ASSUME NEW ts, NEW u, NEW c, Shows(ts, c),
           OwnOf(u, c.at) = OwnOf(ts, c.at) /\ \A k \in OwnOf(ts, c.at) : u[k] = ts[k]
    PROVE  Shows(u, c)
<1> DEFINE own == OwnOf(ts, c.at)
<1>1. /\ \E first, last \in own :
          /\ \A k \in own : first <= k /\ k <= last
          /\ c.open = ts[first].price /\ c.close = ts[last].price
      /\ \E k \in own : c.high = ts[k].price
      /\ \E k \in own : c.low = ts[k].price
      /\ \A k \in own : c.low <= ts[k].price /\ ts[k].price <= c.high
      /\ c.volume = Cardinality(own)
  BY DEF Shows
<1>2. OwnOf(u, c.at) = own /\ \A k \in own : u[k] = ts[k]
  OBVIOUS
<1> HIDE DEF own
<1>3. \E first, last \in own :
          /\ \A k \in own : first <= k /\ k <= last
          /\ c.open = u[first].price /\ c.close = u[last].price
  BY <1>1, <1>2
<1>4. /\ \E k \in own : c.high = u[k].price
      /\ \E k \in own : c.low = u[k].price
      /\ \A k \in own : c.low <= u[k].price /\ u[k].price <= c.high
  BY <1>1, <1>2
<1> QED BY <1>1, <1>2, <1>3, <1>4 DEF Shows

LEMMA ShowsStill ==
    ASSUME NEW ts \in Seq(Ticks), NEW t \in Ticks, NEW u, Heeds(u, ts, t),
           NEW c \in Candles, Shows(ts, c),
           ~Joins(ts, t, c.at)
    PROVE  Shows(u, c)
<1>1. c.at \in Int
  BY DEF Candles
<1>2. OwnOf(u, c.at) = OwnOf(ts, c.at) /\ \A k \in OwnOf(ts, c.at) : u[k] = ts[k]
  BY <1>1, OwnStill
<1> QED BY <1>2, ShowsSame

LEMMA ShowsUpdated ==
    ASSUME NEW ts \in Seq(Ticks), NEW t \in Ticks, NEW u, Heeds(u, ts, t),
           NEW c \in Candles, Shows(ts, c), Joins(ts, t, c.at),
           NEW d \in Candles, d.at = c.at, d.open = c.open, d.close = t.price,
           d.high = (IF t.price > c.high THEN t.price ELSE c.high),
           d.low = (IF t.price < c.low THEN t.price ELSE c.low), d.volume = c.volume + 1
    PROVE  Shows(u, d)
<1> DEFINE own == OwnOf(ts, c.at)
           n == Len(ts)
           all == own \cup {n + 1}
<1>1. c.at \in Int /\ c.high \in Int /\ c.low \in Int /\ t.price \in Int
  BY DEF Candles, Ticks
<1>2. /\ OwnOf(u, c.at) = all
      /\ u[n + 1] = t /\ \A k \in own : u[k] = ts[k]
      /\ Cardinality(OwnOf(u, c.at)) = Cardinality(own) + 1
      /\ n \in Nat /\ \A k \in own : k \in 1 .. n /\ ts[k].price \in Int
  BY <1>1, OwnGrows
<1>3. PICK first \in own, last \in own :
         /\ \A k \in own : first <= k /\ k <= last
         /\ c.open = ts[first].price /\ c.close = ts[last].price
  BY DEF Shows
<1>4. PICK top \in own : c.high = ts[top].price
  BY DEF Shows
<1>5. PICK low \in own : c.low = ts[low].price
  BY DEF Shows
<1>6. /\ \A k \in own : c.low <= ts[k].price /\ ts[k].price <= c.high
      /\ c.volume = Cardinality(own)
  BY DEF Shows
<1> HIDE DEF own, n
<1>7. Cardinality(OwnOf(u, c.at)) = d.volume
  BY <1>2, <1>6
<1>8. /\ first \in all /\ n + 1 \in all /\ \A k \in all : first <= k /\ k <= n + 1
      /\ d.open = u[first].price /\ d.close = u[n + 1].price
  <2>1. \A k \in own : first <= k /\ k <= n + 1
    BY <1>2, <1>3
  <2>2. first <= n + 1 /\ n + 1 <= n + 1
    BY <1>2
  <2>3. d.open = u[first].price /\ d.close = u[n + 1].price
    BY <1>2, <1>3
  <2> QED BY <2>1, <2>2, <2>3
<1>9. \A k \in all : d.low <= u[k].price /\ u[k].price <= d.high
  <2>1. ASSUME NEW k \in own PROVE d.low <= u[k].price /\ u[k].price <= d.high
    <3>1. ts[k].price \in Int /\ u[k].price = ts[k].price
      BY <1>2
    <3>2. c.low <= ts[k].price /\ ts[k].price <= c.high
      BY <1>6
    <3> QED BY <1>1, <3>1, <3>2
  <2>2. d.low <= t.price /\ t.price <= d.high
    BY <1>1
  <2> QED BY <1>2, <2>1, <2>2
<1>10. \E k \in all : d.high = u[k].price
  <2>1. CASE t.price > c.high
    BY <1>2, <2>1
  <2>2. CASE ~(t.price > c.high)
    <3>1. d.high = u[top].price
      BY <1>2, <1>4, <2>2
    <3> QED BY <3>1
  <2> QED BY <2>1, <2>2
<1>11. \E k \in all : d.low = u[k].price
  <2>1. CASE t.price < c.low
    BY <1>2, <2>1
  <2>2. CASE ~(t.price < c.low)
    <3>1. d.low = u[low].price
      BY <1>2, <1>5, <2>2
    <3> QED BY <3>1
  <2> QED BY <2>1, <2>2
<1> HIDE DEF all
<1>12. OwnOf(u, d.at) = all /\ d.volume = Cardinality(all)
  BY <1>2, <1>7
<1> QED BY <1>8, <1>9, <1>10, <1>11, <1>12 DEF Shows

LEMMA ShowsStarted ==
    ASSUME NEW ts \in Seq(Ticks), NEW t \in Ticks, NEW u, Heeds(u, ts, t), t.price > 0,
           \A k \in DOMAIN ts : ts[k].price > 0 => Floor(ts[k].time) < Floor(t.time)
    PROVE  Shows(u, Started(t.time, t.price))
<1> DEFINE c == Started(t.time, t.price)
           n == Len(ts)
           at == Floor(t.time)
<1>1. /\ c.at = at /\ c.open = t.price /\ c.close = t.price /\ c.high = t.price
      /\ c.low = t.price /\ c.volume = 1
  BY DEF Started
<1>2. at \in Nat /\ t.price \in Int
  BY Floors DEF Ticks
<1>3. \A k \in DOMAIN ts : ~Beyond(ts, k, at) /\ ~Heard(ts, k, at)
  <2>1. ASSUME NEW k \in DOMAIN ts PROVE Floor(ts[k].time) \in Nat
    <3>1. ts[k] \in Ticks
      BY LenProperties, ElementOfSeq
    <3> QED BY <3>1, Floors DEF Ticks
  <2> QED BY <1>2, <2>1 DEF Beyond, Heard
<1>4. OwnOf(ts, at) = {}
  BY <1>3 DEF OwnOf
<1>5. at \in Int /\ Joins(ts, t, at)
  BY <1>2, <1>3 DEF Joins
<1> HIDE DEF at
<1>6. OwnOf(u, at) = OwnOf(ts, at) \cup {n + 1} /\ u[n + 1] = t /\ n \in Nat
  BY <1>5, OwnGrows
<1>7. Cardinality({n + 1}) = 1
  BY FS_Singleton
<1> HIDE DEF c, n
<1>8. OwnOf(u, c.at) = {n + 1} /\ u[n + 1] = t /\ c.volume = Cardinality(OwnOf(u, c.at)) /\ n \in Nat
  BY <1>1, <1>4, <1>6, <1>7
<1>9. PICK k : OwnOf(u, c.at) = {k} /\ u[k] = t /\ k \in Int
  BY <1>8
<1>10. /\ \E first, last \in OwnOf(u, c.at) :
            /\ \A j \in OwnOf(u, c.at) : first <= j /\ j <= last
            /\ c.open = u[first].price /\ c.close = u[last].price
       /\ \E j \in OwnOf(u, c.at) : c.high = u[j].price
       /\ \E j \in OwnOf(u, c.at) : c.low = u[j].price
       /\ \A j \in OwnOf(u, c.at) : c.low <= u[j].price /\ u[j].price <= c.high
  BY <1>1, <1>2, <1>9
<1>11. Shows(u, c)
  BY <1>8, <1>10 DEF Shows
<1> QED BY <1>11 DEF c

(* The updates that were returned: what appending one does to them.        *)
Returned == [final : BOOLEAN, candle : Candles]
Settled(ts, us, at) ==
    \A i \in DOMAIN us : us[i].final => Shows(ts, us[i].candle) /\ us[i].candle.at < at
Rising(us) ==
    \A i, k \in DOMAIN us : us[i].final /\ us[k].final /\ i < k => us[i].candle.at < us[k].candle.at

LEMMA OneMoreUpdate ==
    ASSUME NEW us \in Seq(Returned), NEW x \in Returned, NEW vs, Heeds(vs, us, x)
    PROVE  /\ vs \in Seq(Returned) /\ DOMAIN vs = DOMAIN us \cup {Len(us) + 1} /\ DOMAIN us = 1 .. Len(us)
           /\ Len(us) \in Nat /\ vs[Len(us) + 1] = x /\ \A i \in DOMAIN us : vs[i] = us[i]
BY AppendProperties DEF Heeds

LEMMA LastUpdate ==
    ASSUME NEW us \in Seq(Returned), NEW x \in Returned, NEW vs, Heeds(vs, us, x)
    PROVE  vs \in Seq(Returned) /\ vs # <<>> /\ Last(vs) = x
<1>1. vs \in Seq(Returned) /\ Len(us) \in Nat /\ vs[Len(us) + 1] = x /\ Len(vs) = Len(us) + 1
  BY AppendProperties DEF Heeds
<1> QED BY <1>1, EmptySeq DEF Last

LEMMA PartialAdded ==
    ASSUME NEW us \in Seq(Returned), NEW x \in Returned, NEW vs, Heeds(vs, us, x), ~x.final,
           NEW ts, NEW at, Settled(ts, us, at), Rising(us)
    PROVE  Settled(ts, vs, at) /\ Rising(vs)
<1> DEFINE n == Len(us)
<1>1. DOMAIN vs = DOMAIN us \cup {n + 1} /\ vs[n + 1] = x /\ \A i \in DOMAIN us : vs[i] = us[i]
  <2>1. /\ DOMAIN vs = DOMAIN us \cup {Len(us) + 1} /\ vs[Len(us) + 1] = x
        /\ \A i \in DOMAIN us : vs[i] = us[i]
    <3>1. us \in Seq(Returned) /\ x \in Returned /\ Heeds(vs, us, x)
      OBVIOUS
    <3> QED BY ONLY <3>1, OneMoreUpdate
  <2> QED BY <2>1
<1> HIDE DEF n
<1>2. \A i \in DOMAIN vs : vs[i].final => i \in DOMAIN us
  BY <1>1
<1>3. Settled(ts, vs, at)
  BY <1>1, <1>2 DEF Settled
<1>4. Rising(vs)
  BY <1>1, <1>2 DEF Rising
<1> QED BY <1>3, <1>4

LEMMA FinalAdded ==
    ASSUME NEW us \in Seq(Returned), NEW c \in Candles, NEW vs, Heeds(vs, us, Final(c)),
           NEW ts, NEW at \in Int, Settled(ts, us, c.at), Rising(us), Shows(ts, c), c.at < at
    PROVE  Settled(ts, vs, at) /\ Rising(vs)
<1> DEFINE n == Len(us)
<1>1. Final(c) \in Returned /\ Final(c).final /\ Final(c).candle = c /\ c.at \in Int
  BY DEF Final, Returned, Candles
<1>2. /\ DOMAIN vs = DOMAIN us \cup {n + 1} /\ DOMAIN us = 1 .. n /\ n \in Nat
      /\ vs[n + 1] = Final(c) /\ \A i \in DOMAIN us : vs[i] = us[i]
  <2>1. /\ DOMAIN vs = DOMAIN us \cup {Len(us) + 1} /\ DOMAIN us = 1 .. Len(us) /\ Len(us) \in Nat
        /\ vs[Len(us) + 1] = Final(c) /\ \A i \in DOMAIN us : vs[i] = us[i]
    BY <1>1, OneMoreUpdate
  <2> QED BY <2>1
<1>3. \A i \in DOMAIN us : us[i].candle.at \in Int
  <2>1. \A i \in DOMAIN us : us[i] \in Returned
    BY ElementOfSeq, LenProperties
  <2> QED BY <2>1 DEF Returned, Candles
<1> HIDE DEF n
<1>4. \A i \in DOMAIN us : us[i].final => Shows(ts, us[i].candle) /\ us[i].candle.at < c.at /\ us[i].candle.at < at
  <2>1. \A i \in DOMAIN us : us[i].final => Shows(ts, us[i].candle) /\ us[i].candle.at < c.at
    BY DEF Settled
  <2> QED BY <1>1, <1>3, <2>1
<1>5. Settled(ts, vs, at)
  BY <1>1, <1>2, <1>4 DEF Settled
<1>6. Rising(vs)
  <2>1. ASSUME NEW i \in DOMAIN vs, NEW k \in DOMAIN vs, vs[i].final, vs[k].final, i < k
        PROVE  vs[i].candle.at < vs[k].candle.at
    <3>1. i \in DOMAIN us
      BY <1>2, <2>1
    <3>2. CASE k \in DOMAIN us
      BY <1>2, <2>1, <3>1, <3>2 DEF Rising
    <3>3. CASE k = n + 1
      BY <1>1, <1>2, <1>4, <2>1, <3>1, <3>3
    <3> QED BY <1>2, <3>2, <3>3
  <2> QED BY <2>1 DEF Rising
<1> QED BY <1>5, <1>6

LEMMA SettledStill ==
    ASSUME NEW ts \in Seq(Ticks), NEW t \in Ticks, NEW u, Heeds(u, ts, t),
           NEW us \in Seq(Returned), NEW at, Settled(ts, us, at),
           \A x \in Int : x < at => ~Joins(ts, t, x)
    PROVE  Settled(u, us, at)
<1>1. ASSUME NEW i \in DOMAIN us, us[i].final
      PROVE  Shows(u, us[i].candle) /\ us[i].candle.at < at
  <2>1. us[i].candle \in Candles /\ us[i].candle.at \in Int
    <3>1. us[i] \in Returned
      BY ElementOfSeq, LenProperties
    <3> QED BY <3>1 DEF Returned, Candles
  <2>2. Shows(ts, us[i].candle) /\ us[i].candle.at < at
    BY <1>1 DEF Settled
  <2>3. ~Joins(ts, t, us[i].candle.at)
    BY <2>1, <2>2
  <2>4. us[i].candle \in Candles /\ Shows(ts, us[i].candle) /\ ~Joins(ts, t, us[i].candle.at)
    BY <2>1, <2>2, <2>3
  <2>5. Shows(u, us[i].candle)
    BY <2>4, ShowsStill
  <2> QED BY <2>2, <2>5
<1> QED BY <1>1 DEF Settled

(* No tick that counts is of a later time than the open candle, and one is *)
(* of its time: a tick of an earlier time is late for every candle.        *)
LEMMA LateIsLate ==
    ASSUME NEW ts \in Seq(Ticks), NEW t \in Ticks, NEW c \in Candles, Shows(ts, c)
    PROVE  \A x \in Int : x < c.at => ~Joins(ts, t, x)
<1>1. PICK k \in OwnOf(ts, c.at) : TRUE
  BY DEF Shows
<1>2. k \in DOMAIN ts /\ ts[k].price > 0 /\ Floor(ts[k].time) = c.at /\ c.at \in Int
  BY DEF OwnOf, Heard, Candles
<1>3. ASSUME NEW x \in Int, x < c.at PROVE Beyond(ts, k, x)
  BY <1>2, <1>3 DEF Beyond
<1> QED BY <1>2, <1>3 DEF Joins

(* The inductive invariant: the open candle shows its ticks, none that     *)
(* counts is of a later time, and the final candles are of earlier ones.   *)
TickOK ==
    /\ ticks \in Seq(Ticks) /\ bucket \in Candles /\ updates \in Seq(Returned)
    /\ Settled(ticks, updates, bucket.at) /\ Rising(updates)
    /\ bucket = NoBucket => updates = <<>> /\ \A k \in DOMAIN ticks : ~(ticks[k].price > 0)
    /\ bucket # NoBucket =>
         /\ bucket.at \in Nat /\ Shows(ticks, bucket)
         /\ \A k \in DOMAIN ticks : ~Beyond(ticks, k, bucket.at)
         /\ updates # <<>> /\ Last(updates) = Partial(bucket)

LEMMA TickOKInit == TickInit => TickOK
<1>1. ASSUME TickInit PROVE TickOK
  <2>1. ticks \in Seq(Ticks) /\ updates \in Seq(Returned) /\ DOMAIN ticks = {} /\ DOMAIN updates = {}
    BY <1>1, EmptySeq DEF TickInit
  <2>2. bucket \in Candles
    BY <1>1 DEF TickInit, NoBucket, Candles
  <2>3. Settled(ticks, updates, bucket.at) /\ Rising(updates)
    BY <2>1 DEF Settled, Rising
  <2> QED BY <1>1, <2>1, <2>2, <2>3 DEF TickInit, TickOK
<1> QED BY <1>1

LEMMA TickOKAdd ==
    ASSUME TickOK, NEW time \in 0 .. MaxTime, NEW p \in Prices, AddTick(time, p)
    PROVE  TickOK'
<1> DEFINE t == [time |-> time, price |-> p]
           at == Floor(time)
           next == NextBucket(time, p)
           over == bucket # NoBucket /\ next.at > bucket.at
<1>1. /\ ticks' = Append(ticks, t)
      /\ p <= 0 => bucket' = bucket /\ updates' = updates
      /\ ~(p <= 0) => /\ bucket' = next
                      /\ updates' = updates \o (IF over THEN <<Final(bucket)>> ELSE <<>>)
                                            \o (IF next # bucket THEN <<Partial(next)>> ELSE <<>>)
  BY DEF AddTick
<1>2. /\ ticks \in Seq(Ticks) /\ bucket \in Candles /\ updates \in Seq(Returned)
      /\ Settled(ticks, updates, bucket.at) /\ Rising(updates)
      /\ bucket = NoBucket => updates = <<>> /\ \A k \in DOMAIN ticks : ~(ticks[k].price > 0)
      /\ bucket # NoBucket =>
           /\ bucket.at \in Nat /\ Shows(ticks, bucket)
           /\ \A k \in DOMAIN ticks : ~Beyond(ticks, k, bucket.at)
           /\ updates # <<>> /\ Last(updates) = Partial(bucket)
  BY DEF TickOK
<1>3. time \in Nat /\ p \in Int /\ t \in Ticks /\ t.time = time /\ t.price = p
  BY TickAssumption DEF Ticks
<1>4. at \in Nat /\ at = Floor(t.time)
  BY <1>3, Floors
<1>5. Heeds(ticks', ticks, t)
  BY <1>1 DEF Heeds
<1> HIDE DEF t, at
<1>6. /\ ticks' \in Seq(Ticks) /\ DOMAIN ticks' = DOMAIN ticks \cup {Len(ticks) + 1}
      /\ ticks'[Len(ticks) + 1] = t /\ \A i \in DOMAIN ticks : ticks'[i] = ticks[i]
  BY <1>2, <1>3, <1>5, OneMoreTick
<1>7. bucket.at \in Int /\ bucket.volume \in Nat /\ bucket.high \in Int /\ bucket.low \in Int
      /\ bucket.open \in Int
  BY <1>2 DEF Candles
<1>8. \A k \in DOMAIN ticks : ticks[k] \in Ticks /\ Floor(ticks[k].time) \in Nat
  <2>1. \A k \in DOMAIN ticks : ticks[k] \in Ticks
    BY <1>2, ElementOfSeq, LenProperties
  <2>2. \A k \in DOMAIN ticks : ticks[k].time \in Nat
    BY <2>1 DEF Ticks
  <2> QED BY <2>1, <2>2, Floors
<1>9. \A i \in DOMAIN ticks, x \in Int : Beyond(ticks', i, x) <=> Beyond(ticks, i, x)
  BY <1>6 DEF Beyond
<1>10. bucket # NoBucket => \A x \in Int : x < bucket.at => ~Joins(ticks, t, x)
  BY <1>2, <1>3, LateIsLate
<1>11. bucket = NoBucket => DOMAIN updates = {}
  BY <1>2, EmptySeq
(* Nothing counts: a tick without a price, or a late one.                  *)
<1>12. ASSUME ~(p > 0) \/ (bucket # NoBucket /\ at < bucket.at) PROVE TickOK'
  <2>1. bucket' = bucket /\ updates' = updates
    <3>1. CASE ~(p > 0)
      BY <1>1, <1>3, <3>1
    <3>2. CASE p > 0 /\ bucket # NoBucket /\ at < bucket.at
      <4>1. next = bucket
        BY <1>4, <1>7, <3>2 DEF NextBucket, at
      <4>2. ~over
        BY <1>7, <4>1
      <4>3. updates' = updates \o <<>> \o <<>>
        <5>1. ~(p <= 0) /\ ~(next # bucket)
          BY <1>3, <3>2, <4>1
        <5> HIDE DEF next, over
        <5> QED BY <1>1, <4>2, <5>1
      <4>4. updates' = updates
        BY <1>2, <4>3, ConcatEmptySeq
      <4> QED BY <1>1, <1>3, <3>2, <4>1, <4>4
    <3> QED BY <1>3, <1>12, <3>1, <3>2
  <2>2. ~Joins(ticks, t, bucket.at)
    BY <1>3, <1>4, <1>7, <1>12 DEF Joins
  <2>3. bucket # NoBucket => \A x \in Int : x < bucket.at => ~Joins(ticks, t, x)
    BY <1>10
  <2>4. Settled(ticks', updates', bucket'.at)
    <3>1. CASE bucket = NoBucket
      BY <1>11, <2>1, <3>1 DEF Settled
    <3>2. CASE bucket # NoBucket
      BY <1>2, <1>3, <1>5, <2>1, <2>3, <3>2, SettledStill
    <3> QED BY <3>1, <3>2
  <2>5. ASSUME bucket = NoBucket PROVE \A k \in DOMAIN ticks' : ~(ticks'[k].price > 0)
    BY <1>2, <1>3, <1>6, <1>12, <2>5
  <2>6. ASSUME bucket # NoBucket PROVE Shows(ticks', bucket)
    BY <1>2, <1>3, <1>5, <2>2, <2>6, ShowsStill
  <2>7. ASSUME bucket # NoBucket PROVE \A k \in DOMAIN ticks' : ~Beyond(ticks', k, bucket.at)
    <3>1. ~Beyond(ticks', Len(ticks) + 1, bucket.at)
      BY <1>3, <1>4, <1>6, <1>7, <1>12, <2>7 DEF Beyond
    <3> QED BY <1>2, <1>6, <1>7, <1>9, <2>7, <3>1
  <2> QED BY <1>2, <1>6, <2>1, <2>4, <2>5, <2>6, <2>7 DEF TickOK
(* A tick of the open candle's time is taken in.                           *)
<1>13. ASSUME p > 0, bucket # NoBucket, at = bucket.at PROVE TickOK'
  <2>1. next = Updated(p)
    BY <1>7, <1>13 DEF NextBucket, at
  <2>2. /\ next.at = bucket.at /\ next.open = bucket.open /\ next.close = p
        /\ next.high = (IF p > bucket.high THEN p ELSE bucket.high)
        /\ next.low = (IF p < bucket.low THEN p ELSE bucket.low)
        /\ next.volume = bucket.volume + 1 /\ next \in Candles
    <3>2. Updated(p) = [at |-> bucket.at, open |-> bucket.open,
                        high |-> IF p > bucket.high THEN p ELSE bucket.high,
                        low |-> IF p < bucket.low THEN p ELSE bucket.low,
                        close |-> p, volume |-> bucket.volume + 1]
      BY DEF Updated
    <3>3. (IF p > bucket.high THEN p ELSE bucket.high) \in Int
          /\ (IF p < bucket.low THEN p ELSE bucket.low) \in Int /\ bucket.volume + 1 \in Nat
      BY <1>3, <1>7
    <3>4. Updated(p) \in Candles
      BY <1>3, <1>7, <3>2, <3>3 DEF Candles
    <3> QED BY <2>1, <3>2, <3>4
  <2>3. bucket' = next /\ next # bucket /\ ~over
    <3>1. next # bucket
      BY <1>7, <2>2
    <3>2. ~over
      BY <1>7, <2>2
    <3>3. ~(p <= 0)
      BY <1>3, <1>13
    <3> HIDE DEF next, over
    <3> QED BY <1>1, <3>1, <3>2, <3>3
  <2>4. Partial(next) \in Returned /\ ~Partial(next).final
    BY <2>2 DEF Partial, Returned
  <2>5. Heeds(updates', updates, Partial(next))
    <3>1. updates' = updates \o <<>> \o <<Partial(next)>>
      BY <1>1, <1>3, <1>13, <2>3
    <3>2. updates' = updates \o <<Partial(next)>>
      BY <1>2, <3>1, ConcatEmptySeq
    <3> QED BY <1>2, <2>4, <3>2, AppendIsConcat DEF Heeds
  <2>6. Joins(ticks, t, bucket.at)
    BY <1>2, <1>3, <1>4, <1>13 DEF Joins
  <2> HIDE DEF next, over
  <2>7. Shows(ticks', next)
    <3>1. /\ next.at = bucket.at /\ next.open = bucket.open /\ next.close = t.price
          /\ next.high = (IF t.price > bucket.high THEN t.price ELSE bucket.high)
          /\ next.low = (IF t.price < bucket.low THEN t.price ELSE bucket.low)
          /\ next.volume = bucket.volume + 1 /\ next \in Candles
      BY <1>3, <2>2
    <3> QED BY <1>2, <1>3, <1>5, <1>13, <2>6, <3>1, ShowsUpdated
  <2>8. Settled(ticks', updates, bucket.at)
    BY <1>2, <1>3, <1>5, <1>10, <1>13, SettledStill
  <2>9. Settled(ticks', updates', bucket'.at) /\ Rising(updates')
    BY <1>2, <2>2, <2>3, <2>4, <2>5, <2>8, PartialAdded
  <2>10. updates' \in Seq(Returned) /\ updates' # <<>> /\ Last(updates') = Partial(next)
    BY <1>2, <2>4, <2>5, LastUpdate
  <2>11. \A k \in DOMAIN ticks' : ~Beyond(ticks', k, bucket.at)
    <3>1. ~Beyond(ticks', Len(ticks) + 1, bucket.at)
      <4>1. ticks'[Len(ticks) + 1].time = t.time
        BY <1>6
      <4>2. Floor(ticks'[Len(ticks) + 1].time) = bucket.at
        BY <1>4, <1>13, <4>1
      <4>3. ~(Floor(ticks'[Len(ticks) + 1].time) > bucket.at)
        BY <1>7, <4>2
      <4> QED BY <4>3 DEF Beyond
    <3> QED BY <1>2, <1>6, <1>7, <1>9, <1>13, <3>1
  <2>12. bucket' # NoBucket
    BY <1>2, <1>13, <2>2, <2>3 DEF NoBucket
  <2> QED BY <1>2, <1>6, <1>13, <2>2, <2>3, <2>7, <2>9, <2>10, <2>11, <2>12 DEF TickOK
(* A tick of a later time, or the first, begins a candle.                  *)
<1>14. ASSUME p > 0, bucket = NoBucket \/ at > bucket.at PROVE TickOK'
  <2>1. next = Started(time, p)
    BY <1>7, <1>14 DEF NextBucket, at
  <2>2. next.at = at /\ next.volume = 1 /\ next \in Candles
    <3>1. Started(time, p) \in Candles
      BY <1>3, <1>4 DEF Started, Candles, at
    <3> QED BY <2>1, <3>1 DEF Started, at
  <2>3. bucket' = next /\ next # bucket /\ next # NoBucket
    <3>1. next # NoBucket
      BY <2>2 DEF NoBucket
    <3>2. bucket # NoBucket => next # bucket
      BY <1>4, <1>7, <1>14, <2>2
    <3>3. ~(p <= 0)
      BY <1>3, <1>14
    <3> HIDE DEF next
    <3> QED BY <1>1, <3>1, <3>2, <3>3
  <2>4. over <=> bucket # NoBucket
    BY <1>14, <2>2
  <2>5. Partial(next) \in Returned /\ ~Partial(next).final /\ Final(bucket) \in Returned
    BY <1>2, <2>2 DEF Partial, Final, Returned
  <2>6. \A k \in DOMAIN ticks : ticks[k].price > 0 => Floor(ticks[k].time) < at
    <3>1. CASE bucket = NoBucket
      BY <1>2, <3>1
    <3>2. CASE bucket # NoBucket /\ at > bucket.at
      BY <1>2, <1>4, <1>7, <1>8, <3>2 DEF Beyond
    <3> QED BY <1>14, <3>1, <3>2
  <2>7. Shows(ticks', next)
    <3>1. t.price > 0 /\ \A k \in DOMAIN ticks : ticks[k].price > 0 => Floor(ticks[k].time) < Floor(t.time)
      BY <1>3, <1>4, <1>14, <2>6
    <3>2. Shows(ticks', Started(t.time, t.price))
      BY <1>2, <1>3, <1>5, <3>1, ShowsStarted
    <3> QED BY <1>3, <2>1, <3>2
  <2>8. \A k \in DOMAIN ticks' : ~Beyond(ticks', k, at)
    <3>1. ~Beyond(ticks', Len(ticks) + 1, at)
      BY <1>3, <1>4, <1>6 DEF Beyond
    <3>2. \A k \in DOMAIN ticks : ~Beyond(ticks, k, at)
      BY <1>4, <1>8, <2>6 DEF Beyond
    <3> QED BY <1>4, <1>6, <1>9, <3>1, <3>2
  <2>9. updates' = (updates \o (IF over THEN <<Final(bucket)>> ELSE <<>>)) \o <<Partial(next)>>
    BY <1>1, <1>3, <1>14, <2>3
  <2> DEFINE before == updates \o (IF over THEN <<Final(bucket)>> ELSE <<>>)
  <2>10. before \in Seq(Returned) /\ Settled(ticks', before, at) /\ Rising(before)
    <3>1. CASE bucket = NoBucket
      <4>1. before = updates
        BY <1>2, <2>4, <3>1, ConcatEmptySeq
      <4> QED BY <1>2, <1>11, <3>1, <4>1 DEF Settled, Rising
    <3>2. CASE bucket # NoBucket /\ at > bucket.at
      <4>1. Heeds(before, updates, Final(bucket))
        <5>1. before = updates \o <<Final(bucket)>>
          BY <2>4, <3>2
        <5> QED BY <1>2, <2>5, <5>1, AppendIsConcat DEF Heeds
      <4>2. ~Joins(ticks, t, bucket.at)
        BY <1>3, <1>4, <1>7, <3>2 DEF Joins
      <4> HIDE DEF before, next, over
      <4>3. before \in Seq(Returned)
        BY <1>2, <2>5, <4>1, OneMoreUpdate
      <4>4. Settled(ticks', updates, bucket.at)
        BY <1>2, <1>3, <1>5, <1>10, <3>2, SettledStill
      <4>5. Shows(ticks', bucket)
        BY <1>2, <1>3, <1>5, <3>2, <4>2, ShowsStill
      <4>6. at \in Int /\ bucket.at < at
        BY <1>4, <1>7, <3>2
      <4> QED BY <1>2, <4>1, <4>3, <4>4, <4>5, <4>6, FinalAdded
    <3> QED BY <1>14, <3>1, <3>2
  <2> HIDE DEF before, next, over
  <2>11. Heeds(updates', before, Partial(next))
    BY <2>5, <2>9, <2>10, AppendIsConcat DEF Heeds, before
  <2>12. updates' \in Seq(Returned) /\ updates' # <<>> /\ Last(updates') = Partial(next)
    BY <2>5, <2>10, <2>11, LastUpdate
  <2>13. Settled(ticks', updates', at) /\ Rising(updates')
    BY <2>5, <2>10, <2>11, PartialAdded
  <2> QED BY <1>4, <1>6, <2>2, <2>3, <2>7, <2>8, <2>12, <2>13 DEF TickOK
<1> QED BY <1>3, <1>4, <1>7, <1>12, <1>13, <1>14

(* The final candles ascend, and each one is what its ticks say: open,     *)
(* high, low, close and volume of exactly the ticks of its time that came  *)
(* with a price before any of a later time, whatever order the ticks come  *)
(* in (TickToCandleNormalizer.add_tick); the last partial candle is the    *)
(* open one.                                                               *)
THEOREM TickCandlesAreExact == TickSpec => []FinalsAreExact
<1>1. TickInit => TickOK
  BY TickOKInit
<1>2. TickOK /\ [TickNext]_tickVars => TickOK'
  <2> SUFFICES ASSUME TickOK, [TickNext]_tickVars PROVE TickOK'
    OBVIOUS
  <2>1. CASE UNCHANGED tickVars
    <3>1. ticks' = ticks /\ bucket' = bucket /\ updates' = updates
      BY <2>1 DEF tickVars
    <3> QED BY <3>1 DEF TickOK
  <2>2. CASE TickNext
    <3>1. PICK time \in 0 .. MaxTime, p \in Prices : AddTick(time, p)
      BY <2>2 DEF TickNext
    <3> QED BY <3>1, TickOKAdd
  <2> QED BY <2>1, <2>2
<1>3. TickOK => FinalsAreExact
  <2> SUFFICES ASSUME TickOK PROVE FinalsAreExact
    OBVIOUS
  <2>1. \A i, k \in {j \in DOMAIN updates : updates[j].final} :
            i < k => updates[i].candle.at < updates[k].candle.at
    BY DEF TickOK, Rising
  <2>2. ASSUME NEW i \in DOMAIN updates, updates[i].final PROVE Exact(updates[i].candle)
    <3>1. updates[i] \in Returned /\ Shows(ticks, updates[i].candle) /\ ticks \in Seq(Ticks)
      BY <2>2, ElementOfSeq, LenProperties DEF TickOK, Settled
    <3>2. updates[i].candle \in Candles
      BY <3>1 DEF Returned
    <3> QED BY <3>1, <3>2, ShowsExact
  <2>3. bucket # NoBucket => Last(updates) = Partial(bucket)
    BY DEF TickOK
  <2> QED BY <2>1, <2>2, <2>3 DEF FinalsAreExact
<1> QED BY <1>1, <1>2, <1>3, PTL DEF TickSpec
-----------------------------------------------------------------------------
(* Numbers. A quotient times its divisor; products that keep an order.     *)
LEMMA QuotientIs ==
    ASSUME NEW a \in Nat, NEW d \in Nat \ {0}
    PROVE  a \div d \in Nat /\ (a \div d) * d <= a /\ a < (a \div d) * d + d
  OBVIOUS

LEMMA ProductGrows ==
    ASSUME NEW i \in Nat, NEW k \in Nat, i <= k, NEW d \in Nat
    PROVE  i * d \in Nat /\ k * d \in Nat /\ i * d <= k * d
<1>1. PICK j \in Nat : k = i + j
  <2>1. k - i \in Nat /\ k = i + (k - i)
    OBVIOUS
  <2> QED BY <2>1
<1>2. (i + j) * d = i * d + j * d /\ j * d \in Nat /\ i * d \in Nat
  OBVIOUS
<1> QED BY <1>1, <1>2

LEMMA ProductNext ==
    ASSUME NEW k \in Int, NEW d \in Int
    PROVE  (k - 1) * d + d = k * d /\ k * d \in Int /\ (k - 1) * d \in Int
  OBVIOUS

LEMMA SumNext ==
    ASSUME NEW w \in Int, NEW k \in Int, NEW x \in Int, NEW y \in Int, NEW z \in Int,
           w * (k - 1) <= y - x, w <= z - y
    PROVE  w * k <= z - x
<1>1. w * (k - 1) + w = w * k /\ w * k \in Int /\ w * (k - 1) \in Int
  OBVIOUS
<1> DEFINE p == w * (k - 1)
           q == w * k
<1>2. p + w = q /\ q \in Int /\ p \in Int /\ p <= y - x
  BY <1>1
<1> HIDE DEF p, q
<1>3. q <= z - x
  BY <1>2
<1> QED BY <1>3 DEF q

-----------------------------------------------------------------------------
(* The folds of a series of n bars.                                        *)
FoldCount(n) == IF n < TrainBars + TestBars THEN 0 ELSE (n - TrainBars) \div TestBars

LEMMA FoldCountIs ==
    ASSUME NEW n \in Nat
    PROVE  /\ FoldCount(n) \in Nat
           /\ n >= TrainBars + TestBars <=> FoldCount(n) # 0
           /\ FoldCount(n) # 0 => /\ TrainBars + FoldCount(n) * TestBars <= n
                                  /\ n - (TrainBars + FoldCount(n) * TestBars) < TestBars
<1> DEFINE q == (n - TrainBars) \div TestBars
<1>1. TrainBars \in Nat /\ TestBars \in Nat \ {0}
  BY WalkAssumption
<1>2. CASE n < TrainBars + TestBars
  BY <1>1, <1>2 DEF FoldCount
<1>3. CASE n >= TrainBars + TestBars
  <2>1. n - TrainBars \in Nat /\ ~(n < TrainBars + TestBars)
    BY <1>1, <1>3
  <2>2. q \in Nat /\ q * TestBars <= n - TrainBars /\ n - TrainBars < q * TestBars + TestBars
    BY <1>1, <2>1, QuotientIs
  <2>3. FoldCount(n) = q
    BY <2>1 DEF FoldCount
  <2> HIDE DEF q
  <2>4. q # 0
    <3>1. q = 0 => q * TestBars = 0
      BY <1>1
    <3> QED BY <1>1, <1>3, <2>2, <3>1
  <2>5. q * TestBars \in Int
    BY <1>1, <2>2
  <2> QED BY <1>1, <1>3, <2>2, <2>3, <2>4, <2>5
<1> QED BY <1>1, <1>2, <1>3

LEMMA FoldsAre ==
    ASSUME NEW n \in Nat
    PROVE  /\ DOMAIN Folds(n) = 1 .. FoldCount(n) /\ Len(Folds(n)) = FoldCount(n)
           /\ FoldCount(n) \in Nat /\ (Folds(n) = <<>> <=> FoldCount(n) = 0)
           /\ \A k \in 1 .. FoldCount(n) : Folds(n)[k] = Fold((k - 1) * TestBars)
<1> DEFINE q == FoldCount(n)
           fs == [k \in 1 .. q |-> Fold((k - 1) * TestBars)]
<1>1. Folds(n) = fs
  BY DEF Folds, FoldCount
<1>2. q \in Nat
  BY FoldCountIs
<1> HIDE DEF q
<1>3. DOMAIN fs = 1 .. q /\ Len(fs) = q /\ \A k \in 1 .. q : fs[k] = Fold((k - 1) * TestBars)
  BY <1>2
<1>4. fs = <<>> <=> q = 0
  <2>1. q = 0 => fs = <<>>
    <3>1. q = 0 => 1 .. q = {}
      OBVIOUS
    <3> QED BY <3>1
  <2>2. fs = <<>> => q = 0
    BY <1>3
  <2> QED BY <2>1, <2>2
<1> HIDE DEF fs
<1> QED BY <1>1, <1>2, <1>3, <1>4 DEF q

(* A fold lies in the series, and begins a test part after the one before. *)
LEMMA FoldIs ==
    ASSUME NEW n \in Nat, NEW k \in 1 .. FoldCount(n)
    PROVE  LET f == Folds(n)[k] IN
           /\ f.trainStart \in Nat /\ f.trainEnd \in Nat /\ f.testEnd \in Nat
           /\ f.trainStart = (k - 1) * TestBars
           /\ f.trainStart < f.trainEnd /\ f.trainEnd < f.testEnd /\ f.testEnd <= n
           /\ f.trainEnd = TrainBars + (k - 1) * TestBars
           /\ f.testEnd = TrainBars + k * TestBars
<1>1. TrainBars \in Nat \ {0} /\ TestBars \in Nat \ {0}
  BY WalkAssumption
<1> DEFINE q == FoldCount(n)
<1>2. q \in Nat /\ q # 0 /\ TrainBars + q * TestBars <= n
  BY FoldCountIs
<1>3. Folds(n)[k] = Fold((k - 1) * TestBars)
  BY FoldsAre
<1> HIDE DEF q
<1>4. k \in Nat /\ k - 1 \in Nat /\ k <= q
  BY <1>2 DEF q
<1>5. k * TestBars \in Nat /\ q * TestBars \in Nat /\ k * TestBars <= q * TestBars
  BY <1>1, <1>2, <1>4, ProductGrows
<1>6. (k - 1) * TestBars + TestBars = k * TestBars
  BY <1>1, <1>4, ProductNext
<1>7. (k - 1) * TestBars \in Nat
  <2>1. k - 1 <= k
    BY <1>4
  <2> QED BY <1>1, <1>4, <2>1, ProductGrows
<1> DEFINE s == (k - 1) * TestBars
           e == k * TestBars
           l == q * TestBars
<1>8. s \in Nat /\ s + TestBars = e /\ e <= l /\ TrainBars + l <= n /\ Folds(n)[k] = Fold(s)
  BY <1>2, <1>3, <1>5, <1>6, <1>7
<1> HIDE DEF s, e, l
<1>9. /\ Folds(n)[k].trainStart = s /\ Folds(n)[k].trainEnd = s + TrainBars
      /\ Folds(n)[k].testEnd = s + TrainBars + TestBars
  BY <1>8 DEF Fold
<1>10. l \in Nat
  BY <1>5 DEF l
<1> QED BY <1>1, <1>8, <1>9, <1>10 DEF s, e

LEMMA SplitIs == ASSUME NEW n \in Nat, n > 1 PROVE CanSplit(n)
<1>1. (n * 7) \div 10 > 0 /\ (n * 7) \div 10 < n
  OBVIOUS
<1> QED BY <1>1 DEF CanSplit, SplitIndex

LEMMA TilesAre == ASSUME moves \in Seq(Int) PROVE FoldsTile
<1> DEFINE n == Len(moves)
           fs == Folds(n)
           q == FoldCount(n)
<1>1. n \in Nat
  BY LenProperties
<1>2. /\ DOMAIN fs = 1 .. q /\ Len(fs) = q /\ q \in Nat /\ (fs = <<>> <=> q = 0)
      /\ (n >= TrainBars + TestBars <=> q # 0)
  BY <1>1, FoldsAre, FoldCountIs
<1>3. ASSUME NEW k \in 1 .. q
      PROVE  /\ fs[k].trainStart >= 0 /\ fs[k].testEnd <= n
             /\ fs[k].trainEnd = (IF k = 1 THEN TrainBars ELSE fs[k - 1].testEnd)
  <2>1. /\ fs[k].trainStart \in Nat /\ fs[k].testEnd <= n
        /\ fs[k].trainEnd = TrainBars + (k - 1) * TestBars
    BY <1>1, FoldIs
  <2>2. CASE k = 1
    <3>1. (k - 1) * TestBars = 0 /\ TrainBars + 0 = TrainBars
      BY <2>2, WalkAssumption
    <3> QED BY <2>1, <2>2, <3>1
  <2>3. CASE k # 1
    <3>1. k - 1 \in 1 .. q
      BY <1>2, <2>3
    <3>2. fs[k - 1].testEnd = TrainBars + (k - 1) * TestBars
      BY <1>1, <3>1, FoldIs
    <3> QED BY <2>1, <2>3, <3>2
  <2> QED BY <2>2, <2>3
<1>4. fs # <<>> => n - Last(fs).testEnd < TestBars
  <2> SUFFICES ASSUME fs # <<>> PROVE n - Last(fs).testEnd < TestBars
    OBVIOUS
  <2>1. q # 0 /\ q \in 1 .. q /\ Last(fs) = fs[q]
    BY <1>2 DEF Last
  <2>2. fs[q].testEnd = TrainBars + q * TestBars
    BY <1>1, <2>1, FoldIs
  <2>3. n - (TrainBars + q * TestBars) < TestBars
    BY <1>1, <2>1, FoldCountIs
  <2> QED BY <2>1, <2>2, <2>3
<1>5. n > 1 => CanSplit(n)
  BY <1>1, SplitIs
<1> HIDE DEF n, fs, q
<1>6. AllFolds = fs
  BY DEF AllFolds, fs, n
<1> QED BY <1>2, <1>3, <1>4, <1>5, <1>6 DEF FoldsTile, n

-----------------------------------------------------------------------------
(* What a signal sees, and what a replay does with it.                     *)
LEMMA LargestIs ==
    ASSUME NEW S, NEW m \in S, \A y \in S : y \in Int, \A y \in S : y <= m
    PROVE  Largest(S) = m
<1>1. \A x \in S : (\A y \in S : y <= x) => x = m
  OBVIOUS
<1> QED BY <1>1 DEF Largest

LEMMA LargestOfTwo ==
    ASSUME NEW x \in Int, NEW y \in Int
    PROVE  Largest({x, y}) = (IF x >= y THEN x ELSE y)
<1>1. CASE x >= y
  BY <1>1, LargestIs
<1>2. CASE ~(x >= y)
  BY <1>2, LargestIs
<1> QED BY <1>1, <1>2

LEMMA HistoryStart ==
    ASSUME NEW s \in Nat, NEW i \in Int, s < i
    PROVE  /\ Warmup(s) \in 0 .. s
           /\ Largest({s - Warmup(s) + 1, i - HistoryWindow + 1}) = Largest({1, i - HistoryWindow + 1})
<1>1. HistoryWindow \in Nat \ {0}
  BY WalkAssumption
<1>2. CASE s < HistoryWindow - 1
  <2>1. Warmup(s) = s /\ s - Warmup(s) + 1 = 1
    BY <1>2 DEF Warmup, Capped
  <2> QED BY <2>1
<1>3. CASE ~(s < HistoryWindow - 1)
  <2>1. Warmup(s) = HistoryWindow - 1
    BY <1>3 DEF Warmup, Capped
  <2> DEFINE a == s - Warmup(s) + 1
             b == i - HistoryWindow + 1
  <2>2. a \in Int /\ b \in Int /\ a <= b /\ 1 <= b /\ Warmup(s) \in 0 .. s
    BY <1>1, <1>3, <2>1
  <2> HIDE DEF a, b
  <2>3. Largest({a, b}) = b /\ Largest({1, b}) = b
    BY <2>2, LargestOfTwo
  <2> QED BY <2>2, <2>3 DEF a, b
<1> QED BY <1>2, <1>3

LEMMA WarmupSuffices == ASSUME moves \in Seq(Int) PROVE WarmupIsEnough
<1> DEFINE n == Len(moves)
<1>1. n \in Nat /\ AllFolds = Folds(n) /\ DOMAIN Folds(n) = 1 .. FoldCount(n)
  BY LenProperties, FoldsAre DEF AllFolds
<1>2. ASSUME NEW k \in DOMAIN AllFolds, NEW name \in ToSet(Candidates),
             NEW i \in AllFolds[k].trainEnd + 1 .. AllFolds[k].testEnd
      PROVE  Signal(name, History(moves, AllFolds[k].trainEnd - Warmup(AllFolds[k].trainEnd) + 1, i))
                = Signal(name, History(moves, 1, i))
  <2> DEFINE s == AllFolds[k].trainEnd
  <2>1. s \in Nat /\ AllFolds[k].testEnd \in Nat
    BY <1>1, FoldIs
  <2>2. i \in Int /\ s < i
    BY <2>1
  <2> HIDE DEF s
  <2>3. Largest({s - Warmup(s) + 1, i - HistoryWindow + 1}) = Largest({1, i - HistoryWindow + 1})
    BY <2>1, <2>2, HistoryStart
  <2>4. History(moves, s - Warmup(s) + 1, i) = History(moves, 1, i)
    BY <2>3 DEF History
  <2> QED BY <2>4 DEF s
<1> QED BY <1>2 DEF WarmupIsEnough

(* A replay up to a bar is the same, however the series goes on.           *)
LEMMA HistoryBlind ==
    ASSUME NEW m \in Seq(Int), NEW E \in 0 .. Len(m), NEW first \in Int, first >= 1,
           NEW i \in 1 .. E, first <= i
    PROVE  /\ History(SubSeq(m, 1, E), first, i) = History(m, first, i)
           /\ SubSeq(m, 1, E)[i] = m[i]
<1> DEFINE p == SubSeq(m, 1, E)
           a == Largest({first, i - HistoryWindow + 1})
           u == SubSeq(p, a, i)
           v == SubSeq(m, a, i)
<1>1. Len(m) \in Nat /\ E \in Nat /\ i \in Nat /\ E <= Len(m) /\ i <= E
  BY LenProperties
<1>2. p \in Seq(Int) /\ Len(p) = E /\ \A j \in 1 .. E : p[j] = m[j]
  <2>1. 1 \in 1 .. Len(m) + 1 /\ E \in 1 - 1 .. Len(m) /\ E - 1 + 1 = E /\ \A j \in 1 .. E : 1 + j - 1 = j
    BY <1>1
  <2>2. /\ p \in Seq(Int) /\ Len(p) = (IF 1 <= E THEN E - 1 + 1 ELSE 0)
        /\ \A j \in 1 .. E - 1 + 1 : p[j] = m[1 + j - 1]
    BY <1>1, <2>1, SubSeqProperties
  <2> QED BY <1>1, <2>1, <2>2
<1>3. a \in Int /\ a >= 1 /\ a <= i
  <2>1. i - HistoryWindow + 1 \in Int /\ i - HistoryWindow + 1 <= i
    BY <1>1, WalkAssumption
  <2> QED BY <2>1, LargestOfTwo
<1> HIDE DEF p, a
<1>4. u = v
  <2>1. a \in 1 .. Len(p) + 1 /\ i \in a - 1 .. Len(p) /\ a \in 1 .. Len(m) + 1 /\ i \in a - 1 .. Len(m)
    BY <1>1, <1>2, <1>3
  <2>2. /\ u \in Seq(Int) /\ Len(u) = i - a + 1 /\ \A j \in 1 .. i - a + 1 : u[j] = p[a + j - 1]
        /\ v \in Seq(Int) /\ Len(v) = i - a + 1 /\ \A j \in 1 .. i - a + 1 : v[j] = m[a + j - 1]
    BY <1>2, <1>3, <2>1, SubSeqProperties
  <2>3. \A j \in 1 .. i - a + 1 : a + j - 1 \in 1 .. E
    BY <1>1, <1>3
  <2>4. \A j \in 1 .. Len(u) : u[j] = v[j]
    BY <1>2, <2>2, <2>3
  <2> QED BY <2>2, <2>4, SeqEqual
<1> QED BY <1>2, <1>4 DEF History, p, a

LEMMA ReplayBlind ==
    ASSUME NEW m \in Seq(Int), NEW E \in 0 .. Len(m), NEW start \in Nat, NEW end \in 0 .. E,
           NEW warm \in 0 .. start, NEW name
    PROVE  Replay(SubSeq(m, 1, E), start, end, warm, name) = Replay(m, start, end, warm, name)
<1> DEFINE p == SubSeq(m, 1, E)
           Bar(s, x, i) == Marked(s[i - 1], x[i], Signal(name, History(x, start - warm + 1, i)))
           Of(s, x) == s = [i \in start .. end |-> IF i = start THEN Flat ELSE Bar(s, x, i)]
<1>1. \A i \in start .. end : i # start =>
         /\ History(p, start - warm + 1, i) = History(m, start - warm + 1, i)
         /\ p[i] = m[i]
  <2>1. SUFFICES ASSUME NEW i \in start .. end, i # start
                 PROVE  /\ History(p, start - warm + 1, i) = History(m, start - warm + 1, i)
                        /\ p[i] = m[i]
    OBVIOUS
  <2>2. Len(m) \in Nat
    BY LenProperties
  <2>3. i \in 1 .. E /\ start - warm + 1 \in Int /\ start - warm + 1 >= 1 /\ start - warm + 1 <= i
    BY <2>1, <2>2
  <2> QED BY <2>3, HistoryBlind
<1> HIDE DEF p
<1>2. \A s : \A i \in start .. end : i # start => Bar(s, p, i) = Bar(s, m, i)
  BY <1>1
<1> HIDE DEF Bar
<1>3. \A s : Of(s, p) <=> Of(s, m)
  <2>1. ASSUME NEW s PROVE Of(s, p) <=> Of(s, m)
    <3>1. [i \in start .. end |-> IF i = start THEN Flat ELSE Bar(s, p, i)]
            = [i \in start .. end |-> IF i = start THEN Flat ELSE Bar(s, m, i)]
      BY <1>2
    <3> QED BY <3>1
  <2> QED BY <2>1
<1> HIDE DEF Of
<1>4. (CHOOSE s : Of(s, p)) = (CHOOSE s : Of(s, m))
  BY <1>3
<1>5. \A x : Replay(x, start, end, warm, name) = (CHOOSE s : Of(s, x))[end]
  BY Zenon DEF Replay, Of, Bar
<1> QED BY <1>4, <1>5 DEF p

LEMMA ChoosingIsBlind == ASSUME moves \in Seq(Int) PROVE ChoiceIsBlind
<1> DEFINE n == Len(moves)
<1>1. n \in Nat /\ AllFolds = Folds(n) /\ DOMAIN Folds(n) = 1 .. FoldCount(n)
  BY LenProperties, FoldsAre DEF AllFolds
<1>2. ASSUME NEW k \in DOMAIN AllFolds
      PROVE  LET f == AllFolds[k]
             IN /\ Chosen(moves, f) = Chosen(SubSeq(moves, 1, f.trainEnd), f)
                /\ Tested(moves, f) = Tested(SubSeq(moves, 1, f.testEnd), f)
  <2> DEFINE f == AllFolds[k]
  <2>1. /\ f.trainStart \in Nat /\ f.trainEnd \in Nat /\ f.testEnd \in Nat
        /\ f.trainEnd < f.testEnd /\ f.testEnd <= n
    BY <1>1, FoldIs
  <2> HIDE DEF f
  <2>2. f.trainEnd \in 0 .. n /\ f.testEnd \in 0 .. n /\ f.trainEnd \in 0 .. f.testEnd
        /\ f.trainEnd \in 0 .. f.trainEnd /\ f.testEnd \in 0 .. f.testEnd
    BY <1>1, <2>1
  <2>3. \A s \in Nat : Warmup(s) \in 0 .. s
    <3>1. \A s \in Nat : s + 1 \in Int /\ s < s + 1
      OBVIOUS
    <3> QED BY <3>1, HistoryStart
  <2>4. \A E \in {f.trainEnd, f.testEnd} : \A name :
           ReplayWindow(SubSeq(moves, 1, E), f.trainStart, f.trainEnd, name)
              = ReplayWindow(moves, f.trainStart, f.trainEnd, name)
    <3> SUFFICES ASSUME NEW E \in {f.trainEnd, f.testEnd}, NEW name
                 PROVE  ReplayWindow(SubSeq(moves, 1, E), f.trainStart, f.trainEnd, name)
                           = ReplayWindow(moves, f.trainStart, f.trainEnd, name)
      OBVIOUS
    <3>1. E \in 0 .. n /\ f.trainEnd \in 0 .. E /\ Warmup(f.trainStart) \in 0 .. f.trainStart
      BY <2>1, <2>2, <2>3
    <3> QED BY <2>1, <3>1, ReplayBlind DEF ReplayWindow
  <2>5. \A name : ReplayWindow(SubSeq(moves, 1, f.testEnd), f.trainEnd, f.testEnd, name)
                     = ReplayWindow(moves, f.trainEnd, f.testEnd, name)
    <3>1. Warmup(f.trainEnd) \in 0 .. f.trainEnd
      BY <2>1, <2>3
    <3> QED BY <2>1, <2>2, <3>1, ReplayBlind DEF ReplayWindow
  <2>6. /\ Chosen(moves, f) = Chosen(SubSeq(moves, 1, f.trainEnd), f)
        /\ Chosen(moves, f) = Chosen(SubSeq(moves, 1, f.testEnd), f)
    BY <2>4 DEF Chosen
  <2>7. Tested(moves, f) = Tested(SubSeq(moves, 1, f.testEnd), f)
    BY <2>5, <2>6 DEF Tested
  <2> QED BY <2>6, <2>7 DEF f
<1> QED BY <1>2 DEF ChoiceIsBlind

-----------------------------------------------------------------------------
(* Sums, round by round.                                                   *)
Carries(good, m, n) == \A i \in m + 1 .. n : i - 1 \in good => i \in good

LEMMA Throughout ==
    ASSUME NEW good, NEW m, NEW n, Rounds(m, n), m \in good, Carries(good, m, n)
    PROVE  \A i \in m .. n : i \in good
<1> DEFINE Out == {i \in Nat : i \in m .. n /\ i \notin good}
<1>1. ASSUME Out # {} PROVE FALSE
  <2>1. PICK k \in Out : \A j \in Out : k <= j
    BY <1>1, LeastOf
  <2>2. k \in m + 1 .. n /\ k - 1 \in Nat /\ k - 1 \in m .. n /\ ~(k <= k - 1)
    BY <2>1 DEF Rounds
  <2>3. k - 1 \in good
    BY <2>1, <2>2
  <2> QED BY <2>1, <2>2, <2>3 DEF Carries
<1> QED BY <1>1 DEF Rounds

LEMMA SumIs ==
    ASSUME NEW s, Len(s) \in Nat, Numbers(s, Len(s))
    PROVE  Sum(s) = Total(s, Len(s)) /\ Sum(s) \in Int
<1>1. Sum(s) = Total(s, Len(s))
  BY Zenon DEF Sum, Total
<1>2. Total(s, Len(s)) \in Int
  BY TotalIs
<1> QED BY <1>1, <1>2

LEMMA TotalStep ==
    ASSUME NEW s, NEW n \in Nat, Numbers(s, n), NEW i \in 1 .. n
    PROVE  Total(s, i) = Total(s, i - 1) + s[i] /\ Total(s, i - 1) \in Int /\ Total(s, i) \in Int
<1> DEFINE b == i - 1
<1>1. b \in Nat /\ Succeeds(i, b) /\ Numbers(s, i) /\ Numbers(s, b) /\ i \in Nat
  BY DEF Succeeds, Numbers
<1> HIDE DEF b
<1>2. Total(s, i) = Total(s, b) + s[i]
  BY <1>1, TotalNext
<1>3. Total(s, b) \in Int /\ Total(s, i) \in Int
  BY <1>1, TotalIs
<1> QED BY <1>2, <1>3 DEF b

(* The greatest and the least of a list of numbers.                        *)
LEMMA ListHasExtremes ==
    ASSUME NEW f, NEW n, Rounds(1, n), Numbers(f, n)
    PROVE  \E i, j \in 1 .. n : \A k \in 1 .. n : f[k] <= f[i] /\ f[j] <= f[k]
<1> DEFINE good == {h \in Nat : \E i, j \in 1 .. h : \A k \in 1 .. h : f[k] <= f[i] /\ f[j] <= f[k]}
<1>1. 1 \in good
  <2>1. 1 .. 1 = {1} /\ f[1] \in Int
    BY DEF Rounds, Numbers
  <2>2. f[1] <= f[1]
    BY <2>1
  <2> QED BY <2>1, <2>2
<1>2. Carries(good, 1, n)
  <2> SUFFICES ASSUME NEW h \in 1 + 1 .. n, h - 1 \in good PROVE h \in good
    BY DEF Carries
  <2>1. n \in Nat /\ h \in Nat /\ \A k \in 1 .. h : k \in 1 .. n
    BY DEF Rounds
  <2>2. PICK i \in 1 .. h - 1, j \in 1 .. h - 1 :
           \A k \in 1 .. h - 1 : f[k] <= f[i] /\ f[j] <= f[k]
    OBVIOUS
  <2>3. h \in 1 .. h /\ i \in 1 .. h /\ j \in 1 .. h /\ \A k \in 1 .. h : k \in 1 .. h - 1 \/ k = h
    BY <2>1
  <2>4. \A k \in 1 .. h : f[k] \in Int
    BY <2>1 DEF Numbers
  <2>5. \E x \in 1 .. h : \A k \in 1 .. h : f[k] <= f[x]
    <3>1. CASE f[h] <= f[i]
      BY <2>2, <2>3, <2>4, <3>1
    <3>2. CASE f[i] <= f[h]
      <4>1. \A k \in 1 .. h : f[k] <= f[h]
        BY <2>2, <2>3, <2>4, <3>2
      <4> QED BY <2>3, <4>1
    <3> QED BY <2>3, <2>4, <3>1, <3>2
  <2>6. \E y \in 1 .. h : \A k \in 1 .. h : f[y] <= f[k]
    <3>1. CASE f[j] <= f[h]
      BY <2>2, <2>3, <2>4, <3>1
    <3>2. CASE f[h] <= f[j]
      <4>1. \A k \in 1 .. h : f[h] <= f[k]
        BY <2>2, <2>3, <2>4, <3>2
      <4> QED BY <2>3, <4>1
    <3> QED BY <2>3, <2>4, <3>1, <3>2
  <2> QED BY <2>1, <2>5, <2>6
<1> HIDE DEF good
<1>3. n \in 1 .. n
  BY DEF Rounds
<1>4. n \in good
  BY <1>1, <1>2, <1>3, Throughout
<1> QED BY <1>4 DEF good

LEMMA SmallestIs ==
    ASSUME NEW S, NEW m \in S, \A y \in S : y \in Int, \A y \in S : m <= y
    PROVE  Smallest(S) = m
<1>1. \A x \in S : (\A y \in S : x <= y) => x = m
  OBVIOUS
<1> QED BY <1>1 DEF Smallest

-----------------------------------------------------------------------------
(* The returns of the periods of a curve.                                  *)
LEMMA ClosingsAre ==
    ASSUME NEW c \in Seq(Int), c # <<>>, NEW p \in Nat \ {0}
    PROVE  LET ends == Closings(c, p)
           IN /\ Len(ends) \in Nat \ {0} /\ DOMAIN ends = 1 .. Len(ends)
              /\ Numbers(ends, Len(ends)) /\ ends[Len(ends)] = Last(c)
<1> DEFINE n == Len(c)
           K == (n + p - 1) \div p
           ends == [k \in 1 .. K |-> c[Capped(k * p, n)]]
<1>1. n \in Nat \ {0} /\ \A i \in 1 .. n : c[i] \in Int
  BY LenProperties, ElementOfSeq, EmptySeq
<1>2. n + p - 1 \in Nat
  BY <1>1
<1>3. K \in Nat /\ K * p <= n + p - 1 /\ n + p - 1 < K * p + p
  BY <1>2, QuotientIs
<1>4. K # 0
  <2>1. K = 0 => K * p = 0
    OBVIOUS
  <2> QED BY <1>1, <1>3, <2>1
<1> HIDE DEF K
<1>5. \A k \in 1 .. K : Capped(k * p, n) \in 1 .. n
  <2> SUFFICES ASSUME NEW k \in 1 .. K PROVE Capped(k * p, n) \in 1 .. n
    OBVIOUS
  <2>1. 1 * p <= k * p /\ k * p \in Nat /\ 1 * p = p
    BY <1>3, ProductGrows
  <2> QED BY <1>1, <2>1 DEF Capped
<1>6. Capped(K * p, n) = n
  <2>1. K * p \in Nat /\ n <= K * p
    BY <1>1, <1>3
  <2> QED BY <1>1, <2>1 DEF Capped
<1>7. Closings(c, p) = ends
  BY DEF Closings, K
<1>8. DOMAIN ends = 1 .. K /\ Len(ends) = K
  BY <1>3
<1>9. \A k \in 1 .. K : ends[k] \in Int
  BY <1>1, <1>5
<1>10. ends[K] = c[n] /\ Last(c) = c[n]
  BY <1>3, <1>4, <1>6 DEF Last
<1> HIDE DEF ends, n
<1> QED BY <1>3, <1>4, <1>7, <1>8, <1>9, <1>10 DEF Numbers

LEMMA YearsAddUp ==
    ASSUME NEW c \in Seq(Int), c # <<>>, NEW p \in Nat \ {0}
    PROVE  Sum(Yearly(c, p)) = Last(c) - Head(c)
<1> DEFINE ends == Closings(c, p)
           n == Len(ends)
           first == Head(c)
           y == [k \in DOMAIN ends |-> ends[k] - (IF k = 1 THEN first ELSE ends[k - 1])]
<1>1. n \in Nat \ {0} /\ DOMAIN ends = 1 .. n /\ Numbers(ends, n) /\ ends[n] = Last(c)
  BY ClosingsAre
<1>2. first \in Int
  <2>1. Len(c) \in Nat \ {0} /\ first = c[1]
    BY LenProperties, EmptySeq
  <2> QED BY <2>1, ElementOfSeq
<1> HIDE DEF ends, n, first
<1>3. Yearly(c, p) = y
  BY DEF Yearly, ends, first
<1>4. \A k \in 1 .. n : /\ y[k] = ends[k] - (IF k = 1 THEN first ELSE ends[k - 1])
                        /\ ends[k] \in Int /\ (k # 1 => ends[k - 1] \in Int)
  <2>1. \A k \in 1 .. n : k # 1 => k - 1 \in 1 .. n
    BY <1>1
  <2> QED BY <1>1, <2>1 DEF Numbers
<1>5. Len(y) = n /\ Numbers(y, n)
  BY <1>1, <1>2, <1>4 DEF Numbers
<1> HIDE DEF y
<1> DEFINE good == {k \in Nat : Total(y, k) = ends[k] - first}
<1>6. 1 \in good
  <2>1. 1 \in 1 .. n /\ 1 - 1 = 0
    BY <1>1
  <2>2. Total(y, 1) = Total(y, 0) + y[1]
    BY <1>1, <1>5, <2>1, TotalStep
  <2>3. y[1] = ends[1] - first /\ y[1] \in Int
    BY <1>2, <1>4, <2>1
  <2> QED BY <2>2, <2>3, TotalOfNone
<1>7. Carries(good, 1, n)
  <2> SUFFICES ASSUME NEW k \in 1 + 1 .. n, k - 1 \in good PROVE k \in good
    BY DEF Carries
  <2>1. k \in 1 .. n /\ k # 1 /\ k \in Nat
    BY <1>1
  <2>2. Total(y, k) = Total(y, k - 1) + y[k]
    BY <1>1, <1>5, <2>1, TotalStep
  <2>3. y[k] = ends[k] - ends[k - 1] /\ ends[k] \in Int /\ ends[k - 1] \in Int
    BY <1>4, <2>1
  <2>4. Total(y, k - 1) = ends[k - 1] - first
    OBVIOUS
  <2>5. Total(y, k) = ends[k] - first
    BY <1>2, <2>2, <2>3, <2>4
  <2> QED BY <2>1, <2>5
<1> HIDE DEF good
<1>8. n \in good
  <2>1. Rounds(1, n) /\ n \in 1 .. n
    BY <1>1 DEF Rounds
  <2> QED BY <1>6, <1>7, <2>1, Throughout
<1>9. Total(y, n) = ends[n] - first
  BY <1>8 DEF good
<1>10. Sum(y) = Total(y, n)
  BY <1>1, <1>5, SumIs
<1> QED BY <1>1, <1>3, <1>9, <1>10 DEF first

LEMMA WorstIsWorst ==
    ASSUME NEW c \in Seq(Int), c # <<>>, Len(Closings(c, BarsPerDay)) > 1
    PROVE  LET closes == Closings(c, BarsPerDay)
           IN WorstDaily(c) * (Len(closes) - 1) <= Last(closes) - Head(closes)
<1> DEFINE closes == Closings(c, BarsPerDay)
           n == Len(closes)
           d == [k \in 1 .. n - 1 |-> closes[k + 1] - closes[k]]
           D == {closes[k + 1] - closes[k] : k \in 1 .. n - 1}
           w == WorstDaily(c)
<1>1. n \in Nat /\ n > 1 /\ DOMAIN closes = 1 .. n /\ Numbers(closes, n)
  BY ClosingsAre, WalkAssumption
<1>2. w = Smallest(D)
  BY DEF WorstDaily
<1>3. Last(closes) = closes[n] /\ Head(closes) = closes[1]
  BY DEF Last
<1> HIDE DEF closes, n, w
<1>4. \A k \in 1 .. n - 1 : d[k] = closes[k + 1] - closes[k] /\ closes[k + 1] \in Int /\ closes[k] \in Int
  <2>1. \A k \in 1 .. n - 1 : k \in 1 .. n /\ k + 1 \in 1 .. n
    BY <1>1
  <2> QED BY <1>1, <2>1 DEF Numbers
<1>5. Rounds(1, n - 1) /\ Numbers(d, n - 1)
  BY <1>1, <1>4 DEF Rounds, Numbers
<1> DEFINE l == n - 1
<1>6. PICK i \in 1 .. n - 1, j \in 1 .. n - 1 : \A k \in 1 .. n - 1 : d[k] <= d[i] /\ d[j] <= d[k]
  <2>1. Rounds(1, l) /\ Numbers(d, l)
    BY <1>5
  <2> HIDE DEF l, d
  <2>2. \E i, j \in 1 .. l : \A k \in 1 .. l : d[k] <= d[i] /\ d[j] <= d[k]
    BY <2>1, ListHasExtremes
  <2> QED BY <2>2 DEF l
<1>7. w = d[j] /\ w \in Int
  <2>1. D = {d[k] : k \in 1 .. n - 1}
    BY <1>4
  <2>2. d[j] \in D /\ \A x \in D : x \in Int /\ d[j] <= x
    BY <1>4, <1>6, <2>1
  <2> HIDE DEF D, d
  <2>3. Smallest(D) = d[j]
    BY <2>2, SmallestIs
  <2> QED BY <1>2, <2>2, <2>3
<1>8. \A k \in 1 .. n - 1 : w <= closes[k + 1] - closes[k]
  BY <1>4, <1>6, <1>7
<1> HIDE DEF d, D, l
<1> DEFINE good == {k \in Nat : w * (k - 1) <= closes[k] - closes[1]}
<1>9. 1 \in good
  <2>1. closes[1] \in Int /\ w * (1 - 1) = 0
    BY <1>1, <1>7 DEF Numbers
  <2> QED BY <2>1
<1>10. Carries(good, 1, n)
  <2> SUFFICES ASSUME NEW k \in 1 + 1 .. n, k - 1 \in good PROVE k \in good
    BY DEF Carries
  <2>1. k - 1 \in 1 .. n - 1 /\ k - 1 + 1 = k /\ k \in 1 .. n /\ k - 1 \in 1 .. n /\ 1 \in 1 .. n /\ k \in Nat
    BY <1>1
  <2>2. w <= closes[k] - closes[k - 1] /\ closes[k] \in Int /\ closes[k - 1] \in Int /\ closes[1] \in Int
    BY <1>1, <1>8, <2>1 DEF Numbers
  <2>3. w * (k - 1 - 1) <= closes[k - 1] - closes[1]
    OBVIOUS
  <2>4. k - 1 \in Int
    BY <2>1
  <2>5. w * (k - 1) <= closes[k] - closes[1]
    BY <1>7, <2>2, <2>3, <2>4, SumNext
  <2> QED BY <2>1, <2>5
<1> HIDE DEF good
<1>11. n \in good
  <2>1. Rounds(1, n) /\ n \in 1 .. n
    BY <1>1 DEF Rounds
  <2> QED BY <1>9, <1>10, <2>1, Throughout
<1>12. w * (n - 1) <= closes[n] - closes[1]
  BY <1>11 DEF good
<1> QED BY <1>3, <1>12 DEF closes, n, w

(* The price after each bar, from the moves.                               *)
LEMMA PriceIs ==
    ASSUME moves \in Seq(Int)
    PROVE  /\ Price \in Seq(Int) /\ Len(Price) = Len(moves) /\ Len(Price) \in Nat
           /\ DOMAIN Price = 1 .. Len(Price) /\ (Price = <<>> <=> moves = <<>>)
<1> DEFINE n == Len(moves)
<1>1. n \in Nat /\ DOMAIN moves = 1 .. n /\ \A i \in 1 .. n : moves[i] \in Int
  BY LenProperties, ElementOfSeq
<1>2. \A i \in 1 .. n : Sum(SubSeq(moves, 1, i)) \in Int
  <2> SUFFICES ASSUME NEW i \in 1 .. n PROVE Sum(SubSeq(moves, 1, i)) \in Int
    OBVIOUS
  <2>1. i \in Nat /\ 1 <= i /\ i - 1 + 1 = i /\ \A j \in 1 .. i : moves[j] \in Int
    BY <1>1
  <2> DEFINE s == SubSeq(moves, 1, i)
  <2>2. s \in Seq(Int) /\ Len(s) = i
    BY <2>1, SubSeqProperties
  <2> HIDE DEF s
  <2>3. Numbers(s, Len(s))
    BY <2>2, ElementOfSeq DEF Numbers
  <2> QED BY <2>1, <2>2, <2>3, SumIs DEF s
<1> DEFINE c == [i \in 1 .. n |-> Sum(SubSeq(moves, 1, i))]
<1>3. Price = c
  BY <1>1 DEF Price
<1>4. c \in Seq(Int) /\ Len(c) = n /\ DOMAIN c = 1 .. n
  BY <1>1, <1>2
<1> HIDE DEF c
<1>5. (c = <<>> <=> n = 0) /\ (moves = <<>> <=> n = 0)
  BY <1>4, EmptySeq
<1> QED BY <1>1, <1>3, <1>4, <1>5

LEMMA PeriodsAreSound == ASSUME moves \in Seq(Int) PROVE PeriodsCompound
<1> SUFFICES ASSUME moves # <<>> PROVE PeriodsCompound
  BY DEF PeriodsCompound
<1>1. Price \in Seq(Int) /\ Price # <<>>
  BY PriceIs
<1>2. 2 * BarsPerDay \in Nat \ {0}
  BY WalkAssumption
<1>3. Sum(Yearly(Price, 2 * BarsPerDay)) = Last(Price) - Head(Price)
  BY <1>1, <1>2, YearsAddUp
<1>4. Len(Closings(Price, BarsPerDay)) > 1 =>
         WorstDaily(Price) * (Len(Closings(Price, BarsPerDay)) - 1)
            <= Last(Closings(Price, BarsPerDay)) - Head(Closings(Price, BarsPerDay))
  BY <1>1, WorstIsWorst
<1> QED BY <1>3, <1>4 DEF PeriodsCompound

-----------------------------------------------------------------------------
(* The points of a curve that are kept.                                    *)
LEMMA ImageIsSmall ==
    ASSUME NEW f, NEW a \in Nat
    PROVE  /\ IsFiniteSet({f[x] : x \in 0 .. a})
           /\ Cardinality({f[x] : x \in 0 .. a}) \in Nat
           /\ Cardinality({f[x] : x \in 0 .. a}) <= a + 1
<1> DEFINE S == 0 .. a
           T == {f[x] : x \in S}
           g == [x \in S |-> f[x]]
<1>1. IsFiniteSet(S) /\ Cardinality(S) = a + 1
  <2>1. IsFiniteSet(0 .. a) /\ Cardinality(0 .. a) = IF 0 > a THEN 0 ELSE a - 0 + 1
    BY FS_Interval
  <2> QED BY <2>1
<1> HIDE DEF S
<1>2. g \in Surjection(S, T)
  <2>1. g \in [S -> T] /\ \A t \in T : \E x \in S : g[x] = t
    OBVIOUS
  <2> QED BY <2>1 DEF Surjection
<1> HIDE DEF g, T
<1>3. IsFiniteSet(T) /\ Cardinality(T) <= Cardinality(S)
  BY <1>1, <1>2, FS_Surjection
<1>4. Cardinality(T) \in Nat
  BY <1>3, FS_CardinalityType
<1> QED BY <1>1, <1>3, <1>4 DEF S, T

LEMMA SomeHaveExtremes ==
    ASSUME NEW c, NEW n \in Nat, Numbers(c, n), NEW S \in SUBSET (1 .. n), S # {}
    PROVE  \E i, j \in S : \A k \in S : c[k] <= c[i] /\ c[j] <= c[k]
<1> PICK s \in S : TRUE
  OBVIOUS
<1> DEFINE g == [x \in 1 .. n |-> IF x \in S THEN c[x] ELSE c[s]]
<1>1. Rounds(1, n) /\ \A x \in S : x \in 1 .. n
  BY DEF Rounds
<1>2. Numbers(g, n) /\ \A x \in 1 .. n : g[x] = (IF x \in S THEN c[x] ELSE c[s])
  BY <1>1 DEF Numbers
<1> HIDE DEF g
<1>3. PICK i \in 1 .. n, j \in 1 .. n : \A k \in 1 .. n : g[k] <= g[i] /\ g[j] <= g[k]
  BY <1>1, <1>2, ListHasExtremes
<1>4. PICK x \in S : g[i] = c[x]
  BY <1>2
<1>5. PICK y \in S : g[j] = c[y]
  BY <1>2
<1>6. \A k \in S : c[k] <= c[x] /\ c[y] <= c[k]
  BY <1>1, <1>2, <1>3, <1>4, <1>5
<1> QED BY <1>6

LEMMA LowestIs ==
    ASSUME NEW c, NEW n \in Nat, Numbers(c, n), NEW S \in SUBSET (1 .. n), S # {}
    PROVE  Lowest(c, S) \in S /\ \A k \in S : c[Lowest(c, S)] <= c[k]
<1>1. PICK j \in S : \A k \in S : c[j] <= c[k]
  BY SomeHaveExtremes
<1>2. \A k \in S : k \in Nat /\ c[k] \in Int
  BY DEF Numbers
<1> DEFINE L == {k \in S : c[k] = c[j]}
<1>3. L \in SUBSET Nat /\ L # {}
  BY <1>2
<1>4. PICK i \in L : \A k \in L : i <= k
  BY <1>3, LeastOf
<1>5. \A k \in S : c[i] < c[k] \/ (c[i] = c[k] /\ i <= k)
  BY <1>1, <1>2, <1>4
<1>6. /\ Lowest(c, S) \in S
      /\ \A k \in S : \/ c[Lowest(c, S)] < c[k]
                      \/ c[Lowest(c, S)] = c[k] /\ Lowest(c, S) <= k
  BY <1>4, <1>5 DEF Lowest
<1> DEFINE x == Lowest(c, S)
<1>7. x \in S /\ \A k \in S : c[x] < c[k] \/ c[x] = c[k]
  BY <1>6
<1> HIDE DEF x
<1>8. \A k \in S : c[x] <= c[k]
  BY <1>2, <1>7
<1> QED BY <1>7, <1>8 DEF x

LEMMA HighestIs ==
    ASSUME NEW c, NEW n \in Nat, Numbers(c, n), NEW S \in SUBSET (1 .. n), S # {}
    PROVE  Highest(c, S) \in S /\ \A k \in S : c[k] <= c[Highest(c, S)]
<1>1. PICK j \in S : \A k \in S : c[k] <= c[j]
  BY SomeHaveExtremes
<1>2. \A k \in S : k \in Nat /\ c[k] \in Int
  BY DEF Numbers
<1> DEFINE L == {k \in S : c[k] = c[j]}
<1>3. L \in SUBSET Nat /\ L # {}
  BY <1>2
<1>4. PICK i \in L : \A k \in L : i <= k
  BY <1>3, LeastOf
<1>5. \A k \in S : c[i] > c[k] \/ (c[i] = c[k] /\ i <= k)
  BY <1>1, <1>2, <1>4
<1>6. /\ Highest(c, S) \in S
      /\ \A k \in S : \/ c[Highest(c, S)] > c[k]
                      \/ c[Highest(c, S)] = c[k] /\ Highest(c, S) <= k
  BY <1>4, <1>5 DEF Highest
<1> DEFINE x == Highest(c, S)
<1>7. x \in S /\ \A k \in S : c[x] > c[k] \/ c[x] = c[k]
  BY <1>6
<1> HIDE DEF x
<1>8. \A k \in S : c[k] <= c[x]
  BY <1>2, <1>7
<1> QED BY <1>7, <1>8 DEF x

(* The buckets: few, not empty, and each point is in one of them.          *)
LEMMA BucketsAre ==
    ASSUME NEW n \in Nat, n > MaxPoints
    PROVE  LET last == (n - 1) \div BucketSize(n)
           IN /\ last \in Nat /\ 2 * last + 4 <= MaxPoints
              /\ \A k \in 0 .. last : PointsOf(n, k) \in SUBSET (1 .. n) /\ PointsOf(n, k) # {}
              /\ \A i \in 1 .. n : \E k \in 0 .. last : i \in PointsOf(n, k)
<1> DEFINE q == (MaxPoints - 2) \div 2
           size == (n + q - 1) \div q
           last == (n - 1) \div size
<1>1. MaxPoints \in Nat /\ MaxPoints >= 4 /\ q \in Nat \ {0} /\ 2 * q + 2 <= MaxPoints /\ q < n
  BY WalkAssumption
<1>2. BucketSize(n) = size
  <2>1. Largest({1, q}) = q
    BY <1>1, LargestOfTwo
  <2> QED BY <2>1 DEF BucketSize
<1> HIDE DEF q
<1>3. size \in Nat /\ n + q - 1 < size * q + q /\ size * q \in Nat
  <2>1. n + q - 1 \in Nat
    BY <1>1
  <2>2. size \in Nat /\ n + q - 1 < size * q + q
    BY <1>1, <2>1, QuotientIs
  <2> HIDE DEF size
  <2> QED BY <1>1, <2>2
<1> HIDE DEF size
<1>4. n <= size * q /\ size # 0
  <2>1. n <= size * q
    BY <1>1, <1>3
  <2>2. size = 0 => size * q = 0
    BY <1>1
  <2> QED BY <1>1, <2>1, <2>2
<1>5. last \in Nat /\ last * size <= n - 1 /\ n - 1 < last * size + size
  <2>1. n - 1 \in Nat
    BY <1>1
  <2> QED BY <1>3, <1>4, <2>1, QuotientIs
<1> HIDE DEF last
<1>6. last < q
  <2> SUFFICES ASSUME q <= last PROVE FALSE
    BY <1>1, <1>5
  <2>1. q * size <= last * size /\ q * size \in Nat /\ last * size \in Nat
    BY <1>1, <1>3, <1>5, ProductGrows
  <2>2. q * size = size * q
    BY <1>1, <1>3
  <2> QED BY <1>1, <1>4, <1>5, <2>1, <2>2
<1>7. \A k \in Nat : /\ PointsOf(n, k) = (k * size + 1) .. Capped(k * size + size, n)
                     /\ k * size \in Nat
  <2>1. \A k \in Nat : (k + 1) * size = k * size + size /\ k * size \in Nat
    BY <1>3
  <2> QED BY <1>2, <2>1 DEF PointsOf
<1>8. ASSUME NEW k \in 0 .. last
      PROVE  PointsOf(n, k) \in SUBSET (1 .. n) /\ PointsOf(n, k) # {}
  <2>1. k \in Nat /\ k <= last
    BY <1>5
  <2>2. k * size \in Nat /\ last * size \in Nat /\ k * size <= last * size
    BY <1>3, <1>5, <2>1, ProductGrows
  <2> DEFINE a == k * size
  <2>3. a \in Nat /\ a <= n - 1 /\ PointsOf(n, k) = (a + 1) .. Capped(a + size, n)
    BY <1>1, <1>5, <1>7, <2>1, <2>2
  <2> HIDE DEF a
  <2>4. Capped(a + size, n) \in a + 1 .. n
    BY <1>3, <1>4, <2>3 DEF Capped
  <2>5. a + 1 \in PointsOf(n, k)
    BY <2>3, <2>4
  <2> QED BY <2>3, <2>4, <2>5
<1>9. ASSUME NEW i \in 1 .. n PROVE \E k \in 0 .. last : i \in PointsOf(n, k)
  <2> DEFINE k == (i - 1) \div size
  <2>1. k \in Nat /\ k * size <= i - 1 /\ i - 1 < k * size + size
    <3>1. i - 1 \in Nat
      OBVIOUS
    <3> QED BY <1>3, <1>4, <3>1, QuotientIs
  <2> HIDE DEF k
  <2>2. k <= last
    <3> SUFFICES ASSUME last + 1 <= k PROVE FALSE
      BY <1>5, <2>1
    <3>1. (last + 1) * size <= k * size /\ k * size \in Nat
      BY <1>3, <1>5, <2>1, ProductGrows
    <3>2. (last + 1) * size = last * size + size /\ last * size \in Nat
      BY <1>3, <1>5
    <3> QED BY <1>3, <1>5, <2>1, <3>1, <3>2
  <2> DEFINE a == k * size
  <2>3. a \in Nat /\ a <= i - 1 /\ i - 1 < a + size /\ PointsOf(n, k) = (a + 1) .. Capped(a + size, n)
    BY <1>7, <2>1
  <2> HIDE DEF a
  <2>4. i \in PointsOf(n, k)
    BY <1>3, <2>3 DEF Capped
  <2> QED BY <1>5, <2>1, <2>2, <2>4
<1>10. 2 * last + 4 <= MaxPoints
  BY <1>1, <1>5, <1>6
<1> QED BY <1>2, <1>5, <1>8, <1>9, <1>10 DEF last

LEMMA KeptIs ==
    ASSUME NEW c \in Seq(Int), c # <<>>
    PROVE  LET kept == Downsampled(c)
           IN /\ kept \subseteq DOMAIN c /\ Cardinality(kept) <= MaxPoints
              /\ {1, Len(c)} \subseteq kept
              /\ \A i \in DOMAIN c : \E j, k \in kept : c[j] <= c[i] /\ c[i] <= c[k]
<1> DEFINE n == Len(c)
           kept == Downsampled(c)
<1>1. n \in Nat \ {0} /\ DOMAIN c = 1 .. n /\ Numbers(c, n)
  BY LenProperties, ElementOfSeq, EmptySeq DEF Numbers
<1>0. MaxPoints \in Nat
  BY WalkAssumption
<1>2. CASE n <= MaxPoints
  <2>1. kept = 1 .. n
    BY <1>1, <1>2 DEF Downsampled
  <2>2. Cardinality(1 .. n) = n
    <3>1. Cardinality(1 .. n) = IF 1 > n THEN 0 ELSE n - 1 + 1
      BY <1>1, FS_Interval
    <3> QED BY <1>1, <3>1
  <2>3. \A i \in 1 .. n : c[i] <= c[i]
    BY <1>1 DEF Numbers
  <2> HIDE DEF kept
  <2>4. {1, n} \subseteq kept
    BY <1>1, <2>1
  <2> QED BY <1>1, <1>2, <2>1, <2>2, <2>3, <2>4 DEF kept
<1>3. CASE ~(n <= MaxPoints)
  <2> DEFINE last == (n - 1) \div BucketSize(n)
             low == [k \in 0 .. last |-> Lowest(c, PointsOf(n, k))]
             high == [k \in 0 .. last |-> Highest(c, PointsOf(n, k))]
             A == {low[k] : k \in 0 .. last}
             B == {high[k] : k \in 0 .. last}
  <2>1. n > MaxPoints
    BY <1>0, <1>1, <1>3
  <2>2. /\ last \in Nat /\ 2 * last + 4 <= MaxPoints
        /\ \A k \in 0 .. last : PointsOf(n, k) \in SUBSET (1 .. n) /\ PointsOf(n, k) # {}
        /\ \A i \in 1 .. n : \E k \in 0 .. last : i \in PointsOf(n, k)
    BY <1>1, <2>1, BucketsAre
  <2>3. kept = {1, n} \cup UNION {{low[k], high[k]} : k \in 0 .. last}
    BY <1>3 DEF Downsampled
  <2>4. \A k \in 0 .. last : /\ low[k] = Lowest(c, PointsOf(n, k))
                             /\ high[k] = Highest(c, PointsOf(n, k))
    OBVIOUS
  <2> HIDE DEF last, low, high, kept
  <2>5. kept = ({1} \cup {n}) \cup (A \cup B)
    BY <2>3
  <2>6. \A k \in 0 .. last :
           /\ low[k] \in PointsOf(n, k) /\ high[k] \in PointsOf(n, k)
           /\ \A i \in PointsOf(n, k) : c[low[k]] <= c[i] /\ c[i] <= c[high[k]]
    BY <1>1, <2>2, <2>4, LowestIs, HighestIs
  <2>7. A \subseteq 1 .. n /\ B \subseteq 1 .. n
    BY <2>2, <2>6
  <2>8. Cardinality(kept) <= MaxPoints
    <3>1. /\ IsFiniteSet(A) /\ Cardinality(A) \in Nat /\ Cardinality(A) <= last + 1
          /\ IsFiniteSet(B) /\ Cardinality(B) \in Nat /\ Cardinality(B) <= last + 1
      BY <2>2, ImageIsSmall
    <3>2. IsFiniteSet({1}) /\ Cardinality({1}) = 1 /\ IsFiniteSet({n}) /\ Cardinality({n}) = 1
      BY FS_Singleton
    <3> HIDE DEF A, B
    <3>3. \A S, T : IsFiniteSet(S) /\ IsFiniteSet(T) =>
             /\ IsFiniteSet(S \cup T) /\ Cardinality(S \cup T) \in Nat
             /\ Cardinality(S \cup T) <= Cardinality(S) + Cardinality(T)
      <4> SUFFICES ASSUME NEW S, NEW T, IsFiniteSet(S), IsFiniteSet(T)
                   PROVE  /\ IsFiniteSet(S \cup T) /\ Cardinality(S \cup T) \in Nat
                          /\ Cardinality(S \cup T) <= Cardinality(S) + Cardinality(T)
        OBVIOUS
      <4>1. /\ IsFiniteSet(S \cup T)
            /\ Cardinality(S \cup T) = Cardinality(S) + Cardinality(T) - Cardinality(S \cap T)
        BY FS_Union
      <4>2. S \cap T \in SUBSET S
        OBVIOUS
      <4>3. IsFiniteSet(S \cap T)
        BY <4>2, FS_Subset
      <4>4. /\ Cardinality(S \cap T) \in Nat /\ Cardinality(S) \in Nat /\ Cardinality(T) \in Nat
            /\ Cardinality(S \cup T) \in Nat
        BY <4>1, <4>3, FS_CardinalityType
      <4> QED BY <4>1, <4>4
    <3> DEFINE E == {1} \cup {n}
               F == A \cup B
    <3>4. IsFiniteSet(E) /\ Cardinality(E) \in Nat /\ Cardinality(E) <= 2
      BY <3>2, <3>3
    <3>5. /\ IsFiniteSet(F) /\ Cardinality(F) \in Nat
          /\ Cardinality(F) <= Cardinality(A) + Cardinality(B)
      BY <3>1, <3>3
    <3> HIDE DEF E, F
    <3>6. Cardinality(E \cup F) \in Nat /\ Cardinality(E \cup F) <= Cardinality(E) + Cardinality(F)
      BY <3>3, <3>4, <3>5
    <3>7. Cardinality(E \cup F) <= 2 * last + 4
      BY <2>2, <3>1, <3>4, <3>5, <3>6
    <3>8. kept = E \cup F
      BY <2>5 DEF E, F
    <3> QED BY <1>0, <2>2, <3>6, <3>7, <3>8
  <2>9. ASSUME NEW i \in 1 .. n
        PROVE  \E j, k \in kept : c[j] <= c[i] /\ c[i] <= c[k]
    <3>1. PICK k \in 0 .. last : i \in PointsOf(n, k)
      BY <2>2
    <3>2. low[k] \in kept /\ high[k] \in kept
      BY <2>5
    <3> QED BY <2>6, <3>1, <3>2
  <2>10. kept \subseteq 1 .. n /\ {1, n} \subseteq kept
    BY <1>1, <2>5, <2>7
  <2> QED BY <1>1, <2>8, <2>9, <2>10 DEF kept
<1> QED BY <1>2, <1>3

LEMMA SamplesAreSound == ASSUME moves \in Seq(Int) PROVE SampleKeepsExtremes
<1> SUFFICES ASSUME moves # <<>> PROVE SampleKeepsExtremes
  BY DEF SampleKeepsExtremes
<1> DEFINE n == Len(Price)
           kept == Downsampled(Price)
           values == {Price[i] : i \in kept}
<1>1. Price \in Seq(Int) /\ Price # <<>> /\ n \in Nat /\ DOMAIN Price = 1 .. n
  BY PriceIs
<1>2. /\ kept \subseteq 1 .. n /\ Cardinality(kept) <= MaxPoints /\ {1, n} \subseteq kept
      /\ \A i \in 1 .. n : \E j, k \in kept : Price[j] <= Price[i] /\ Price[i] <= Price[k]
  BY <1>1, KeptIs
<1>3. \A i \in 1 .. n : Price[i] \in Int
  BY <1>1, ElementOfSeq
<1>4. ToSet(Price) = {Price[i] : i \in 1 .. n}
  BY <1>1 DEF ToSet
<1>5. n # 0
  BY <1>1, EmptySeq
<1> HIDE DEF kept, n
<1>6. Rounds(1, n) /\ Numbers(Price, n)
  BY <1>1, <1>3, <1>5 DEF Rounds, Numbers
<1>7. PICK i \in 1 .. n, j \in 1 .. n : \A k \in 1 .. n : Price[k] <= Price[i] /\ Price[j] <= Price[k]
  BY <1>6, ListHasExtremes
<1>8. Largest(ToSet(Price)) = Price[i] /\ Smallest(ToSet(Price)) = Price[j]
  <2> DEFINE V == ToSet(Price)
  <2>1. Price[i] \in V /\ Price[j] \in V /\ \A y \in V : y \in Int /\ y <= Price[i] /\ Price[j] <= y
    BY <1>3, <1>4, <1>7
  <2> HIDE DEF V
  <2> QED BY <2>1, LargestIs, SmallestIs DEF V
<1>9. Price[i] \in values
  <2>1. PICK k \in kept : Price[i] <= Price[k]
    BY <1>2
  <2>2. Price[k] <= Price[i] /\ Price[k] \in Int /\ Price[i] \in Int
    BY <1>2, <1>3, <1>7
  <2>3. Price[k] = Price[i]
    BY <2>1, <2>2
  <2> QED BY <2>3
<1>10. Price[j] \in values
  <2>1. PICK k \in kept : Price[k] <= Price[j]
    BY <1>2
  <2>2. Price[j] <= Price[k] /\ Price[k] \in Int /\ Price[j] \in Int
    BY <1>2, <1>3, <1>7
  <2>3. Price[k] = Price[j]
    BY <2>1, <2>2
  <2> QED BY <2>3
<1> QED BY <1>1, <1>2, <1>8, <1>9, <1>10 DEF SampleKeepsExtremes, kept, n

-----------------------------------------------------------------------------
(* Under water: from a value to the next that is not below it, or until    *)
(* further. The longest is the longest of these.                           *)
Dip(c, p, q) ==
    /\ p \in 1 .. Len(c) /\ q \in 1 .. Len(c) /\ p < q
    /\ \A j \in p + 1 .. q - 1 : c[j] < c[p]

Surfaced(c, i, s) ==
    /\ s.peak \in 1 .. i /\ s.longest \in Nat
    /\ \A j \in 1 .. i : c[j] <= c[s.peak]
    /\ \A j \in s.peak + 1 .. i : c[j] < c[s.peak]
    /\ \A p, q : Dip(c, p, q) /\ q <= i => q - p <= s.longest \/ q - p <= i - s.peak
    /\ s.longest = 0 \/ \E p, q : Dip(c, p, q) /\ q <= i /\ q - p = s.longest

LEMMA SurfacedFirst ==
    ASSUME NEW c \in Seq(Int), c # <<>>
    PROVE  Surfaced(c, 1, [peak |-> 1, longest |-> 0])
<1>1. 1 \in 1 .. Len(c) /\ Len(c) \in Nat /\ c[1] \in Int
  <2>1. Len(c) \in Nat \ {0}
    BY LenProperties, EmptySeq
  <2> QED BY <2>1, ElementOfSeq
<1>2. \A p, q : Dip(c, p, q) /\ q <= 1 => FALSE
  BY DEF Dip
<1> DEFINE s == [peak |-> 1, longest |-> 0]
<1>3. s.peak = 1 /\ s.longest = 0
  OBVIOUS
<1>4. c[1] <= c[1]
  BY <1>1
<1> HIDE DEF s
<1> QED BY <1>1, <1>2, <1>3, <1>4 DEF Surfaced, s

LEMMA SurfacedNext ==
    ASSUME NEW c \in Seq(Int), NEW i \in 1 .. Len(c), NEW h, Succeeds(i, h), h \in Nat \ {0},
           NEW s, Surfaced(c, h, s)
    PROVE  Surfaced(c, i, Surfacing(s, c, i))
<1> DEFINE n == Len(c)
           t == Surfacing(s, c, i)
           k == s.peak
           l == s.longest
<1>1. n \in Nat /\ i = h + 1 /\ h \in 1 .. n /\ \A j \in 1 .. n : c[j] \in Int
  BY LenProperties, ElementOfSeq DEF Succeeds
<1>2. /\ k \in 1 .. h /\ l \in Nat
      /\ \A j \in 1 .. h : c[j] <= c[k]
      /\ \A j \in k + 1 .. h : c[j] < c[k]
      /\ \A p, q : Dip(c, p, q) /\ q <= h => q - p <= l \/ q - p <= h - k
      /\ l = 0 \/ \E p, q : Dip(c, p, q) /\ q <= h /\ q - p = l
  BY DEF Surfaced
<1>3. t = (IF c[i] >= c[k] THEN [peak |-> i, longest |-> Largest({l, i - k})] ELSE s)
  BY <1>2 DEF Surfacing
<1> HIDE DEF n, t, k, l
<1>4. k \in 1 .. n /\ k < i /\ k \in Int /\ i - k \in Nat
  BY <1>1, <1>2
<1>5. \A p, q : Dip(c, p, q) /\ q <= i => q - p <= l \/ q - p <= i - k
  <2> SUFFICES ASSUME NEW p, NEW q, Dip(c, p, q), q <= i PROVE q - p <= l \/ q - p <= i - k
    OBVIOUS
  <2>1. p \in 1 .. n /\ q \in 1 .. n /\ p < q /\ \A j \in p + 1 .. q - 1 : c[j] < c[p]
    BY DEF Dip, n
  <2>2. CASE q <= h
    <3>1. q - p <= l \/ q - p <= h - k
      BY <1>2, <2>2
    <3> QED BY <1>1, <1>2, <1>4, <2>1, <3>1
  <2>3. CASE q = i
    <3>1. k <= p
      <4> SUFFICES ASSUME p < k PROVE FALSE
        BY <1>4, <2>1
      <4>1. k \in p + 1 .. q - 1 /\ p \in 1 .. h
        BY <1>1, <1>2, <1>4, <2>1, <2>3
      <4>2. c[k] < c[p] /\ c[p] <= c[k] /\ c[k] \in Int /\ c[p] \in Int
        BY <1>1, <1>2, <1>4, <2>1, <4>1
      <4> QED BY <4>2
    <3> QED BY <1>4, <2>1, <2>3, <3>1
  <2> QED BY <1>1, <2>1, <2>2, <2>3
<1>6. Dip(c, k, i)
  <2>1. \A j \in k + 1 .. i - 1 : c[j] < c[k]
    <3>1. i - 1 = h
      BY <1>1
    <3> QED BY <1>2, <3>1
  <2> QED BY <1>1, <1>4, <2>1 DEF Dip, n
<1>7. \A j \in 1 .. i : j \in 1 .. h \/ j = i
  BY <1>1
<1>8. CASE c[i] >= c[k]
  <2> DEFINE L == Largest({l, i - k})
  <2>1. t.peak = i /\ t.longest = L
    BY <1>3, <1>8
  <2>2. L \in Nat /\ l <= L /\ i - k <= L /\ (L = l \/ L = i - k)
    <3>1. l \in Int /\ i - k \in Int
      BY <1>2, <1>4
    <3>2. L = (IF l >= i - k THEN l ELSE i - k)
      BY <3>1, LargestOfTwo
    <3> QED BY <1>2, <1>4, <3>2
  <2> HIDE DEF L
  <2>3. \A j \in 1 .. i : c[j] <= c[i]
    BY <1>1, <1>2, <1>4, <1>7, <1>8
  <2>4. \A p, q : Dip(c, p, q) /\ q <= i => q - p <= L
    <3> SUFFICES ASSUME NEW p, NEW q, Dip(c, p, q), q <= i PROVE q - p <= L
      OBVIOUS
    <3>1. q - p <= l \/ q - p <= i - k
      BY <1>5
    <3>2. q - p \in Int
      BY <1>1 DEF Dip
    <3> QED BY <1>2, <1>4, <2>2, <3>1, <3>2
  <2>5. L = 0 \/ \E p, q : Dip(c, p, q) /\ q <= i /\ q - p = L
    <3>1. CASE L = l
      <4>1. l = 0 \/ \E p, q : Dip(c, p, q) /\ q <= h /\ q - p = l
        BY <1>2
      <4>2. \A q \in 1 .. n : q <= h => q <= i
        BY <1>1
      <4>3. \A p, q : Dip(c, p, q) => q \in 1 .. n
        BY DEF Dip, n
      <4> QED BY <3>1, <4>1, <4>2, <4>3
    <3>2. CASE L = i - k
      <4>1. i <= i
        BY <1>1
      <4> QED BY <1>6, <3>2, <4>1
    <3> QED BY <2>2, <3>1, <3>2
  <2>6. i \in 1 .. i /\ \A j \in i + 1 .. i : FALSE
    BY <1>1
  <2>7. Surfaced(c, i, t)
    BY <2>1, <2>2, <2>3, <2>4, <2>5, <2>6 DEF Surfaced
  <2> QED BY <2>7 DEF t
<1>9. CASE ~(c[i] >= c[k])
  <2>1. t = s /\ t.peak = k /\ t.longest = l
    BY <1>3, <1>9 DEF k, l
  <2>2. c[i] < c[k]
    BY <1>1, <1>4, <1>9
  <2>3. \A j \in 1 .. i : c[j] <= c[k]
    BY <1>1, <1>2, <1>4, <1>7, <2>2
  <2>4. \A j \in k + 1 .. i : c[j] < c[k]
    <3>1. \A j \in k + 1 .. i : j \in k + 1 .. h \/ j = i
      BY <1>1, <1>4
    <3> QED BY <1>2, <2>2, <3>1
  <2>5. l = 0 \/ \E p, q : Dip(c, p, q) /\ q <= i /\ q - p = l
    <3>1. \A p, q : Dip(c, p, q) /\ q <= h => q <= i
      BY <1>1 DEF Dip
    <3> QED BY <1>2, <3>1
  <2>6. k \in 1 .. i
    BY <1>1, <1>2
  <2>7. Surfaced(c, i, t)
    BY <1>2, <1>5, <2>1, <2>3, <2>4, <2>5, <2>6 DEF Surfaced
  <2> QED BY <2>7 DEF t
<1> QED BY <1>8, <1>9

(* The loop of longest_underwater.                                         *)
LEMMA SeenIs ==
    ASSUME NEW c \in Seq(Int)
    PROVE  \E f : /\ f[0] = [peak |-> 0, longest |-> 0]
                  /\ \A i \in 1 .. Len(c) : f[i] = Surfacing(f[i - 1], c, i)
                  /\ LongestUnderwater(c) =
                       (IF c # <<>> /\ Last(c) < c[f[Len(c)].peak]
                        THEN Largest({f[Len(c)].longest, Len(c) - f[Len(c)].peak})
                        ELSE f[Len(c)].longest)
<1> DEFINE n == Len(c)
           base == [peak |-> 0, longest |-> 0]
           T == [peak : 0 .. n, longest : Nat]
           step == [i \in 1 .. n |-> [x \in T |-> Surfacing(x, c, i)]]
           Of(f) == f = [i \in 0 .. n |-> IF i = 0 THEN base ELSE Surfacing(f[i - 1], c, i)]
           f0 == CHOOSE f : Of(f)
<1>1. n \in Nat /\ Rounds(0, n) /\ base \in T
  BY LenProperties DEF Rounds
<1>2. ASSUME NEW i \in 1 .. n, NEW x \in T PROVE Surfacing(x, c, i) \in T
  <2>1. x.peak \in 0 .. n /\ x.longest \in Nat /\ i \in 0 .. n /\ 0 \in Nat
    BY <1>1
  <2>2. CASE x.peak = 0
    <3>1. Surfacing(x, c, i) = [peak |-> i, longest |-> 0]
      BY <2>2 DEF Surfacing
    <3> QED BY <2>1, <3>1
  <2>3. CASE x.peak # 0 /\ c[i] >= c[x.peak]
    <3> DEFINE L == Largest({x.longest, i - x.peak})
    <3>1. Surfacing(x, c, i) = [peak |-> i, longest |-> L]
      BY <2>3 DEF Surfacing
    <3>2. L \in Nat
      <4>1. x.longest \in Int /\ i - x.peak \in Int
        BY <1>1, <2>1
      <4>2. L = (IF x.longest >= i - x.peak THEN x.longest ELSE i - x.peak)
        BY <4>1, LargestOfTwo
      <4> QED BY <2>1, <4>1, <4>2
    <3> HIDE DEF L
    <3> QED BY <2>1, <3>1, <3>2
  <2>4. CASE x.peak # 0 /\ ~(c[i] >= c[x.peak])
    BY <2>4 DEF Surfacing
  <2> QED BY <2>2, <2>3, <2>4
<1>3. PICK g : Recurs(g, base, step, 0, n)
  BY <1>1, RecursExists
<1>4. \A i \in 0 .. n : g[i] \in T
  <2>1. Keeps(step, 0, n, T)
    BY <1>2 DEF Keeps
  <2> HIDE DEF step, T, base
  <2> QED BY <1>1, <1>3, <2>1, RecursTyped
<1>5. Of(g)
  <2>1. g = [i \in 0 .. n |-> IF i = 0 THEN base ELSE step[i][g[i - 1]]]
    BY <1>3 DEF Recurs
  <2>2. \A i \in 0 .. n : i # 0 => i \in 1 .. n /\ i - 1 \in 0 .. n
    BY <1>1
  <2>3. \A i \in 0 .. n : i # 0 => step[i][g[i - 1]] = Surfacing(g[i - 1], c, i)
    BY <1>4, <2>2
  <2> HIDE DEF step, base
  <2> QED BY <2>1, <2>3
<1>6. Of(f0)
  <2> HIDE DEF Of
  <2> QED BY <1>5
<1>7. LongestUnderwater(c) =
         (IF c # <<>> /\ Last(c) < c[f0[n].peak]
          THEN Largest({f0[n].longest, n - f0[n].peak}) ELSE f0[n].longest)
  BY Zenon DEF LongestUnderwater
<1> HIDE DEF f0, base
<1>8. f0[0] = base /\ \A i \in 1 .. n : f0[i] = Surfacing(f0[i - 1], c, i)
  <2>1. 0 \in 0 .. n /\ \A i \in 1 .. n : i \in 0 .. n /\ i # 0
    BY <1>1
  <2> QED BY <1>6, <2>1
<1> QED BY <1>7, <1>8 DEF base

LEMMA LongestIs ==
    ASSUME NEW c \in Seq(Int)
    PROVE  /\ LongestUnderwater(c) \in Nat
           /\ \A p, q : Dip(c, p, q) => q - p <= LongestUnderwater(c)
           /\ LongestUnderwater(c) = 0 \/ \E p, q : Dip(c, p, q) /\ q - p = LongestUnderwater(c)
<1> DEFINE n == Len(c)
           longest == LongestUnderwater(c)
<1>1. n \in Nat /\ \A i \in 1 .. n : c[i] \in Int
  BY LenProperties, ElementOfSeq
<1>2. PICK f : /\ f[0] = [peak |-> 0, longest |-> 0]
               /\ \A i \in 1 .. n : f[i] = Surfacing(f[i - 1], c, i)
               /\ longest = (IF c # <<>> /\ Last(c) < c[f[n].peak]
                             THEN Largest({f[n].longest, n - f[n].peak}) ELSE f[n].longest)
  BY SeenIs
<1>3. CASE c = <<>>
  <2>1. n = 0 /\ f[n].longest = 0
    BY <1>2, <1>3
  <2>2. longest = 0
    BY <1>2, <1>3, <2>1
  <2>3. \A p, q : ~Dip(c, p, q)
    BY <2>1 DEF Dip
  <2> HIDE DEF longest
  <2> QED BY <2>2, <2>3 DEF longest
<1>4. CASE c # <<>>
  <2>1. n \in Nat \ {0} /\ n \in 1 .. n /\ 1 \in 1 .. n /\ Rounds(1, n)
    BY <1>1, <1>4, EmptySeq DEF Rounds
  <2> DEFINE good == {i \in Nat : Surfaced(c, i, f[i])}
             s == f[n]
  <2> HIDE DEF longest
  <2>2. 1 \in good
    <3>1. f[1] = Surfacing(f[1 - 1], c, 1) /\ 1 - 1 = 0
      BY <1>2, <2>1
    <3>2. f[1] = [peak |-> 1, longest |-> 0]
      BY <1>2, <3>1 DEF Surfacing
    <3> QED BY <1>4, <3>2, SurfacedFirst
  <2>3. Carries(good, 1, n)
    <3> SUFFICES ASSUME NEW i \in 1 + 1 .. n, i - 1 \in good PROVE i \in good
      BY DEF Carries
    <3> DEFINE h == i - 1
    <3>1. i \in 1 .. Len(c) /\ Succeeds(i, h) /\ h \in Nat \ {0} /\ i \in Nat
      BY <2>1 DEF Succeeds
    <3>2. f[i] = Surfacing(f[h], c, i) /\ Surfaced(c, h, f[h])
      BY <1>2, <3>1
    <3> HIDE DEF h
    <3>3. Surfaced(c, i, f[i])
      BY <3>1, <3>2, SurfacedNext
    <3> QED BY <3>1, <3>3
  <2> HIDE DEF good
  <2>4. n \in good
    BY <2>1, <2>2, <2>3, Throughout
  <2>5. Surfaced(c, n, s)
    BY <2>4 DEF good
  <2> HIDE DEF s
  <2>6. /\ s.peak \in 1 .. n /\ s.longest \in Nat
        /\ \A j \in s.peak + 1 .. n : c[j] < c[s.peak]
        /\ \A p, q : Dip(c, p, q) /\ q <= n => q - p <= s.longest \/ q - p <= n - s.peak
        /\ s.longest = 0 \/ \E p, q : Dip(c, p, q) /\ q <= n /\ q - p = s.longest
    BY <2>5 DEF Surfaced
  <2>7. Last(c) = c[n] /\ c[n] \in Int /\ c[s.peak] \in Int
    BY <1>1, <2>1, <2>6 DEF Last
  <2>8. longest = (IF c[n] < c[s.peak] THEN Largest({s.longest, n - s.peak}) ELSE s.longest)
    BY <1>2, <1>4, <2>7 DEF s
  <2>9. \A p, q : Dip(c, p, q) => q <= n /\ q - p \in Int /\ q - p > 0
    BY <1>1 DEF Dip
  <2>10. CASE c[n] < c[s.peak]
    <3>1. s.longest \in Int /\ n - s.peak \in Int
      BY <2>1, <2>6
    <3>2. longest = (IF s.longest >= n - s.peak THEN s.longest ELSE n - s.peak)
      BY <2>8, <2>10, <3>1, LargestOfTwo
    <3>3. s.peak # n
      BY <2>7, <2>10
    <3>4. Dip(c, s.peak, n)
      <4>1. \A j \in s.peak + 1 .. n - 1 : j \in s.peak + 1 .. n
        BY <2>1, <2>6
      <4>2. s.peak < n
        BY <2>1, <2>6, <3>3
      <4> QED BY <2>1, <2>6, <4>1, <4>2 DEF Dip
    <3>5. longest \in Nat /\ s.longest <= longest /\ n - s.peak <= longest
      BY <2>6, <3>1, <3>2
    <3>6. \A p, q : Dip(c, p, q) => q - p <= longest
      <4> SUFFICES ASSUME NEW p, NEW q, Dip(c, p, q) PROVE q - p <= longest
        OBVIOUS
      <4>1. q - p <= s.longest \/ q - p <= n - s.peak
        BY <2>6, <2>9
      <4>2. q - p \in Int
        BY <2>9
      <4> QED BY <3>1, <3>5, <4>1, <4>2
    <3>7. longest = 0 \/ \E p, q : Dip(c, p, q) /\ q - p = longest
      BY <2>6, <3>2, <3>4
    <3> QED BY <3>5, <3>6, <3>7 DEF longest
  <2>11. CASE ~(c[n] < c[s.peak])
    <3>1. longest = s.longest
      BY <2>8, <2>11
    <3>2. n - s.peak = 0
      <4>1. ~(n \in s.peak + 1 .. n)
        BY <2>6, <2>11
      <4> QED BY <2>1, <2>6, <4>1
    <3>3. \A p, q : Dip(c, p, q) => q - p <= longest
      <4> SUFFICES ASSUME NEW p, NEW q, Dip(c, p, q) PROVE q - p <= longest
        OBVIOUS
      <4>1. q - p <= s.longest \/ q - p <= n - s.peak
        BY <2>6, <2>9
      <4>2. q - p \in Int /\ q - p > 0
        BY <2>9
      <4>3. q - p <= s.longest
        BY <3>2, <4>1, <4>2
      <4> QED BY <3>1, <4>3
    <3> QED BY <2>6, <3>1, <3>3 DEF longest
  <2> QED BY <2>10, <2>11
<1> QED BY <1>3, <1>4

-----------------------------------------------------------------------------
(* The deepest fall of a curve, from its initial value on.                 *)
LEMMA LargestWith ==
    ASSUME NEW x \in Int, NEW f, NEW n \in Nat, Numbers(f, n)
    PROVE  LET top == Largest({x} \cup {f[k] : k \in 1 .. n})
           IN /\ top \in Int /\ x <= top /\ \A k \in 1 .. n : f[k] <= top
              /\ top = x \/ \E k \in 1 .. n : top = f[k]
<1> DEFINE S == {x} \cup {f[k] : k \in 1 .. n}
<1>1. \A k \in 1 .. n : f[k] \in Int
  BY DEF Numbers
<1>2. \E top \in S : \A y \in S : y <= top
  <2>1. CASE n = 0
    <3>1. S = {x} /\ x <= x
      BY <2>1
    <3> QED BY <3>1
  <2>2. CASE n # 0
    <3>1. Rounds(1, n)
      BY <2>2 DEF Rounds
    <3>2. PICK i \in 1 .. n : \A k \in 1 .. n : f[k] <= f[i]
      BY <3>1, ListHasExtremes
    <3>3. f[i] \in Int /\ f[i] \in S /\ x \in S
      BY <1>1
    <3>4. CASE x <= f[i]
      <4>1. \A y \in S : y <= f[i]
        BY <3>2, <3>4
      <4> QED BY <3>3, <4>1
    <3>5. CASE f[i] <= x
      <4>1. \A y \in S : y <= x
        BY <1>1, <3>2, <3>3, <3>5
      <4> QED BY <3>3, <4>1
    <3> QED BY <3>3, <3>4, <3>5
  <2> QED BY <2>1, <2>2
<1>3. Largest(S) \in S /\ \A y \in S : y <= Largest(S)
  BY <1>2 DEF Largest
<1> QED BY <1>1, <1>3

LEMMA DrawdownIs ==
    ASSUME NEW c \in Seq(Int), NEW initial \in Int
    PROVE  LET deepest == DrawdownFrom(initial, c)
           IN /\ deepest \in Nat
              /\ \A i \in 1 .. Len(c) : initial - c[i] <= deepest
              /\ \A i, k \in 1 .. Len(c) : k <= i => c[k] - c[i] <= deepest
              /\ \/ deepest = 0
                 \/ \E i \in 1 .. Len(c) : deepest = initial - c[i]
                 \/ \E i, k \in 1 .. Len(c) : k <= i /\ deepest = c[k] - c[i]
<1> DEFINE n == Len(c)
           fall == [i \in 1 .. n |-> Peak(c, i, initial) - c[i]]
           deepest == DrawdownFrom(initial, c)
<1>1. n \in Nat /\ DOMAIN c = 1 .. n /\ \A i \in 1 .. n : c[i] \in Int
  BY LenProperties, ElementOfSeq
<1>2. ASSUME NEW i \in 1 .. n
      PROVE  LET top == Peak(c, i, initial)
             IN /\ top \in Int /\ initial <= top /\ \A k \in 1 .. i : c[k] <= top
                /\ top = initial \/ \E k \in 1 .. i : top = c[k]
  <2>1. i \in Nat /\ Numbers(c, i)
    BY <1>1 DEF Numbers
  <2> QED BY <2>1, LargestWith DEF Peak
<1>3. Numbers(fall, n) /\ \A i \in 1 .. n : fall[i] = Peak(c, i, initial) - c[i]
  BY <1>1, <1>2 DEF Numbers
<1>4. deepest = Largest({0} \cup {fall[i] : i \in 1 .. n})
  <2>1. {Peak(c, i, initial) - c[i] : i \in DOMAIN c} = {fall[i] : i \in 1 .. n}
    BY <1>1
  <2> QED BY <2>1 DEF DrawdownFrom
<1> HIDE DEF fall, deepest
<1>5. /\ deepest \in Int /\ 0 <= deepest /\ \A i \in 1 .. n : fall[i] <= deepest
      /\ deepest = 0 \/ \E i \in 1 .. n : deepest = fall[i]
  <2> DEFINE top == Largest({0} \cup {fall[k] : k \in 1 .. n})
  <2>1. n \in Nat /\ Numbers(fall, n) /\ 0 \in Int
    BY <1>1, <1>3
  <2>2. /\ top \in Int /\ 0 <= top /\ \A k \in 1 .. n : fall[k] <= top
        /\ top = 0 \/ \E k \in 1 .. n : top = fall[k]
    BY <2>1, LargestWith
  <2>3. deepest = top
    BY <1>4
  <2> HIDE DEF top
  <2> QED BY <2>2, <2>3
<1>6. \A i \in 1 .. n : initial - c[i] <= deepest
  <2> SUFFICES ASSUME NEW i \in 1 .. n PROVE initial - c[i] <= deepest
    OBVIOUS
  <2>1. initial <= Peak(c, i, initial) /\ Peak(c, i, initial) \in Int
    BY <1>2
  <2> QED BY <1>1, <1>3, <1>5, <2>1
<1>7. \A i, k \in 1 .. n : k <= i => c[k] - c[i] <= deepest
  <2> SUFFICES ASSUME NEW i \in 1 .. n, NEW k \in 1 .. n, k <= i PROVE c[k] - c[i] <= deepest
    OBVIOUS
  <2>1. k \in 1 .. i
    BY <1>1
  <2>2. c[k] <= Peak(c, i, initial) /\ Peak(c, i, initial) \in Int
    BY <1>2, <2>1
  <2> QED BY <1>1, <1>3, <1>5, <2>2
<1>8. \/ deepest = 0
      \/ \E i \in 1 .. n : deepest = initial - c[i]
      \/ \E i, k \in 1 .. n : k <= i /\ deepest = c[k] - c[i]
  <2> SUFFICES ASSUME NEW i \in 1 .. n, deepest = fall[i]
               PROVE  \/ deepest = initial - c[i]
                      \/ \E k \in 1 .. n : k <= i /\ deepest = c[k] - c[i]
    BY <1>5
  <2>1. Peak(c, i, initial) = initial \/ \E k \in 1 .. i : Peak(c, i, initial) = c[k]
    BY <1>2
  <2>2. \A k \in 1 .. i : k \in 1 .. n /\ k <= i
    BY <1>1
  <2> QED BY <1>3, <2>1, <2>2
<1> QED BY <1>5, <1>6, <1>7, <1>8 DEF deepest

-----------------------------------------------------------------------------
(* The run of a window, and the runs chained one behind the other.         *)
States == [long : BOOLEAN, marks : Seq(Int)]
Runs == {r \in States : r.marks # <<>>}

LEMMA MarkedIs ==
    ASSUME NEW x \in States, NEW move \in Int, NEW signal
    PROVE  /\ Marked(x, move, signal) \in States
           /\ Len(Marked(x, move, signal).marks) = Len(x.marks) + 1
<1> DEFINE level == IF x.marks = <<>> THEN 0 ELSE Last(x.marks)
           next == level + (IF x.long THEN move ELSE 0)
           long == signal = "buy" \/ (x.long /\ signal = "hold")
<1>1. x.long \in BOOLEAN /\ x.marks \in Seq(Int) /\ Len(x.marks) \in Nat
  BY LenProperties DEF States
<1>2. level \in Int
  <2>1. CASE x.marks = <<>>
    BY <2>1
  <2>2. CASE x.marks # <<>>
    <3>1. Len(x.marks) \in 1 .. Len(x.marks)
      BY <1>1, <2>2, EmptySeq
    <3>2. x.marks[Len(x.marks)] \in Int
      BY <1>1, <3>1, ElementOfSeq
    <3> QED BY <2>2, <3>2 DEF Last
  <2> QED BY <2>1, <2>2
<1> HIDE DEF level
<1>3. next \in Int
  BY <1>2
<1> HIDE DEF next
<1>4. Append(x.marks, next) \in Seq(Int) /\ Len(Append(x.marks, next)) = Len(x.marks) + 1
  BY <1>1, <1>3, AppendProperties
<1>5. Marked(x, move, signal) = [long |-> long, marks |-> Append(x.marks, next)]
  BY Zenon DEF Marked, next, level
<1>6. long \in BOOLEAN
  OBVIOUS
<1> HIDE DEF long
<1> QED BY <1>4, <1>5, <1>6 DEF States

LEMMA ReplayIs ==
    ASSUME NEW m \in Seq(Int), NEW start \in Nat, NEW end \in Nat, start < end, end <= Len(m),
           NEW warm, NEW name
    PROVE  Replay(m, start, end, warm, name) \in Runs
<1> DEFINE Told(i) == Signal(name, History(m, start - warm + 1, i))
           step == [i \in start + 1 .. end |-> [x \in States |-> Marked(x, m[i], Told(i))]]
           Of(f) == f = [i \in start .. end |->
                            IF i = start THEN Flat ELSE Marked(f[i - 1], m[i], Told(i))]
           f0 == CHOOSE f : Of(f)
<1>1. Rounds(start, end) /\ start \in start .. end /\ end \in start + 1 .. end
      /\ \A i \in start .. end : i # start => i \in start + 1 .. end /\ i - 1 \in start .. end
  BY DEF Rounds
<1>2. Flat \in States /\ Len(Flat.marks) = 0
  BY EmptySeq DEF Flat, States
<1>3. \A i \in start + 1 .. end, x \in States :
         /\ Marked(x, m[i], Told(i)) \in States
         /\ Len(Marked(x, m[i], Told(i)).marks) = Len(x.marks) + 1
  <2>1. \A i \in start + 1 .. end : m[i] \in Int
    <3>1. \A i \in start + 1 .. end : i \in 1 .. Len(m)
      BY LenProperties
    <3> QED BY <3>1, ElementOfSeq
  <2> QED BY <2>1, MarkedIs
<1> HIDE DEF Told
<1>4. PICK g : Recurs(g, Flat, step, start, end)
  BY <1>1, RecursExists
<1>5. \A i \in start .. end : g[i] \in States
  <2>1. Keeps(step, start, end, States)
    BY <1>3 DEF Keeps
  <2> HIDE DEF step
  <2> QED BY <1>1, <1>2, <1>4, <2>1, RecursTyped
<1>6. Of(g)
  <2>1. g = [i \in start .. end |-> IF i = start THEN Flat ELSE step[i][g[i - 1]]]
    BY <1>4 DEF Recurs
  <2>2. \A i \in start .. end : i # start => step[i][g[i - 1]] = Marked(g[i - 1], m[i], Told(i))
    BY <1>1, <1>5
  <2> HIDE DEF step
  <2> QED BY <2>1, <2>2
<1>7. Of(f0)
  <2> HIDE DEF Of
  <2> QED BY <1>6
<1>8. Replay(m, start, end, warm, name) = f0[end]
  BY Zenon DEF Replay, Told
<1> HIDE DEF f0
<1>9. f0[start] = Flat /\ \A i \in start + 1 .. end : f0[i] = Marked(f0[i - 1], m[i], Told(i))
  <2>1. \A i \in start + 1 .. end : i \in start .. end /\ i # start
    OBVIOUS
  <2> QED BY <1>1, <1>7, <2>1
<1> DEFINE good == {i \in Nat : f0[i] \in States /\ Len(f0[i].marks) = i - start}
<1>10. start \in good
  <2>1. start - start = 0
    OBVIOUS
  <2>2. f0[start] \in States /\ Len(f0[start].marks) = start - start
    BY <1>2, <1>9, <2>1
  <2> QED BY <2>2
<1>11. Carries(good, start, end)
  <2> SUFFICES ASSUME NEW i \in start + 1 .. end, i - 1 \in good PROVE i \in good
    BY DEF Carries
  <2>1. f0[i - 1] \in States /\ Len(f0[i - 1].marks) = i - 1 - start
    OBVIOUS
  <2>2. f0[i] \in States /\ Len(f0[i].marks) = i - 1 - start + 1
    BY <1>3, <1>9, <2>1
  <2>3. i - 1 - start + 1 = i - start /\ i \in Nat
    OBVIOUS
  <2> QED BY <2>2, <2>3
<1> HIDE DEF good
<1>12. end \in good
  BY <1>1, <1>10, <1>11, Throughout
<1>13. f0[end] \in States /\ Len(f0[end].marks) # 0
  BY <1>12 DEF good
<1>14. f0[end].marks # <<>>
  BY <1>13
<1> QED BY <1>8, <1>13, <1>14 DEF Runs

Whole(r) == Append(r.marks, Ending(r))

LEMMA WholeIs ==
    ASSUME NEW r \in Runs
    PROVE  /\ Ending(r) \in Int /\ Len(r.marks) \in Nat \ {0} /\ DOMAIN r.marks = 1 .. Len(r.marks)
           /\ r.marks \in Seq(Int)
           /\ Whole(r) \in Seq(Int) /\ Len(Whole(r)) = Len(r.marks) + 1
           /\ \A i \in 1 .. Len(r.marks) : Whole(r)[i] = r.marks[i] /\ r.marks[i] \in Int
           /\ Whole(r)[Len(r.marks) + 1] = Ending(r)
<1>1. r.marks \in Seq(Int) /\ r.marks # <<>> /\ r.long \in BOOLEAN
  BY DEF Runs, States
<1>2. Len(r.marks) \in Nat \ {0} /\ DOMAIN r.marks = 1 .. Len(r.marks)
  BY <1>1, LenProperties, EmptySeq
<1>3. Len(r.marks) \in 1 .. Len(r.marks)
  BY <1>2
<1>4. Last(r.marks) \in Int
  <2>1. r.marks[Len(r.marks)] \in Int
    BY <1>1, <1>3, ElementOfSeq
  <2> QED BY <2>1 DEF Last
<1>5. Ending(r) \in Int
  <2>1. Cost \in Int
    BY WalkAssumption
  <2> QED BY <1>4, <2>1 DEF Ending
<1>6. \A i \in 1 .. Len(r.marks) : r.marks[i] \in Int
  BY <1>1, ElementOfSeq
<1>7. /\ Whole(r) \in Seq(Int) /\ Len(Whole(r)) = Len(r.marks) + 1
      /\ \A i \in 1 .. Len(r.marks) : Whole(r)[i] = r.marks[i]
      /\ Whole(r)[Len(r.marks) + 1] = Ending(r)
  BY <1>1, <1>5, AppendProperties DEF Whole
<1> QED BY <1>1, <1>2, <1>5, <1>6, <1>7

Chains == [curve : Seq(Int), level : Int]
Follows(u, c) == Len(c) <= Len(u) /\ \A i \in 1 .. Len(c) : u[i] = c[i]
Holds(u, o, level, w) == \A i \in 1 .. Len(w) : o + i \in 1 .. Len(u) /\ u[o + i] = level + w[i]

LEMMA JoiningIs ==
    ASSUME NEW x \in Chains, NEW r \in Runs
    PROVE  LET y == Joining(x, r)
           IN /\ y \in Chains /\ y.level = x.level + Ending(r)
              /\ Follows(y.curve, x.curve) /\ Holds(y.curve, Len(x.curve), x.level, Whole(r))
              /\ y.curve # <<>> /\ y.curve[Len(y.curve)] = y.level
<1> DEFINE n == Len(r.marks)
           a == Len(x.curve)
           level == x.level + Ending(r)
           part == [i \in DOMAIN r.marks |-> x.level + r.marks[i]]
           long == x.curve \o part
           y == Joining(x, r)
<1>1. x.curve \in Seq(Int) /\ x.level \in Int /\ a \in Nat
  BY LenProperties DEF Chains
<1>2. /\ Ending(r) \in Int /\ n \in Nat \ {0} /\ DOMAIN r.marks = 1 .. n
      /\ Len(Whole(r)) = n + 1 /\ Whole(r)[n + 1] = Ending(r)
      /\ \A i \in 1 .. n : Whole(r)[i] = r.marks[i] /\ r.marks[i] \in Int
  BY WholeIs
<1>3. level \in Int
  BY <1>1, <1>2
<1>4. part \in Seq(Int) /\ Len(part) = n /\ \A i \in 1 .. n : part[i] = x.level + Whole(r)[i]
  BY <1>1, <1>2
<1>5. y = [curve |-> Append(long, level), level |-> level]
  BY Zenon DEF Joining
<1> HIDE DEF n, a, part, y
<1>6. /\ long \in Seq(Int) /\ Len(long) = a + n
      /\ \A i \in 1 .. a : long[i] = x.curve[i]
      /\ \A i \in 1 .. n : long[a + i] = part[i]
  <2>1. Len(x.curve) = a
    BY DEF a
  <2>2. /\ long \in Seq(Int) /\ Len(long) = a + n
        /\ \A i \in 1 .. a + n : long[i] = IF i <= a THEN x.curve[i] ELSE part[i - a]
    BY <1>1, <1>4, <2>1, ConcatProperties
  <2> HIDE DEF long
  <2>3. \A i \in 1 .. a : i \in 1 .. a + n /\ i <= a
    BY <1>1, <1>2
  <2>4. \A i \in 1 .. a : long[i] = x.curve[i]
    BY <2>2, <2>3
  <2>5. ASSUME NEW i \in 1 .. n PROVE long[a + i] = part[i]
    <3> DEFINE j == a + i
    <3>1. j \in 1 .. a + n /\ ~(j <= a) /\ j - a = i
      BY <1>1, <1>2
    <3> HIDE DEF j
    <3>2. long[j] = IF j <= a THEN x.curve[j] ELSE part[j - a]
      BY <2>2, <3>1
    <3> QED BY <3>1, <3>2 DEF j
  <2> QED BY <2>2, <2>4, <2>5
<1> HIDE DEF long, level
<1>7. /\ Append(long, level) \in Seq(Int) /\ Len(Append(long, level)) = a + n + 1
      /\ \A i \in 1 .. a + n : Append(long, level)[i] = long[i]
      /\ Append(long, level)[a + n + 1] = level
  BY <1>3, <1>6, AppendProperties
<1>8. y.curve = Append(long, level) /\ y.level = level
  BY <1>5
<1>9. y \in Chains
  BY <1>3, <1>5, <1>7 DEF Chains
<1>10. Follows(y.curve, x.curve)
  <2>1. \A i \in 1 .. a : i \in 1 .. a + n
    BY <1>1, <1>2
  <2>2. a <= a + n + 1
    BY <1>1, <1>2
  <2> QED BY <1>6, <1>7, <1>8, <2>1, <2>2 DEF Follows, a
<1>11. Holds(y.curve, a, x.level, Whole(r))
  <2> SUFFICES ASSUME NEW i \in 1 .. n + 1
               PROVE  a + i \in 1 .. a + n + 1 /\ y.curve[a + i] = x.level + Whole(r)[i]
    BY <1>2, <1>7, <1>8 DEF Holds
  <2>1. a + i \in 1 .. a + n + 1
    BY <1>1, <1>2
  <2>2. CASE i = n + 1
    <3>1. a + i = a + n + 1
      BY <1>1, <1>2, <2>2
    <3> QED BY <1>2, <1>7, <1>8, <2>1, <2>2, <3>1 DEF level
  <2>3. CASE i # n + 1
    <3>1. i \in 1 .. n /\ a + i \in 1 .. a + n
      BY <1>1, <1>2, <2>3
    <3> QED BY <1>4, <1>6, <1>7, <1>8, <2>1, <3>1
  <2> QED BY <2>2, <2>3
<1>12. y.curve # <<>> /\ y.curve[Len(y.curve)] = y.level
  <2>1. a + n + 1 # 0
    BY <1>1, <1>2
  <2> QED BY <1>7, <1>8, <2>1
<1> QED BY <1>8, <1>9, <1>10, <1>11, <1>12 DEF y, a, level

(* The loop of chain_windows: what it has after each run.                  *)
Told(rs, K) == K \in Nat /\ Len(rs) = K /\ DOMAIN rs = 1 .. K /\ \A k \in 1 .. K : rs[k] \in Runs

LEMMA ChainedIs ==
    ASSUME NEW rs, NEW K, Told(rs, K)
    PROVE  \E f : /\ f[0] = [curve |-> <<>>, level |-> 0]
                  /\ \A k \in 0 .. K : f[k] \in Chains
                  /\ \A k \in 1 .. K : k - 1 \in 0 .. K /\ f[k] = Joining(f[k - 1], rs[k])
                  /\ Chained(rs) = f[K]
<1> DEFINE base == [curve |-> <<>>, level |-> 0]
           step == [k \in 1 .. K |-> [x \in Chains |-> Joining(x, rs[k])]]
           Of(f) == f = [k \in 0 .. K |-> IF k = 0 THEN base ELSE Joining(f[k - 1], rs[k])]
           f0 == CHOOSE f : Of(f)
<1>1. /\ K \in Nat /\ Rounds(0, K) /\ K = Len(rs)
      /\ \A k \in 0 .. K : k # 0 => k \in 1 .. K /\ k - 1 \in 0 .. K
  BY DEF Rounds, Told
<1>2. base \in Chains
  <2>1. <<>> \in Seq(Int)
    BY EmptySeq
  <2> QED BY <2>1 DEF Chains
<1>3. \A k \in 1 .. K, x \in Chains : Joining(x, rs[k]) \in Chains
  BY JoiningIs DEF Told
<1> HIDE DEF base
<1>4. PICK g : Recurs(g, base, step, 0, K)
  BY <1>1, RecursExists
<1>5. \A k \in 0 .. K : g[k] \in Chains
  <2>1. Keeps(step, 0, K, Chains)
    BY <1>3 DEF Keeps
  <2> HIDE DEF step
  <2> QED BY <1>1, <1>2, <1>4, <2>1, RecursTyped
<1>6. Of(g)
  <2>1. g = [k \in 0 .. K |-> IF k = 0 THEN base ELSE step[k][g[k - 1]]]
    BY <1>4 DEF Recurs
  <2>2. \A k \in 0 .. K : k # 0 => step[k][g[k - 1]] = Joining(g[k - 1], rs[k])
    BY <1>1, <1>5
  <2> HIDE DEF step
  <2> QED BY <2>1, <2>2
<1>7. Of(f0)
  <2> HIDE DEF Of
  <2> QED BY <1>6
<1>8. Chained(rs) = f0[K]
  BY <1>1, Zenon DEF Chained, base
<1> HIDE DEF f0
<1>9. f0[0] = base /\ \A k \in 1 .. K : k - 1 \in 0 .. K /\ f0[k] = Joining(f0[k - 1], rs[k])
  <2>1. 0 \in 0 .. K /\ \A k \in 1 .. K : k \in 0 .. K /\ k # 0
    BY <1>1
  <2> QED BY <1>1, <1>7, <2>1
<1> DEFINE good == {k \in Nat : f0[k] \in Chains}
<1>10. 0 \in good
  BY <1>2, <1>9
<1>11. Carries(good, 0, K)
  <2> SUFFICES ASSUME NEW k \in 0 + 1 .. K, k - 1 \in good PROVE k \in good
    BY DEF Carries
  <2>1. k \in 1 .. K /\ k \in Nat
    BY <1>1
  <2> QED BY <1>3, <1>9, <2>1
<1> HIDE DEF good
<1>12. \A k \in 0 .. K : k \in good
  BY <1>1, <1>10, <1>11, Throughout
<1> QED BY <1>8, <1>9, <1>12 DEF good, base

(* Every run lies in the chained curve, from where the one before ended;   *)
(* the curve ends at the sum of what the runs ended with.                  *)
LEMMA ChainHolds ==
    ASSUME NEW rs, NEW K, Told(rs, K), K # 0
    PROVE  LET curve == Chained(rs).curve
           IN /\ curve \in Seq(Int) /\ curve # <<>> /\ Last(curve) = Compounded(rs)
              /\ \A k \in 1 .. K :
                    \E o \in Nat, level \in Int :
                       /\ Holds(curve, o, level, Whole(rs[k]))
                       /\ k # 1 => o \in 1 .. Len(curve) /\ curve[o] = level
<1>1. PICK f : /\ f[0] = [curve |-> <<>>, level |-> 0]
               /\ \A k \in 0 .. K : f[k] \in Chains
               /\ \A k \in 1 .. K : k - 1 \in 0 .. K /\ f[k] = Joining(f[k - 1], rs[k])
               /\ Chained(rs) = f[K]
  BY ChainedIs
<1> DEFINE E == [k \in DOMAIN rs |-> Ending(rs[k])]
           curve == Chained(rs).curve
<1>2. K \in Nat /\ K \in 1 .. K /\ K \in 0 .. K /\ \A k \in 1 .. K : rs[k] \in Runs
  BY DEF Told
<1>3. \A k \in 1 .. K :
         /\ f[k].level = f[k - 1].level + Ending(rs[k])
         /\ Follows(f[k].curve, f[k - 1].curve)
         /\ Holds(f[k].curve, Len(f[k - 1].curve), f[k - 1].level, Whole(rs[k]))
         /\ f[k].curve # <<>> /\ f[k].curve[Len(f[k].curve)] = f[k].level
  <2> SUFFICES ASSUME NEW k \in 1 .. K
               PROVE  /\ f[k].level = f[k - 1].level + Ending(rs[k])
                      /\ Follows(f[k].curve, f[k - 1].curve)
                      /\ Holds(f[k].curve, Len(f[k - 1].curve), f[k - 1].level, Whole(rs[k]))
                      /\ f[k].curve # <<>> /\ f[k].curve[Len(f[k].curve)] = f[k].level
    OBVIOUS
  <2> DEFINE x == f[k - 1]
  <2>1. x \in Chains /\ f[k] = Joining(x, rs[k]) /\ rs[k] \in Runs
    BY <1>1, <1>2
  <2> HIDE DEF x
  <2> QED BY <2>1, JoiningIs DEF x
<1>4. \A k \in 0 .. K : f[k].curve \in Seq(Int) /\ f[k].level \in Int /\ Len(f[k].curve) \in Nat
  <2>1. \A k \in 0 .. K : f[k].curve \in Seq(Int) /\ f[k].level \in Int
    BY <1>1 DEF Chains
  <2> QED BY <2>1, LenProperties
<1>5. \A k \in 1 .. K : E[k] = Ending(rs[k]) /\ E[k] \in Int
  BY <1>2, WholeIs DEF Told
<1>6. Len(E) = K /\ Numbers(E, K)
  BY <1>2, <1>5 DEF Told, Numbers
<1> HIDE DEF E
<1> DEFINE good == {k \in Nat : f[k].level = Total(E, k)}
<1>7. K \in good
  <2>1. 0 \in good
    BY <1>1, TotalOfNone
  <2>2. Carries(good, 0, K)
    <3> SUFFICES ASSUME NEW k \in 0 + 1 .. K, k - 1 \in good PROVE k \in good
      BY DEF Carries
    <3>1. k \in 1 .. K /\ k \in Nat
      BY <1>2
    <3>2. Total(E, k) = Total(E, k - 1) + E[k]
      BY <1>2, <1>6, <3>1, TotalStep
    <3>3. f[k].level = f[k - 1].level + E[k] /\ f[k - 1].level = Total(E, k - 1)
      BY <1>3, <1>5, <3>1
    <3> QED BY <3>1, <3>2, <3>3
  <2> HIDE DEF good
  <2>3. Rounds(0, K)
    BY <1>2 DEF Rounds
  <2> QED BY <1>2, <2>1, <2>2, <2>3, Throughout
<1>8. f[K].level = Compounded(rs)
  <2>1. Sum(E) = Total(E, K)
    BY <1>2, <1>6, SumIs
  <2> QED BY <1>7, <2>1 DEF Compounded, E
<1>9. curve = f[K].curve /\ curve \in Seq(Int) /\ curve # <<>> /\ Last(curve) = f[K].level
  <2>1. curve = f[K].curve
    BY <1>1
  <2> QED BY <1>2, <1>3, <1>4, <2>1 DEF Last
<1> HIDE DEF good, curve
<1>10. \A k \in 1 .. K : Follows(curve, f[k].curve)
  <2> SUFFICES ASSUME NEW k \in 1 .. K PROVE Follows(curve, f[k].curve)
    OBVIOUS
  <2> DEFINE reached == {j \in Nat : Follows(f[j].curve, f[k].curve)}
  <2>1. Rounds(k, K) /\ K \in k .. K /\ k \in Nat
    BY <1>2 DEF Rounds
  <2>2. k \in reached
    <3>1. k \in 0 .. K
      BY <1>2
    <3>2. Len(f[k].curve) <= Len(f[k].curve)
      BY <1>4, <3>1
    <3> QED BY <2>1, <3>2 DEF Follows
  <2>3. Carries(reached, k, K)
    <3> SUFFICES ASSUME NEW j \in k + 1 .. K, j - 1 \in reached PROVE j \in reached
      BY DEF Carries
    <3> DEFINE u == f[j].curve
               v == f[j - 1].curve
               w == f[k].curve
    <3>1. j \in 1 .. K /\ j \in Nat /\ j \in 0 .. K /\ j - 1 \in 0 .. K /\ k \in 0 .. K
      BY <1>2
    <3>2. Follows(v, w) /\ Follows(u, v)
      BY <1>3, <3>1
    <3>3. Len(u) \in Nat /\ Len(v) \in Nat /\ Len(w) \in Nat
      BY <1>4, <3>1
    <3> HIDE DEF u, v, w
    <3>4. Len(w) <= Len(u) /\ \A i \in 1 .. Len(w) : i \in 1 .. Len(v)
      BY <3>2, <3>3 DEF Follows
    <3>5. Follows(u, w)
      BY <3>2, <3>4 DEF Follows
    <3> QED BY <3>1, <3>5 DEF u, w
  <2> HIDE DEF reached
  <2>4. K \in reached
    BY <2>1, <2>2, <2>3, Throughout
  <2> QED BY <1>9, <2>4 DEF reached
<1>11. ASSUME NEW k \in 1 .. K
       PROVE  \E o \in Nat, level \in Int :
                 /\ Holds(curve, o, level, Whole(rs[k]))
                 /\ k # 1 => o \in 1 .. Len(curve) /\ curve[o] = level
  <2> DEFINE u == f[k].curve
             v == f[k - 1].curve
             o == Len(v)
             level == f[k - 1].level
             w == Whole(rs[k])
  <2>1. k - 1 \in 0 .. K /\ k \in 0 .. K
    BY <1>2
  <2>2. Follows(curve, u) /\ Follows(u, v) /\ Holds(u, o, level, w)
    BY <1>3, <1>10
  <2>3. v \in Seq(Int) /\ o \in Nat /\ level \in Int /\ Len(u) \in Nat /\ Len(curve) \in Nat
    BY <1>4, <1>9, <2>1, LenProperties
  <2>4. k # 1 => v # <<>> /\ v[o] = level
    <3>1. k # 1 => k - 1 \in 1 .. K
      BY <1>2
    <3> QED BY <1>3, <3>1
  <2> HIDE DEF u, v, level, w
  <2>5. Holds(curve, o, level, w)
    <3> HIDE DEF o
    <3>1. \A i \in 1 .. Len(w) : o + i \in 1 .. Len(u) /\ u[o + i] = level + w[i]
      BY <2>2 DEF Holds
    <3>2. \A j \in 1 .. Len(u) : j \in 1 .. Len(curve) /\ curve[j] = u[j]
      BY <2>2, <2>3 DEF Follows
    <3> QED BY <3>1, <3>2 DEF Holds
  <2>6. k # 1 => o \in 1 .. Len(curve) /\ curve[o] = level
    <3> SUFFICES ASSUME k # 1 PROVE o \in 1 .. Len(curve) /\ curve[o] = level
      OBVIOUS
    <3>1. o # 0
      BY <2>3, <2>4, EmptySeq
    <3> HIDE DEF o
    <3>2. o \in 1 .. o
      BY <2>3, <3>1
    <3>3. o <= Len(u) /\ u[o] = v[o]
      BY <2>2, <3>2 DEF Follows, o
    <3>4. o \in 1 .. Len(u)
      BY <2>3, <3>1, <3>3
    <3>5. Len(u) <= Len(curve) /\ curve[o] = u[o]
      BY <2>2, <3>4 DEF Follows
    <3> QED BY <2>3, <2>4, <3>2, <3>3, <3>4, <3>5
  <2> QED BY <2>3, <2>5, <2>6 DEF w
<1> QED BY <1>8, <1>9, <1>11 DEF curve

(* The deepest fall of a curve that is not empty.                          *)
LEMMA MaxDrawdownIs ==
    ASSUME NEW c \in Seq(Int), c # <<>>
    PROVE  /\ MaxDrawdown(c) \in Nat
           /\ \A i, k \in 1 .. Len(c) : k <= i => c[k] - c[i] <= MaxDrawdown(c)
           /\ \/ MaxDrawdown(c) = 0
              \/ \E i, k \in 1 .. Len(c) : k <= i /\ MaxDrawdown(c) = c[k] - c[i]
<1>1. Len(c) \in Nat /\ 1 \in 1 .. Len(c) /\ Head(c) = c[1] /\ c[1] \in Int
  <2>1. Len(c) \in Nat \ {0}
    BY LenProperties, EmptySeq
  <2> QED BY <2>1, ElementOfSeq
<1> DEFINE d == DrawdownFrom(c[1], c)
<1>2. MaxDrawdown(c) = d
  BY <1>1 DEF MaxDrawdown
<1>3. /\ d \in Nat
      /\ \A i, k \in 1 .. Len(c) : k <= i => c[k] - c[i] <= d
      /\ \/ d = 0
         \/ \E i \in 1 .. Len(c) : d = c[1] - c[i]
         \/ \E i, k \in 1 .. Len(c) : k <= i /\ d = c[k] - c[i]
  BY <1>1, DrawdownIs
<1> HIDE DEF d
<1>4. \A i \in 1 .. Len(c) : 1 <= i
  BY <1>1
<1> QED BY <1>1, <1>2, <1>3, <1>4

LEMMA PartFallsLess ==
    ASSUME NEW c \in Seq(Int), c # <<>>, NEW w \in Seq(Int), w # <<>>,
           NEW o \in Nat, NEW level \in Int, Holds(c, o, level, w)
    PROVE  /\ MaxDrawdown(c) >= MaxDrawdown(w)
           /\ o \in 1 .. Len(c) /\ c[o] = level => MaxDrawdown(c) >= DrawdownFrom(0, w)
           /\ LongestUnderwater(c) >= LongestUnderwater(w)
<1> DEFINE n == Len(c)
           l == Len(w)
<1>1. /\ n \in Nat /\ l \in Nat /\ \A i \in 1 .. n : c[i] \in Int
      /\ \A i \in 1 .. l : w[i] \in Int
  BY LenProperties, ElementOfSeq
<1>2. \A i \in 1 .. l : o + i \in 1 .. n /\ c[o + i] = level + w[i]
  BY DEF Holds
<1> HIDE DEF n, l
<1> DEFINE D == MaxDrawdown(c)
<1>3. D \in Nat /\ \A i, k \in 1 .. n : k <= i => c[k] - c[i] <= D
  BY MaxDrawdownIs DEF n
<1> HIDE DEF D
<1>4. ASSUME NEW i \in 1 .. l, NEW k \in 1 .. l, k <= i PROVE w[k] - w[i] <= D
  <2> DEFINE x == o + i
             y == o + k
  <2>1. x \in 1 .. n /\ y \in 1 .. n /\ c[x] = level + w[i] /\ c[y] = level + w[k]
    BY <1>2
  <2>2. y <= x
    BY <1>1, <1>4
  <2> HIDE DEF x, y
  <2>3. c[y] - c[x] <= D /\ w[i] \in Int /\ w[k] \in Int
    BY <1>1, <1>3, <2>1, <2>2
  <2> QED BY <1>3, <2>1, <2>3
<1>5. D >= MaxDrawdown(w)
  <2> DEFINE d == MaxDrawdown(w)
  <2>1. d \in Nat /\ (d = 0 \/ \E i, k \in 1 .. l : k <= i /\ d = w[k] - w[i])
    BY MaxDrawdownIs DEF l
  <2> HIDE DEF d
  <2>2. d <= D
    BY <1>3, <1>4, <2>1
  <2> QED BY <1>3, <2>1, <2>2 DEF d
<1>6. ASSUME o \in 1 .. n, c[o] = level PROVE D >= DrawdownFrom(0, w)
  <2> DEFINE d == DrawdownFrom(0, w)
  <2>1. /\ d \in Nat
        /\ \/ d = 0
           \/ \E i \in 1 .. l : d = 0 - w[i]
           \/ \E i, k \in 1 .. l : k <= i /\ d = w[k] - w[i]
    <3> DEFINE e == DrawdownFrom(0, w)
    <3>1. 0 \in Int
      OBVIOUS
    <3>2. /\ e \in Nat
          /\ \/ e = 0
             \/ \E i \in 1 .. Len(w) : e = 0 - w[i]
             \/ \E i, k \in 1 .. Len(w) : k <= i /\ e = w[k] - w[i]
      BY <3>1, DrawdownIs
    <3>3. d = e
      OBVIOUS
    <3> HIDE DEF d, e
    <3> QED BY <3>2, <3>3 DEF l
  <2> HIDE DEF d
  <2>2. ASSUME NEW i \in 1 .. l PROVE 0 - w[i] <= D
    <3> DEFINE x == o + i
    <3>1. x \in 1 .. n /\ c[x] = level + w[i] /\ w[i] \in Int
      BY <1>1, <1>2
    <3>2. o <= x
      BY <1>1
    <3> HIDE DEF x
    <3>3. c[o] - c[x] <= D
      BY <1>3, <1>6, <3>1, <3>2
    <3> QED BY <1>3, <1>6, <3>1, <3>3
  <2>3. d <= D
    BY <1>3, <1>4, <2>1, <2>2
  <2> QED BY <1>3, <2>1, <2>3 DEF d
<1>7. LongestUnderwater(c) >= LongestUnderwater(w)
  <2> DEFINE u == LongestUnderwater(c)
             v == LongestUnderwater(w)
  <2>1. u \in Nat /\ \A p, q : Dip(c, p, q) => q - p <= u
    BY LongestIs
  <2>2. v \in Nat /\ (v = 0 \/ \E p, q : Dip(w, p, q) /\ q - p = v)
    BY LongestIs
  <2> HIDE DEF u, v
  <2>3. ASSUME NEW p, NEW q, Dip(w, p, q) PROVE Dip(c, o + p, o + q) /\ (o + q) - (o + p) = q - p
    <3>1. p \in 1 .. l /\ q \in 1 .. l /\ p < q /\ \A j \in p + 1 .. q - 1 : w[j] < w[p]
      BY <2>3 DEF Dip, l
    <3>2. o + p \in 1 .. n /\ o + q \in 1 .. n /\ c[o + p] = level + w[p] /\ w[p] \in Int
      BY <1>1, <1>2, <3>1
    <3>3. ASSUME NEW h \in (o + p) + 1 .. (o + q) - 1 PROVE c[h] < level + w[p]
      <4> DEFINE j == h - o
      <4>1. j \in p + 1 .. q - 1 /\ j \in 1 .. l /\ o + j = h
        BY <1>1, <3>1
      <4> HIDE DEF j
      <4>2. c[h] = level + w[j] /\ w[j] \in Int /\ w[j] < w[p]
        <5>1. c[o + j] = level + w[j]
          BY <1>2, <4>1
        <5>2. c[h] = level + w[j]
          BY <4>1, <5>1
        <5> QED BY <1>1, <3>1, <4>1, <5>2
      <4>3. w[p] \in Int
        BY <3>2
      <4>4. level + w[j] < level + w[p]
        <5>1. \A x, y, z \in Int : x < y => z + x < z + y
          OBVIOUS
        <5> QED BY <4>2, <4>3, <5>1, Zenon
      <4> QED BY <4>2, <4>4, Zenon
    <3>4. o + p < o + q /\ (o + q) - (o + p) = q - p
      BY <1>1, <3>1
    <3> DEFINE x == o + p
               y == o + q
    <3>5. x \in 1 .. n /\ y \in 1 .. n /\ x < y /\ \A h \in x + 1 .. y - 1 : c[h] < c[x]
      BY <3>2, <3>3, <3>4
    <3> HIDE DEF x, y
    <3>6. Dip(c, x, y)
      BY <3>5 DEF Dip, n
    <3> QED BY <3>4, <3>6 DEF x, y
  <2>4. v <= u
    <3>1. CASE v = 0
      BY <2>1, <3>1
    <3>2. CASE v # 0
      <4>1. PICK p, q : Dip(w, p, q) /\ q - p = v
        BY <2>2, <3>2
      <4>2. Dip(c, o + p, o + q) /\ (o + q) - (o + p) = v
        BY <2>3, <4>1
      <4> DEFINE x == o + p
                 y == o + q
      <4>3. Dip(c, x, y) /\ y - x = v
        BY <4>2
      <4> HIDE DEF x, y
      <4> QED BY <2>1, <4>3
    <3> QED BY <3>1, <3>2
  <2> QED BY <2>1, <2>2, <2>4 DEF u, v
<1> QED BY <1>5, <1>6, <1>7 DEF D, n

LEMMA NoFallIsRising ==
    ASSUME NEW c \in Seq(Int), c # <<>>
    PROVE  MaxDrawdown(c) = 0 <=> \A i \in 1 .. Len(c) - 1 : c[i] <= c[i + 1]
<1> DEFINE n == Len(c)
           D == MaxDrawdown(c)
<1>1. n \in Nat /\ \A i \in 1 .. n : c[i] \in Int
  BY LenProperties, ElementOfSeq
<1>2. /\ D \in Nat /\ \A i, k \in 1 .. n : k <= i => c[k] - c[i] <= D
      /\ D = 0 \/ \E i, k \in 1 .. n : k <= i /\ D = c[k] - c[i]
  BY MaxDrawdownIs
<1> HIDE DEF n, D
<1>3. ASSUME D = 0, NEW i \in 1 .. n - 1 PROVE c[i] <= c[i + 1]
  <2> DEFINE x == i + 1
  <2>1. i \in 1 .. n /\ x \in 1 .. n /\ i <= x
    BY <1>1
  <2> HIDE DEF x
  <2>2. c[i] - c[x] <= 0 /\ c[i] \in Int /\ c[x] \in Int
    BY <1>1, <1>2, <1>3, <2>1
  <2>3. c[i] <= c[x]
    BY <2>2
  <2> QED BY <2>3 DEF x
<1>4. ASSUME \A i \in 1 .. n - 1 : c[i] <= c[i + 1] PROVE D = 0
  <2>1. ASSUME NEW k \in 1 .. n, NEW i \in 1 .. n, k <= i PROVE c[k] <= c[i]
    <3> DEFINE good == {j \in Nat : c[k] <= c[j]}
    <3>1. Rounds(k, i) /\ k \in Nat /\ i \in k .. i
      BY <1>1, <2>1 DEF Rounds
    <3>2. k \in good
      BY <1>1, <3>1
    <3>3. Carries(good, k, i)
      <4> SUFFICES ASSUME NEW j \in k + 1 .. i, j - 1 \in good PROVE j \in good
        BY DEF Carries
      <4> DEFINE h == j - 1
      <4>1. h \in 1 .. n - 1 /\ h + 1 = j /\ h \in 1 .. n /\ j \in 1 .. n /\ j \in Nat /\ c[k] <= c[h]
        BY <1>1
      <4> HIDE DEF h
      <4>2. c[h] <= c[j] /\ c[h] \in Int /\ c[j] \in Int /\ c[k] \in Int
        BY <1>1, <1>4, <4>1
      <4> QED BY <4>1, <4>2
    <3> HIDE DEF good
    <3>4. i \in good
      BY <3>1, <3>2, <3>3, Throughout
    <3> QED BY <3>4 DEF good
  <2>2. \A i, k \in 1 .. n : k <= i => c[k] - c[i] <= 0
    BY <1>1, <2>1
  <2> QED BY <1>2, <2>2
<1> QED BY <1>3, <1>4 DEF n, D

LEMMA DrawdownsAreSound == ASSUME moves \in Seq(Int) PROVE DrawdownsAddUp
<1> DEFINE n == Len(moves)
           K == FoldCount(n)
           rs == [k \in DOMAIN AllFolds |-> Tested(moves, AllFolds[k])]
           curve == Chained(rs).curve
<1>1. n \in Nat /\ AllFolds = Folds(n) /\ DOMAIN AllFolds = 1 .. K /\ K \in Nat
  <2>1. n \in Nat
    BY LenProperties
  <2> QED BY <2>1, FoldsAre DEF AllFolds
<1>2. ASSUME NEW k \in 1 .. K PROVE Tested(moves, AllFolds[k]) \in Runs
  <2> DEFINE g == AllFolds[k]
  <2>1. /\ g.trainEnd \in Nat /\ g.testEnd \in Nat
        /\ g.trainEnd < g.testEnd /\ g.testEnd <= n
    BY <1>1, FoldIs
  <2> HIDE DEF g
  <2>2. \A name : ReplayWindow(moves, g.trainEnd, g.testEnd, name) \in Runs
    BY <2>1, ReplayIs DEF ReplayWindow
  <2> QED BY <2>2 DEF Tested, g
<1>3. Told(rs, K)
  <2>1. DOMAIN rs = 1 .. K /\ \A k \in 1 .. K : rs[k] \in Runs
    BY <1>1, <1>2
  <2>2. Len(rs) = K
    BY <1>1
  <2> QED BY <1>1, <2>1, <2>2 DEF Told
<1> HIDE DEF rs, K, n
<1>4. ASSUME rs # <<>>
      PROVE  /\ Last(curve) = Compounded(rs)
             /\ \A k \in DOMAIN rs :
                   LET whole == Append(rs[k].marks, Ending(rs[k]))
                   IN /\ MaxDrawdown(curve) >= (IF k = 1 THEN MaxDrawdown(whole)
                                                ELSE DrawdownFrom(0, whole))
                      /\ LongestUnderwater(curve) >= LongestUnderwater(whole)
             /\ MaxDrawdown(curve) = 0 <=> \A i \in 1 .. Len(curve) - 1 : curve[i] <= curve[i + 1]
  <2>1. K # 0
    <3> SUFFICES ASSUME K = 0 PROVE rs = <<>>
      BY <1>4
    <3>1. DOMAIN AllFolds = {}
      BY <1>1
    <3> QED BY <3>1 DEF rs
  <2>2. /\ curve \in Seq(Int) /\ curve # <<>> /\ Last(curve) = Compounded(rs)
        /\ \A k \in 1 .. K :
              \E o \in Nat, level \in Int :
                 /\ Holds(curve, o, level, Whole(rs[k]))
                 /\ k # 1 => o \in 1 .. Len(curve) /\ curve[o] = level
    BY <1>3, <2>1, ChainHolds
  <2> HIDE DEF curve
  <2>3. ASSUME NEW k \in 1 .. K
        PROVE  /\ MaxDrawdown(curve) >= (IF k = 1 THEN MaxDrawdown(Whole(rs[k]))
                                         ELSE DrawdownFrom(0, Whole(rs[k])))
               /\ LongestUnderwater(curve) >= LongestUnderwater(Whole(rs[k]))
    <3> DEFINE w == Whole(rs[k])
    <3>1. PICK o \in Nat, level \in Int :
             /\ Holds(curve, o, level, w)
             /\ k # 1 => o \in 1 .. Len(curve) /\ curve[o] = level
      BY <2>2
    <3>2. w \in Seq(Int) /\ w # <<>>
      <4>1. rs[k] \in Runs
        BY <1>3 DEF Told
      <4>2. w \in Seq(Int) /\ Len(w) = Len(rs[k].marks) + 1 /\ Len(rs[k].marks) \in Nat
        BY <4>1, WholeIs
      <4> HIDE DEF w
      <4> QED BY <4>2, EmptySeq
    <3> HIDE DEF w
    <3>3. /\ MaxDrawdown(curve) >= MaxDrawdown(w)
          /\ o \in 1 .. Len(curve) /\ curve[o] = level => MaxDrawdown(curve) >= DrawdownFrom(0, w)
          /\ LongestUnderwater(curve) >= LongestUnderwater(w)
      BY <2>2, <3>1, <3>2, PartFallsLess
    <3> QED BY <3>1, <3>3 DEF w
  <2>4. MaxDrawdown(curve) = 0 <=> \A i \in 1 .. Len(curve) - 1 : curve[i] <= curve[i + 1]
    BY <2>2, NoFallIsRising
  <2>5. DOMAIN rs = 1 .. K
    BY <1>3 DEF Told
  <2> QED BY <2>2, <2>3, <2>4, <2>5 DEF Whole
<1> QED BY <1>4 DEF DrawdownsAddUp, rs

-----------------------------------------------------------------------------
(* split_candles_rolling, run_selected_walk_forward and _replay_window:    *)
(* however the market moves, and for every length of the parts and of the  *)
(* history, the test parts tile the series, each signal of a window sees   *)
(* what it would see in the whole series, and a fold chooses and tests     *)
(* without the bars that come later. chain_windows, compute_metrics,       *)
(* yearly_returns and downsample_equity_curve: the falls and the times     *)
(* under water of the chained curve cover those of its windows, the        *)
(* periods make up the whole, and a stored curve keeps the extremes.       *)
THEOREM WalkForwardSound == WalkSpec => []WalkForwardIsSound
<1> DEFINE Typed == moves \in Seq(Int)
<1>1. WalkInit => Typed
  BY EmptySeq DEF WalkInit
<1>2. Typed /\ [WalkNext]_moves => Typed'
  <2> SUFFICES ASSUME Typed, [WalkNext]_moves PROVE Typed'
    OBVIOUS
  <2>1. CASE UNCHANGED moves
    BY <2>1
  <2>2. ASSUME NEW move \in PriceMoves, BarComes(move) PROVE Typed'
    <3>1. move \in Int /\ moves' = Append(moves, move)
      BY <2>2, WalkAssumption DEF BarComes
    <3> QED BY <3>1, AppendProperties
  <2> QED BY <2>1, <2>2 DEF WalkNext
<1>3. Typed => WalkForwardIsSound
  BY TilesAre, WarmupSuffices, ChoosingIsBlind, DrawdownsAreSound, PeriodsAreSound, SamplesAreSound
     DEF WalkForwardIsSound, FoldsAreHonest, FiguresAgree
<1> HIDE DEF Typed
<1> QED BY <1>1, <1>2, <1>3, PTL DEF WalkSpec
=============================================================================
