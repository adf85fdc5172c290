--------------------------- MODULE PaperDeskProofs ---------------------------
(***************************************************************************)
(* Proofs about PaperDesk, for every series of bars, every setup, window   *)
(* and limits. A bar's walk over its probes is a function on 0 .. n, and   *)
(* what holds of it is shown by the least index it would fail at.          *)
(*                                                                         *)
(* The replay's state is Sound: its ledger explains its cash, and a stop   *)
(* belongs to a position. From there: a trailing stop only rises, a lock   *)
(* is told because the limits that deny are not above those that halt, a   *)
(* touched stop is found by the next evaluation (Honoured), what it costs  *)
(* is within the budget of the entry (InBudget), and a bot that misses no  *)
(* bar has the books of the replay (Tracked).                              *)
(***************************************************************************)
EXTENDS PaperDesk, SequenceTheorems, WellFoundedInduction, TLAPS
-----------------------------------------------------------------------------
(* Arithmetic.                                                             *)
LEMMA DivExact == ASSUME NEW x \in Int, NEW n \in Nat \ {0} PROVE (x * n) \div n = x
OBVIOUS

LEMMA DivIs ==
    ASSUME NEW x \in Int, NEW n \in Nat \ {0}
    PROVE  /\ x \div n \in Int /\ (x \div n) * n <= x /\ x < (x \div n) * n + n
           /\ x >= 0 => x \div n >= 0
OBVIOUS

LEMMA MulMono ==
    ASSUME NEW x \in Nat, NEW y \in Int, NEW z \in Int, y <= z
    PROVE  x * y <= x * z
OBVIOUS

LEMMA OppositeIs ==
    ASSUME NEW x \in Int, NEW y \in Int
    PROVE  Opposite(x, y) <=> ((x < 0 /\ y > 0) \/ (x > 0 /\ y < 0))
BY DEF Opposite

LEMMA MaxOfTwo ==
    ASSUME NEW a \in Int, NEW b \in Int
    PROVE  Max({a, b}) = IF a >= b THEN a ELSE b
BY DEF Max

LEMMA MinOfTwo ==
    ASSUME NEW a \in Int, NEW b \in Int
    PROVE  Min({a, b}) = IF a <= b THEN a ELSE b
BY DEF Min

LEMMA Signs ==
    ASSUME NEW n \in Int
    PROVE  /\ Sign(n) \in {-1, 1} /\ Abs(n) \in Nat /\ n = Sign(n) * Abs(n)
           /\ n > 0 => Sign(n) = 1 /\ Abs(n) = n
           /\ n < 0 => Sign(n) = -1 /\ Abs(n) = -n
           /\ Abs(-n) = Abs(n) /\ (n # 0 <=> Abs(n) # 0)
BY DEF Sign, Abs

LEMMA Least ==
    ASSUME NEW S \in SUBSET Nat, S # {}
    PROVE  \E m \in S : \A n \in S : m <= n
<1> DEFINE R == {p \in Nat \X Nat : p[1] < p[2]}
<1>1. IsWellFoundedOn(R, Nat)
  BY NatLessThanWellFounded DEF OpToRel
<1>2. \A n, m \in Nat : n < m => <<n, m>> \in R
  OBVIOUS
<1> HIDE DEF R
<1>3. PICK m \in S : \A n \in S : ~(<<n, m>> \in R)
  BY <1>1, WFMin
<1>4. ASSUME NEW n \in S PROVE m <= n
  <2>1. n \in Nat /\ m \in Nat
    OBVIOUS
  <2>2. ~(n < m)
    BY <1>2, <1>3, <2>1
  <2> QED BY <2>1, <2>2
<1> QED BY <1>4
-----------------------------------------------------------------------------
(* Prices, distances and sizes (risk_gate).                                *)
Exchange == {"binance", "oanda"}
MaybeInt == Int \cup {None}

LEMMA Distances ==
    ASSUME NEW exchange \in Exchange
    PROVE  /\ Slippage(exchange) \in Nat /\ StopDistance(exchange) \in Nat
           /\ exchange = "oanda" => StopDistance(exchange) > 0
<1>1. Slippage(exchange) \in Nat
  BY RiskAssumption, DivIs DEF Slippage
<1>2. CASE exchange = "oanda"
  <2>1. {3 * Spread} \cup {BrokerMinimum} = {3 * Spread, BrokerMinimum}
    OBVIOUS
  <2> QED BY <1>1, <1>2, <2>1, MaxOfTwo, RiskAssumption DEF StopDistance
<1>3. CASE exchange # "oanda"
  <2>1. {3 * Spread} \cup {} = {3 * Spread, 3 * Spread} /\ 3 * Spread \in Nat
    BY RiskAssumption
  <2>2. Max({3 * Spread, 3 * Spread}) = 3 * Spread
    BY <2>1, MaxOfTwo
  <2> QED BY <1>1, <1>3, <2>1, <2>2 DEF StopDistance
<1> QED BY <1>2, <1>3

LEMMA Fees ==
    ASSUME NEW exchange, NEW units \in Int, NEW base \in Int
    PROVE  Fee(exchange, units, base) \in Int
BY Signs DEF Fee

LEMMA Fills ==
    ASSUME NEW exchange \in Exchange, NEW units \in Int, NEW base \in Int
    PROVE  /\ FillPrice(exchange, units, base) \in Int
           /\ FillPrice(exchange, units, base) = base + Sign(units) * Slippage(exchange)
BY Signs, Distances DEF FillPrice

LEMMA Closing ==
    ASSUME NEW p, p.units \in Int, p.units # 0, p.basis \in Int, NEW price \in Int
    PROVE  /\ Applied(p, -p.units, price).units = 0 /\ Applied(p, -p.units, price).basis = 0
           /\ Applied(p, -p.units, price).realized = price * p.units - p.basis
<1> DEFINE n == Abs(p.units)
           closed == price * p.units - p.basis
<1>1. n \in Nat \ {0} /\ Abs(-p.units) = n /\ Abs(0) = 0
  BY Signs
<1>2. Opposite(p.units, -p.units) /\ ~Opposite(p.units, 0) /\ p.units + (-p.units) = 0
  BY OppositeIs
<1>3. closed \in Int /\ (closed * n) \div n = closed
  BY <1>1, DivExact
<1>4. (p.basis * 0) \div n = 0
  BY <1>1
<1> HIDE DEF n
<1> QED BY <1>1, <1>2, <1>3, <1>4 DEF Applied, n

LEMMA Adding ==
    ASSUME NEW p, p.units \in Int, p.basis \in Int, NEW units \in Int, ~Opposite(p.units, units),
           NEW price \in Int
    PROVE  Applied(p, units, price) = [units |-> p.units + units, basis |-> p.basis + price * units,
                                       realized |-> 0]
BY DEF Applied

(* What an order is judged from.                                           *)
Judgeable(s) ==
    /\ s.exchange \in Exchange /\ s.price \in Nat \ {0}
    /\ s.equity \in Int /\ s.cash \in Int /\ s.risk \in Int

LEMMA Stresses ==
    ASSUME NEW s, Judgeable(s)
    PROVE  Stress(s) \in Nat \ {0}
<1>1. Slippage(s.exchange) \in Nat /\ StopDistance(s.exchange) \in Nat
      /\ (s.exchange = "oanda" => StopDistance(s.exchange) > 0)
  BY Distances DEF Judgeable
<1>2. CASE s.exchange = "oanda"
  BY <1>1, <1>2 DEF Stress, Fee
<1>3. CASE s.exchange # "oanda"
  BY <1>1, <1>3 DEF Stress, Fee, Abs, Judgeable
<1> QED BY <1>2, <1>3

LEMMA MinOfThree ==
    ASSUME NEW a \in Int, NEW b \in Int, NEW c \in Int
    PROVE  Min({a, b} \cup {c}) \in Int /\ Min({a, b} \cup {c}) <= a
<1> DEFINE S == {a, b} \cup {c}
<1>1. \E m \in S : \A y \in S : m <= y
  <2>1. CASE a <= b /\ a <= c
    BY <2>1
  <2>2. CASE b <= a /\ b <= c
    BY <2>2
  <2>3. CASE c <= a /\ c <= b
    BY <2>3
  <2> QED BY <2>1, <2>2, <2>3
<1>2. Min(S) \in S /\ \A y \in S : Min(S) <= y
  BY <1>1 DEF Min
<1> QED BY <1>2

LEMMA Sizes ==
    ASSUME NEW s, Judgeable(s)
    PROVE  /\ Quantity(s) \in Nat
           /\ Quantity(s) > 0 =>
                Quantity(s) * Stress(s) <= (s.equity * Rules.initial.perTrade) \div 1000
<1> DEFINE stress == 1000 * Stress(s)
           budget == s.equity * Rules.initial.perTrade
           room == s.equity * Rules.initial.allOpen - 1000 * s.risk
           byTrade == budget \div stress
           byRoom == IF room > 0 THEN room \div stress ELSE 0
<1>1. stress \in Nat \ {0} /\ Stress(s) \in Nat \ {0}
  BY Stresses
<1>2. budget \in Int /\ room \in Int /\ 1000 * s.price \in Nat \ {0}
  BY RulesAssumption DEF Judgeable
<1>3. byTrade \in Int /\ byRoom \in Int /\ byTrade * stress <= budget
  <2> HIDE DEF stress, budget, room
  <2> QED BY <1>1, <1>2, DivIs
<1>4. PICK c \in Int : BrokerLimits(s) = {c}
  <2>1. (s.equity * Rules.leverage) \div (1000 * s.price) \in Int
    BY <1>2, DivIs, RulesAssumption DEF Judgeable
  <2>2. (IF s.cash > 0 THEN s.cash \div 1000 ELSE 0) \in Int
    BY DivIs DEF Judgeable
  <2>3. ((IF s.cash > 0 THEN s.cash \div 1000 ELSE 0) * Rules.orderShare) \div (1000 * s.price) \in Int
    <3> DEFINE cash == IF s.cash > 0 THEN s.cash \div 1000 ELSE 0
    <3>1. cash * Rules.orderShare \in Int
      BY <2>2, RulesAssumption
    <3> HIDE DEF cash
    <3> QED BY <1>2, <3>1, DivIs DEF cash
  <2> QED BY <2>1, <2>3 DEF BrokerLimits
<1>5. Quantity(s) = Max({0, Min({byTrade, byRoom} \cup {c})})
  BY <1>4 DEF Quantity
<1> HIDE DEF byTrade, byRoom
<1>6. Min({byTrade, byRoom} \cup {c}) \in Int /\ Min({byTrade, byRoom} \cup {c}) <= byTrade
  BY <1>3, MinOfThree
<1>7. Quantity(s) \in Nat /\ (Quantity(s) > 0 => Quantity(s) <= byTrade)
  BY <1>3, <1>5, <1>6, MaxOfTwo
<1>8. ASSUME Quantity(s) > 0 PROVE Quantity(s) * Stress(s) <= budget \div 1000
  <2> DEFINE q == Quantity(s) * Stress(s)
  <2>1. q \in Int /\ q * 1000 = stress * Quantity(s)
    BY <1>1, <1>7
  <2>2. stress * Quantity(s) <= stress * byTrade
    BY <1>1, <1>3, <1>7, <1>8, MulMono
  <2>3. stress * byTrade = byTrade * stress
    BY <1>1, <1>3
  <2>4. q * 1000 <= budget
    BY <1>1, <1>2, <1>3, <2>1, <2>2, <2>3
  <2>5. budget \div 1000 \in Int /\ budget < (budget \div 1000) * 1000 + 1000
    BY <1>2, DivIs
  <2>6. budget \in Int
    BY <1>2
  <2> HIDE DEF q, budget
  <2>7. q <= budget \div 1000
    BY <2>1, <2>4, <2>5, <2>6
  <2> QED BY <2>7 DEF q
<1> QED BY <1>7, <1>8

LEMMA ApprovedSizes ==
    ASSUME NEW s, Judgeable(s), Approves(s)
    PROVE  Quantity(s) \in Nat \ {0} /\ MinQuantity <= Quantity(s)
<1>1. Barred(s) = {}
  <2>1. s.equity \in Int
    BY DEF Judgeable
  <2>2. ~(s.equity <= 0) /\ ~(s.equity > 0 /\ Hard(s) # {})
    BY DEF Approves, Outcome
  <2> QED BY <2>1, <2>2 DEF Hard
<1>2. ~(Quantity(s) < MinQuantity)
  BY <1>1 DEF Barred
<1> QED BY <1>2, Sizes, RiskAssumption
-----------------------------------------------------------------------------
(* The replay.                                                             *)
ExitOf == [price : MaybeInt, reason : {"none", "stop_loss", "take_profit"}]

Replays ==
    [cash : Int, units : Int, basis : Int, stop : MaybeInt, target : MaybeInt, trail : MaybeInt,
     highest : MaybeInt, fees : Int, dayFrom : MaybeInt, day : MaybeInt, weekFrom : MaybeInt,
     week : MaybeInt, peak : Int, losses : Nat, lastOrder : MaybeInt, lockSince : MaybeInt,
     earned : Int, exit : ExitOf]

(* A fill that closes the position, and one that opens it or adds to it.   *)
Booking(r, cash, units, basis, fees, earned, losses) ==
    [r EXCEPT !.cash = cash, !.units = units, !.basis = basis, !.fees = fees,
              !.earned = earned, !.losses = losses,
              !.stop = IF units = 0 THEN None ELSE r.stop,
              !.target = IF units = 0 THEN None ELSE r.target,
              !.trail = IF units = 0 THEN None ELSE r.trail,
              !.highest = IF units = 0 THEN None ELSE r.highest]

CashAfter(r, units, base) ==
    r.cash + CashMove(setup.exchange, units, FillPrice(setup.exchange, units, base), base)
Gain(r, base) == FillPrice(setup.exchange, -r.units, base) * r.units - r.basis

ClosedAt(r, base) ==
    Booking(r, CashAfter(r, -r.units, base), 0, 0, 0,
            r.earned + 1000 * Gain(r, base) - Fee(setup.exchange, -r.units, base) - r.fees,
            IF Gain(r, base) < 0 THEN r.losses + 1 ELSE 0)

AddedAt(r, units, base) ==
    Booking(r, CashAfter(r, units, base), r.units + units,
            r.basis + FillPrice(setup.exchange, units, base) * units,
            r.fees + Fee(setup.exchange, units, base), r.earned, r.losses)

LEMMA FilledIs ==
    ASSUME NEW r, NEW units, NEW base
    PROVE  LET after == Applied(r, units, FillPrice(setup.exchange, units, base))
               closing == IF Opposite(r.units, units) THEN Min({Abs(units), Abs(r.units)}) ELSE 0
               fee == Fee(setup.exchange, units, base)
               closingFee == (fee * closing) \div Abs(units)
               share == IF closing = 0 THEN 0 ELSE (r.fees * closing) \div Abs(r.units)
           IN Filled(r, units, base)
                = Booking(r, CashAfter(r, units, base), after.units, after.basis,
                          IF after.units = 0 THEN 0 ELSE r.fees - share + fee - closingFee,
                          r.earned + 1000 * after.realized - closingFee - share,
                          IF closing = 0 THEN r.losses
                          ELSE IF after.realized < 0 THEN r.losses + 1 ELSE 0)
BY Zenon DEF Filled, Booking, CashAfter

LEMMA FilledClosing ==
    ASSUME NEW r \in Replays, r.units # 0, NEW base \in Int, setup.exchange \in Exchange
    PROVE  Filled(r, -r.units, base) = ClosedAt(r, base)
<1> DEFINE ex == setup.exchange
           units == -r.units
           price == FillPrice(ex, units, base)
           after == Applied(r, units, price)
           n == Abs(r.units)
           fee == Fee(ex, units, base)
           closing == IF Opposite(r.units, units) THEN Min({Abs(units), Abs(r.units)}) ELSE 0
           closingFee == (fee * closing) \div Abs(units)
           share == IF closing = 0 THEN 0 ELSE (r.fees * closing) \div Abs(r.units)
<1>1. r.units \in Int /\ r.basis \in Int /\ r.fees \in Int /\ r.earned \in Int /\ units \in Int
  BY DEF Replays
<1>2. n \in Nat \ {0} /\ Abs(units) = n /\ Min({Abs(units), Abs(r.units)}) = n
  BY <1>1, Signs, MinOfTwo
<1>3. closing = n
  BY <1>1, <1>2, OppositeIs
<1>4. price \in Int /\ fee \in Int
  BY <1>1, Fills, Fees
<1>5. after.units = 0 /\ after.basis = 0 /\ after.realized = Gain(r, base)
  BY <1>1, <1>4, Closing DEF Gain
<1>6. closingFee = fee /\ share = r.fees
  <2>1. (fee * n) \div n = fee /\ (r.fees * n) \div n = r.fees /\ n # 0
    <3> HIDE DEF n, fee
    <3> QED BY <1>1, <1>2, <1>4, DivExact
  <2> HIDE DEF closing, fee
  <2> QED BY <1>2, <1>3, <2>1
<1>7. Filled(r, units, base)
        = Booking(r, CashAfter(r, units, base), after.units, after.basis,
                  IF after.units = 0 THEN 0 ELSE r.fees - share + fee - closingFee,
                  r.earned + 1000 * after.realized - closingFee - share,
                  IF closing = 0 THEN r.losses
                  ELSE IF after.realized < 0 THEN r.losses + 1 ELSE 0)
  BY FilledIs, Zenon
<1>8. fee = Fee(setup.exchange, -r.units, base) /\ n # 0
  BY <1>2
<1> HIDE DEF after, n, fee, price, closing, closingFee, share
<1> QED BY <1>3, <1>5, <1>6, <1>7, <1>8 DEF ClosedAt

LEMMA FilledAdding ==
    ASSUME NEW r \in Replays, NEW units \in Int, units # 0, ~Opposite(r.units, units),
           NEW base \in Int, setup.exchange \in Exchange
    PROVE  /\ r.units + units # 0
           /\ Filled(r, units, base) = AddedAt(r, units, base)
<1> DEFINE ex == setup.exchange
           price == FillPrice(ex, units, base)
           after == Applied(r, units, price)
           n == Abs(units)
           fee == Fee(ex, units, base)
           closing == IF Opposite(r.units, units) THEN Min({Abs(units), Abs(r.units)}) ELSE 0
           closingFee == (fee * closing) \div Abs(units)
           share == IF closing = 0 THEN 0 ELSE (r.fees * closing) \div Abs(r.units)
<1>1. r.units \in Int /\ r.basis \in Int /\ r.fees \in Int /\ r.earned \in Int
  BY DEF Replays
<1>2. n \in Nat \ {0} /\ price \in Int /\ fee \in Int
  BY Signs, Fills, Fees
<1>3. after = [units |-> r.units + units, basis |-> r.basis + price * units, realized |-> 0]
  BY <1>1, <1>2, Adding
<1>4. r.units + units # 0
  BY <1>1, OppositeIs
<1>5. closing = 0 /\ closingFee = 0 /\ share = 0
  <2>1. (fee * 0) \div n = 0
    BY <1>2
  <2> QED BY <2>1
<1>6. r.fees - 0 + fee - 0 = r.fees + fee /\ r.earned + 1000 * 0 - 0 - 0 = r.earned
  BY <1>1, <1>2
<1>7. Filled(r, units, base)
        = Booking(r, CashAfter(r, units, base), after.units, after.basis,
                  IF after.units = 0 THEN 0 ELSE r.fees - share + fee - closingFee,
                  r.earned + 1000 * after.realized - closingFee - share,
                  IF closing = 0 THEN r.losses
                  ELSE IF after.realized < 0 THEN r.losses + 1 ELSE 0)
  BY FilledIs, Zenon
<1> HIDE DEF after, n, closing, closingFee, share
<1> QED BY <1>3, <1>4, <1>5, <1>6, <1>7 DEF AddedAt
-----------------------------------------------------------------------------
(* The walk over the probes of a bar, one after the other.                 *)
IsWalk(f, r, probes, n) ==
    f = [i \in 0 .. n |-> IF i = 0 THEN r ELSE Probed(f[i - 1], probes[i])]

LEMMA WalkExists ==
    ASSUME NEW r, NEW probes, NEW n \in Nat
    PROVE  \E f : IsWalk(f, r, probes, n)
<1> DEFINE Without == {k \in Nat : ~\E f : IsWalk(f, r, probes, k)}
<1>1. ASSUME Without # {} PROVE FALSE
  <2>1. PICK m \in Without : \A k \in Without : m <= k
    BY <1>1, Least
  <2>2. CASE m = 0
    <3> DEFINE f == [i \in 0 .. 0 |-> r]
    <3>1. f = [i \in 0 .. 0 |-> IF i = 0 THEN r ELSE Probed(f[i - 1], probes[i])]
      OBVIOUS
    <3> QED BY <2>1, <2>2, <3>1 DEF IsWalk
  <2>3. CASE m # 0
    <3>1. m - 1 \in Nat /\ ~(m <= m - 1)
      BY <2>1, <2>3
    <3>2. PICK g : IsWalk(g, r, probes, m - 1)
      BY <2>1, <3>1
    <3> DEFINE f == [i \in 0 .. m |-> IF i = m THEN Probed(g[m - 1], probes[m]) ELSE g[i]]
    <3>3. \A i \in 0 .. m - 1 : g[i] = (IF i = 0 THEN r ELSE Probed(g[i - 1], probes[i]))
      BY <3>2 DEF IsWalk
    <3>4. \A i \in 0 .. m : f[i] = (IF i = 0 THEN r ELSE Probed(f[i - 1], probes[i]))
      <4>1. ASSUME NEW i \in 0 .. m PROVE f[i] = (IF i = 0 THEN r ELSE Probed(f[i - 1], probes[i]))
        <5>1. CASE i = m
          BY <2>1, <2>3, <5>1
        <5>2. CASE i # m
          <6>1. i \in 0 .. m - 1 /\ f[i] = g[i] /\ (i # 0 => f[i - 1] = g[i - 1])
            BY <2>1, <5>2
          <6> QED BY <3>3, <6>1
        <5> QED BY <5>1, <5>2
      <4> QED BY <4>1
    <3>5. DOMAIN f = 0 .. m /\ f = [i \in 0 .. m |-> f[i]]
      OBVIOUS
    <3> HIDE DEF f
    <3>6. f = [i \in 0 .. m |-> IF i = 0 THEN r ELSE Probed(f[i - 1], probes[i])]
      BY <3>4, <3>5
    <3> QED BY <2>1, <3>6 DEF IsWalk
  <2> QED BY <2>2, <2>3
<1> QED BY <1>1

LEMMA StoppedIs ==
    ASSUME NEW r, NEW b, Len(b.probes) \in Nat
    PROVE  \E f : IsWalk(f, r, b.probes, Len(b.probes)) /\ Stopped(r, b) = f[Len(b.probes)]
<1>1. \E f : IsWalk(f, r, b.probes, Len(b.probes))
  BY WalkExists
<1> DEFINE g == CHOOSE f : IsWalk(f, r, b.probes, Len(b.probes))
<1>2. IsWalk(g, r, b.probes, Len(b.probes))
  BY <1>1
<1>3. Stopped(r, b) = g[Len(b.probes)]
  BY Zenon DEF Stopped, IsWalk
<1> QED BY <1>2, <1>3

(* What every probe keeps, the walk keeps.                                 *)
LEMMA WalkKeeps ==
    ASSUME NEW S, NEW r \in S, NEW b, Len(b.probes) \in Nat,
           \A x \in S, i \in 1 .. Len(b.probes) : Probed(x, b.probes[i]) \in S
    PROVE  Stopped(r, b) \in S
<1> DEFINE n == Len(b.probes)
<1>1. PICK f : IsWalk(f, r, b.probes, n) /\ Stopped(r, b) = f[n]
  BY StoppedIs
<1> DEFINE Out == {i \in Nat : i <= n /\ f[i] \notin S}
<1>2. ASSUME Out # {} PROVE FALSE
  <2>1. PICK m \in Out : \A k \in Out : m <= k
    BY <1>2, Least
  <2>2. m \in 0 .. n /\ f[m] = (IF m = 0 THEN r ELSE Probed(f[m - 1], b.probes[m]))
    <3>1. m \in 0 .. n
      BY <2>1
    <3>2. f = [i \in 0 .. n |-> IF i = 0 THEN r ELSE Probed(f[i - 1], b.probes[i])]
      BY <1>1 DEF IsWalk
    <3> QED BY <3>1, <3>2
  <2>3. m # 0
    BY <2>1, <2>2
  <2>4. m - 1 \in Nat /\ m - 1 <= n /\ ~(m <= m - 1) /\ m \in 1 .. n
    BY <2>2, <2>3
  <2>5. f[m - 1] \in S
    BY <2>1, <2>4
  <2> QED BY <2>1, <2>2, <2>3, <2>4, <2>5
<1>3. n \in Nat /\ n <= n
  OBVIOUS
<1> QED BY <1>1, <1>2, <1>3
-----------------------------------------------------------------------------
(* A replay that accounts for its cash (Accounted) and knows what it holds.*)
Accounted(r) ==
    /\ r.cash + 1000 * r.basis + r.fees = InitialEquity + r.earned
    /\ r.units = 0 => r.basis = 0 /\ r.fees = 0
    /\ r.trail # None => r.stop # None /\ r.highest # None

Sound == {r \in Replays : Accounted(r)}

(* A bar that closed, with the probes it is checked on.                    *)
GoodBar(b) ==
    /\ Priced(b) /\ b.close \in b.low .. b.high /\ b.says \in {-1, 0, 1}
    /\ Len(b.probes) \in Nat \ {0} /\ \A i \in 1 .. Len(b.probes) : Priced(b.probes[i])
    /\ Len(b.probes) = 1 => b.probes[1] = [open |-> b.open, high |-> b.high, low |-> b.low]

LEMMA BarsAreGood ==
    ASSUME NEW shape \in Shape, NEW says \in {-1, 0, 1}
    PROVE  GoodBar(BarOf(shape, says))
<1>1. /\ Priced(shape) /\ shape.close \in shape.low .. shape.high
      /\ shape.probes \in Seq([open : Nat, high : Nat, low : Nat]) /\ shape.probes # <<>>
      /\ \A i \in DOMAIN shape.probes : Priced(shape.probes[i])
      /\ Len(shape.probes) = 1 =>
           shape.probes = <<[open |-> shape.open, high |-> shape.high, low |-> shape.low]>>
  BY SeriesAssumption
<1>2. Len(shape.probes) \in Nat \ {0} /\ DOMAIN shape.probes = 1 .. Len(shape.probes)
  BY <1>1
<1>3. Len(shape.probes) = 1 =>
        shape.probes[1] = [open |-> shape.open, high |-> shape.high, low |-> shape.low]
  BY <1>1
<1> DEFINE b == BarOf(shape, says)
<1>4. /\ b.open = shape.open /\ b.high = shape.high /\ b.low = shape.low /\ b.close = shape.close
      /\ b.probes = shape.probes /\ b.says = says
  BY DEF BarOf
<1> HIDE DEF b
<1>5. GoodBar(b)
  BY <1>1, <1>2, <1>3, <1>4 DEF GoodBar, Priced
<1> QED BY <1>5 DEF b

LEMMA BookingIs ==
    ASSUME NEW r \in Replays, NEW cash \in Int, NEW units \in Int, NEW basis \in Int, NEW fees \in Int,
           NEW earned \in Int, NEW losses \in Nat
    PROVE  LET x == Booking(r, cash, units, basis, fees, earned, losses)
           IN /\ x \in Replays
              /\ x.cash = cash /\ x.units = units /\ x.basis = basis /\ x.fees = fees
              /\ x.earned = earned /\ x.losses = losses /\ x.exit = r.exit /\ x.lastOrder = r.lastOrder
              /\ x.stop = (IF units = 0 THEN None ELSE r.stop)
              /\ x.target = (IF units = 0 THEN None ELSE r.target)
              /\ x.trail = (IF units = 0 THEN None ELSE r.trail)
              /\ x.highest = (IF units = 0 THEN None ELSE r.highest)
<1> DEFINE x == Booking(r, cash, units, basis, fees, earned, losses)
           Held(v) == IF units = 0 THEN None ELSE v
<1>1. /\ Held(r.stop) \in MaybeInt /\ Held(r.target) \in MaybeInt
      /\ Held(r.trail) \in MaybeInt /\ Held(r.highest) \in MaybeInt
  BY DEF Replays, MaybeInt
<1>2. x = [r EXCEPT !.cash = cash, !.units = units, !.basis = basis, !.fees = fees,
                    !.earned = earned, !.losses = losses, !.stop = Held(r.stop),
                    !.target = Held(r.target), !.trail = Held(r.trail), !.highest = Held(r.highest)]
  BY Zenon DEF Booking
<1>3. /\ Held(r.stop) = (IF units = 0 THEN None ELSE r.stop)
      /\ Held(r.target) = (IF units = 0 THEN None ELSE r.target)
      /\ Held(r.trail) = (IF units = 0 THEN None ELSE r.trail)
      /\ Held(r.highest) = (IF units = 0 THEN None ELSE r.highest)
  OBVIOUS
<1> HIDE DEF x, Held
<1>4. x \in Replays
  BY <1>1, <1>2 DEF Replays
<1>5. /\ x.cash = cash /\ x.units = units /\ x.basis = basis /\ x.fees = fees
      /\ x.earned = earned /\ x.losses = losses /\ x.exit = r.exit /\ x.lastOrder = r.lastOrder
      /\ x.stop = Held(r.stop) /\ x.target = Held(r.target) /\ x.trail = Held(r.trail)
      /\ x.highest = Held(r.highest)
  BY <1>2 DEF Replays
<1> QED BY <1>3, <1>4, <1>5 DEF x

LEMMA Cash ==
    ASSUME NEW r, r.cash \in Int, NEW units \in Int, NEW base \in Int, setup.exchange \in Exchange
    PROVE  /\ CashAfter(r, units, base) \in Int
           /\ CashAfter(r, units, base)
                = r.cash - 1000 * (FillPrice(setup.exchange, units, base) * units)
                  - Fee(setup.exchange, units, base)
BY Fills, Fees DEF CashAfter, CashMove

LEMMA ClosedIsSound ==
    ASSUME NEW r \in Sound, r.units # 0, NEW base \in Int, setup.exchange \in Exchange
    PROVE  LET x == ClosedAt(r, base)
           IN x \in Sound /\ x.units = 0 /\ x.stop = None /\ x.basis = 0
              /\ x.target = None /\ x.trail = None
              /\ x.cash = CashAfter(r, -r.units, base)
              /\ x.exit = r.exit /\ x.lastOrder = r.lastOrder
<1> DEFINE x == ClosedAt(r, base)
           gain == Gain(r, base)
           fee == Fee(setup.exchange, -r.units, base)
           price == FillPrice(setup.exchange, -r.units, base)
<1>1. r \in Replays /\ Accounted(r) /\ -r.units \in Int /\ r.units \in Int /\ r.cash \in Int
      /\ r.basis \in Int /\ r.fees \in Int /\ r.earned \in Int /\ r.losses \in Nat
  BY DEF Sound, Replays
<1>2. price \in Int /\ fee \in Int
  BY <1>1, Fills, Fees
<1>3. gain \in Int /\ gain = price * r.units - r.basis
  BY <1>1, <1>2 DEF Gain
<1>4. /\ CashAfter(r, -r.units, base) \in Int
      /\ CashAfter(r, -r.units, base) = r.cash - 1000 * (price * (-r.units)) - fee
  BY <1>1, Cash
<1>5. price * (-r.units) = -(price * r.units) /\ price * r.units \in Int
  BY <1>1, <1>2
<1> HIDE DEF gain, fee, price
<1>6. r.earned + 1000 * gain - fee - r.fees \in Int /\ (IF gain < 0 THEN r.losses + 1 ELSE 0) \in Nat
  BY <1>1, <1>2, <1>3
<1>7. x = Booking(r, CashAfter(r, -r.units, base), 0, 0, 0, r.earned + 1000 * gain - fee - r.fees,
                  IF gain < 0 THEN r.losses + 1 ELSE 0)
  BY DEF ClosedAt, gain, fee
<1> HIDE DEF x
<1>8. /\ x \in Replays /\ x.units = 0 /\ x.basis = 0 /\ x.fees = 0 /\ x.stop = None /\ x.trail = None
      /\ x.target = None
      /\ x.cash = CashAfter(r, -r.units, base) /\ x.earned = r.earned + 1000 * gain - fee - r.fees
      /\ x.exit = r.exit /\ x.lastOrder = r.lastOrder
  BY <1>1, <1>4, <1>6, <1>7, BookingIs
<1>9. x.cash + 1000 * 0 + 0 = InitialEquity + x.earned
  <2> DEFINE cost == price * r.units
  <2>1. cost \in Int /\ CashAfter(r, -r.units, base) = r.cash + 1000 * cost - fee
        /\ gain = cost - r.basis
    BY <1>1, <1>2, <1>3, <1>4, <1>5
  <2> HIDE DEF cost
  <2>2. r.cash + 1000 * r.basis + r.fees = InitialEquity + r.earned /\ InitialEquity \in Int
    BY <1>1, SeriesAssumption DEF Accounted
  <2>3. CashAfter(r, -r.units, base) = InitialEquity + (r.earned + 1000 * gain - fee - r.fees)
    BY <1>1, <1>2, <2>1, <2>2
  <2> QED BY <1>4, <1>8, <2>3
<1> QED BY <1>8, <1>9 DEF Sound, Accounted, x

LEMMA AddedIsSound ==
    ASSUME NEW r \in Sound, NEW units \in Int, r.units + units # 0, NEW base \in Int,
           setup.exchange \in Exchange
    PROVE  LET x == AddedAt(r, units, base)
           IN x \in Sound /\ x.units = r.units + units /\ x.stop = r.stop
              /\ x.cash = CashAfter(r, units, base)
              /\ x.basis = r.basis + FillPrice(setup.exchange, units, base) * units
              /\ x.exit = r.exit /\ x.lastOrder = r.lastOrder /\ x.trail = r.trail
              /\ x.target = r.target
<1> DEFINE x == AddedAt(r, units, base)
           fee == Fee(setup.exchange, units, base)
           price == FillPrice(setup.exchange, units, base)
<1>1. r \in Replays /\ Accounted(r) /\ r.units \in Int /\ r.cash \in Int
      /\ r.basis \in Int /\ r.fees \in Int /\ r.earned \in Int /\ r.losses \in Nat
  BY DEF Sound, Replays
<1>2. price \in Int /\ fee \in Int
  BY Fills, Fees
<1>3. price * units \in Int /\ r.units + units \in Int /\ r.basis + price * units \in Int
      /\ r.fees + fee \in Int
  BY <1>1, <1>2
<1>4. /\ CashAfter(r, units, base) \in Int
      /\ CashAfter(r, units, base) = r.cash - 1000 * (price * units) - fee
  BY <1>1, Cash
<1>5. x = Booking(r, CashAfter(r, units, base), r.units + units, r.basis + price * units,
                  r.fees + fee, r.earned, r.losses)
  BY DEF AddedAt
<1> HIDE DEF x, fee, price
<1>6. /\ x \in Replays /\ x.units = r.units + units /\ x.basis = r.basis + price * units
      /\ x.fees = r.fees + fee /\ x.stop = r.stop /\ x.trail = r.trail /\ x.highest = r.highest
      /\ x.cash = CashAfter(r, units, base) /\ x.earned = r.earned
      /\ x.exit = r.exit /\ x.lastOrder = r.lastOrder /\ x.target = r.target
  BY <1>1, <1>3, <1>4, <1>5, BookingIs
<1>7. x.cash + 1000 * x.basis + x.fees = InitialEquity + x.earned
  <2> DEFINE cost == price * units
  <2>1. cost \in Int /\ CashAfter(r, units, base) = r.cash - 1000 * cost - fee
        /\ x.basis = r.basis + cost
    BY <1>3, <1>4, <1>6
  <2> HIDE DEF cost
  <2>2. r.cash + 1000 * r.basis + r.fees = InitialEquity + r.earned /\ InitialEquity \in Int
    BY <1>1, SeriesAssumption DEF Accounted
  <2>3. (r.cash - 1000 * cost - fee) + 1000 * (r.basis + cost) + (r.fees + fee)
          = InitialEquity + r.earned
    BY <1>1, <1>2, <2>1, <2>2
  <2> QED BY <1>6, <2>1, <2>3
<1>8. x \in Sound
  BY <1>1, <1>6, <1>7 DEF Sound, Accounted
<1> QED BY <1>6, <1>8 DEF x, price
-----------------------------------------------------------------------------
(* Stops. An exit is at a price that traded in its probe.                  *)
Traded(b, price) == price \in b.low .. b.high

LEMMA ExitsTraded ==
    ASSUME NEW b, Priced(b), NEW units \in Int, units # 0, NEW stop \in Int, NEW target \in MaybeInt
    PROVE  LET e == ProtectiveExit(b, units, stop, target)
           IN e = NoExit \/ (/\ e.price \in Int /\ Traded(b, e.price)
                             /\ e.reason \in {"stop_loss", "take_profit"} /\ e \in ExitOf)
<1> DEFINE e == ProtectiveExit(b, units, stop, target)
           s == Sign(units)
           Hit(price, reason) == e = [price |-> price, reason |-> reason]
<1>1. b.open \in Int /\ b.high \in Int /\ b.low \in Int /\ b.low <= b.open /\ b.open <= b.high
  BY DEF Priced
<1>2. /\ s \in {-1, 1} /\ (units > 0 <=> s = 1)
  BY Signs
<1>3. \/ e = NoExit
      \/ Hit(b.open, "stop_loss") \/ Hit(b.open, "take_profit")
      \/ Hit(stop, "stop_loss") /\ s * (b.open - stop) > 0
         /\ s * ((IF s > 0 THEN b.low ELSE b.high) - stop) <= 0
      \/ Hit(target, "take_profit") /\ target # None /\ s * (b.open - target) < 0
         /\ s * ((IF s > 0 THEN b.high ELSE b.low) - target) >= 0
  BY DEF ProtectiveExit, Exit
<1> DEFINE Fair == /\ e.price \in Int /\ Traded(b, e.price)
                   /\ e.reason \in {"stop_loss", "take_profit"} /\ e \in ExitOf
<1>4. ASSUME NEW price \in Int, NEW reason \in {"stop_loss", "take_profit"}, Hit(price, reason),
             b.low <= price, price <= b.high
      PROVE  Fair
  BY <1>1, <1>4 DEF Traded, ExitOf, MaybeInt
<1>5. Hit(b.open, "stop_loss") \/ Hit(b.open, "take_profit") => Fair
  <2> HIDE DEF Fair, Hit
  <2> QED BY <1>1, <1>4
<1>6. /\ s * (b.open - stop) > 0 /\ s * ((IF s > 0 THEN b.low ELSE b.high) - stop) <= 0
           => b.low <= stop /\ stop <= b.high
      /\ target # None /\ s * (b.open - target) < 0
           /\ s * ((IF s > 0 THEN b.high ELSE b.low) - target) >= 0
           => target \in Int /\ b.low <= target /\ target <= b.high
  <2>1. CASE s = 1
    BY <1>1, <2>1 DEF MaybeInt
  <2>2. CASE s = -1
    BY <1>1, <2>2 DEF MaybeInt
  <2> QED BY <1>2, <2>1, <2>2
<1>7. e = NoExit \/ Fair
  <2> HIDE DEF Fair, Hit, s, e
  <2> QED BY <1>3, <1>4, <1>5, <1>6
<1> QED BY <1>7

(* A replay after some probes of bar b, held as r when the bar began: the  *)
(* position was closed at a price that traded, or is held as it was with a *)
(* stop that has not fallen.                                               *)
Walked(r, b) ==
    {x \in Sound :
        /\ x.lastOrder = r.lastOrder /\ x.target \in {r.target, None}
        /\ (r.trail = None => x.trail = None) /\ (r.stop = None => x.stop = None)
        /\ \/ x.exit # NoExit /\ x.units = 0
              /\ \E i \in 1 .. Len(b.probes) : Traded(b.probes[i], x.exit.price)
           \/ /\ x.exit = NoExit /\ x.units = r.units /\ x.cash = r.cash /\ x.basis = r.basis
              /\ (x.stop = None) <=> (r.stop = None)
              /\ r.stop # None => /\ r.units > 0 => x.stop >= r.stop
                                  /\ r.trail = None => x.stop = r.stop /\ x.trail = None}

LEMMA TrailingIs ==
    ASSUME NEW x \in Sound, NEW probe, Priced(probe), x.units # 0, x.stop # None
    PROVE  LET y == TrailingRaised(x, probe)
           IN /\ y \in Sound /\ y.units = x.units /\ y.cash = x.cash /\ y.basis = x.basis
              /\ y.exit = x.exit /\ y.lastOrder = x.lastOrder /\ y.trail = x.trail
              /\ y.target = x.target
              /\ y.stop \in Int /\ y.stop >= x.stop /\ (x.trail = None => y.stop = x.stop)
<1> DEFINE y == TrailingRaised(x, probe)
<1>1. x \in Replays /\ Accounted(x) /\ x.stop \in Int
  BY DEF Sound, Replays, MaybeInt
<1>2. CASE x.trail = None \/ x.units <= 0
  <2>1. y = x
    BY <1>2 DEF TrailingRaised
  <2> QED BY <1>1, <2>1
<1>3. CASE ~(x.trail = None \/ x.units <= 0)
  <2> DEFINE highest == Max({x.highest, probe.high})
             stop == Max({x.stop, highest - x.trail})
  <2>1. x.highest \in Int /\ x.trail \in Int /\ probe.high \in Int
    BY <1>1, <1>3 DEF Accounted, Replays, MaybeInt, Priced
  <2>2. highest \in Int
    BY <2>1, MaxOfTwo
  <2>3. stop \in Int /\ stop >= x.stop
    <3> HIDE DEF highest
    <3>1. highest - x.trail \in Int
      BY <2>1, <2>2
    <3> QED BY <1>1, <3>1, MaxOfTwo
  <2>4. y = [x EXCEPT !.highest = highest, !.stop = stop]
    BY <1>3 DEF TrailingRaised
  <2> HIDE DEF highest, stop, y
  <2>5. y \in Replays
    BY <1>1, <2>2, <2>3, <2>4 DEF Replays, MaybeInt
  <2>6. /\ y.units = x.units /\ y.cash = x.cash /\ y.basis = x.basis /\ y.fees = x.fees
        /\ y.earned = x.earned /\ y.trail = x.trail /\ y.exit = x.exit
        /\ y.lastOrder = x.lastOrder /\ y.stop = stop /\ y.highest = highest
        /\ y.target = x.target
    BY <1>1, <2>4 DEF Replays
  <2>7. stop # None /\ highest # None
    BY <2>2, <2>3, RiskAssumption
  <2>8. y \in Sound
    BY <1>1, <2>5, <2>6, <2>7 DEF Sound, Accounted
  <2> QED BY <1>3, <2>3, <2>6, <2>8 DEF y
<1> QED BY <1>2, <1>3

LEMMA Slips ==
    ASSUME NEW price \in Int, NEW units \in Int, setup.slip \in Nat
    PROVE  Slipped(price, units) \in Int
BY DivIs DEF Slipped

LEMMA Probing ==
    ASSUME NEW r \in Sound, NEW b, GoodBar(b), setup \in Setup, NEW x \in Walked(r, b),
           NEW i \in 1 .. Len(b.probes)
    PROVE  Probed(x, b.probes[i]) \in Walked(r, b)
<1> DEFINE probe == b.probes[i]
           y == Probed(x, probe)
           exit == ProtectiveExit(probe, x.units, x.stop, x.target)
           at == IF exit.reason = "stop_loss" THEN Slipped(exit.price, x.units) ELSE exit.price
<1>1. /\ x \in Sound /\ x \in Replays /\ x.units \in Int /\ x.stop \in MaybeInt /\ x.target \in MaybeInt
  BY DEF Walked, Sound, Replays
<1>2. setup.exchange \in Exchange /\ setup.slip \in Nat
  BY SeriesAssumption DEF Exchange
<1>3. Priced(probe)
  BY DEF GoodBar
<1>4. CASE setup.policy = "signal" \/ x.units = 0 \/ x.stop = None
  BY <1>4 DEF Probed
<1>5. CASE ~(setup.policy = "signal" \/ x.units = 0 \/ x.stop = None) /\ exit = NoExit
  <2>1. y = TrailingRaised(x, probe)
    BY <1>5 DEF Probed
  <2>2. /\ y \in Sound /\ y.units = x.units /\ y.cash = x.cash /\ y.basis = x.basis
        /\ y.exit = x.exit /\ y.lastOrder = x.lastOrder /\ y.trail = x.trail /\ y.target = x.target
        /\ y.stop \in Int /\ y.stop >= x.stop /\ (x.trail = None => y.stop = x.stop)
    BY <1>1, <1>3, <1>5, <2>1, TrailingIs
  <2>3. x.stop \in Int /\ y.stop # None
    BY <1>1, <1>5, <2>2, RiskAssumption DEF MaybeInt
  <2> HIDE DEF y
  <2>4. /\ x.exit = NoExit /\ x.units = r.units /\ x.cash = r.cash /\ x.basis = r.basis
        /\ r.stop # None /\ (r.units > 0 => x.stop >= r.stop)
        /\ (r.trail = None => x.stop = r.stop /\ x.trail = None) /\ x.lastOrder = r.lastOrder
        /\ x.target \in {r.target, None}
    BY <1>5 DEF Walked
  <2>5. r.stop \in Int
    BY <2>4 DEF Sound, Replays, MaybeInt
  <2>6. r.units > 0 => y.stop >= r.stop
    BY <2>2, <2>3, <2>4, <2>5
  <2>7. y \in Walked(r, b)
    BY <2>2, <2>3, <2>4, <2>6 DEF Walked
  <2> QED BY <2>7 DEF y
<1>6. CASE ~(setup.policy = "signal" \/ x.units = 0 \/ x.stop = None) /\ exit # NoExit
  <2>1. y = [Filled(x, -x.units, at) EXCEPT !.exit = exit]
    BY <1>6 DEF Probed
  <2>2. /\ exit.price \in Int /\ Traded(probe, exit.price) /\ exit \in ExitOf
    BY <1>1, <1>3, <1>6, ExitsTraded DEF MaybeInt
  <2>3. at \in Int
    BY <1>1, <1>2, <2>2, Slips
  <2> DEFINE z == ClosedAt(x, at)
  <2>4. Filled(x, -x.units, at) = z
    BY <1>1, <1>2, <1>6, <2>3, FilledClosing
  <2>5. z \in Sound /\ z.units = 0 /\ z.lastOrder = x.lastOrder /\ z.target = None
        /\ z.trail = None /\ z.stop = None
    BY <1>1, <1>2, <1>6, <2>3, ClosedIsSound
  <2>6. y = [z EXCEPT !.exit = exit]
    BY <2>1, <2>4
  <2> HIDE DEF y, z, exit
  <2>7. y \in Replays
    BY <2>2, <2>5, <2>6 DEF Sound, Replays
  <2>8. /\ y.exit = exit /\ y.units = 0 /\ y.lastOrder = x.lastOrder /\ y.cash = z.cash
        /\ y.basis = z.basis /\ y.fees = z.fees /\ y.earned = z.earned /\ y.trail = z.trail
        /\ y.stop = z.stop /\ y.highest = z.highest /\ y.target = z.target
    BY <2>5, <2>6 DEF Sound, Replays
  <2>9. y \in Sound
    BY <2>5, <2>7, <2>8 DEF Sound, Accounted
  <2>10. x.lastOrder = r.lastOrder
    BY DEF Walked
  <2>11. y \in Walked(r, b)
    BY <1>6, <2>2, <2>5, <2>8, <2>9, <2>10 DEF Walked
  <2> QED BY <2>11 DEF y
<1> QED BY <1>4, <1>5, <1>6
-----------------------------------------------------------------------------
(* A bar of the replay: its stop, its value, its signal.                   *)
Holds(x, r) ==
    /\ x.cash = r.cash /\ x.units = r.units /\ x.basis = r.basis /\ x.stop = r.stop
    /\ x.fees = r.fees /\ x.earned = r.earned /\ x.trail = r.trail /\ x.highest = r.highest
    /\ x.target = r.target /\ x.exit = r.exit /\ x.lastOrder = r.lastOrder

LEMMA SoundIfHeld ==
    ASSUME NEW r \in Sound, NEW x \in Replays, Holds(x, r)
    PROVE  x \in Sound
BY DEF Sound, Accounted, Holds

LEMMA Equities ==
    ASSUME NEW r, r.cash \in Int, r.units \in Int, NEW price \in Int
    PROVE  EquityAt(r, price) \in Int
BY DEF EquityAt, Equity, MarketValue

LEMMA Risks ==
    ASSUME NEW r, r.units \in Int, r.basis \in Int, NEW price \in Int
    PROVE  OpenRisk(r, price) \in Int
BY DEF OpenRisk, Unrealized

LEMMA Unlocking ==
    ASSUME NEW r \in Replays, NEW equity \in Int, setup \in Setup, now' \in Nat
    PROVE  LET x == LockReleased(r, equity) IN x \in Replays /\ Holds(x, r)
<1> DEFINE x == LockReleased(r, equity)
<1>1. \/ x = r \/ x = [r EXCEPT !.lockSince = None] \/ x = [r EXCEPT !.lockSince = now']
      \/ x = [r EXCEPT !.losses = 0, !.peak = equity, !.lockSince = None]
  BY DEF LockReleased
<1> HIDE DEF x
<1>2. x \in Replays
  <2>1. \A m \in MaybeInt : [r EXCEPT !.lockSince = m] \in Replays
    BY DEF Replays
  <2>2. None \in MaybeInt /\ now' \in MaybeInt
    BY DEF MaybeInt
  <2>3. [r EXCEPT !.losses = 0, !.peak = equity, !.lockSince = None] \in Replays
    BY <2>2 DEF Replays
  <2> QED BY <1>1, <2>1, <2>2, <2>3
<1>3. Holds(x, r)
  BY <1>1 DEF Replays, Holds
<1> QED BY <1>2, <1>3 DEF x

LEMMA Valuing ==
    ASSUME NEW r \in Sound, NEW b, GoodBar(b), setup \in Setup, now' \in Nat
    PROVE  LET x == Valued(r, b) IN x \in Sound /\ Holds(x, r)
<1> DEFINE equity == EquityAt(r, b.close)
           before == [r EXCEPT !.peak = Max({r.peak, equity})]
           kept == LockReleased(before, equity)
           x == Valued(r, b)
<1>1. r \in Replays /\ b.close \in Int
  BY DEF Sound, GoodBar, Priced
<1>2. equity \in Int
  BY <1>1, Equities DEF Replays
<1>3. Max({r.peak, equity}) \in Int
  <2> HIDE DEF equity
  <2> QED BY <1>1, <1>2, MaxOfTwo DEF Replays
<1>4. before \in Replays /\ Holds(before, r)
  <2> HIDE DEF equity
  <2> QED BY <1>1, <1>3 DEF Replays, Holds
<1> HIDE DEF equity, before
<1>5. kept \in Replays /\ Holds(kept, before)
  BY <1>2, <1>4, Unlocking
<1>6. Day(now') \in Int /\ Week(now') \in Int
  BY DivIs, SeriesAssumption DEF Day, Week
<1> DEFINE dayFrom == IF r.day = Day(now') THEN r.dayFrom ELSE equity
           weekFrom == IF r.week = Week(now') THEN r.weekFrom ELSE equity
<1>7. dayFrom \in MaybeInt /\ weekFrom \in MaybeInt
  BY <1>1, <1>2 DEF Replays, MaybeInt
<1>8. x = [kept EXCEPT !.day = Day(now'), !.dayFrom = dayFrom, !.week = Week(now'),
                       !.weekFrom = weekFrom]
  BY Zenon DEF Valued, kept, before, equity
<1> HIDE DEF kept, dayFrom, weekFrom, x
<1>9. x \in Replays
  BY <1>5, <1>6, <1>7, <1>8 DEF Replays, MaybeInt
<1>10. Holds(x, kept)
  BY <1>5, <1>8 DEF Replays, Holds
<1>11. Holds(x, r)
  BY <1>4, <1>5, <1>10 DEF Holds
<1> QED BY <1>9, <1>11, SoundIfHeld DEF x

LEMMA Checking ==
    ASSUME NEW r \in Sound, NEW b, GoodBar(b), setup \in Setup, now' \in Nat
    PROVE  Checked(r, b) \in Walked(r, b)
<1> DEFINE s == [r EXCEPT !.exit = NoExit]
<1>1. r \in Replays /\ NoExit \in ExitOf
  BY DEF Sound, NoExit, ExitOf, MaybeInt
<1>2. s \in Replays /\ s.exit = NoExit
  BY <1>1 DEF Replays
<1>3. /\ s.cash = r.cash /\ s.units = r.units /\ s.basis = r.basis /\ s.stop = r.stop
      /\ s.fees = r.fees /\ s.earned = r.earned /\ s.trail = r.trail /\ s.highest = r.highest
      /\ s.lastOrder = r.lastOrder /\ s.target = r.target
  BY <1>1 DEF Replays
<1> HIDE DEF s
<1>4. s \in Sound
  BY <1>2, <1>3 DEF Sound, Accounted
<1>5. s \in Walked(r, b)
  <2>1. r.stop # None => s.stop >= r.stop
    BY <1>1, <1>3 DEF Replays, MaybeInt
  <2> QED BY <1>2, <1>3, <1>4, <2>1 DEF Walked
<1>6. Len(b.probes) \in Nat /\ \A x \in Walked(r, b), i \in 1 .. Len(b.probes) :
                                  Probed(x, b.probes[i]) \in Walked(r, b)
  BY Probing DEF GoodBar
<1>7. Stopped(s, b) \in Walked(r, b)
  BY <1>5, <1>6, WalkKeeps
<1> DEFINE t == Stopped(s, b)
<1> HIDE DEF t
<1>8. t \in Sound /\ t \in Walked(r, b)
  BY <1>7 DEF Walked, t
<1>9. Valued(t, b) \in Sound /\ Holds(Valued(t, b), t)
  BY <1>8, Valuing
<1>10. Valued(t, b) \in Walked(r, b)
  BY <1>8, <1>9 DEF Walked, Holds
<1> QED BY <1>10 DEF Checked, t, s

LEMMA Judging ==
    ASSUME NEW r \in Replays, NEW b, GoodBar(b), setup \in Setup
    PROVE  Judgeable(ReplayState(r, b))
<1>1. r.cash \in Int /\ r.units \in Int /\ r.basis \in Int /\ b.close \in Nat \ {0}
  BY DEF Replays, GoodBar, Priced
<1>2. EquityAt(r, b.close) \in Int /\ OpenRisk(r, b.close) \in Int
  BY <1>1, Equities, Risks
<1>3. setup.exchange \in Exchange
  BY SeriesAssumption DEF Exchange
<1> DEFINE s == ReplayState(r, b)
<1>4. /\ s.exchange = setup.exchange /\ s.price = b.close /\ s.equity = EquityAt(r, b.close)
      /\ s.cash = r.cash /\ s.risk = OpenRisk(r, b.close)
  BY DEF ReplayState
<1> HIDE DEF s
<1>5. Judgeable(s)
  BY <1>1, <1>2, <1>3, <1>4 DEF Judgeable
<1> QED BY <1>5 DEF s

(* An entry of some size, in the direction of the signal.                  *)
LEMMA Directions ==
    ASSUME NEW held \in Int, NEW says \in {-1, 1}, ~Opposite(held, says), NEW size \in Nat \ {0}
    PROVE  /\ says * size \in Int /\ says * size # 0 /\ ~Opposite(held, says * size)
           /\ held + says * size # 0 /\ Sign(says * size) = says /\ Abs(says * size) = size
           /\ says = 1 => held >= 0
           /\ says = -1 => held <= 0
<1>1. says = 1 \/ says = -1
  OBVIOUS
<1>2. (says = 1 => held >= 0) /\ (says = -1 => held <= 0)
  BY OppositeIs
<1>3. (says = 1 => says * size = size) /\ (says = -1 => says * size = -size)
  OBVIOUS
<1> QED BY <1>1, <1>2, <1>3, OppositeIs, Signs

(* What an entry leaves: a size q of the position at the close of the bar, *)
(* and the stop of a position that was opened.                             *)
EntersWith(y, r, b, q) ==
    LET units == b.says * q IN
    /\ y.cash = CashAfter(r, units, b.close) /\ y.units = r.units + units
    /\ y.basis = r.basis + FillPrice(setup.exchange, units, b.close) * units
    /\ y.stop = IF r.units = 0 /\ setup.policy # "signal"
                THEN FillPrice(setup.exchange, units, b.close) - b.says * StopDistance(setup.exchange)
                ELSE r.stop
    /\ y.lastOrder = now'

(* A target or a trail that the policy does not set, and a stop that no    *)
(* exit policy but signals sets, are none.                                 *)
Aims(y, r) ==
    /\ setup.policy # "stop_and_target" /\ r.target = None => y.target = None
    /\ setup.policy # "trailing_stop" /\ r.trail = None => y.trail = None
    /\ setup.policy = "signal" /\ r.stop = None => y.stop = None

ClosesWith(y, r, b) ==
    /\ y.cash = CashAfter(r, -r.units, b.close) /\ y.units = 0 /\ y.basis = 0 /\ y.stop = None
    /\ y.lastOrder = r.lastOrder

LEMMA Protecting ==
    ASSUME NEW r \in Sound, NEW units \in Int, r.units = units, units # 0, NEW base \in Int,
           setup \in Setup
    PROVE  LET y == Protected(r, units, base)
               stop == FillPrice(setup.exchange, units, base)
                         - Sign(units) * StopDistance(setup.exchange)
           IN /\ y \in Sound /\ y.cash = r.cash /\ y.units = r.units /\ y.basis = r.basis
              /\ y.stop = (IF setup.policy # "signal" THEN stop ELSE r.stop)
              /\ y.exit = r.exit /\ y.lastOrder = r.lastOrder
              /\ (setup.policy # "stop_and_target" => y.target = r.target)
              /\ (setup.policy # "trailing_stop" => y.trail = r.trail)
<1> DEFINE distance == StopDistance(setup.exchange)
           entry == FillPrice(setup.exchange, units, base)
           y == Protected(r, units, base)
           stop == entry - Sign(units) * distance
           trail == IF setup.policy = "trailing_stop" THEN distance ELSE r.trail
           highest == IF setup.policy = "trailing_stop" THEN entry ELSE r.highest
           target == IF setup.policy = "stop_and_target"
                     THEN entry + Sign(units) * distance * Rules.rewardRisk ELSE r.target
<1>1. setup.exchange \in Exchange
  BY SeriesAssumption DEF Exchange
<1>2. distance \in Int /\ entry \in Int /\ Sign(units) \in Int /\ Rules.rewardRisk \in Int
  BY <1>1, Distances, Fills, Signs, RulesAssumption
<1>3. r \in Replays /\ Accounted(r)
  BY DEF Sound
<1>4. CASE setup.policy = "signal"
  <2>1. y = r
    BY <1>4 DEF Protected
  <2> QED BY <1>4, <2>1
<1>5. CASE setup.policy # "signal"
  <2>1. stop \in MaybeInt /\ stop # None /\ trail \in MaybeInt /\ highest \in MaybeInt
        /\ target \in MaybeInt
    <3>1. stop \in Int /\ entry + Sign(units) * distance * Rules.rewardRisk \in Int
      BY <1>2
    <3> QED BY <1>2, <1>3, <3>1, RiskAssumption DEF Replays, MaybeInt
  <2>2. y = [r EXCEPT !.stop = stop, !.trail = trail, !.highest = highest, !.target = target]
    BY <1>5, Zenon DEF Protected
  <2>3. trail # None => highest # None
    BY <1>2, <1>3, RiskAssumption DEF Accounted
  <2>7. /\ (setup.policy # "stop_and_target" => target = r.target)
        /\ (setup.policy # "trailing_stop" => trail = r.trail)
    OBVIOUS
  <2> HIDE DEF y, stop, trail, highest, target
  <2>4. y \in Replays
    BY <1>3, <2>1, <2>2 DEF Replays
  <2>5. /\ y.cash = r.cash /\ y.units = r.units /\ y.basis = r.basis /\ y.fees = r.fees
        /\ y.earned = r.earned /\ y.exit = r.exit /\ y.lastOrder = r.lastOrder
        /\ y.stop = stop /\ y.trail = trail /\ y.highest = highest /\ y.target = target
    BY <1>3, <2>2 DEF Replays
  <2>6. y \in Sound
    BY <1>3, <2>1, <2>3, <2>4, <2>5 DEF Sound, Accounted
  <2> QED BY <1>5, <2>5, <2>6, <2>7 DEF y, stop
<1> QED BY <1>4, <1>5

LEMMA Entering ==
    ASSUME NEW r \in Sound, NEW b, GoodBar(b), setup \in Setup, now' \in Nat,
           b.says # 0, ~Opposite(r.units, b.says), Approves(ReplayState(r, b))
    PROVE  LET y == Entered(r, b)
           IN /\ y \in Sound /\ y.exit = r.exit /\ EntersWith(y, r, b, Quantity(ReplayState(r, b)))
              /\ y.units # 0 /\ Aims(y, r)
<1> DEFINE q == Quantity(ReplayState(r, b))
           units == b.says * q
           f == AddedAt(r, units, b.close)
           g == [f EXCEPT !.lastOrder = now']
           y == Entered(r, b)
<1>1. r \in Replays /\ r.units \in Int /\ b.says \in {-1, 1} /\ b.close \in Int
  BY DEF Sound, Replays, GoodBar, Priced
<1>2. q \in Nat \ {0}
  BY <1>1, Judging, ApprovedSizes
<1>3. setup.exchange \in Exchange
  BY SeriesAssumption DEF Exchange
<1> HIDE DEF q
<1>4. /\ units \in Int /\ units # 0 /\ ~Opposite(r.units, units) /\ r.units + units # 0
      /\ Sign(units) = b.says
  BY <1>1, <1>2, Directions
<1> HIDE DEF units
<1>5. Filled(r, units, b.close) = f
  BY <1>1, <1>3, <1>4, FilledAdding
<1>6. /\ f \in Sound /\ f.units = r.units + units /\ f.stop = r.stop
      /\ f.cash = CashAfter(r, units, b.close)
      /\ f.basis = r.basis + FillPrice(setup.exchange, units, b.close) * units
      /\ f.exit = r.exit /\ f.target = r.target /\ f.trail = r.trail
  BY <1>1, <1>3, <1>4, AddedIsSound
<1>7. y = IF r.units = 0 THEN Protected(g, units, b.close) ELSE g
  BY <1>5, Zenon DEF Entered, units, q
<1> HIDE DEF f
<1>8. g \in Replays
  BY <1>6 DEF Sound, Replays, MaybeInt
<1>9. /\ g.cash = f.cash /\ g.units = f.units /\ g.basis = f.basis /\ g.stop = f.stop
      /\ g.fees = f.fees /\ g.earned = f.earned /\ g.trail = f.trail /\ g.highest = f.highest
      /\ g.exit = f.exit /\ g.lastOrder = now' /\ g.target = f.target
  BY <1>6 DEF Sound, Replays
<1> HIDE DEF g
<1>10. g \in Sound
  BY <1>6, <1>8, <1>9 DEF Sound, Accounted
<1> HIDE DEF y
<1>11. CASE r.units = 0
  <2>1. g.units = units
    BY <1>4, <1>6, <1>9, <1>11
  <2>2. /\ y \in Sound /\ y.cash = g.cash /\ y.units = g.units /\ y.basis = g.basis
        /\ y.stop = (IF setup.policy # "signal"
                     THEN FillPrice(setup.exchange, units, b.close)
                            - Sign(units) * StopDistance(setup.exchange)
                     ELSE g.stop)
        /\ y.exit = g.exit /\ y.lastOrder = g.lastOrder
        /\ (setup.policy # "stop_and_target" => y.target = g.target)
        /\ (setup.policy # "trailing_stop" => y.trail = g.trail)
    BY <1>1, <1>4, <1>7, <1>10, <1>11, <2>1, Protecting
  <2>3. EntersWith(y, r, b, q)
    BY <1>4, <1>6, <1>9, <1>11, <2>2 DEF EntersWith, units
  <2>4. Aims(y, r)
    BY <1>6, <1>9, <2>2 DEF Aims
  <2> QED BY <1>4, <1>6, <1>9, <2>2, <2>3, <2>4 DEF y, q
<1>12. CASE r.units # 0
  <2>1. y = g
    BY <1>7, <1>12
  <2>2. EntersWith(y, r, b, q)
    BY <1>6, <1>9, <1>12, <2>1 DEF EntersWith, units
  <2>3. Aims(y, r)
    BY <1>6, <1>9, <2>1 DEF Aims
  <2> QED BY <1>4, <1>6, <1>9, <1>10, <2>1, <2>2, <2>3 DEF y, q
<1> QED BY <1>11, <1>12

LEMMA Acting ==
    ASSUME NEW r \in Sound, NEW b, GoodBar(b), setup \in Setup, now' \in Nat
    PROVE  LET y == Acted(r, b)
           IN /\ y \in Sound /\ y.exit = r.exit /\ Aims(y, r)
              /\ \/ y = r /\ (b.says = 0 \/ ~Opposite(r.units, b.says))
                 \/ ClosesWith(y, r, b) /\ Opposite(r.units, b.says) /\ b.says # 0
                 \/ /\ EntersWith(y, r, b, Quantity(ReplayState(r, b))) /\ y.units # 0
                    /\ b.says # 0 /\ ~Opposite(r.units, b.says) /\ Approves(ReplayState(r, b))
<1>1. r \in Replays /\ r.units \in Int /\ b.says \in {-1, 0, 1} /\ b.close \in Int
  BY DEF Sound, Replays, GoodBar, Priced
<1>2. setup.exchange \in Exchange
  BY SeriesAssumption DEF Exchange
<1>3. CASE b.says = 0
  <2>1. Acted(r, b) = r
    BY <1>1, <1>3, OppositeIs DEF Acted
  <2> QED BY <1>3, <2>1 DEF Aims
<1>4. CASE b.says # 0 /\ Opposite(r.units, b.says)
  <2>1. r.units # 0
    BY <1>1, <1>4, OppositeIs
  <2>2. Acted(r, b) = Filled(r, -r.units, b.close)
    BY <1>4 DEF Acted
  <2>3. Acted(r, b) = ClosedAt(r, b.close)
    BY <1>1, <1>2, <2>1, <2>2, FilledClosing
  <2> QED BY <1>1, <1>2, <1>4, <2>1, <2>3, ClosedIsSound DEF ClosesWith, Aims
<1>5. CASE b.says # 0 /\ ~Opposite(r.units, b.says)
  <2>1. CASE Approves(ReplayState(r, b))
    <3>1. Acted(r, b) = Entered(r, b)
      BY <1>5, <2>1 DEF Acted
    <3> QED BY <1>5, <2>1, <3>1, Entering
  <2>2. CASE ~Approves(ReplayState(r, b))
    <3>1. Acted(r, b) = r
      BY <1>5, <2>2 DEF Acted
    <3> QED BY <1>5, <3>1 DEF Aims
  <2> QED BY <2>1, <2>2
<1> QED BY <1>3, <1>4, <1>5
-----------------------------------------------------------------------------
(* The replay, bar after bar.                                              *)
ExitTraded == replay.exit # NoExit =>
                \E i \in 1 .. Len(bar.probes) : Traded(bar.probes[i], replay.exit.price)

Unaimed ==
    /\ setup.policy # "stop_and_target" => replay.target = None
    /\ setup.policy # "trailing_stop" => replay.trail = None
    /\ setup.policy = "signal" => replay.stop = None

ReplayInv ==
    /\ setup \in Setup /\ now \in Nat /\ replay \in Sound /\ ExitTraded /\ Unaimed
    /\ (now = 0 /\ replay = NewReplay) \/ (now > 0 /\ GoodBar(bar))

LEMMA BarClosed ==
    ASSUME ReplayInv, NEW shape \in Shape, NEW says \in {-1, 0, 1}, CloseBar(shape, says)
    PROVE  /\ GoodBar(bar') /\ now' = now + 1 /\ now' \in Nat /\ setup' = setup
           /\ Checked(replay, bar') \in Walked(replay, bar')
           /\ Checked(replay, bar') \in Sound /\ replay' = Acted(Checked(replay, bar'), bar')
<1>1. /\ bar' = BarOf(shape, says) /\ now' = now + 1 /\ setup' = setup
      /\ replay' = Acted(Checked(replay, bar'), bar')
  BY DEF CloseBar
<1>2. GoodBar(bar') /\ now' \in Nat
  BY <1>1, BarsAreGood DEF ReplayInv
<1>3. Checked(replay, bar') \in Walked(replay, bar')
  BY <1>2, Checking DEF ReplayInv
<1> QED BY <1>1, <1>2, <1>3 DEF Walked

LEMMA ReplayStarts == Init => ReplayInv
<1> SUFFICES ASSUME Init PROVE ReplayInv
  OBVIOUS
<1>1. setup \in Setup /\ now = 0 /\ replay = NewReplay
  BY DEF Init, ReplayInit
<1>2. NewReplay \in Replays
  BY SeriesAssumption DEF NewReplay, Replays, ExitOf, NoExit, MaybeInt
<1>3. Accounted(NewReplay) /\ NewReplay.exit = NoExit
  BY SeriesAssumption DEF NewReplay, Accounted
<1>4. Unaimed
  BY <1>1 DEF NewReplay, Unaimed
<1> QED BY <1>1, <1>2, <1>3, <1>4 DEF ReplayInv, Sound, ExitTraded

LEMMA ReplayKept == ReplayInv /\ [Next]_vars => ReplayInv'
<1> SUFFICES ASSUME ReplayInv, [Next]_vars PROVE ReplayInv'
  OBVIOUS
<1>1. CASE \E shape \in Shape, says \in {-1, 0, 1} : CloseBar(shape, says)
  <2>1. PICK shape \in Shape, says \in {-1, 0, 1} : CloseBar(shape, says)
    BY <1>1
  <2> DEFINE c == Checked(replay, bar')
  <2>2. /\ GoodBar(bar') /\ now' = now + 1 /\ now' \in Nat /\ setup' = setup
        /\ c \in Walked(replay, bar') /\ c \in Sound /\ replay' = Acted(c, bar')
    BY <2>1, BarClosed
  <2> HIDE DEF c
  <2>3. replay' \in Sound /\ replay'.exit = c.exit /\ Aims(replay', c)
    BY <2>2, Acting DEF ReplayInv
  <2>4. c.exit # NoExit => \E i \in 1 .. Len(bar'.probes) : Traded(bar'.probes[i], c.exit.price)
    BY <2>2 DEF Walked
  <2>5. setup' \in Setup /\ now' > 0
    BY <2>2 DEF ReplayInv
  <2>6. Unaimed'
    BY <2>2, <2>3 DEF Walked, Aims, ReplayInv, Unaimed
  <2> QED BY <2>2, <2>3, <2>4, <2>5, <2>6 DEF ReplayInv, ExitTraded
<1>2. CASE UNCHANGED <<setup, bar, now, replay>>
  BY <1>2 DEF ReplayInv, ExitTraded, Unaimed, GoodBar, Priced, Traded
<1> QED
  BY <1>1, <1>2 DEF Next, vars, Evaluate, BarCloses, BarIsLate, ReleaseLock, ReleaseOneStep

(* What a replay trades, net of all fees, and the cost and entry fees of   *)
(* what it still holds account for its cash, for every series of bars,     *)
(* policy and exchange (_apply_and_record, open_entry_fees).               *)
THEOREM CashAccounted == Spec => []TradesExplainEquity
<1>1. ReplayInv => TradesExplainEquity
  BY DEF ReplayInv, Sound, Accounted, TradesExplainEquity
<1> QED BY <1>1, ReplayStarts, ReplayKept, PTL DEF Spec

(* The stop of a position that the replay holds never moves against it,    *)
(* however many probes a bar has and whatever is added to the position     *)
(* (_raise_trailing_stop).                                                 *)
THEOREM StopNeverFalls == Spec => TrailingStopNeverFalls
<1> DEFINE Rise == replay.units > 0 /\ replay'.units >= replay.units /\ replay.stop # None
                     /\ replay'.exit = NoExit => replay'.stop >= replay.stop
<1>1. ReplayInv /\ [Next]_vars => [Rise]_replayVars
  <2> SUFFICES ASSUME ReplayInv, [Next]_vars, ~UNCHANGED replayVars PROVE Rise
    BY Zenon
  <2>1. PICK shape \in Shape, says \in {-1, 0, 1} : CloseBar(shape, says)
    BY DEF Next, vars, replayVars, Evaluate, BarCloses, BarIsLate, ReleaseLock, ReleaseOneStep
  <2>2. SUFFICES ASSUME replay.units > 0, replay'.units >= replay.units, replay.stop # None,
                        replay'.exit = NoExit
                 PROVE  replay'.stop >= replay.stop
    OBVIOUS
  <2> DEFINE c == Checked(replay, bar')
  <2>3. /\ GoodBar(bar') /\ now' \in Nat /\ setup' = setup
        /\ c \in Walked(replay, bar') /\ c \in Sound /\ replay' = Acted(c, bar')
    BY <2>1, BarClosed
  <2> HIDE DEF c
  <2>4. /\ replay'.exit = c.exit
        /\ \/ replay' = c
           \/ ClosesWith(replay', c, bar')
           \/ EntersWith(replay', c, bar', Quantity(ReplayState(c, bar')))
    BY <2>3, Acting DEF ReplayInv
  <2>5. c.units = replay.units /\ c.stop >= replay.stop
    BY <2>2, <2>3, <2>4 DEF Walked
  <2>6. replay.units \in Int
    BY DEF ReplayInv, Sound, Replays
  <2>7. ~ClosesWith(replay', c, bar')
    BY <2>2, <2>6 DEF ClosesWith
  <2>8. EntersWith(replay', c, bar', Quantity(ReplayState(c, bar'))) => replay'.stop = c.stop
    BY <2>2, <2>5, <2>6 DEF EntersWith
  <2> QED BY <2>4, <2>5, <2>7, <2>8
<1> HIDE DEF Rise
<1>2. Spec => [][Rise]_replayVars
  BY <1>1, ReplayStarts, ReplayKept, PTL DEF Spec
<1> QED BY <1>2 DEF Rise, TrailingStopNeverFalls
-----------------------------------------------------------------------------
(* The account of the bot.                                                 *)
Level == {"none", "warning", "entry_halted"}
Stake == [cash : Int, budget : Int]

Desks ==
    [cash : Int, units : Int, basis : Int, stop : MaybeInt, openedAt : Nat, streak : Nat,
     earned : Int, fees : Int, dayOf : MaybeInt, day : MaybeInt, weekOf : MaybeInt,
     week : MaybeInt, peak : MaybeInt, lastOrder : MaybeInt, seen : Nat,
     stake : Stake \cup {None}, overrun : Int, touched : BOOLEAN, outage : BOOLEAN,
     denied : SUBSET Measure]

(* The bars that closed, and the last of them, the oldest first.           *)
Bars == {BarOf(shape, says) : shape \in Shape, says \in {-1, 0, 1}}

LEMMA BarsGood == ASSUME NEW b \in Bars PROVE GoodBar(b)
BY BarsAreGood DEF Bars

(* The window t of bars moves from s: what falls out of it is its oldest   *)
(* bar.                                                                    *)
Slides(t, s, e) == LET shift == IF Len(s) = Window THEN 1 ELSE 0 IN
    /\ t \in Seq(Bars) /\ Len(t) = Len(s) + 1 - shift /\ t[Len(t)] = e /\ Len(t) > 0
    /\ \A i \in 1 .. Len(t) - 1 : i + shift \in 1 .. Len(s) /\ t[i] = s[i + shift]

LEMMA Windows ==
    ASSUME NEW s \in Seq(Bars), NEW e \in Bars, Len(s) <= Window
    PROVE  Slides(SubSeq(Append(s, e), IF Len(s) = Window THEN 2 ELSE 1, Len(s) + 1), s, e)
<1> DEFINE shift == IF Len(s) = Window THEN 1 ELSE 0
           m == IF Len(s) = Window THEN 2 ELSE 1
           n == Len(s) + 1
           u == Append(s, e)
           t == SubSeq(u, m, n)
<1>1. shift \in {0, 1} /\ m = shift + 1 /\ Len(s) \in Nat /\ n \in Nat /\ shift <= Len(s)
  BY WindowAssumption
<1>2. /\ u \in Seq(Bars) /\ Len(u) = n /\ u[n] = e
      /\ \A i \in 1 .. Len(s) : u[i] = s[i]
  OBVIOUS
<1> HIDE DEF u, m, n, shift
<1>3. /\ m \in Int /\ n \in Int /\ m <= n /\ n - m + 1 = Len(s) + 1 - shift
      /\ Len(s) + 1 - shift > 0 /\ \A i \in m .. n : i \in 1 .. Len(u)
  BY <1>1, <1>2 DEF n
<1>4. \A i \in m .. n : u[i] \in Bars
  BY <1>2, <1>3
<1>5. /\ t \in Seq(Bars) /\ Len(t) = IF m <= n THEN n - m + 1 ELSE 0
      /\ \A i \in 1 .. n - m + 1 : t[i] = u[m + i - 1]
  BY <1>3, <1>4, SubSeqProperties
<1> HIDE DEF t
<1>6. Len(t) = Len(s) + 1 - shift
  BY <1>3, <1>5
<1>7. t[Len(t)] = e
  <2>1. n - m + 1 \in 1 .. n - m + 1 /\ m + (n - m + 1) - 1 = n
    BY <1>3
  <2>2. t[n - m + 1] = u[m + (n - m + 1) - 1]
    BY <1>5, <2>1
  <2> QED BY <1>2, <1>3, <1>6, <2>1, <2>2
<1>8. ASSUME NEW i \in 1 .. Len(t) - 1 PROVE i + shift \in 1 .. Len(s) /\ t[i] = s[i + shift]
  <2>1. /\ i \in 1 .. n - m + 1 /\ m + i - 1 = i + shift /\ i + shift \in 1 .. Len(s)
    BY <1>1, <1>3, <1>6
  <2>2. t[i] = u[m + i - 1]
    BY <1>5, <2>1
  <2> QED BY <1>2, <2>1, <2>2
<1>9. /\ t \in Seq(Bars) /\ Len(t) = Len(s) + 1 - shift /\ t[Len(t)] = e /\ Len(t) > 0
      /\ \A i \in 1 .. Len(t) - 1 : i + shift \in 1 .. Len(s) /\ t[i] = s[i + shift]
  BY <1>3, <1>5, <1>6, <1>7, <1>8
<1> QED BY <1>9 DEF Slides, t, u, m, n, shift

(* An order's account: what it makes of cash and position, before and      *)
(* after the snapshot.                                                     *)
Ordered(a, cash, units, basis, earned, fees, streak, openedAt) ==
    [a EXCEPT !.cash = cash, !.units = units, !.basis = basis, !.earned = earned,
              !.fees = fees, !.streak = streak, !.openedAt = openedAt,
              !.stop = IF units = 0 THEN None ELSE a.stop,
              !.stake = IF units = 0 THEN None ELSE a.stake,
              !.touched = ~(units = 0) /\ a.touched]

OrderIs(x, a, cash, units, basis, openedAt) ==
    /\ x \in Desks
    /\ x.cash = cash /\ x.units = units /\ x.basis = basis /\ x.openedAt = openedAt
    /\ x.stop = (IF units = 0 THEN None ELSE a.stop)
    /\ x.stake = (IF units = 0 THEN None ELSE a.stake)
    /\ (x.touched <=> (units # 0 /\ a.touched))
    /\ x.lastOrder = a.lastOrder /\ x.seen = a.seen /\ x.overrun = a.overrun
    /\ (x.outage <=> a.outage) /\ x.denied = a.denied

LEMMA OrderedIs ==
    ASSUME NEW a \in Desks, NEW cash \in Int, NEW units \in Int, NEW basis \in Int,
           NEW earned \in Int, NEW fees \in Int, NEW streak \in Nat, NEW openedAt \in Nat
    PROVE  OrderIs(Ordered(a, cash, units, basis, earned, fees, streak, openedAt),
                   a, cash, units, basis, openedAt)
<1> DEFINE x == Ordered(a, cash, units, basis, earned, fees, streak, openedAt)
           stop == IF units = 0 THEN None ELSE a.stop
           stake == IF units = 0 THEN None ELSE a.stake
           touched == ~(units = 0) /\ a.touched
<1>1. stop \in MaybeInt /\ stake \in Stake \cup {None} /\ touched \in BOOLEAN
  BY DEF Desks, MaybeInt
<1>2. x = [a EXCEPT !.cash = cash, !.units = units, !.basis = basis, !.earned = earned,
                    !.fees = fees, !.streak = streak, !.openedAt = openedAt,
                    !.stop = stop, !.stake = stake, !.touched = touched]
  BY Zenon DEF Ordered
<1>3. (touched <=> (units # 0 /\ a.touched))
  OBVIOUS
<1>4. /\ stop = (IF units = 0 THEN None ELSE a.stop)
      /\ stake = (IF units = 0 THEN None ELSE a.stake)
  OBVIOUS
<1> HIDE DEF x, stop, stake, touched
<1>5. x \in Desks
  BY <1>1, <1>2 DEF Desks
<1>6. /\ x.cash = cash /\ x.units = units /\ x.basis = basis /\ x.openedAt = openedAt
      /\ x.stop = stop /\ x.stake = stake /\ x.touched = touched
      /\ x.lastOrder = a.lastOrder /\ x.seen = a.seen /\ x.overrun = a.overrun
      /\ x.outage = a.outage /\ x.denied = a.denied
  BY <1>2 DEF Desks
<1> QED BY <1>3, <1>4, <1>5, <1>6, Zenon DEF x, OrderIs

LEMMA SnapshotIs ==
    ASSUME NEW a \in Desks, bar.close \in Int, Time \in Nat
    PROVE  LET x == Snapshot(a)
           IN /\ x \in Desks
              /\ x.cash = a.cash /\ x.units = a.units /\ x.basis = a.basis
              /\ x.openedAt = a.openedAt /\ x.stop = a.stop /\ x.stake = a.stake
              /\ (x.touched <=> a.touched) /\ x.lastOrder = a.lastOrder /\ x.seen = a.seen
              /\ x.overrun = a.overrun /\ (x.outage <=> a.outage) /\ x.denied = a.denied
<1> DEFINE equity == EquityAt(a, bar.close)
           x == Snapshot(a)
           day == IF a.dayOf = Day(Time) THEN a.day ELSE equity
           week == IF a.weekOf = Week(Time) THEN a.week ELSE equity
           peak == IF a.peak = None THEN equity ELSE Max({a.peak, equity})
<1>1. equity \in Int
  BY Equities DEF Desks
<1>2. day \in MaybeInt /\ week \in MaybeInt
  BY <1>1 DEF Desks, MaybeInt
<1>3. peak \in MaybeInt
  <2> HIDE DEF equity
  <2> QED BY <1>1, MaxOfTwo DEF Desks, MaybeInt
<1>4. Day(Time) \in MaybeInt /\ Week(Time) \in MaybeInt
  BY DivIs, SeriesAssumption DEF Day, Week, MaybeInt
<1>5. x = [a EXCEPT !.dayOf = Day(Time), !.day = day, !.weekOf = Week(Time), !.week = week,
                    !.peak = peak]
  BY Zenon DEF Snapshot
<1> HIDE DEF x, day, week, peak
<1>6. x \in Desks
  BY <1>2, <1>3, <1>4, <1>5 DEF Desks
<1>7. /\ x.cash = a.cash /\ x.units = a.units /\ x.basis = a.basis
      /\ x.openedAt = a.openedAt /\ x.stop = a.stop /\ x.stake = a.stake
      /\ x.touched = a.touched /\ x.lastOrder = a.lastOrder /\ x.seen = a.seen
      /\ x.overrun = a.overrun /\ x.outage = a.outage /\ x.denied = a.denied
  BY <1>5 DEF Desks
<1> QED BY <1>6, <1>7 DEF x

BookedAndHeld(a, cash, units, basis, earned, fees, streak, openedAt) ==
    [[a EXCEPT !.cash = cash, !.earned = earned, !.fees = fees, !.streak = streak]
        EXCEPT !.units = units, !.basis = basis, !.openedAt = openedAt,
               !.stop = IF units = 0 THEN None ELSE a.stop,
               !.stake = IF units = 0 THEN None ELSE a.stake,
               !.touched = ~(units = 0) /\ a.touched]

LEMMA OrderedInTwo ==
    ASSUME NEW a \in Desks, NEW cash, NEW units, NEW basis, NEW earned, NEW fees, NEW streak,
           NEW openedAt
    PROVE  BookedAndHeld(a, cash, units, basis, earned, fees, streak, openedAt)
             = Ordered(a, cash, units, basis, earned, fees, streak, openedAt)
<1> DEFINE stop == IF units = 0 THEN None ELSE a.stop
           stake == IF units = 0 THEN None ELSE a.stake
           touched == ~(units = 0) /\ a.touched
<1>1. Ordered(a, cash, units, basis, earned, fees, streak, openedAt)
        = [a EXCEPT !.cash = cash, !.units = units, !.basis = basis, !.earned = earned,
                    !.fees = fees, !.streak = streak, !.openedAt = openedAt,
                    !.stop = stop, !.stake = stake, !.touched = touched]
  BY Zenon DEF Ordered
<1> HIDE DEF stop, stake, touched
<1>2. [[a EXCEPT !.cash = cash, !.earned = earned, !.fees = fees, !.streak = streak]
              EXCEPT !.units = units, !.basis = basis, !.openedAt = openedAt,
                     !.stop = stop, !.stake = stake, !.touched = touched]
        = [a EXCEPT !.cash = cash, !.units = units, !.basis = basis, !.earned = earned,
                    !.fees = fees, !.streak = streak, !.openedAt = openedAt,
                    !.stop = stop, !.stake = stake, !.touched = touched]
  BY DEF Desks
<1>3. BookedAndHeld(a, cash, units, basis, earned, fees, streak, openedAt)
        = [[a EXCEPT !.cash = cash, !.earned = earned, !.fees = fees, !.streak = streak]
              EXCEPT !.units = units, !.basis = basis, !.openedAt = openedAt,
                     !.stop = stop, !.stake = stake, !.touched = touched]
  BY Zenon DEF BookedAndHeld, stop, stake, touched
<1> QED BY <1>1, <1>2, <1>3

LEMMA PlacedIs ==
    ASSUME NEW a \in Desks, NEW units, NEW base
    PROVE  LET after == Applied(a, units, FillPrice(setup.exchange, units, base))
           IN Placed(a, units, base)
                = Snapshot(Ordered(a, CashAfter(a, units, base), after.units, after.basis,
                                   a.earned + 1000 * after.realized,
                                   a.fees + Fee(setup.exchange, units, base),
                                   StreakAfter(a.streak, after.realized),
                                   IF a.units = 0 THEN Time ELSE a.openedAt))
<1> DEFINE after == Applied(a, units, FillPrice(setup.exchange, units, base))
           cash == CashAfter(a, units, base)
           earned == a.earned + 1000 * after.realized
           fees == a.fees + Fee(setup.exchange, units, base)
           streak == StreakAfter(a.streak, after.realized)
           openedAt == IF a.units = 0 THEN Time ELSE a.openedAt
<1>1. Placed(a, units, base)
        = Snapshot(BookedAndHeld(a, cash, after.units, after.basis, earned, fees, streak, openedAt))
  BY Zenon DEF Placed, Booked, CashAfter, BookedAndHeld
<1> HIDE DEF after, cash, earned, fees, streak, openedAt
<1>2. Placed(a, units, base)
        = Snapshot(Ordered(a, cash, after.units, after.basis, earned, fees, streak, openedAt))
  BY <1>1, OrderedInTwo
<1> QED BY <1>2, Zenon DEF after, cash, earned, fees, streak, openedAt

(* What no order changes by itself.                                        *)
Kept(x, a) ==
    /\ x.lastOrder = a.lastOrder /\ x.seen = a.seen /\ x.overrun = a.overrun
    /\ (x.outage <=> a.outage) /\ x.denied = a.denied

LEMMA Placing ==
    ASSUME NEW a \in Desks, bar.close \in Int, Time \in Nat, setup.exchange \in Exchange,
           NEW units \in Int, NEW base \in Int, NEW after,
           after = Applied(a, units, FillPrice(setup.exchange, units, base)),
           after.units \in Int, after.basis \in Int, after.realized \in Int
    PROVE  LET x == Placed(a, units, base)
           IN /\ x \in Desks /\ Kept(x, a)
              /\ x.cash = CashAfter(a, units, base) /\ x.units = after.units
              /\ x.basis = after.basis
              /\ x.openedAt = (IF a.units = 0 THEN Time ELSE a.openedAt)
              /\ x.stop = (IF after.units = 0 THEN None ELSE a.stop)
              /\ x.stake = (IF after.units = 0 THEN None ELSE a.stake)
              /\ (x.touched <=> (after.units # 0 /\ a.touched))
<1> DEFINE cash == CashAfter(a, units, base)
           earned == a.earned + 1000 * after.realized
           fees == a.fees + Fee(setup.exchange, units, base)
           streak == StreakAfter(a.streak, after.realized)
           openedAt == IF a.units = 0 THEN Time ELSE a.openedAt
           o == Ordered(a, cash, after.units, after.basis, earned, fees, streak, openedAt)
           x == Placed(a, units, base)
<1>1. /\ a.cash \in Int /\ a.units \in Int /\ a.earned \in Int /\ a.fees \in Int
      /\ a.streak \in Nat /\ a.openedAt \in Nat
  BY DEF Desks
<1>2. cash \in Int
  BY <1>1, Cash
<1>3. earned \in Int /\ fees \in Int /\ openedAt \in Nat
  BY <1>1, Fees
<1>4. streak \in Nat
  BY <1>1 DEF StreakAfter
<1>5. x = Snapshot(o)
  BY PlacedIs
<1>6. openedAt = (IF a.units = 0 THEN Time ELSE a.openedAt)
  OBVIOUS
<1> HIDE DEF cash, earned, fees, streak, openedAt, x, o
<1>7. /\ o \in Desks
      /\ o.cash = cash /\ o.units = after.units /\ o.basis = after.basis /\ o.openedAt = openedAt
      /\ o.stop = (IF after.units = 0 THEN None ELSE a.stop)
      /\ o.stake = (IF after.units = 0 THEN None ELSE a.stake)
      /\ (o.touched <=> (after.units # 0 /\ a.touched))
      /\ o.lastOrder = a.lastOrder /\ o.seen = a.seen /\ o.overrun = a.overrun
      /\ (o.outage <=> a.outage) /\ o.denied = a.denied
  <2> DEFINE held == after.units
             worth == after.basis
  <2>1. held \in Int /\ worth \in Int
    OBVIOUS
  <2>2. o = Ordered(a, cash, held, worth, earned, fees, streak, openedAt)
    BY DEF o
  <2> HIDE DEF held, worth
  <2>3. OrderIs(o, a, cash, held, worth, openedAt)
    BY <1>2, <1>3, <1>4, <2>1, <2>2, OrderedIs
  <2> QED BY <2>3 DEF OrderIs, held, worth
<1>8. /\ x \in Desks
      /\ x.cash = o.cash /\ x.units = o.units /\ x.basis = o.basis
      /\ x.openedAt = o.openedAt /\ x.stop = o.stop /\ x.stake = o.stake
      /\ (x.touched <=> o.touched) /\ x.lastOrder = o.lastOrder /\ x.seen = o.seen
      /\ x.overrun = o.overrun /\ (x.outage <=> o.outage) /\ x.denied = o.denied
  BY <1>5, <1>7, SnapshotIs
<1>9. Kept(x, a)
  BY <1>7, <1>8 DEF Kept
<1> QED BY <1>6, <1>7, <1>8, <1>9 DEF x, cash

(* An order that closes the position, at an exit or a signal.              *)
LEMMA PlacedClosing ==
    ASSUME NEW a \in Desks, bar.close \in Int, Time \in Nat, setup.exchange \in Exchange,
           a.units # 0, NEW base \in Int
    PROVE  LET x == Placed(a, -a.units, base)
           IN /\ x \in Desks /\ Kept(x, a)
              /\ x.cash = CashAfter(a, -a.units, base) /\ x.units = 0 /\ x.basis = 0
              /\ x.stop = None /\ x.stake = None /\ ~x.touched /\ x.openedAt = a.openedAt
<1> DEFINE units == -a.units
           after == Applied(a, units, FillPrice(setup.exchange, units, base))
           x == Placed(a, units, base)
<1>1. a.units \in Int /\ a.basis \in Int /\ units \in Int
  BY DEF Desks
<1>2. FillPrice(setup.exchange, units, base) \in Int
  BY <1>1, Fills
<1> HIDE DEF x
<1>3. /\ after.units = 0 /\ after.basis = 0
      /\ after.realized = FillPrice(setup.exchange, units, base) * a.units - a.basis
  BY <1>1, <1>2, Closing
<1>4. after.realized \in Int
  BY <1>1, <1>2, <1>3
<1> HIDE DEF after, units
<1>5. /\ x \in Desks /\ Kept(x, a)
      /\ x.cash = CashAfter(a, units, base) /\ x.units = after.units
      /\ x.basis = after.basis
      /\ x.openedAt = (IF a.units = 0 THEN Time ELSE a.openedAt)
      /\ x.stop = (IF after.units = 0 THEN None ELSE a.stop)
      /\ x.stake = (IF after.units = 0 THEN None ELSE a.stake)
      /\ (x.touched <=> (after.units # 0 /\ a.touched))
  BY <1>1, <1>3, <1>4, Placing DEF x, after
<1> QED BY <1>3, <1>5 DEF x, units

(* An order that opens a position or adds to it.                           *)
LEMMA PlacedAdding ==
    ASSUME NEW a \in Desks, bar.close \in Int, Time \in Nat, setup.exchange \in Exchange,
           NEW units \in Int, units # 0, ~Opposite(a.units, units), NEW base \in Int
    PROVE  LET x == Placed(a, units, base)
           IN /\ x \in Desks /\ Kept(x, a)
              /\ x.cash = CashAfter(a, units, base) /\ x.units = a.units + units /\ x.units # 0
              /\ x.basis = a.basis + FillPrice(setup.exchange, units, base) * units
              /\ x.stop = a.stop /\ x.stake = a.stake /\ (x.touched <=> a.touched)
              /\ x.openedAt = (IF a.units = 0 THEN Time ELSE a.openedAt)
<1> DEFINE price == FillPrice(setup.exchange, units, base)
           after == Applied(a, units, price)
           x == Placed(a, units, base)
<1>1. a.units \in Int /\ a.basis \in Int
  BY DEF Desks
<1>2. price \in Int
  BY <1>1, Fills
<1> HIDE DEF x, price
<1>3. /\ after.units = a.units + units /\ after.basis = a.basis + price * units
      /\ after.realized = 0
  BY <1>1, <1>2, Adding
<1>4. a.units + units # 0 /\ a.units + units \in Int /\ a.basis + price * units \in Int
  BY <1>1, <1>2, OppositeIs
<1> HIDE DEF after
<1>5. /\ x \in Desks /\ Kept(x, a)
      /\ x.cash = CashAfter(a, units, base) /\ x.units = after.units
      /\ x.basis = after.basis
      /\ x.openedAt = (IF a.units = 0 THEN Time ELSE a.openedAt)
      /\ x.stop = (IF after.units = 0 THEN None ELSE a.stop)
      /\ x.stake = (IF after.units = 0 THEN None ELSE a.stake)
      /\ (x.touched <=> (after.units # 0 /\ a.touched))
  BY <1>3, <1>4, Placing DEF x, after, price
<1> QED BY <1>3, <1>4, <1>5 DEF x, price
-----------------------------------------------------------------------------
(* The steps of an evaluation.                                             *)
Told == /\ setup \in Setup /\ setup.exchange \in Exchange /\ GoodBar(bar) /\ bar.close \in Int
        /\ now \in Nat /\ late \in Nat /\ Time \in Nat /\ recent \in Seq(Bars)

(* Of the bars that reached the stop, the first.                           *)
LEMMA FirstStop ==
    ASSUME Told, NEW a \in Desks, StopBars(a) # {}
    PROVE  LET i == Min(StopBars(a))
           IN /\ i \in StopBars(a) /\ i \in 1 .. Len(recent) /\ recent[i] \in Bars
              /\ NumberOf(i) > a.openedAt /\ a.units # 0 /\ a.stop \in Int
              /\ ProtectiveExit(recent[i], a.units, a.stop, None).price \in Int
<1>1. recent \in Seq(Bars) /\ Len(recent) \in Nat /\ DOMAIN recent = 1 .. Len(recent)
  BY DEF Told
<1>2. StopBars(a) \in SUBSET Nat
  BY <1>1 DEF StopBars
<1>3. \E m \in StopBars(a) : \A n \in StopBars(a) : m <= n
  BY <1>2, Least
<1> DEFINE i == Min(StopBars(a))
<1>4. i \in StopBars(a)
  BY <1>3 DEF Min
<1> HIDE DEF i
<1>5. /\ i \in 1 .. Len(recent) /\ NumberOf(i) > a.openedAt /\ Reached(a, recent[i])
  BY <1>1, <1>4 DEF StopBars
<1>6. recent[i] \in Bars
  BY <1>1, <1>5
<1>7. a.units # 0 /\ a.stop # None /\ ProtectiveExit(recent[i], a.units, a.stop, None) # NoExit
  BY <1>5 DEF Reached
<1>8. a.units \in Int /\ a.stop \in Int
  BY <1>7 DEF Desks, MaybeInt
<1>9. Priced(recent[i])
  BY <1>6, BarsGood DEF GoodBar
<1>10. ProtectiveExit(recent[i], a.units, a.stop, None).price \in Int
  BY <1>7, <1>8, <1>9, ExitsTraded DEF MaybeInt
<1> QED BY <1>4, <1>5, <1>6, <1>7, <1>8, <1>10 DEF i

(* A position that was closed at its stop, for `exit`.                     *)
LeftAt(x, a, exit) ==
    /\ x \in Desks /\ x.cash = CashAfter(a, -a.units, exit) /\ x.units = 0 /\ x.basis = 0
    /\ x.stop = None /\ x.stake = None /\ ~x.touched /\ x.openedAt = a.openedAt
    /\ x.lastOrder = a.lastOrder /\ x.seen = a.seen /\ (x.outage <=> a.outage)
    /\ x.denied = a.denied
    /\ x.overrun = IF a.stake = None \/ exit # a.stop THEN 0
                   ELSE a.stake.cash - x.cash - a.stake.budget - Fee(setup.exchange, a.units, exit)

LEMMA Stopping ==
    ASSUME Told, NEW a \in Desks
    PROVE  /\ StopBars(a) = {} => ClosedAtStop(a) = a
           /\ StopBars(a) # {} =>
                LeftAt(ClosedAtStop(a), a,
                       ProtectiveExit(recent[Min(StopBars(a))], a.units, a.stop, None).price)
<1>1. ASSUME StopBars(a) = {} PROVE ClosedAtStop(a) = a
  BY <1>1 DEF ClosedAtStop
<1>2. ASSUME StopBars(a) # {}
      PROVE  LeftAt(ClosedAtStop(a), a,
                    ProtectiveExit(recent[Min(StopBars(a))], a.units, a.stop, None).price)
  <2> DEFINE exit == ProtectiveExit(recent[Min(StopBars(a))], a.units, a.stop, None).price
             closed == Placed(a, -a.units, exit)
             overrun == IF a.stake = None \/ exit # a.stop THEN 0
                        ELSE a.stake.cash - closed.cash - a.stake.budget
                             - Fee(setup.exchange, a.units, exit)
             x == ClosedAtStop(a)
  <2>1. a.units # 0 /\ exit \in Int
    BY <1>2, FirstStop
  <2>2. x = [closed EXCEPT !.overrun = overrun]
    BY <1>2, Zenon DEF ClosedAtStop
  <2> HIDE DEF exit, x
  <2>3. /\ closed \in Desks /\ Kept(closed, a)
        /\ closed.cash = CashAfter(a, -a.units, exit) /\ closed.units = 0 /\ closed.basis = 0
        /\ closed.stop = None /\ closed.stake = None /\ ~closed.touched
        /\ closed.openedAt = a.openedAt
    BY <2>1, PlacedClosing DEF Told
  <2>4. overrun \in Int
    <3>1. Fee(setup.exchange, a.units, exit) \in Int
      BY <2>1, Fees DEF Desks
    <3>2. a.stake # None => a.stake.cash \in Int /\ a.stake.budget \in Int
      BY DEF Desks, Stake
    <3>3. closed.cash \in Int
      BY <2>3 DEF Desks
    <3> HIDE DEF closed
    <3> QED BY <3>1, <3>2, <3>3
  <2>5. overrun = IF a.stake = None \/ exit # a.stop THEN 0
                  ELSE a.stake.cash - closed.cash - a.stake.budget
                       - Fee(setup.exchange, a.units, exit)
    OBVIOUS
  <2> HIDE DEF closed, overrun
  <2>6. x \in Desks
    BY <2>2, <2>3, <2>4 DEF Desks
  <2>7. /\ x.cash = closed.cash /\ x.units = closed.units /\ x.basis = closed.basis
        /\ x.stop = closed.stop /\ x.stake = closed.stake /\ x.touched = closed.touched
        /\ x.openedAt = closed.openedAt /\ x.lastOrder = closed.lastOrder
        /\ x.seen = closed.seen /\ x.outage = closed.outage /\ x.denied = closed.denied
        /\ x.overrun = overrun
    BY <2>2, <2>3 DEF Desks
  <2>8. LeftAt(x, a, exit)
    BY <2>3, <2>5, <2>6, <2>7 DEF LeftAt, Kept
  <2> QED BY <2>8 DEF x, exit
<1> QED BY <1>1, <1>2

LEMMA JudgedLive ==
    ASSUME Told, NEW a \in Desks
    PROVE  LET s == LiveState(a)
           IN /\ Judgeable(s) /\ s.exchange = setup.exchange /\ s.price = bar.close
              /\ s.equity = EquityAt(a, bar.close) /\ s.cash = a.cash
              /\ s.risk = OpenRisk(a, bar.close) /\ s.peak = a.peak /\ s.losses = a.streak
<1>1. a.cash \in Int /\ a.units \in Int /\ a.basis \in Int /\ bar.close \in Nat \ {0}
  BY DEF Desks, GoodBar, Priced, Told
<1>2. EquityAt(a, bar.close) \in Int /\ OpenRisk(a, bar.close) \in Int
  BY <1>1, Equities, Risks
<1> DEFINE s == LiveState(a)
<1>3. /\ s.exchange = setup.exchange /\ s.price = bar.close /\ s.equity = EquityAt(a, bar.close)
      /\ s.cash = a.cash /\ s.risk = OpenRisk(a, bar.close) /\ s.peak = a.peak
      /\ s.losses = a.streak
  BY DEF LiveState
<1> HIDE DEF s
<1>4. Judgeable(s)
  BY <1>1, <1>2, <1>3 DEF Judgeable, Told
<1> QED BY <1>3, <1>4 DEF s

(* A position opened by an order of q, or added to.                        *)
OpenedWith(y, a, q) ==
    LET units == bar.says * q IN
    /\ y \in Desks /\ y.cash = CashAfter(a, units, bar.close) /\ y.units = a.units + units
    /\ y.units # 0 /\ y.basis = a.basis + FillPrice(setup.exchange, units, bar.close) * units
    /\ y.openedAt = IF a.units = 0 THEN Time ELSE a.openedAt
    /\ y.stop = IF a.units # 0 THEN a.stop
                ELSE IF setup.policy # "stop_loss" THEN None
                ELSE EntryStop(units, FillPrice(setup.exchange, units, bar.close),
                               StopDistance(setup.exchange))
    /\ y.stake = IF a.units # 0 THEN None
                 ELSE [cash |-> a.cash,
                       budget |-> (EquityAt(a, bar.close) * Rules.initial.perTrade) \div 1000]
    /\ (y.touched <=> a.touched) /\ y.lastOrder = Time /\ y.seen = a.seen
    /\ y.overrun = a.overrun /\ (y.outage <=> a.outage) /\ y.denied = a.denied

LEMMA Opening ==
    ASSUME Told, NEW a \in Desks, bar.says # 0, ~Opposite(a.units, bar.says),
           Approves(LiveState(a))
    PROVE  OpenedWith(Opened(a), a, Quantity(LiveState(a)))
<1> DEFINE s == LiveState(a)
           q == Quantity(s)
           units == bar.says * q
           price == FillPrice(setup.exchange, units, bar.close)
           p == Placed(a, units, bar.close)
           after == [p EXCEPT !.lastOrder = Time]
           budget == (s.equity * Rules.initial.perTrade) \div 1000
           stake == [cash |-> a.cash, budget |-> budget]
           stop == IF setup.policy # "stop_loss" THEN None
                   ELSE EntryStop(units, price, StopDistance(setup.exchange))
           y == Opened(a)
<1>1. a.units \in Int /\ a.cash \in Int /\ bar.says \in {-1, 1} /\ setup.exchange \in Exchange
  BY DEF Desks, Told, GoodBar
<1>2. Judgeable(s) /\ s.equity = EquityAt(a, bar.close)
  BY JudgedLive
<1>3. q \in Nat \ {0}
  BY <1>2, ApprovedSizes
<1>4. budget \in Int
  <2>1. s.equity * Rules.initial.perTrade \in Int
    BY <1>2, RulesAssumption DEF Judgeable
  <2> QED BY <2>1, DivIs
<1>5. y = IF a.units # 0 THEN [after EXCEPT !.stake = None]
          ELSE [after EXCEPT !.stop = stop, !.stake = stake]
  BY Zenon DEF Opened
<1>6. budget = (EquityAt(a, bar.close) * Rules.initial.perTrade) \div 1000
  BY <1>2
<1> HIDE DEF s, q, y
<1>7. /\ units \in Int /\ units # 0 /\ ~Opposite(a.units, units)
  BY <1>1, <1>3, Directions
<1> HIDE DEF units, p, budget
<1>8. /\ p \in Desks /\ Kept(p, a)
      /\ p.cash = CashAfter(a, units, bar.close) /\ p.units = a.units + units /\ p.units # 0
      /\ p.basis = a.basis + price * units
      /\ p.stop = a.stop /\ p.stake = a.stake /\ (p.touched <=> a.touched)
      /\ p.openedAt = (IF a.units = 0 THEN Time ELSE a.openedAt)
  BY <1>1, <1>7, PlacedAdding DEF Told, p
<1>9. price \in Int /\ StopDistance(setup.exchange) \in Int
  BY <1>1, <1>7, Fills, Distances DEF Told
<1>10. stop \in MaybeInt
  <2> HIDE DEF price
  <2>1. Sign(units) * StopDistance(setup.exchange) \in Int
    BY <1>7, <1>9, Signs
  <2> QED BY <1>9, <2>1 DEF EntryStop, MaybeInt
<1>11. stake \in Stake /\ Time \in MaybeInt
  BY <1>1, <1>4 DEF Stake, MaybeInt, Told
<1>12. /\ y \in Desks /\ y.cash = p.cash /\ y.units = p.units /\ y.basis = p.basis
       /\ y.openedAt = p.openedAt /\ y.touched = p.touched /\ y.lastOrder = Time
       /\ y.seen = p.seen /\ y.overrun = p.overrun /\ y.outage = p.outage /\ y.denied = p.denied
       /\ (a.units # 0 => y.stop = p.stop /\ y.stake = None)
       /\ (a.units = 0 => y.stop = stop /\ y.stake = stake)
  <2> HIDE DEF stop, stake
  <2>1. CASE a.units # 0
    <3>1. y = [[p EXCEPT !.lastOrder = Time] EXCEPT !.stake = None]
      BY <1>5, <2>1
    <3>2. y \in Desks
      BY <1>8, <1>11, <3>1 DEF Desks
    <3> QED BY <1>8, <2>1, <3>1, <3>2 DEF Desks
  <2>2. CASE a.units = 0
    <3>1. y = [[p EXCEPT !.lastOrder = Time] EXCEPT !.stop = stop, !.stake = stake]
      BY <1>5, <2>2
    <3>2. y \in Desks
      BY <1>8, <1>10, <1>11, <3>1 DEF Desks
    <3> QED BY <1>8, <2>2, <3>1, <3>2 DEF Desks
  <2> QED BY <2>1, <2>2
<1>13. OpenedWith(y, a, q)
  BY <1>6, <1>8, <1>12 DEF OpenedWith, Kept, units
<1> QED BY <1>13 DEF y, q, s

Levels == [Cause -> Level]

LEMMA Syncing ==
    ASSUME NEW h \in Levels, NEW s
    PROVE  /\ HaltsSynced(h, s) \in Levels
           /\ \A c \in Lock : HaltsSynced(h, s)[c] = h[c]
<1>1. \A c \in Cause : Judged(TRUE, h[c]) \in Level /\ Judged(FALSE, h[c]) \in Level
  BY DEF Judged, StepDown, Level
<1>2. {"data_delay", "daily_loss_dd_limit"} \subseteq Cause
  BY DEF Cause
<1> DEFINE late2 == Judged("data_delay" \in Past(s, Rules.hard), h["data_delay"])
           lost == Judged({"daily_loss", "weekly_loss", "peak_drawdown"} \cap Past(s, Rules.hard) # {},
                          h["daily_loss_dd_limit"])
<1>3. late2 \in Level /\ lost \in Level
  BY <1>2 DEF Judged, StepDown, Level
<1>4. \/ HaltsSynced(h, s) = h
      \/ HaltsSynced(h, s) = [h EXCEPT !["data_delay"] = late2, !["daily_loss_dd_limit"] = lost]
  BY DEF HaltsSynced
<1> HIDE DEF late2, lost
<1> QED BY <1>2, <1>3, <1>4 DEF Levels, Lock, Cause

LEMMA Locking ==
    ASSUME NEW h \in Levels, NEW a
    PROVE  LET g == LocksSynced(h, a)
           IN /\ g \in Levels
              /\ a.streak > Rules.initial.losses => g["consecutive_loss_limit"] = "entry_halted"
              /\ Lost([equity |-> EquityAt(a, bar.close)], a.peak, Rules.initial.drawdown)
                   => g["peak_drawdown_limit"] = "entry_halted"
<1>1. {"consecutive_loss_limit", "peak_drawdown_limit"} \subseteq Cause
  BY DEF Cause, Lock
<1> DEFINE streak == IF a.streak > Rules.initial.losses THEN "entry_halted"
                     ELSE h["consecutive_loss_limit"]
           drawn == IF Lost([equity |-> EquityAt(a, bar.close)], a.peak, Rules.initial.drawdown)
                    THEN "entry_halted" ELSE h["peak_drawdown_limit"]
<1>2. streak \in Level /\ drawn \in Level
  BY <1>1 DEF Level, Levels
<1>3. LocksSynced(h, a) = [h EXCEPT !["consecutive_loss_limit"] = streak,
                                    !["peak_drawdown_limit"] = drawn]
  BY Zenon DEF LocksSynced
<1>4. /\ a.streak > Rules.initial.losses => streak = "entry_halted"
      /\ Lost([equity |-> EquityAt(a, bar.close)], a.peak, Rules.initial.drawdown)
           => drawn = "entry_halted"
  OBVIOUS
<1> HIDE DEF streak, drawn
<1> QED BY <1>1, <1>2, <1>3, <1>4 DEF Levels

(* What the signal of a bar leads to.                                      *)
LEMMA Deciding ==
    ASSUME Told, NEW a \in Desks, NEW h \in Levels
    PROVE  LET d == Decided(a, h)
           IN /\ d.desk \in Desks /\ d.halt \in Levels /\ \A c \in Lock : d.halt[c] = h[c]
              /\ \/ d.desk = a /\ ~Opposite(a.units, bar.says)
                 \/ /\ d.desk = [a EXCEPT !.denied = Past(LiveState(a), Rules.initial)
                                                       \cup Past(LiveState(a), Rules.hard)]
                    /\ bar.says # 0 /\ ~Opposite(a.units, bar.says)
                 \/ /\ d.desk = Placed(a, -a.units, bar.close) /\ Opposite(a.units, bar.says)
                    /\ bar.says # 0 /\ a.units # 0
                 \/ /\ OpenedWith(d.desk, a, Quantity(LiveState(a)))
                    /\ bar.says # 0 /\ ~Opposite(a.units, bar.says) /\ Approves(LiveState(a))
<1> DEFINE s == LiveState(a)
           d == Decided(a, h)
           gated == HaltsSynced(h, s)
           denied == Past(s, Rules.initial) \cup Past(s, Rules.hard)
<1>1. a.units \in Int /\ bar.says \in {-1, 0, 1} /\ bar.close \in Int
  BY DEF Desks, Told, GoodBar
<1>2. gated \in Levels /\ \A c \in Lock : gated[c] = h[c]
  BY Syncing
<1>3. CASE bar.says = 0
  <2>1. ~Opposite(a.units, bar.says)
    BY <1>1, <1>3, OppositeIs
  <2>2. d = [desk |-> a, halt |-> h]
    BY <1>3, <2>1, Zenon DEF Decided
  <2> HIDE DEF d
  <2>3. d.desk = a /\ d.halt = h
    BY <2>2
  <2> QED BY <2>1, <2>3, Zenon DEF d
<1>4. CASE bar.says # 0 /\ Opposite(a.units, bar.says)
  <2>1. d = [desk |-> Placed(a, -a.units, bar.close), halt |-> h]
    BY <1>4, Zenon DEF Decided
  <2>2. a.units # 0
    BY <1>1, <1>4, OppositeIs
  <2> HIDE DEF d
  <2>3. d.desk = Placed(a, -a.units, bar.close) /\ d.halt = h
    BY <2>1
  <2>4. d.desk \in Desks
    BY <1>1, <2>2, <2>3, PlacedClosing DEF Told
  <2> QED BY <1>4, <2>2, <2>3, <2>4, Zenon DEF d
<1>5. CASE bar.says # 0 /\ ~Opposite(a.units, bar.says)
  <2> DEFINE desk == CASE ~Approves(s) -> [a EXCEPT !.denied = denied]
                       [] Approves(s) /\ Halted(gated) -> a
                       [] OTHER -> Opened(a)
  <2>1. d = [desk |-> desk, halt |-> gated]
    BY <1>5, Zenon DEF Decided
  <2>2. \/ ~Approves(s) /\ desk = [a EXCEPT !.denied = denied]
        \/ desk = a
        \/ Approves(s) /\ desk = Opened(a)
    OBVIOUS
  <2>3. [a EXCEPT !.denied = denied] \in Desks
    <3>1. denied \in SUBSET Measure
      BY DEF Past
    <3> HIDE DEF denied
    <3> QED BY <3>1 DEF Desks
  <2>4. Approves(s) => OpenedWith(Opened(a), a, Quantity(s))
    BY <1>5, Opening
  <2> HIDE DEF d, gated, desk, s, denied
  <2>5. d.desk = desk /\ d.halt = gated
    BY <2>1
  <2>6. desk \in Desks
    BY <2>2, <2>3, <2>4 DEF OpenedWith
  <2>7. \/ d.desk = a
        \/ d.desk = [a EXCEPT !.denied = denied]
        \/ OpenedWith(d.desk, a, Quantity(s)) /\ Approves(s)
    BY <2>2, <2>4, <2>5
  <2>8. d.desk \in Desks /\ d.halt \in Levels /\ \A c \in Lock : d.halt[c] = h[c]
    BY <1>2, <2>5, <2>6
  <2> QED BY <1>5, <2>7, <2>8, Zenon DEF d, s, denied
<1> QED BY <1>1, <1>3, <1>4, <1>5
-----------------------------------------------------------------------------
(* The desk: its account, its halts and the bars it reads.                 *)
Unheld(x) == x.units = 0 => x.stop = None /\ x.basis = 0 /\ x.stake = None /\ ~x.touched

DeskInv ==
    /\ ReplayInv /\ late \in Nat /\ live \in Desks /\ halt \in Levels /\ recent \in Seq(Bars)
    /\ Len(recent) = IF now < Window THEN now ELSE Window
    /\ now > 0 => bar \in Bars /\ recent[Len(recent)] = bar
    /\ live.seen <= now /\ Unheld(live)

LEMMA LatestIsTold == ASSUME DeskInv, now > 0 PROVE Told
<1>1. setup \in Setup /\ now \in Nat /\ late \in Nat /\ recent \in Seq(Bars)
  BY DEF DeskInv, ReplayInv
<1>2. setup.exchange \in Exchange
  BY <1>1, SeriesAssumption DEF Exchange
<1>3. GoodBar(bar) /\ bar.close \in Int
  BY BarsGood DEF DeskInv, GoodBar, Priced
<1> QED BY <1>1, <1>2, <1>3 DEF Told, Time

(* The account as an evaluation begins, and what it leaves of it.          *)
Woken ==
    [live EXCEPT !.seen = now, !.denied = {},
                 !.outage = @ \/ (live.units # 0 /\ now - live.seen > Window)]

WokenIs(a) ==
    /\ a \in Desks /\ a.cash = live.cash /\ a.units = live.units /\ a.basis = live.basis
    /\ a.stop = live.stop /\ a.openedAt = live.openedAt /\ a.stake = live.stake
    /\ a.lastOrder = live.lastOrder /\ a.overrun = live.overrun /\ a.streak = live.streak
    /\ a.peak = live.peak /\ a.seen = now /\ a.denied = {} /\ (a.touched <=> live.touched)
    /\ (a.outage <=> (live.outage \/ (live.units # 0 /\ now - live.seen > Window)))

StoppedFrom(t, a) ==
    /\ t \in Desks
    /\ \/ StopBars(a) = {} /\ t = a
       \/ StopBars(a) # {}
          /\ LeftAt(t, a, ProtectiveExit(recent[Min(StopBars(a))], a.units, a.stop, None).price)

DecidedFrom(y, t) ==
    /\ y \in Desks
    /\ \/ y = t /\ ~Opposite(t.units, bar.says)
       \/ /\ y = [t EXCEPT !.denied = Past(LiveState(t), Rules.initial)
                                        \cup Past(LiveState(t), Rules.hard)]
          /\ bar.says # 0 /\ ~Opposite(t.units, bar.says)
       \/ /\ y = Placed(t, -t.units, bar.close) /\ Opposite(t.units, bar.says)
          /\ bar.says # 0 /\ t.units # 0
       \/ /\ OpenedWith(y, t, Quantity(LiveState(t)))
          /\ bar.says # 0 /\ ~Opposite(t.units, bar.says) /\ Approves(LiveState(t))

LEMMA Evaluating ==
    ASSUME DeskInv, Evaluate
    PROVE  /\ Told /\ now > 0
           /\ \E a, t : /\ WokenIs(a) /\ StoppedFrom(t, a) /\ DecidedFrom(live', t)
                        /\ parted' = (parted \/ late > 0
                                      \/ (live'.lastOrder = now) # (replay.lastOrder = now))
           /\ halt' \in Levels /\ \A c \in Lock : halt'[c] = LocksSynced(halt, live)[c]
           /\ UNCHANGED <<setup, bar, now, replay, recent, late>>
<1>1. /\ now > 0 /\ UNCHANGED <<setup, bar, now, replay, recent, late>>
      /\ live' = Decided(ClosedAtStop(Woken), LocksSynced(halt, live)).desk
      /\ halt' = Decided(ClosedAtStop(Woken), LocksSynced(halt, live)).halt
      /\ parted' = (parted \/ late > 0
                      \/ (Decided(ClosedAtStop(Woken), LocksSynced(halt, live)).desk.lastOrder = now)
                           # (replay.lastOrder = now))
  BY Zenon DEF Evaluate, Woken
<1>2. Told
  BY <1>1, LatestIsTold
<1> DEFINE a == Woken
           t == ClosedAtStop(a)
           h == LocksSynced(halt, live)
           d == Decided(t, h)
<1>3. WokenIs(a)
  <2> DEFINE out == live.outage \/ (live.units # 0 /\ now - live.seen > Window)
  <2>1. a = [live EXCEPT !.seen = now, !.denied = {}, !.outage = out]
    BY Zenon DEF Woken
  <2>2. live \in Desks /\ now \in Nat
    BY DEF DeskInv, ReplayInv
  <2>3. out \in BOOLEAN /\ (out <=> (live.outage \/ (live.units # 0 /\ now - live.seen > Window)))
    BY <2>2 DEF Desks
  <2> HIDE DEF a, out
  <2>4. a \in Desks
    BY <2>1, <2>2, <2>3 DEF Desks
  <2>5. /\ a.cash = live.cash /\ a.units = live.units /\ a.basis = live.basis
        /\ a.stop = live.stop /\ a.openedAt = live.openedAt /\ a.stake = live.stake
        /\ a.lastOrder = live.lastOrder /\ a.overrun = live.overrun /\ a.streak = live.streak
        /\ a.peak = live.peak /\ a.seen = now /\ a.denied = {} /\ a.touched = live.touched
        /\ a.outage = out
    BY <2>1, <2>2 DEF Desks
  <2> QED BY <2>3, <2>4, <2>5, Zenon DEF WokenIs
<1> HIDE DEF a
<1>4. a \in Desks
  BY <1>3 DEF WokenIs
<1>5. StoppedFrom(t, a)
  <2>1. t \in Desks
    BY <1>2, <1>4, Stopping DEF LeftAt
  <2> QED BY <1>2, <1>4, <2>1, Stopping DEF StoppedFrom
<1>6. t \in Desks /\ h \in Levels
  BY <1>5, Locking DEF StoppedFrom, DeskInv
<1> HIDE DEF t
<1>7. /\ d.desk \in Desks /\ d.halt \in Levels /\ \A c \in Lock : d.halt[c] = h[c]
      /\ DecidedFrom(d.desk, t)
  BY <1>2, <1>6, Deciding DEF DecidedFrom
<1>8. live' = d.desk /\ halt' = d.halt
  BY <1>1 DEF a, t
<1>9. parted' = (parted \/ late > 0 \/ (d.desk.lastOrder = now) # (replay.lastOrder = now))
  BY <1>1, Zenon DEF a, t
<1> HIDE DEF d, h
<1>10. parted' = (parted \/ late > 0 \/ (live'.lastOrder = now) # (replay.lastOrder = now))
  BY <1>8, <1>9, Zenon
<1> QED BY <1>1, <1>2, <1>3, <1>5, <1>7, <1>8, <1>10, Zenon DEF h

(* What a decision leaves of the account it is made for.                   *)
SameHolding(y, t) ==
    /\ y.cash = t.cash /\ y.units = t.units /\ y.basis = t.basis /\ y.stop = t.stop
    /\ y.openedAt = t.openedAt /\ y.stake = t.stake /\ (y.touched <=> t.touched)
    /\ y.lastOrder = t.lastOrder

ClosedFrom(y, t) ==
    /\ y.cash = CashAfter(t, -t.units, bar.close) /\ y.units = 0 /\ y.basis = 0 /\ y.stop = None
    /\ y.stake = None /\ ~y.touched /\ y.openedAt = t.openedAt /\ y.lastOrder = t.lastOrder

LEMMA DecisionIs ==
    ASSUME Told, NEW t \in Desks, NEW y, DecidedFrom(y, t)
    PROVE  /\ y \in Desks /\ y.seen = t.seen /\ y.overrun = t.overrun /\ (y.outage <=> t.outage)
           /\ \/ SameHolding(y, t) /\ ~Opposite(t.units, bar.says)
              \/ ClosedFrom(y, t) /\ Opposite(t.units, bar.says) /\ bar.says # 0 /\ t.units # 0
              \/ /\ OpenedWith(y, t, Quantity(LiveState(t))) /\ bar.says # 0
                 /\ ~Opposite(t.units, bar.says) /\ Approves(LiveState(t))
<1>1. y \in Desks
  BY DEF DecidedFrom
<1>2. CASE y = t /\ ~Opposite(t.units, bar.says)
  BY <1>1, <1>2 DEF SameHolding
<1>3. CASE /\ y = [t EXCEPT !.denied = Past(LiveState(t), Rules.initial)
                                        \cup Past(LiveState(t), Rules.hard)]
           /\ bar.says # 0 /\ ~Opposite(t.units, bar.says)
  <2> DEFINE denied == Past(LiveState(t), Rules.initial) \cup Past(LiveState(t), Rules.hard)
  <2>1. y = [t EXCEPT !.denied = denied]
    BY <1>3
  <2> HIDE DEF denied
  <2>2. /\ y.cash = t.cash /\ y.units = t.units /\ y.basis = t.basis /\ y.stop = t.stop
        /\ y.openedAt = t.openedAt /\ y.stake = t.stake /\ y.touched = t.touched
        /\ y.lastOrder = t.lastOrder /\ y.seen = t.seen /\ y.overrun = t.overrun
        /\ y.outage = t.outage
    BY <2>1 DEF Desks
  <2> QED BY <1>1, <1>3, <2>2 DEF SameHolding
<1>4. CASE /\ y = Placed(t, -t.units, bar.close) /\ Opposite(t.units, bar.says)
           /\ bar.says # 0 /\ t.units # 0
  <2>1. /\ Kept(y, t) /\ y.cash = CashAfter(t, -t.units, bar.close) /\ y.units = 0
        /\ y.basis = 0 /\ y.stop = None /\ y.stake = None /\ ~y.touched
        /\ y.openedAt = t.openedAt
    BY <1>4, PlacedClosing DEF Told
  <2> QED BY <1>1, <1>4, <2>1 DEF Kept, ClosedFrom
<1>5. CASE /\ OpenedWith(y, t, Quantity(LiveState(t)))
           /\ bar.says # 0 /\ ~Opposite(t.units, bar.says) /\ Approves(LiveState(t))
  <2>1. y.seen = t.seen /\ y.overrun = t.overrun /\ (y.outage <=> t.outage)
    BY <1>5 DEF OpenedWith
  <2> QED BY <1>1, <1>5, <2>1
<1> QED BY <1>2, <1>3, <1>4, <1>5 DEF DecidedFrom

(* A lock that an Owner releases.                                          *)
Released(x, r) ==
    /\ x \in Desks /\ x.cash = r.cash /\ x.units = r.units /\ x.basis = r.basis
    /\ x.stop = r.stop /\ x.openedAt = r.openedAt /\ x.stake = r.stake
    /\ x.lastOrder = r.lastOrder /\ x.seen = r.seen /\ x.overrun = r.overrun
    /\ (x.touched <=> r.touched) /\ (x.outage <=> r.outage)

LEMMA Releasing ==
    ASSUME DeskInv, NEW c \in Cause, ReleaseLock(c)
    PROVE  Released(live', live) /\ halt' \in Levels /\ parted'
           /\ UNCHANGED <<setup, bar, now, replay, recent, late>>
<1> DEFINE streak == IF c = "consecutive_loss_limit" THEN 0 ELSE live.streak
           peak == IF c = "peak_drawdown_limit" THEN None ELSE live.peak
<1>1. live \in Desks /\ halt \in Levels
  BY DEF DeskInv
<1>2. streak \in Nat /\ peak \in MaybeInt
  BY <1>1 DEF Desks, MaybeInt
<1>3. live' = [live EXCEPT !.denied = {}, !.streak = streak, !.peak = peak]
  BY Zenon DEF ReleaseLock
<1> HIDE DEF streak, peak
<1>4. live' \in Desks
  BY <1>1, <1>2, <1>3 DEF Desks
<1>5. /\ live'.cash = live.cash /\ live'.units = live.units /\ live'.basis = live.basis
      /\ live'.stop = live.stop /\ live'.openedAt = live.openedAt /\ live'.stake = live.stake
      /\ live'.lastOrder = live.lastOrder /\ live'.seen = live.seen
      /\ live'.overrun = live.overrun /\ live'.touched = live.touched
      /\ live'.outage = live.outage
  BY <1>1, <1>3 DEF Desks
<1>6. halt' \in Levels
  BY <1>1 DEF ReleaseLock, Levels, Level
<1> QED BY <1>4, <1>5, <1>6 DEF Released, ReleaseLock

(* A bar that closes: the window moves, and the position may be touched.   *)
TouchedBy(x, b) ==
    /\ x \in Desks /\ x.cash = live.cash /\ x.units = live.units /\ x.basis = live.basis
    /\ x.stop = live.stop /\ x.openedAt = live.openedAt /\ x.stake = live.stake
    /\ x.lastOrder = live.lastOrder /\ x.seen = live.seen /\ x.overrun = live.overrun
    /\ (x.touched <=> (live.touched \/ (now + 1 > live.openedAt /\ Reached(live, b))))
    /\ (x.outage <=> live.outage)

LEMMA BarClosing ==
    ASSUME DeskInv, NEW shape \in Shape, NEW says \in {-1, 0, 1}, BarCloses(shape, says)
    PROVE  /\ CloseBar(shape, says) /\ bar' \in Bars /\ now' = now + 1 /\ setup' = setup
           /\ TouchedBy(live', bar') /\ Slides(recent', recent, bar') /\ late' \in Nat /\ halt' = halt
           /\ parted' = (parted \/ live.seen # now \/ Len(bar'.probes) > 1)
<1>1. /\ CloseBar(shape, says) /\ halt' = halt
      /\ recent' = SubSeq(Append(recent, bar'), IF Len(recent) = Window THEN 2 ELSE 1,
                          Len(recent) + 1)
      /\ late' = Max({0, late - 1})
      /\ live' = [live EXCEPT !.touched = @ \/ (now' > live.openedAt /\ Reached(live, bar'))]
      /\ parted' = (parted \/ live.seen # now \/ Len(shape.probes) > 1)
  BY Zenon DEF BarCloses
<1>2. bar' = BarOf(shape, says) /\ now' = now + 1 /\ setup' = setup
  BY <1>1 DEF CloseBar
<1>3. bar' \in Bars /\ bar'.probes = shape.probes
  BY <1>2 DEF Bars, BarOf
<1>4. Slides(recent', recent, bar')
  <2>1. recent \in Seq(Bars) /\ Len(recent) <= Window
    BY WindowAssumption DEF DeskInv, ReplayInv
  <2> QED BY <1>1, <1>3, <2>1, Windows
<1>5. late' \in Nat
  <2>1. late \in Nat
    BY DEF DeskInv
  <2>2. late - 1 \in Int
    BY <2>1
  <2>3. Max({0, late - 1}) = IF 0 >= late - 1 THEN 0 ELSE late - 1
    BY <2>2, MaxOfTwo
  <2> QED BY <1>1, <2>1, <2>2, <2>3
<1>6. TouchedBy(live', bar')
  <2> DEFINE touched == live.touched \/ (now + 1 > live.openedAt /\ Reached(live, bar'))
  <2>1. live' = [live EXCEPT !.touched = touched]
    BY <1>1, <1>2, Zenon
  <2>2. live \in Desks /\ touched \in BOOLEAN
    BY DEF DeskInv, Desks
  <2>3. touched <=> (live.touched \/ (now + 1 > live.openedAt /\ Reached(live, bar')))
    OBVIOUS
  <2> HIDE DEF touched
  <2>4. live' \in Desks
    BY <2>1, <2>2 DEF Desks
  <2>5. /\ live'.cash = live.cash /\ live'.units = live.units /\ live'.basis = live.basis
        /\ live'.stop = live.stop /\ live'.openedAt = live.openedAt
        /\ live'.stake = live.stake /\ live'.lastOrder = live.lastOrder
        /\ live'.seen = live.seen /\ live'.overrun = live.overrun /\ live'.touched = touched
        /\ live'.outage = live.outage
    BY <2>1, <2>2 DEF Desks
  <2> QED BY <2>3, <2>4, <2>5, Zenon DEF TouchedBy
<1>7. parted' = (parted \/ live.seen # now \/ Len(bar'.probes) > 1)
  BY <1>1, <1>3, Zenon
<1> QED BY <1>1, <1>2, <1>3, <1>4, <1>5, <1>6, <1>7, Zenon

LEMMA UnheldKept ==
    ASSUME Told, NEW a, NEW t, NEW y, Unheld(a), StoppedFrom(t, a), DecidedFrom(y, t)
    PROVE  Unheld(t) /\ Unheld(y)
<1>1. t \in Desks /\ Unheld(t)
  BY DEF StoppedFrom, LeftAt, Unheld
<1>2. \/ SameHolding(y, t) \/ ClosedFrom(y, t) \/ OpenedWith(y, t, Quantity(LiveState(t)))
  BY <1>1, DecisionIs
<1>3. Unheld(y)
  BY <1>1, <1>2 DEF Unheld, SameHolding, ClosedFrom, OpenedWith
<1> QED BY <1>1, <1>3

LEMMA DeskStarts == Init => DeskInv
<1> SUFFICES ASSUME Init PROVE DeskInv
  OBVIOUS
<1>1. /\ ReplayInv /\ now = 0 /\ recent = <<>> /\ late = 0 /\ live = NewDesk
      /\ halt = [c \in Cause |-> "none"]
  BY ReplayStarts DEF Init, ReplayInit
<1>2. NewDesk \in Desks
  BY SeriesAssumption DEF NewDesk, Desks, MaybeInt
<1>3. Unheld(NewDesk) /\ NewDesk.seen = 0
  BY DEF NewDesk, Unheld
<1>4. halt \in Levels
  BY <1>1 DEF Levels, Level
<1>5. Len(recent) = 0 /\ recent \in Seq(Bars)
  BY <1>1
<1> QED BY <1>1, <1>2, <1>3, <1>4, <1>5, WindowAssumption DEF DeskInv

LEMMA DeskKept == DeskInv /\ [Next]_vars => DeskInv'
<1> SUFFICES ASSUME DeskInv, [Next]_vars PROVE DeskInv'
  OBVIOUS
<1>1. ReplayInv'
  BY ReplayKept DEF DeskInv
<1>2. live \in Desks /\ halt \in Levels /\ now \in Nat /\ late \in Nat /\ live.seen \in Nat
  BY DEF DeskInv, ReplayInv, Desks
<1>3. CASE Evaluate
  <2>1. PICK a, t : WokenIs(a) /\ StoppedFrom(t, a) /\ DecidedFrom(live', t)
    BY <1>3, Evaluating
  <2>2. /\ Told /\ halt' \in Levels /\ UNCHANGED <<setup, bar, now, replay, recent, late>>
    BY <1>3, Evaluating
  <2>3. Unheld(a)
    BY <2>1 DEF WokenIs, DeskInv, Unheld
  <2>4. Unheld(live')
    BY <2>1, <2>2, <2>3, UnheldKept
  <2>5. live' \in Desks /\ live'.seen = t.seen
    BY <2>1, <2>2, DecisionIs DEF StoppedFrom
  <2>6. t.seen = now
    BY <2>1 DEF StoppedFrom, LeftAt, WokenIs
  <2> QED BY <1>1, <1>2, <2>2, <2>4, <2>5, <2>6 DEF DeskInv, Unheld
<1>4. CASE \E shape \in Shape, says \in {-1, 0, 1} : BarCloses(shape, says)
  <2>1. PICK shape \in Shape, says \in {-1, 0, 1} : BarCloses(shape, says)
    BY <1>4
  <2>2. /\ bar' \in Bars /\ now' = now + 1
        /\ TouchedBy(live', bar') /\ Slides(recent', recent, bar') /\ late' \in Nat /\ halt' = halt
    BY <2>1, BarClosing
  <2>3. /\ live' \in Desks /\ live'.seen <= now'
    BY <1>2, <2>2 DEF TouchedBy, DeskInv
  <2>4. Unheld(live')
    BY <2>2 DEF TouchedBy, Reached, DeskInv, Unheld
  <2>5. /\ recent' \in Seq(Bars) /\ recent'[Len(recent')] = bar'
        /\ Len(recent') = IF now' < Window THEN now' ELSE Window
    <3>1. Len(recent) = IF now < Window THEN now ELSE Window
      BY DEF DeskInv
    <3> QED BY <1>2, <2>2, <3>1, WindowAssumption DEF Slides
  <2> QED BY <1>1, <1>2, <2>2, <2>3, <2>4, <2>5 DEF DeskInv, Unheld
<1>5. CASE BarIsLate
  BY <1>1, <1>2, <1>5 DEF BarIsLate, DeskInv, Unheld
<1>6. CASE \E c \in Lock : ReleaseLock(c)
  <2>1. PICK c \in Cause : ReleaseLock(c)
    BY <1>6 DEF Cause
  <2>2. Released(live', live) /\ halt' \in Levels
        /\ UNCHANGED <<setup, bar, now, replay, recent, late>>
    BY <2>1, Releasing
  <2>3. live' \in Desks /\ live'.seen <= now' /\ Unheld(live')
    BY <1>2, <2>2 DEF Released, DeskInv, Unheld
  <2> QED BY <1>1, <1>2, <2>2, <2>3 DEF DeskInv, Unheld
<1>7. CASE \E c \in Cause \ Lock : ReleaseOneStep(c)
  <2>1. halt' \in Levels
    BY <1>2, <1>7 DEF ReleaseOneStep, StepDown, Levels, Level
  <2> QED BY <1>1, <1>2, <1>7, <2>1 DEF ReleaseOneStep, DeskInv, Unheld
<1>8. CASE UNCHANGED vars
  BY <1>1, <1>2, <1>8 DEF vars, DeskInv, Unheld
<1> QED BY <1>3, <1>4, <1>5, <1>6, <1>7, <1>8 DEF Next

(* The hard limit of a lock is not below the one that raises it.           *)
LEMMA HardIsLost ==
    ASSUME NEW s, NEW from \in MaybeInt, s.equity \in Int, NEW equity, equity = s.equity,
           Lost(s, from, Rules.initial.drawdown) \/ Lost(s, from, Rules.hard.drawdown)
    PROVE  Lost([equity |-> equity], from, Rules.initial.drawdown)
<1>1. from \in Nat /\ from > s.equity /\ from # None
  BY DEF Lost, MaybeInt
<1>2. /\ Rules.initial.drawdown \in Nat /\ Rules.hard.drawdown \in Nat
      /\ Rules.initial.drawdown <= Rules.hard.drawdown
  BY RulesAssumption
<1> DEFINE low == from * Rules.initial.drawdown
           high == from * Rules.hard.drawdown
<1>3. low <= high
  BY <1>1, <1>2, MulMono
<1>4. low \in Int /\ high \in Int
  BY <1>1, <1>2
<1>5. (from - s.equity) * 1000 > low \/ (from - s.equity) * 1000 > high
  BY DEF Lost, Exceeds
<1> HIDE DEF low, high
<1>6. (from - s.equity) * 1000 > low
  BY <1>1, <1>3, <1>4, <1>5
<1> QED BY <1>1, <1>6 DEF Lost, Exceeds, low

(* An account is denied an entry for its losses or its drawdown only while *)
(* a halt of the lock says so, unless its position was closed at a stop in *)
(* the same evaluation (sync_lock_halts runs before the stop and the gate).*)
THEOREM LocksAreTold == Spec => NoSilentLock
<1> DEFINE Says == live'.seen # live.seen /\ (live.units = 0 \/ live'.units = live.units) =>
              /\ "consecutive_losses" \in live'.denied => halt'["consecutive_loss_limit"] # "none"
              /\ "peak_drawdown" \in live'.denied => halt'["peak_drawdown_limit"] # "none"
<1>1. DeskInv /\ [Next]_vars => [Says]_vars
  <2> SUFFICES ASSUME DeskInv, Next, live'.seen # live.seen,
                      live.units = 0 \/ live'.units = live.units
               PROVE  Says
    BY DEF Says
  <2>1. Evaluate
    <3>1. CASE \E shape \in Shape, says \in {-1, 0, 1} : BarCloses(shape, says)
      BY <3>1, BarClosing DEF TouchedBy
    <3>2. CASE \E c \in Lock : ReleaseLock(c)
      BY <3>2, Releasing DEF Released, Cause
    <3> QED BY <3>1, <3>2 DEF Next, BarIsLate, ReleaseOneStep
  <2>2. PICK a, t : WokenIs(a) /\ StoppedFrom(t, a) /\ DecidedFrom(live', t)
    BY <2>1, Evaluating
  <2>3. /\ Told /\ \A c \in Lock : halt'[c] = LocksSynced(halt, live)[c]
    BY <2>1, Evaluating
  <2>4. t \in Desks /\ live' \in Desks /\ t.denied = {} /\ live.units \in Int /\ live \in Desks
    BY <2>2 DEF StoppedFrom, DecidedFrom, LeftAt, WokenIs, DeskInv, Desks
  <2> DEFINE s == LiveState(t)
  <2>5. CASE live' = t
    BY <2>4, <2>5
  <2>6. CASE live' = Placed(t, -t.units, bar.close) /\ t.units # 0
    <3>1. live'.denied = t.denied
      BY <2>3, <2>4, <2>6, PlacedClosing DEF Told, Kept
    <3> QED BY <2>4, <3>1
  <2>7. CASE OpenedWith(live', t, Quantity(s))
    BY <2>4, <2>7 DEF OpenedWith
  <2>8. CASE live' = [t EXCEPT !.denied = Past(s, Rules.initial) \cup Past(s, Rules.hard)]
    <3> DEFINE denied == Past(s, Rules.initial) \cup Past(s, Rules.hard)
    <3>1. live'.denied = denied /\ live'.units = t.units
      <4>1. live' = [t EXCEPT !.denied = denied]
        BY <2>8
      <4> HIDE DEF denied
      <4> QED BY <2>4, <4>1 DEF Desks
    <3>2. StopBars(a) = {} /\ t = a
      <4>1. ASSUME StopBars(a) # {} PROVE FALSE
        <5>1. a.units # 0 /\ a.units = live.units /\ t.units = 0
          BY <2>2, <2>3, <4>1, FirstStop DEF StoppedFrom, LeftAt, WokenIs
        <5> QED BY <3>1, <5>1
      <4> QED BY <2>2, <4>1 DEF StoppedFrom
    <3>3. /\ Judgeable(s) /\ s.equity = EquityAt(t, bar.close) /\ s.peak = live.peak
          /\ s.losses = live.streak
      BY <2>2, <2>3, <2>4, <3>2, JudgedLive DEF WokenIs
    <3>4. EquityAt(t, bar.close) = EquityAt(live, bar.close)
      BY <2>2, <3>2 DEF WokenIs, EquityAt, Equity, MarketValue
    <3> HIDE DEF s
    <3>5. ASSUME "consecutive_losses" \in denied PROVE live.streak > Rules.initial.losses
      <4>1. live.streak > Rules.initial.losses \/ live.streak > Rules.hard.losses
        BY <3>3, <3>5 DEF Past
      <4> QED BY <2>4, <4>1, RulesAssumption DEF Desks
    <3>6. ASSUME "peak_drawdown" \in denied
          PROVE  Lost([equity |-> EquityAt(live, bar.close)], live.peak, Rules.initial.drawdown)
      <4>1. Lost(s, live.peak, Rules.initial.drawdown) \/ Lost(s, live.peak, Rules.hard.drawdown)
        BY <3>3, <3>6 DEF Past
      <4>2. live.peak \in MaybeInt /\ s.equity \in Int /\ EquityAt(live, bar.close) = s.equity
        BY <2>4, <3>3, <3>4 DEF Desks, Judgeable
      <4> QED BY <4>1, <4>2, HardIsLost
    <3>7. /\ halt \in Levels
          /\ live.streak > Rules.initial.losses
               => LocksSynced(halt, live)["consecutive_loss_limit"] = "entry_halted"
          /\ Lost([equity |-> EquityAt(live, bar.close)], live.peak, Rules.initial.drawdown)
               => LocksSynced(halt, live)["peak_drawdown_limit"] = "entry_halted"
      BY Locking DEF DeskInv
    <3> QED BY <2>3, <3>1, <3>5, <3>6, <3>7 DEF Lock
  <2> QED BY <2>2, <2>5, <2>6, <2>7, <2>8 DEF DecidedFrom
<1> HIDE DEF Says
<1>2. Spec => [][Says]_vars
  BY <1>1, DeskStarts, DeskKept, PTL DEF Spec
<1> QED BY <1>2 DEF Says, NoSilentLock
-----------------------------------------------------------------------------
(* Stops. A bar that reached the stop of a position still open is among    *)
(* the bars that the next evaluation reads, unless more were missed.       *)
Found(x, bars, last) == \E i \in 1 .. Len(bars) :
    /\ last - Len(bars) + i > x.openedAt /\ last - Len(bars) + i > x.seen
    /\ Reached(x, bars[i])

Honoured ==
    live.touched => \/ live.outage
                    \/ live.seen # now
                       /\ (now - live.seen > Window \/ Found(live, recent, now))

LEMMA TouchesKept == DeskInv /\ Honoured /\ [Next]_vars => Honoured'
<1> SUFFICES ASSUME DeskInv, Honoured, [Next]_vars, live'.touched
             PROVE  \/ live'.outage
                    \/ live'.seen # now' /\ (now' - live'.seen > Window \/ Found(live', recent', now'))
  BY DEF Honoured
<1>1. /\ now \in Nat /\ live \in Desks /\ live.seen \in Nat /\ live.openedAt \in Nat
      /\ live.seen <= now /\ Len(recent) \in Nat /\ Unheld(live) /\ Window \in Nat \ {0}
      /\ live.units \in Int
  BY WindowAssumption DEF DeskInv, ReplayInv, Desks
<1>2. CASE Evaluate
  <2>1. PICK a, t : WokenIs(a) /\ StoppedFrom(t, a) /\ DecidedFrom(live', t)
    BY <1>2, Evaluating
  <2>2. Told /\ t \in Desks
    BY <1>2, <2>1, Evaluating DEF StoppedFrom
  <2>3. t.touched /\ (live'.outage <=> t.outage)
    <3>1. /\ live'.outage <=> t.outage
          /\ SameHolding(live', t) \/ ClosedFrom(live', t)
             \/ OpenedWith(live', t, Quantity(LiveState(t)))
      BY <2>1, <2>2, DecisionIs
    <3> QED BY <3>1 DEF SameHolding, ClosedFrom, OpenedWith
  <2>4. StopBars(a) = {} /\ t = a
    BY <2>1, <2>3 DEF StoppedFrom, LeftAt
  <2>5. live.touched /\ (t.outage <=> (live.outage \/ (live.units # 0 /\ now - live.seen > Window)))
    BY <2>1, <2>3, <2>4 DEF WokenIs
  <2>6. live.units # 0
    BY <1>1, <2>5 DEF Unheld
  <2>7. ~Found(live, recent, now)
    <3>1. ASSUME NEW i \in 1 .. Len(recent), now - Len(recent) + i > live.openedAt,
                 Reached(live, recent[i])
          PROVE  FALSE
      <4>1. Reached(a, recent[i]) /\ NumberOf(i) > a.openedAt
        BY <2>1, <3>1 DEF WokenIs, Reached, NumberOf
      <4>2. i \in DOMAIN recent
        BY <1>1 DEF DeskInv
      <4> QED BY <2>4, <4>1, <4>2 DEF StopBars
    <3> QED BY <3>1 DEF Found
  <2> QED BY <2>3, <2>5, <2>6, <2>7 DEF Honoured
<1>3. CASE \E shape \in Shape, says \in {-1, 0, 1} : BarCloses(shape, says)
  <2>1. PICK shape \in Shape, says \in {-1, 0, 1} : BarCloses(shape, says)
    BY <1>3
  <2>2. now' = now + 1 /\ TouchedBy(live', bar') /\ Slides(recent', recent, bar')
    BY <2>1, BarClosing
  <2> DEFINE shift == IF Len(recent) = Window THEN 1 ELSE 0
  <2>3. /\ Len(recent') = Len(recent) + 1 - shift /\ recent'[Len(recent')] = bar' /\ Len(recent') > 0
        /\ \A i \in 1 .. Len(recent') - 1 : recent'[i] = recent[i + shift]
        /\ shift \in {0, 1} /\ Len(recent') \in Nat /\ (shift = 1 => Len(recent) = Window)
    BY <1>1, <2>2 DEF Slides
  <2>4. live'.seen = live.seen /\ live'.openedAt = live.openedAt /\ (live'.outage <=> live.outage)
        /\ \A b : Reached(live', b) <=> Reached(live, b)
    BY <2>2 DEF TouchedBy, Reached
  <2>5. live'.seen # now'
    BY <1>1, <2>2, <2>4
  <2> HIDE DEF shift
  <2>6. ASSUME NEW i \in 1 .. Len(recent'), now + 1 - Len(recent') + i > live.openedAt,
               now + 1 - Len(recent') + i > live.seen, Reached(live, recent'[i])
        PROVE  Found(live', recent', now')
    BY <1>1, <2>2, <2>4, <2>6 DEF Found
  <2>8. CASE now + 1 > live.openedAt /\ Reached(live, bar')
    <3> DEFINE n == Len(recent')
    <3>1. n \in 1 .. n /\ now + 1 - n + n = now + 1 /\ now + 1 > live.seen
      BY <1>1, <2>3
    <3> QED BY <2>3, <2>5, <2>6, <2>8, <3>1
  <2>9. CASE live.touched
    <3>1. CASE live.outage
      BY <2>4, <3>1
    <3>2. CASE now - live.seen > Window
      BY <1>1, <2>2, <2>4, <2>5, <3>2
    <3>3. CASE Found(live, recent, now)
      <4>1. PICK i \in 1 .. Len(recent) : /\ now - Len(recent) + i > live.openedAt
                                          /\ now - Len(recent) + i > live.seen
                                          /\ Reached(live, recent[i])
        BY <3>3 DEF Found
      <4>2. i \in Int /\ i >= 1 /\ i <= Len(recent)
        BY <1>1
      <4>3. CASE i - shift >= 1
        <5>1. /\ i - shift \in 1 .. Len(recent') - 1 /\ (i - shift) + shift = i
              /\ now + 1 - Len(recent') + (i - shift) = now - Len(recent) + i
          <6>1. /\ Len(recent') = Len(recent) + 1 - shift /\ shift \in {0, 1}
                /\ Len(recent) \in Nat /\ now \in Nat
            BY <1>1, <2>3
          <6> QED BY <4>2, <4>3, <6>1
        <5>2. recent'[i - shift] = recent[i] /\ i - shift \in 1 .. Len(recent')
          BY <2>3, <5>1
        <5> QED BY <2>5, <2>6, <4>1, <5>1, <5>2
      <4>4. CASE ~(i - shift >= 1)
        <5>1. i = 1 /\ Len(recent) = Window
          BY <1>1, <2>3, <4>2, <4>4
        <5>2. now + 1 - live.seen > Window
          BY <1>1, <4>1, <4>2, <5>1
        <5> QED BY <1>1, <2>2, <2>4, <2>5, <5>2
      <4> QED BY <4>3, <4>4
    <3> QED BY <2>9, <3>1, <3>2, <3>3 DEF Honoured
  <2> QED BY <2>2, <2>8, <2>9 DEF TouchedBy
<1>4. CASE \E c \in Lock : ReleaseLock(c)
  <2>1. Released(live', live) /\ UNCHANGED <<now, recent>>
    BY <1>4, Releasing DEF Cause
  <2>2. \A b : Reached(live', b) <=> Reached(live, b)
    BY <2>1 DEF Released, Reached
  <2> QED BY <2>1, <2>2 DEF Released, Honoured, Found
<1>5. CASE UNCHANGED <<now, recent, live>>
  BY <1>5 DEF Honoured
<1> QED BY <1>2, <1>3, <1>4, <1>5 DEF Next, vars, BarIsLate, ReleaseOneStep

(* A position as one order left it: what it was opened for, its stop, and  *)
(* a size whose loss at the stop is within the budget of the trade.        *)
Within(x) == \E close \in Int :
    LET ex == setup.exchange
        fill == FillPrice(ex, x.units, close)
    IN /\ x.units # 0 /\ x.stop = fill - Sign(x.units) * StopDistance(ex)
       /\ x.cash = x.stake.cash - 1000 * (fill * x.units) - Fee(ex, x.units, close)
       /\ Abs(x.units) * (1000 * (StopDistance(ex) + Slippage(ex)) + Fee(ex, 1, close))
            <= x.stake.budget

InBudget == live.overrun <= 0 /\ (live.stake # None /\ live.stop # None => Within(live))

(* The loss at the stop: the distance and the slippage of both fills, and  *)
(* the fee of the entry, for every unit.                                   *)
LEMMA LossAtTheStop ==
    ASSUME setup.exchange \in Exchange, NEW x \in Desks, x.stake \in Stake, Within(x),
           NEW cash, cash = CashAfter(x, -x.units, x.stop)
    PROVE  x.stake.cash - cash - x.stake.budget - Fee(setup.exchange, x.units, x.stop) <= 0
<1> DEFINE ex == setup.exchange
           u == x.units
           n == Abs(u)
           slip == Slippage(ex)
           dist == StopDistance(ex)
           fee == Fee(ex, u, x.stop)
           budget == x.stake.budget
           paid == x.stake.cash
<1>1. PICK close \in Int :
        /\ u # 0 /\ x.stop = FillPrice(ex, u, close) - Sign(u) * dist
        /\ x.cash = paid - 1000 * (FillPrice(ex, u, close) * u) - Fee(ex, u, close)
        /\ n * (1000 * (dist + slip) + Fee(ex, 1, close)) <= budget
  BY DEF Within
<1>2. slip \in Int /\ dist \in Int /\ u \in Int /\ -u \in Int /\ budget \in Int /\ paid \in Int
      /\ x.cash \in Int
  BY Distances DEF Desks, Stake
<1>3. n \in Nat \ {0} /\ Abs(-u) = n
  BY <1>1, <1>2, Signs
<1> DEFINE fill == FillPrice(ex, u, close)
           back == FillPrice(ex, -u, x.stop)
           one == Fee(ex, 1, close)
           entry == Fee(ex, u, close)
<1>4. fill = close + Sign(u) * slip /\ fill \in Int
  BY <1>2, Fills
<1>5. x.stop \in Int
  <2>1. Sign(u) * dist \in Int
    BY <1>2, Signs
  <2> QED BY <1>1, <1>4, <2>1
<1>6. back = x.stop + Sign(-u) * slip /\ back \in Int
  BY <1>2, <1>5, Fills
<1>7. Fee(ex, -u, x.stop) = fee /\ fee \in Int /\ entry \in Int /\ one \in Int
  <2>1. fee \in Int /\ entry \in Int /\ one \in Int
    BY <1>2, <1>5, Fees
  <2>2. Fee(ex, -u, x.stop) = fee
    BY <1>3, Zenon DEF Fee
  <2> QED BY <2>1, <2>2
<1>8. entry = n * one
  BY <1>3 DEF Fee, Abs
<1>9. cash = x.cash - 1000 * (back * (-u)) - fee
  <2>1. CashAfter(x, -u, x.stop) = x.cash - 1000 * (back * (-u)) - Fee(ex, -u, x.stop)
    <3> DEFINE m == -u
    <3>1. m \in Int /\ x.stop \in Int /\ x.cash \in Int /\ setup.exchange \in Exchange
      BY <1>2, <1>5
    <3> HIDE DEF m, n, slip, dist, fee, budget, paid, fill, one, entry
    <3>2. CashAfter(x, m, x.stop)
            = x.cash - 1000 * (FillPrice(setup.exchange, m, x.stop) * m)
                - Fee(setup.exchange, m, x.stop)
      BY <3>1, Cash
    <3> QED BY <3>2 DEF m
  <2> HIDE DEF fee, back
  <2> QED BY <1>7, <2>1
<1> HIDE DEF n, slip, dist, fee, budget, paid, fill, back, one, entry, u
<1>10. 1000 * (fill * u) + 1000 * (back * (-u)) = 1000 * (n * (dist + slip))
  <2>1. fill * u + back * (-u) = n * (dist + slip)
    <3>1. CASE u > 0
      <4>1. Sign(u) = 1 /\ Sign(-u) = -1 /\ n = u
        BY <1>2, <3>1, Signs DEF n
      <4>2. fill = close + slip /\ x.stop = fill - dist /\ back = x.stop - slip
        BY <1>1, <1>2, <1>4, <1>5, <1>6, <4>1 DEF fill, dist, u
      <4>3. back = fill - (dist + slip)
        BY <1>2, <1>4, <4>2
      <4>4. back * (-u) = -(fill * u) + (dist + slip) * u
        BY <1>2, <1>4, <4>3
      <4> QED BY <1>2, <1>4, <1>6, <4>1, <4>4
    <3>2. CASE u < 0
      <4>1. Sign(u) = -1 /\ Sign(-u) = 1 /\ n = -u
        BY <1>2, <3>2, Signs DEF n
      <4>2. fill = close - slip /\ x.stop = fill + dist /\ back = x.stop + slip
        BY <1>1, <1>2, <1>4, <1>5, <1>6, <4>1 DEF fill, dist, u
      <4>3. back = fill + (dist + slip)
        BY <1>2, <1>4, <4>2
      <4>4. back * (-u) = -(fill * u) + (dist + slip) * (-u)
        BY <1>2, <1>4, <4>3
      <4> QED BY <1>2, <1>4, <1>6, <4>1, <4>4
    <3> QED BY <1>1, <1>2, <3>1, <3>2 DEF u
  <2> DEFINE p == fill * u
             q == back * (-u)
             r == n * (dist + slip)
  <2>2. p \in Int /\ q \in Int /\ r \in Int /\ p + q = r
    BY <1>2, <1>3, <1>4, <1>6, <2>1
  <2> HIDE DEF p, q, r
  <2>3. 1000 * p + 1000 * q = 1000 * r
    BY <2>2
  <2> QED BY <2>3 DEF p, q, r
<1>11. 1000 * (n * (dist + slip)) + n * one <= budget
  <2>1. n * (1000 * (dist + slip) + one) = 1000 * (n * (dist + slip)) + n * one
    BY <1>2, <1>3, <1>7
  <2> QED BY <1>1, <2>1 DEF n, dist, slip, one, budget, u
<1>12. x.cash = paid - 1000 * (fill * u) - entry
  BY <1>1 DEF fill, entry, paid, u
<1> DEFINE p == 1000 * (fill * u)
           q == 1000 * (back * (-u))
           r == 1000 * (n * (dist + slip))
<1>13. p \in Int /\ q \in Int /\ r \in Int /\ p + q = r /\ r + entry <= budget
       /\ x.cash = paid - p - entry /\ cash = x.cash - q - fee
  BY <1>2, <1>3, <1>4, <1>6, <1>8, <1>9, <1>10, <1>11, <1>12
<1> HIDE DEF p, q, r
<1>14. paid - cash - budget - fee <= 0
  BY <1>2, <1>7, <1>13
<1> QED BY <1>14 DEF paid, budget, fee, u

LEMMA OpenedWithin ==
    ASSUME Told, NEW t \in Desks, NEW y, OpenedWith(y, t, Quantity(LiveState(t))),
           bar.says # 0, ~Opposite(t.units, bar.says), Approves(LiveState(t)),
           y.stake # None, y.stop # None
    PROVE  Within(y)
<1> DEFINE s == LiveState(t)
           q == Quantity(s)
           units == bar.says * q
           ex == setup.exchange
           fill == FillPrice(ex, units, bar.close)
           budget == (EquityAt(t, bar.close) * Rules.initial.perTrade) \div 1000
<1>1. /\ Judgeable(s) /\ s.exchange = ex /\ s.price = bar.close
      /\ s.equity = EquityAt(t, bar.close)
  BY JudgedLive
<1>2. q \in Nat \ {0} /\ q * Stress(s) <= budget
  <2>1. /\ q \in Nat \ {0}
        /\ q > 0 => q * Stress(s) <= (s.equity * Rules.initial.perTrade) \div 1000
    BY <1>1, ApprovedSizes, Sizes
  <2> HIDE DEF s, q
  <2> QED BY <1>1, <2>1
<1>3. t.units = 0 /\ y.stake = [cash |-> t.cash, budget |-> budget]
  BY DEF OpenedWith
<1>4. Stress(s) = 1000 * (StopDistance(ex) + Slippage(ex)) + Fee(ex, 1, bar.close)
  BY <1>1 DEF Stress
<1>5. t.cash \in Int /\ bar.says \in {-1, 1} /\ bar.close \in Int /\ ex \in Exchange
  BY DEF Desks, Told, GoodBar
<1>6. /\ y.units = t.units + units /\ y.cash = CashAfter(t, units, bar.close)
      /\ y.stop = EntryStop(units, fill, StopDistance(ex))
  BY <1>3 DEF OpenedWith
<1> HIDE DEF s, q
<1>7. units \in Int /\ units # 0 /\ Abs(units) = q
  BY <1>2, <1>3, <1>5, Directions
<1> HIDE DEF units
<1>8. y.units = units
  BY <1>3, <1>6, <1>7
<1>9. y.stop = fill - Sign(units) * StopDistance(ex)
  BY <1>6 DEF EntryStop
<1>10. y.cash = t.cash - 1000 * (fill * units) - Fee(ex, units, bar.close)
  BY <1>5, <1>6, <1>7, Cash
<1>11. y.stake.cash = t.cash /\ y.stake.budget = budget
  BY <1>3
<1> HIDE DEF budget
<1>12. Abs(units) * (1000 * (StopDistance(ex) + Slippage(ex)) + Fee(ex, 1, bar.close)) <= budget
  BY <1>2, <1>4, <1>7
<1> QED BY <1>5, <1>7, <1>8, <1>9, <1>10, <1>11, <1>12 DEF Within

LEMMA SameWithin ==
    ASSUME NEW x, NEW y, y.units = x.units, y.stop = x.stop, y.cash = x.cash, y.stake = x.stake,
           Within(x)
    PROVE  Within(y)
BY DEF Within

LEMMA BudgetKept == DeskInv /\ InBudget /\ [Next]_vars => InBudget'
<1> SUFFICES ASSUME DeskInv, InBudget, [Next]_vars PROVE InBudget'
  OBVIOUS
<1>1. live \in Desks /\ live.overrun \in Int
  BY DEF DeskInv, Desks
<1> DEFINE Fits(x) == x.overrun <= 0 /\ (x.stake # None /\ x.stop # None => Within(x))
<1>2. CASE Evaluate
  <2>1. PICK a, t : WokenIs(a) /\ StoppedFrom(t, a) /\ DecidedFrom(live', t)
    BY <1>2, Evaluating
  <2>2. Told /\ t \in Desks /\ a \in Desks /\ setup' = setup
    BY <1>2, <2>1, Evaluating DEF StoppedFrom, WokenIs
  <2>3. Fits(a)
    BY <2>1, SameWithin DEF InBudget, WokenIs
  <2>4. Fits(t)
    <3>1. CASE StopBars(a) = {} /\ t = a
      BY <2>3, <3>1
    <3>2. CASE StopBars(a) # {}
      <4> DEFINE exit == ProtectiveExit(recent[Min(StopBars(a))], a.units, a.stop, None).price
      <4>1. LeftAt(t, a, exit)
        BY <2>1, <3>2 DEF StoppedFrom
      <4>2. a.stop # None
        BY <2>2, <3>2, FirstStop, RiskAssumption
      <4> HIDE DEF exit
      <4>3. CASE a.stake = None \/ exit # a.stop
        BY <4>1, <4>3 DEF LeftAt
      <4>4. CASE a.stake # None /\ exit = a.stop
        <5>1. a.stake \in Stake /\ Within(a)
          BY <2>2, <2>3, <4>2, <4>4 DEF Desks
        <5>2. t.cash = CashAfter(a, -a.units, a.stop)
          BY <4>1, <4>4 DEF LeftAt
        <5>3. a.stake.cash - t.cash - a.stake.budget - Fee(setup.exchange, a.units, a.stop) <= 0
          BY <2>2, <5>1, <5>2, LossAtTheStop DEF Told
        <5> QED BY <4>1, <4>4, <5>3 DEF LeftAt
      <4> QED BY <4>3, <4>4
    <3> QED BY <2>1, <3>1, <3>2 DEF StoppedFrom
  <2>5. /\ live'.overrun = t.overrun
        /\ \/ SameHolding(live', t)
           \/ ClosedFrom(live', t)
           \/ /\ OpenedWith(live', t, Quantity(LiveState(t))) /\ bar.says # 0
              /\ ~Opposite(t.units, bar.says) /\ Approves(LiveState(t))
    BY <2>1, <2>2, DecisionIs
  <2>6. Fits(live')
    BY <2>2, <2>4, <2>5, OpenedWithin, SameWithin DEF SameHolding, ClosedFrom
  <2> QED BY <2>2, <2>6 DEF InBudget, Within
<1>3. CASE \E shape \in Shape, says \in {-1, 0, 1} : BarCloses(shape, says)
  <2>1. setup' = setup /\ TouchedBy(live', bar')
    BY <1>3, BarClosing
  <2>2. Fits(live')
    BY <2>1, SameWithin DEF TouchedBy, InBudget
  <2> QED BY <2>1, <2>2 DEF InBudget, Within
<1>4. CASE \E c \in Lock : ReleaseLock(c)
  <2>1. setup' = setup /\ Released(live', live)
    BY <1>4, Releasing DEF Cause
  <2>2. Fits(live')
    BY <2>1, SameWithin DEF Released, InBudget
  <2> QED BY <2>1, <2>2 DEF InBudget, Within
<1>5. CASE UNCHANGED <<setup, live>>
  BY <1>5 DEF InBudget, Within
<1> QED BY <1>2, <1>3, <1>4, <1>5 DEF Next, vars, BarIsLate, ReleaseOneStep

(* Of a stop, for every series of bars, whatever is late or missed: the    *)
(* replay leaves at a price that traded, no bar that reached the stop of a *)
(* position still open was passed over (_stop_exit_price), and what a      *)
(* position costs at its stop is within the share of equity that one trade *)
(* may lose (stress_adjusted_stop).                                        *)
THEOREM StopsKept == Spec => []StopsAreKept
<1> DEFINE Inv == DeskInv /\ Honoured /\ InBudget
<1>1. Init => Inv
  <2> SUFFICES ASSUME Init PROVE Inv
    OBVIOUS
  <2>1. DeskInv /\ live = NewDesk
    BY DeskStarts DEF Init
  <2>2. ~live.touched /\ live.overrun = 0 /\ live.stake = None
    BY <2>1 DEF NewDesk
  <2> QED BY <2>1, <2>2 DEF Honoured, InBudget
<1>2. Inv /\ [Next]_vars => Inv'
  BY DeskKept, TouchesKept, BudgetKept
<1>3. Inv => StopsAreKept
  <2> SUFFICES ASSUME Inv PROVE StopsAreKept
    OBVIOUS
  <2>1. GapsFillAtTheOpen
    <3> SUFFICES ASSUME replay.exit # NoExit
                 PROVE  \E i \in DOMAIN bar.probes :
                          replay.exit.price \in bar.probes[i].low .. bar.probes[i].high
      BY DEF GapsFillAtTheOpen
    <3>1. PICK i \in 1 .. Len(bar.probes) : Traded(bar.probes[i], replay.exit.price)
      BY DEF DeskInv, ReplayInv, ExitTraded
    <3>2. now > 0
      BY DEF DeskInv, ReplayInv, NewReplay
    <3>3. DOMAIN bar.probes = 1 .. Len(bar.probes)
      <4>1. PICK shape \in Shape, says \in {-1, 0, 1} : bar = BarOf(shape, says)
        BY <3>2 DEF DeskInv, Bars
      <4>2. bar.probes = shape.probes /\ shape.probes \in Seq([open : Nat, high : Nat, low : Nat])
        BY <4>1, SeriesAssumption DEF BarOf
      <4> QED BY <4>2
    <3> QED BY <3>1, <3>3 DEF Traded
  <2>2. StopsAreHonoured
    BY DEF Honoured, StopsAreHonoured
  <2>3. StoppedWithinBudget
    BY DEF InBudget, StoppedWithinBudget
  <2> QED BY <2>1, <2>2, <2>3 DEF StopsAreKept
<1> HIDE DEF Inv
<1> QED BY <1>1, <1>2, <1>3, PTL DEF Spec
-----------------------------------------------------------------------------
(* Live and replayed. What a bar makes of the account, by its range and by *)
(* its signal, is determined by cash, units, basis and stop.               *)
SameBook(x, y) ==
    /\ x.cash = y.cash /\ x.units = y.units /\ x.basis = y.basis /\ x.stop = y.stop

LeftBy(x, y, b) ==
    IF Reached(y, b)
    THEN /\ x.cash = CashAfter(y, -y.units, ProtectiveExit(b, y.units, y.stop, None).price)
         /\ x.units = 0 /\ x.basis = 0 /\ x.stop = None
    ELSE SameBook(x, y)

SizeOf(c, price) ==
    Quantity([exchange |-> setup.exchange, price |-> price, equity |-> EquityAt(c, price),
              cash |-> c.cash, risk |-> OpenRisk(c, price)])

LEMMA SizeIs ==
    ASSUME NEW s, NEW c, NEW price, s.exchange = setup.exchange, s.price = price,
           s.equity = EquityAt(c, price), s.cash = c.cash, s.risk = OpenRisk(c, price)
    PROVE  Quantity(s) = SizeOf(c, price)
BY DEF SizeOf, Quantity, Stress, BrokerLimits

LEMMA SameSize ==
    ASSUME NEW c, NEW d, NEW price, SameBook(c, d)
    PROVE  SizeOf(c, price) = SizeOf(d, price)
BY DEF SizeOf, SameBook, EquityAt, Equity, MarketValue, OpenRisk, Unrealized

(* With an order or without one.                                           *)
ActedBy(x, c, b, ordered) ==
    LET units == b.says * SizeOf(c, b.close) IN
    \/ ~ordered /\ ~Opposite(c.units, b.says) /\ SameBook(x, c)
    \/ /\ ~ordered /\ Opposite(c.units, b.says)
       /\ x.cash = CashAfter(c, -c.units, b.close)
       /\ x.units = 0 /\ x.basis = 0 /\ x.stop = None
    \/ /\ ordered /\ x.cash = CashAfter(c, units, b.close) /\ x.units = c.units + units
       /\ x.basis = c.basis + FillPrice(setup.exchange, units, b.close) * units
       /\ x.stop = IF c.units # 0 THEN c.stop
                   ELSE IF setup.policy # "stop_loss" THEN None
                   ELSE FillPrice(setup.exchange, units, b.close)
                          - b.says * StopDistance(setup.exchange)

LEMMA SameLeft ==
    ASSUME NEW x, NEW y, NEW c, NEW d, NEW b, SameBook(x, y), LeftBy(c, x, b), LeftBy(d, y, b)
    PROVE  SameBook(c, d)
BY DEF SameBook, LeftBy, Reached, CashAfter

LEMMA SameActed ==
    ASSUME NEW x, NEW y, NEW c, NEW d, NEW b, NEW ordered, SameBook(c, d),
           ActedBy(x, c, b, ordered), ActedBy(y, d, b, ordered)
    PROVE  SameBook(x, y)
<1>1. SizeOf(c, b.close) = SizeOf(d, b.close)
  BY SameSize
<1>2. /\ c.units = d.units /\ c.cash = d.cash /\ c.basis = d.basis /\ c.stop = d.stop
  BY DEF SameBook
<1> DEFINE units == b.says * SizeOf(c, b.close)
<1>3. /\ CashAfter(c, -c.units, b.close) = CashAfter(d, -d.units, b.close)
      /\ CashAfter(c, units, b.close) = CashAfter(d, units, b.close)
  BY <1>2 DEF CashAfter
<1>4. \/ ~ordered /\ ~Opposite(c.units, b.says) /\ SameBook(x, c) /\ SameBook(y, d)
      \/ /\ x.cash = CashAfter(c, -c.units, b.close) /\ y.cash = CashAfter(d, -d.units, b.close)
         /\ x.units = 0 /\ x.basis = 0 /\ x.stop = None
         /\ y.units = 0 /\ y.basis = 0 /\ y.stop = None
      \/ /\ x.cash = CashAfter(c, units, b.close) /\ y.cash = CashAfter(d, units, b.close)
         /\ x.units = c.units + units /\ y.units = d.units + units
         /\ x.basis = y.basis /\ x.stop = y.stop
  BY <1>1, <1>2, Zenon DEF ActedBy
<1> HIDE DEF units
<1> QED BY <1>2, <1>3, <1>4 DEF SameBook

(* A bar of one probe, in a replay that has neither target nor trail.      *)
LEMMA ReplayLeft ==
    ASSUME NEW r \in Sound, NEW b, GoodBar(b), Len(b.probes) = 1, setup \in Setup, now' \in Nat,
           setup.slip = 0, r.target = None, r.trail = None,
           setup.policy = "signal" => r.stop = None
    PROVE  LeftBy(Checked(r, b), r, b)
<1> DEFINE s == [r EXCEPT !.exit = NoExit]
           probe == b.probes[1]
           y == Probed(s, probe)
           exit == ProtectiveExit(probe, s.units, s.stop, s.target)
           at == IF exit.reason = "stop_loss" THEN Slipped(exit.price, s.units) ELSE exit.price
<1>1. /\ s \in Replays /\ s.units = r.units /\ s.cash = r.cash /\ s.basis = r.basis
      /\ s.stop = r.stop /\ s.target = None /\ s.trail = None
      /\ r.units \in Int /\ r.stop \in MaybeInt /\ r.cash \in Int /\ r \in Replays
      /\ s.fees = r.fees /\ s.earned = r.earned /\ s.highest = r.highest
  BY DEF Sound, Replays, NoExit, ExitOf, MaybeInt
<1>2. s \in Sound
  <2> HIDE DEF s
  <2> QED BY <1>1 DEF Sound, Accounted
<1>3. Stopped(s, b) = y
  <2> DEFINE n == Len(b.probes)
  <2> HIDE DEF s
  <2>1. PICK f : IsWalk(f, s, b.probes, 1) /\ Stopped(s, b) = f[1]
    <3>1. n \in Nat /\ n = 1
      OBVIOUS
    <3>2. PICK f : IsWalk(f, s, b.probes, n) /\ Stopped(s, b) = f[n]
      BY <3>1, StoppedIs
    <3> HIDE DEF n
    <3> QED BY <3>1, <3>2
  <2>2. f = [i \in 0 .. 1 |-> IF i = 0 THEN s ELSE Probed(f[i - 1], b.probes[i])]
    BY <2>1 DEF IsWalk
  <2>3. f[0] = s /\ f[1] = Probed(f[1 - 1], b.probes[1]) /\ 1 - 1 = 0
    <3>1. 0 \in 0 .. 1 /\ 1 \in 0 .. 1
      OBVIOUS
    <3> QED BY <2>2, <3>1
  <2> QED BY <2>1, <2>3
<1>4. /\ setup.exchange \in Exchange /\ Priced(probe)
      /\ probe.open = b.open /\ probe.high = b.high /\ probe.low = b.low
  BY SeriesAssumption DEF Exchange, GoodBar
<1>5. exit = ProtectiveExit(b, r.units, r.stop, None)
  BY <1>1, <1>4 DEF ProtectiveExit
<1> HIDE DEF s, probe
<1>6. LeftBy(y, r, b)
  <2>1. CASE setup.policy = "signal" \/ r.units = 0 \/ r.stop = None
    <3>1. y = s
      BY <1>1, <2>1 DEF Probed
    <3>2. ~Reached(r, b)
      BY <2>1 DEF Reached
    <3> QED BY <1>1, <3>1, <3>2 DEF LeftBy, SameBook
  <2>2. CASE ~(setup.policy = "signal" \/ r.units = 0 \/ r.stop = None) /\ exit = NoExit
    <3>1. y = TrailingRaised(s, probe)
      BY <1>1, <2>2 DEF Probed
    <3>2. y = s
      BY <1>1, <3>1 DEF TrailingRaised
    <3>3. ~Reached(r, b)
      BY <1>5, <2>2 DEF Reached
    <3> QED BY <1>1, <3>2, <3>3 DEF LeftBy, SameBook
  <2>3. CASE ~(setup.policy = "signal" \/ r.units = 0 \/ r.stop = None) /\ exit # NoExit
    <3>1. y = [Filled(s, -s.units, at) EXCEPT !.exit = exit]
      BY <1>1, <2>3 DEF Probed
    <3>2. exit.price \in Int /\ exit \in ExitOf
      BY <1>1, <1>4, <2>3, ExitsTraded DEF MaybeInt
    <3>3. at = exit.price
      <4>1. (exit.price * (1000 - 0)) \div 1000 = exit.price
            /\ (exit.price * (1000 + 0)) \div 1000 = exit.price
        BY <3>2, DivExact
      <4> HIDE DEF exit
      <4> QED BY <4>1 DEF Slipped
    <3> DEFINE z == ClosedAt(s, at)
    <3>4. Filled(s, -s.units, at) = z
      BY <1>1, <1>4, <2>3, <3>2, <3>3, FilledClosing
    <3>5. /\ z \in Sound /\ z.units = 0 /\ z.basis = 0 /\ z.stop = None
          /\ z.cash = CashAfter(s, -s.units, at)
      BY <1>1, <1>2, <1>4, <2>3, <3>2, <3>3, ClosedIsSound
    <3>6. y = [z EXCEPT !.exit = exit]
      BY <3>1, <3>4
    <3>7. CashAfter(s, -s.units, at) = CashAfter(r, -r.units, exit.price)
      BY <1>1, <3>3 DEF CashAfter
    <3>8. Reached(r, b)
      BY <1>5, <2>3 DEF Reached
    <3> HIDE DEF y, z, exit, at
    <3>9. y.units = 0 /\ y.basis = 0 /\ y.stop = None /\ y.cash = CashAfter(r, -r.units, exit.price)
      BY <3>5, <3>6, <3>7 DEF Sound, Replays
    <3> QED BY <1>5, <3>8, <3>9 DEF LeftBy
  <2> QED BY <2>1, <2>2, <2>3
<1> HIDE DEF y
<1>7. y \in Sound
  <2>1. Len(b.probes) \in Nat /\ \A x \in Walked(r, b), i \in 1 .. Len(b.probes) :
                                  Probed(x, b.probes[i]) \in Walked(r, b)
    BY Probing DEF GoodBar
  <2>2. s \in Walked(r, b)
    <3>1. s.exit = NoExit /\ s.lastOrder = r.lastOrder
      BY <1>1 DEF s, Replays, NoExit, ExitOf
    <3>2. r.stop # None => s.stop >= r.stop
      BY <1>1 DEF MaybeInt
    <3> QED BY <1>1, <1>2, <3>1, <3>2 DEF Walked
  <2>3. y \in Walked(r, b)
    BY <2>1, <2>2 DEF y, probe
  <2> QED BY <2>3 DEF Walked
<1>8. Holds(Valued(y, b), y)
  BY <1>7, Valuing
<1>9. Checked(r, b) = Valued(y, b)
  BY <1>3 DEF Checked, s
<1> QED BY <1>6, <1>8, <1>9 DEF Holds, LeftBy, SameBook

(* No price of the series is so low that a stop would be below zero, where *)
(* order_flow sets none and the replay one that no bar can reach.          *)
FarFromZero == \A shape \in Shape, s \in Setup : shape.close > StopDistance(s.exchange)

(* Bars up to `last`, the newest of which may still have to be evaluated.  *)
Untouched(x, bars, last, n) == \A i \in 1 .. n :
    ~(last - Len(bars) + i > x.openedAt /\ Reached(x, bars[i]))

(* A bot without a reason to differ from the replay: as soon as the last   *)
(* bar is evaluated it has the same books; before that, the replay's are   *)
(* what the bar makes of the bot's.                                        *)
Tracked ==
    Live /\ ~parted =>
       /\ live.openedAt <= live.seen
       /\ live.lastOrder # None => live.lastOrder <= live.seen
       /\ replay.lastOrder # None => replay.lastOrder <= now
       /\ live.seen = now => SameBook(live, replay) /\ Untouched(live, recent, now, Len(recent))
       /\ live.seen # now =>
            /\ now = live.seen + 1 /\ Untouched(live, recent, now, Len(recent) - 1)
            /\ \E c \in Sound : /\ LeftBy(c, live, bar)
                                /\ ActedBy(replay, c, bar, replay.lastOrder = now)

LEMMA SlipsLess ==
    ASSUME NEW exchange \in Exchange
    PROVE  Slippage(exchange) <= StopDistance(exchange)
<1>1. CASE exchange = "oanda"
  <2>1. {3 * Spread} \cup {BrokerMinimum} = {3 * Spread, BrokerMinimum}
    OBVIOUS
  <2>2. StopDistance(exchange) >= 3 * Spread
    BY <1>1, <2>1, MaxOfTwo, RiskAssumption DEF StopDistance
  <2>3. Spread \div 2 <= Spread
    BY RiskAssumption
  <2> QED BY <1>1, <2>2, <2>3, Distances, RiskAssumption DEF Slippage
<1>2. CASE exchange # "oanda"
  <2>1. {3 * Spread} \cup {} = {3 * Spread, 3 * Spread} /\ 3 * Spread \in Int
    BY RiskAssumption
  <2>2. Max({3 * Spread, 3 * Spread}) = 3 * Spread
    BY <2>1, MaxOfTwo
  <2> QED BY <1>2, <2>1, <2>2, RiskAssumption DEF StopDistance, Slippage
<1> QED BY <1>1, <1>2

(* The stop that a position is opened with, live and replayed.             *)
LEMMA StopIsSet ==
    ASSUME FarFromZero, Told, now > 0, bar \in Bars, bar.says # 0, NEW q \in Nat \ {0}
    PROVE  LET units == bar.says * q
               fill == FillPrice(setup.exchange, units, bar.close)
           IN EntryStop(units, fill, StopDistance(setup.exchange))
                = fill - bar.says * StopDistance(setup.exchange)
<1> DEFINE units == bar.says * q
           dist == StopDistance(setup.exchange)
           slip == Slippage(setup.exchange)
           fill == FillPrice(setup.exchange, units, bar.close)
<1>1. bar.says \in {-1, 1} /\ bar.close \in Int /\ setup.exchange \in Exchange /\ setup \in Setup
  BY DEF Told, GoodBar
<1>2. units \in Int /\ Sign(units) = bar.says
  <2>1. (bar.says = 1 => units = q) /\ (bar.says = -1 => units = -q)
    BY <1>1
  <2> HIDE DEF units
  <2> QED BY <1>1, <2>1, Signs
<1>3. bar.close > dist
  <2>1. PICK shape \in Shape, says \in {-1, 0, 1} : bar = BarOf(shape, says)
    BY DEF Bars
  <2>2. bar.close = shape.close
    BY <2>1 DEF BarOf
  <2> QED BY <1>1, <2>2 DEF FarFromZero
<1>4. dist \in Nat /\ slip \in Nat /\ slip <= dist
  BY <1>1, Distances, SlipsLess
<1> HIDE DEF units
<1>5. fill = bar.close + bar.says * slip
  BY <1>1, <1>2, Fills
<1> HIDE DEF fill, dist, slip
<1>6. fill - bar.says * dist > 0
  <2>1. CASE bar.says = 1
    BY <1>1, <1>3, <1>4, <1>5, <2>1
  <2>2. CASE bar.says = -1
    BY <1>1, <1>3, <1>4, <1>5, <2>2
  <2> QED BY <1>1, <2>1, <2>2
<1>7. EntryStop(units, fill, dist) = fill - bar.says * dist
  BY <1>2, <1>6 DEF EntryStop
<1> QED BY <1>7 DEF units, fill, dist

(* What a bar of the replay does, as ActedBy says it.                      *)
LEMMA ReplayActed ==
    ASSUME NEW c \in Sound, NEW b, GoodBar(b), setup \in Setup, now' \in Nat,
           c.lastOrder # now', setup.policy \in {"signal", "stop_loss"},
           setup.policy = "signal" => c.stop = None
    PROVE  LET y == Acted(c, b) IN ActedBy(y, c, b, y.lastOrder = now')
<1> DEFINE y == Acted(c, b)
           s == ReplayState(c, b)
           q == Quantity(s)
<1>1. \/ y = c /\ (b.says = 0 \/ ~Opposite(c.units, b.says))
      \/ ClosesWith(y, c, b) /\ Opposite(c.units, b.says) /\ b.says # 0
      \/ EntersWith(y, c, b, q)
  BY Acting
<1>2. c.units \in Int /\ b.says \in {-1, 0, 1}
  BY DEF Sound, Replays, GoodBar
<1>3. q = SizeOf(c, b.close)
  BY SizeIs DEF ReplayState
<1> HIDE DEF y, q
<1>4. CASE y = c /\ (b.says = 0 \/ ~Opposite(c.units, b.says))
  <2>1. ~Opposite(c.units, b.says)
    BY <1>2, <1>4, OppositeIs
  <2>2. SameBook(y, c) /\ ~(y.lastOrder = now')
    BY <1>4 DEF SameBook
  <2> QED BY <2>1, <2>2 DEF ActedBy, y
<1>5. CASE ClosesWith(y, c, b) /\ Opposite(c.units, b.says) /\ b.says # 0
  BY <1>5 DEF ClosesWith, ActedBy, y
<1>6. CASE EntersWith(y, c, b, q)
  <2>1. /\ y.lastOrder = now' /\ y.cash = CashAfter(c, b.says * q, b.close)
        /\ y.units = c.units + b.says * q
        /\ y.basis = c.basis + FillPrice(setup.exchange, b.says * q, b.close) * (b.says * q)
        /\ y.stop = IF c.units = 0 /\ setup.policy # "signal"
                    THEN FillPrice(setup.exchange, b.says * q, b.close)
                           - b.says * StopDistance(setup.exchange)
                    ELSE c.stop
    BY <1>6 DEF EntersWith
  <2>2. y.stop = IF c.units # 0 THEN c.stop
                 ELSE IF setup.policy # "stop_loss" THEN None
                 ELSE FillPrice(setup.exchange, b.says * q, b.close)
                        - b.says * StopDistance(setup.exchange)
    BY <2>1
  <2> QED BY <1>3, <2>1, <2>2, Zenon DEF ActedBy, y
<1> QED BY <1>1, <1>4, <1>5, <1>6

LEMMA TrackedByBar ==
    ASSUME DeskInv, Tracked, NEW shape \in Shape, NEW says \in {-1, 0, 1},
           BarCloses(shape, says)
    PROVE  Tracked'
<1>1. /\ CloseBar(shape, says) /\ bar' \in Bars /\ now' = now + 1 /\ setup' = setup
      /\ TouchedBy(live', bar') /\ Slides(recent', recent, bar')
      /\ parted' = (parted \/ live.seen # now \/ Len(bar'.probes) > 1)
  BY BarClosing
<1> SUFFICES ASSUME Live', ~parted' PROVE Tracked'
  BY DEF Tracked
<1>2. /\ Live /\ ~parted /\ live.seen = now /\ ~(Len(bar'.probes) > 1)
  BY <1>1 DEF Live
<1>3. /\ GoodBar(bar') /\ now' \in Nat /\ now \in Nat /\ Len(bar'.probes) = 1
  <2>1. GoodBar(bar') /\ now \in Nat
    BY <1>1, BarsGood DEF DeskInv, ReplayInv
  <2>2. Len(bar'.probes) \in Nat \ {0}
    BY <2>1 DEF GoodBar
  <2>3. Len(bar'.probes) = 1
    <3> DEFINE n == Len(bar'.probes)
    <3>1. n \in Nat \ {0} /\ ~(n > 1)
      BY <1>2, <2>2
    <3> HIDE DEF n
    <3>2. n = 1
      BY <3>1
    <3> QED BY <3>2 DEF n
  <2>4. now' \in Nat
    BY <1>1, <2>1
  <2> QED BY <2>1, <2>3, <2>4
<1>4. /\ live.openedAt <= live.seen
      /\ (live.lastOrder # None => live.lastOrder <= live.seen)
      /\ (replay.lastOrder # None => replay.lastOrder <= now)
      /\ SameBook(live, replay) /\ Untouched(live, recent, now, Len(recent))
  BY <1>2 DEF Tracked
<1>5. /\ setup \in Setup /\ setup.slip = 0 /\ setup.policy \in {"signal", "stop_loss"}
      /\ replay \in Sound /\ replay.target = None /\ replay.trail = None
      /\ (setup.policy = "signal" => replay.stop = None)
      /\ replay.lastOrder \in MaybeInt
  BY <1>2 DEF DeskInv, ReplayInv, Unaimed, Live, Sound, Replays
<1> DEFINE c == Checked(replay, bar')
<1>6. LeftBy(c, replay, bar')
  BY <1>3, <1>5, ReplayLeft
<1>7. c \in Walked(replay, bar') /\ c \in Sound /\ replay' = Acted(c, bar')
  BY <1>1, BarClosed DEF DeskInv
<1> HIDE DEF c
<1>8. c.lastOrder = replay.lastOrder /\ (setup.policy = "signal" => c.stop = None)
  BY <1>5, <1>7 DEF Walked
<1>9. now' # None /\ c.lastOrder # now'
  BY <1>1, <1>3, <1>4, <1>5, <1>8, RiskAssumption DEF MaybeInt
<1>10. ActedBy(replay', c, bar', replay'.lastOrder = now')
  BY <1>3, <1>5, <1>7, <1>8, <1>9, ReplayActed
<1>11. replay'.lastOrder # None => replay'.lastOrder <= now'
  <2>1. replay'.lastOrder = c.lastOrder \/ replay'.lastOrder = now'
    BY <1>3, <1>5, <1>7, Acting DEF ClosesWith, EntersWith
  <2> QED BY <1>1, <1>3, <1>4, <1>5, <1>8, <2>1 DEF MaybeInt
<1>12. SameBook(live', live) /\ live'.openedAt = live.openedAt /\ live'.seen = live.seen
       /\ live'.lastOrder = live.lastOrder
  BY <1>1 DEF TouchedBy, SameBook
<1>13. LeftBy(c, live', bar')
  <2>1. SameBook(live', replay)
    BY <1>4, <1>12 DEF SameBook
  <2> QED BY <1>6, <2>1 DEF LeftBy, SameBook, Reached, CashAfter
<1>14. Untouched(live', recent', now', Len(recent') - 1)
  <2> DEFINE shift == IF Len(recent) = Window THEN 1 ELSE 0
  <2>1. /\ Len(recent') = Len(recent) + 1 - shift /\ Len(recent) \in Nat /\ shift \in {0, 1}
        /\ \A i \in 1 .. Len(recent') - 1 :
              i + shift \in 1 .. Len(recent) /\ recent'[i] = recent[i + shift]
    BY <1>1 DEF Slides, DeskInv
  <2> HIDE DEF shift
  <2>2. ASSUME NEW i \in 1 .. Len(recent') - 1,
               now' - Len(recent') + i > live'.openedAt, Reached(live', recent'[i])
        PROVE  FALSE
    <3>1. i + shift \in 1 .. Len(recent) /\ recent'[i] = recent[i + shift]
      BY <2>1
    <3>2. now' - Len(recent') + i = now - Len(recent) + (i + shift)
      BY <1>1, <1>3, <2>1
    <3>3. Reached(live, recent[i + shift])
      BY <1>12, <2>2, <3>1 DEF Reached, SameBook
    <3> QED BY <1>4, <1>12, <2>2, <3>1, <3>2, <3>3 DEF Untouched
  <2> QED BY <2>2 DEF Untouched
<1>15. now' = live'.seen + 1 /\ live'.seen # now'
  BY <1>1, <1>2, <1>3, <1>12
<1>16. (\E d \in Sound : LeftBy(d, live, bar) /\ ActedBy(replay, d, bar, replay.lastOrder = now))'
  <2>1. \A d : LeftBy(d, live', bar') => (LeftBy(d, live, bar))'
    BY <1>1 DEF LeftBy, CashAfter
  <2>2. \A d : ActedBy(replay', d, bar', replay'.lastOrder = now')
                => (ActedBy(replay, d, bar, replay.lastOrder = now))'
    BY <1>1 DEF ActedBy, CashAfter, SizeOf
  <2>3. c \in Sound
    BY <1>7
  <2> QED BY <1>10, <1>13, <2>1, <2>2, <2>3
<1> QED BY <1>1, <1>4, <1>11, <1>12, <1>14, <1>15, <1>16 DEF Tracked

(* What the desk does with a bar that is on time, as ActedBy says it.      *)
LEMMA DeskActed ==
    ASSUME FarFromZero, Told, now > 0, late = 0, bar \in Bars, NEW t \in Desks, NEW y,
           DecidedFrom(y, t), t.lastOrder # now
    PROVE  /\ ActedBy(y, t, bar, y.lastOrder = now)
           /\ y.lastOrder \in {t.lastOrder, now} /\ y.openedAt \in {t.openedAt, now}
<1> DEFINE s == LiveState(t)
           q == Quantity(s)
<1>1. Time = now /\ now \in Nat
  BY DEF Told, Time
<1>2. q = SizeOf(t, bar.close) /\ Judgeable(s)
  BY JudgedLive, SizeIs
<1>3. Approves(s) => q \in Nat \ {0}
  BY <1>2, ApprovedSizes
<1>4. \/ SameHolding(y, t) /\ ~Opposite(t.units, bar.says)
      \/ ClosedFrom(y, t) /\ Opposite(t.units, bar.says)
      \/ OpenedWith(y, t, q) /\ bar.says # 0 /\ Approves(s)
  BY DecisionIs
<1> HIDE DEF s, q
<1>5. CASE SameHolding(y, t) /\ ~Opposite(t.units, bar.says)
  BY <1>5 DEF SameHolding, SameBook, ActedBy
<1>6. CASE ClosedFrom(y, t) /\ Opposite(t.units, bar.says)
  BY <1>6 DEF ClosedFrom, ActedBy
<1>7. CASE OpenedWith(y, t, q) /\ bar.says # 0 /\ Approves(s)
  <2> DEFINE units == bar.says * q
             fill == FillPrice(setup.exchange, units, bar.close)
             entry == EntryStop(units, fill, StopDistance(setup.exchange))
  <2>1. entry = fill - bar.says * StopDistance(setup.exchange)
    BY <1>3, <1>7, StopIsSet
  <2>2. /\ y.lastOrder = now /\ y.cash = CashAfter(t, units, bar.close) /\ y.units = t.units + units
        /\ y.basis = t.basis + fill * units
        /\ y.stop = IF t.units # 0 THEN t.stop
                    ELSE IF setup.policy # "stop_loss" THEN None ELSE entry
        /\ y.openedAt = IF t.units = 0 THEN now ELSE t.openedAt
    BY <1>1, <1>7 DEF OpenedWith
  <2>3. units = bar.says * SizeOf(t, bar.close)
    BY <1>2
  <2>4. y.stop = IF t.units # 0 THEN t.stop
                 ELSE IF setup.policy # "stop_loss" THEN None
                 ELSE fill - bar.says * StopDistance(setup.exchange)
    BY <2>1, <2>2
  <2> HIDE DEF units, entry
  <2>5. ActedBy(y, t, bar, y.lastOrder = now)
    BY <2>2, <2>3, <2>4, Zenon DEF ActedBy
  <2> QED BY <2>2, <2>5
<1> QED BY <1>4, <1>5, <1>6, <1>7

(* A stop is reached alike by positions of the same side.                  *)
LEMMA SameSide ==
    ASSUME NEW x, NEW y, NEW b, x.units \in Int, y.units \in Int, x.units # 0, y.units # 0,
           Sign(x.units) = Sign(y.units), x.stop = y.stop, Reached(x, b)
    PROVE  Reached(y, b)
BY DEF Reached, ProtectiveExit, Sign

(* A position that is open after an evaluation has a stop that no bar      *)
(* since its entry has reached.                                            *)
LEMMA DeskUntouched ==
    ASSUME Told, late = 0, NEW a \in Desks, NEW t \in Desks, NEW y, StoppedFrom(t, a),
           DecidedFrom(y, t)
    PROVE  Untouched(y, recent, now, Len(recent))
<1>1. /\ Time = now /\ now \in Nat /\ Len(recent) \in Nat /\ DOMAIN recent = 1 .. Len(recent)
  BY DEF Told, Time
<1>2. ASSUME NEW i \in 1 .. Len(recent), NumberOf(i) > t.openedAt, Reached(t, recent[i])
      PROVE  FALSE
  <2>1. StopBars(a) = {} /\ t = a
    BY <1>2 DEF StoppedFrom, LeftAt, Reached
  <2> QED BY <1>1, <1>2, <2>1 DEF StopBars
<1>3. \/ SameHolding(y, t)
      \/ ClosedFrom(y, t)
      \/ /\ OpenedWith(y, t, Quantity(LiveState(t))) /\ bar.says # 0
         /\ ~Opposite(t.units, bar.says) /\ Approves(LiveState(t))
  BY DecisionIs
<1>4. ASSUME NEW i \in 1 .. Len(recent), NumberOf(i) > y.openedAt, Reached(y, recent[i])
      PROVE  FALSE
  <2>1. CASE SameHolding(y, t)
    BY <1>2, <1>4, <2>1 DEF SameHolding, Reached
  <2>2. CASE ClosedFrom(y, t)
    BY <1>4, <2>2 DEF ClosedFrom, Reached
  <2>3. CASE /\ OpenedWith(y, t, Quantity(LiveState(t))) /\ bar.says # 0
             /\ ~Opposite(t.units, bar.says) /\ Approves(LiveState(t))
    <3> DEFINE q == Quantity(LiveState(t))
               units == bar.says * q
    <3>1. CASE t.units = 0
      <4>1. y.openedAt = now
        BY <1>1, <2>3, <3>1 DEF OpenedWith
      <4> QED BY <1>1, <1>4, <4>1 DEF NumberOf
    <3>2. CASE t.units # 0
      <4>1. /\ y.openedAt = t.openedAt /\ y.stop = t.stop /\ y.units = t.units + units
            /\ y.units # 0
        BY <2>3, <3>2 DEF OpenedWith
      <4>2. t.units \in Int /\ y.units \in Int /\ bar.says \in {-1, 1}
        BY <2>3 DEF OpenedWith, Desks, Told, GoodBar
      <4>3. q \in Nat \ {0}
        BY <2>3, JudgedLive, ApprovedSizes
      <4> HIDE DEF q
      <4>4. /\ units \in Int /\ Sign(units) = bar.says /\ units # 0
            /\ (bar.says = 1 => t.units >= 0 /\ units > 0)
            /\ (bar.says = -1 => t.units <= 0 /\ units < 0)
        <5>1. /\ units \in Int /\ Sign(units) = bar.says /\ units # 0
              /\ (bar.says = 1 => t.units >= 0) /\ (bar.says = -1 => t.units <= 0)
          BY <2>3, <4>2, <4>3, Directions
        <5>2. (bar.says = 1 => units = q) /\ (bar.says = -1 => units = -q)
          BY <4>2, <4>3
        <5> HIDE DEF units
        <5>3. (bar.says = 1 => units > 0) /\ (bar.says = -1 => units < 0)
          BY <4>3, <5>2
        <5> QED BY <5>1, <5>3
      <4> HIDE DEF units
      <4>5. Sign(y.units) = Sign(t.units)
        <5>1. (t.units > 0 <=> y.units > 0) /\ (t.units < 0 <=> y.units < 0)
          BY <3>2, <4>1, <4>2, <4>4
        <5>2. /\ t.units > 0 => Sign(t.units) = 1
              /\ t.units < 0 => Sign(t.units) = -1
          BY <4>2, Signs
        <5>3. /\ y.units > 0 => Sign(y.units) = 1
              /\ y.units < 0 => Sign(y.units) = -1
          BY <4>2, Signs
        <5>4. t.units > 0 \/ t.units < 0
          BY <3>2, <4>2
        <5> QED BY <5>1, <5>2, <5>3, <5>4
      <4>6. Reached(t, recent[i])
        BY <1>4, <3>2, <4>1, <4>2, <4>5, SameSide
      <4> QED BY <1>2, <1>4, <4>1, <4>6
    <3> QED BY <3>1, <3>2
  <2> QED BY <1>3, <2>1, <2>2, <2>3
<1> QED BY <1>4 DEF Untouched, NumberOf

(* The stop that an evaluation finds touched, by the latest bar alone.     *)
LEMMA DeskLeft ==
    ASSUME DeskInv, now > 0, NEW a, WokenIs(a), NEW t, StoppedFrom(t, a),
           live.openedAt < now, Untouched(live, recent, now, Len(recent) - 1)
    PROVE  LeftBy(t, live, bar) /\ t.lastOrder = live.lastOrder /\ t.openedAt = live.openedAt
<1> DEFINE n == Len(recent)
           exit == ProtectiveExit(recent[Min(StopBars(a))], a.units, a.stop, None).price
<1>1. /\ now \in Nat /\ n \in 1 .. n /\ n \in Nat /\ DOMAIN recent = 1 .. n /\ recent[n] = bar
  <2>1. /\ now \in Nat /\ n \in Nat /\ n > 0 /\ DOMAIN recent = 1 .. n /\ recent[n] = bar
    BY WindowAssumption DEF DeskInv, ReplayInv
  <2> HIDE DEF n
  <2> QED BY <2>1
<1>2. /\ a.cash = live.cash /\ a.units = live.units /\ a.basis = live.basis /\ a.stop = live.stop
      /\ a.openedAt = live.openedAt /\ a.lastOrder = live.lastOrder
  BY DEF WokenIs
<1>3. \A b : Reached(a, b) <=> Reached(live, b)
  BY <1>2 DEF Reached
<1>4. \A i \in 1 .. n : i # n => i \notin StopBars(a)
  <2> SUFFICES ASSUME NEW i \in 1 .. n, i # n, i \in StopBars(a) PROVE FALSE
    OBVIOUS
  <2>1. NumberOf(i) > live.openedAt /\ Reached(live, recent[i])
    BY <1>2, <1>3 DEF StopBars
  <2>2. i \in 1 .. Len(recent) - 1
    <3>1. n = Len(recent) /\ n \in Nat
      BY <1>1
    <3> HIDE DEF n
    <3>2. i \in 1 .. n - 1
      BY <3>1
    <3> QED BY <3>1, <3>2
  <2> QED BY <2>1, <2>2 DEF Untouched, NumberOf
<1>5. n \in StopBars(a) <=> Reached(live, bar)
  <2>1. NumberOf(n) = now
    BY <1>1 DEF NumberOf
  <2> QED BY <1>1, <1>2, <1>3, <2>1 DEF StopBars
<1>6. StopBars(a) \subseteq 1 .. n
  BY <1>1 DEF StopBars
<1> HIDE DEF n
<1>7. CASE Reached(live, bar)
  <2>1. StopBars(a) = {n}
    BY <1>4, <1>5, <1>6, <1>7
  <2>2. Min(StopBars(a)) = n
    BY <1>1, <2>1 DEF Min
  <2>3. LeftAt(t, a, exit)
    BY <2>1 DEF StoppedFrom
  <2>4. exit = ProtectiveExit(bar, live.units, live.stop, None).price
    BY <1>1, <1>2, <2>2
  <2> HIDE DEF exit
  <2> QED BY <1>2, <1>7, <2>3, <2>4 DEF LeftAt, LeftBy, CashAfter
<1>8. CASE ~Reached(live, bar)
  <2>1. StopBars(a) = {}
    BY <1>4, <1>5, <1>6, <1>8
  <2>2. t = a
    BY <2>1 DEF StoppedFrom
  <2> QED BY <1>2, <1>8, <2>2 DEF LeftBy, SameBook
<1> QED BY <1>7, <1>8

LEMMA TrackedByEvaluate == ASSUME FarFromZero, DeskInv, Tracked, Evaluate PROVE Tracked'
<1>1. PICK a, t : /\ WokenIs(a) /\ StoppedFrom(t, a) /\ DecidedFrom(live', t)
                  /\ parted' = (parted \/ late > 0
                                \/ (live'.lastOrder = now) # (replay.lastOrder = now))
  BY Evaluating
<1>2. Told /\ now > 0 /\ UNCHANGED <<setup, bar, now, replay, recent, late>>
  BY Evaluating
<1> SUFFICES ASSUME Live', ~parted' PROVE Tracked'
  BY DEF Tracked
<1>3. /\ Live /\ ~parted /\ ~(late > 0)
      /\ (live'.lastOrder = now) = (replay.lastOrder = now)
  <2>1. Live
    BY <1>2 DEF Live
  <2> QED BY <1>1, <2>1, Zenon
<1>4. late = 0 /\ now \in Nat /\ live \in Desks /\ bar \in Bars /\ live.seen # now
  <2>1. late \in Nat /\ now \in Nat /\ live \in Desks /\ bar \in Bars
    BY <1>2 DEF DeskInv, ReplayInv
  <2>2. live.seen # now
    BY DEF Evaluate
  <2> QED BY <1>3, <2>1, <2>2
<1>5. /\ live.openedAt <= live.seen /\ now = live.seen + 1
      /\ (live.lastOrder # None => live.lastOrder <= live.seen)
      /\ (replay.lastOrder # None => replay.lastOrder <= now)
      /\ Untouched(live, recent, now, Len(recent) - 1)
      /\ \E c \in Sound : /\ LeftBy(c, live, bar)
                          /\ ActedBy(replay, c, bar, replay.lastOrder = now)
  BY <1>3, <1>4 DEF Tracked
<1>6. PICK c \in Sound : LeftBy(c, live, bar) /\ ActedBy(replay, c, bar, replay.lastOrder = now)
  BY <1>5
<1>7. live.openedAt < now /\ live.seen < now /\ live.openedAt \in Nat
  BY <1>4, <1>5 DEF Desks
<1>8. LeftBy(t, live, bar) /\ t.lastOrder = live.lastOrder /\ t.openedAt = live.openedAt
  BY <1>1, <1>2, <1>5, <1>7, DeskLeft
<1>9. a \in Desks /\ t \in Desks /\ t.seen = now
  BY <1>1 DEF WokenIs, StoppedFrom, LeftAt
<1>10. t.lastOrder # now
  <2>1. live.lastOrder \in Int \cup {None} /\ None \notin Int
    BY <1>4, RiskAssumption DEF Desks, MaybeInt
  <2> QED BY <1>4, <1>5, <1>7, <1>8, <2>1 DEF Desks
<1>11. /\ ActedBy(live', t, bar, live'.lastOrder = now)
       /\ live'.lastOrder \in {t.lastOrder, now} /\ live'.openedAt \in {t.openedAt, now}
  BY <1>1, <1>2, <1>4, <1>9, <1>10, DeskActed
<1>12. ActedBy(replay, c, bar, live'.lastOrder = now)
  BY <1>3, <1>6, Zenon
<1>13. SameBook(t, c)
  <2>1. SameBook(live, live)
    BY DEF SameBook
  <2> QED BY <1>6, <1>8, <2>1, SameLeft
<1>14. SameBook(live', replay)
  BY <1>11, <1>12, <1>13, SameActed
<1>15. Untouched(live', recent, now, Len(recent))
  BY <1>1, <1>2, <1>4, <1>9, DeskUntouched
<1>16. live'.seen = now
  BY <1>1, <1>2, <1>9, DecisionIs
<1>17. /\ live'.openedAt <= live'.seen
       /\ live'.lastOrder # None => live'.lastOrder <= live'.seen
  <2>1. live.lastOrder # None => live.lastOrder \in Int
    BY <1>4 DEF Desks, MaybeInt
  <2>2. live'.openedAt <= now
    BY <1>4, <1>7, <1>8, <1>11
  <2>3. live'.lastOrder # None => live'.lastOrder <= now
    <3>1. live'.lastOrder = live.lastOrder \/ live'.lastOrder = now
      BY <1>8, <1>11
    <3>2. live.lastOrder # None => live.lastOrder <= now
      BY <1>4, <1>5, <1>7, <2>1 DEF Desks
    <3> QED BY <1>4, <3>1, <3>2
  <2> QED BY <1>16, <2>2, <2>3
<1>18. /\ (SameBook(live, replay))' /\ Untouched(live', recent', now', Len(recent'))
       /\ now' = now /\ replay' = replay
  BY <1>2, <1>14, <1>15 DEF SameBook
<1> QED BY <1>5, <1>16, <1>17, <1>18 DEF Tracked

LEMMA TrackedKept == ASSUME FarFromZero, DeskInv, Tracked, [Next]_vars PROVE Tracked'
<1>1. CASE Evaluate
  BY <1>1, TrackedByEvaluate
<1>2. CASE \E shape \in Shape, says \in {-1, 0, 1} : BarCloses(shape, says)
  BY <1>2, TrackedByBar
<1>3. CASE (\E c \in Lock : ReleaseLock(c)) \/ (\E c \in Cause \ Lock : ReleaseOneStep(c))
  <2>1. parted'
    BY <1>3 DEF ReleaseLock, ReleaseOneStep
  <2> QED BY <2>1 DEF Tracked
<1>4. CASE UNCHANGED <<setup, bar, now, replay, recent, live, halt, parted>>
  <2>1. \A c : LeftBy(c, live, bar) /\ ActedBy(replay, c, bar, replay.lastOrder = now)
                 => (LeftBy(c, live, bar) /\ ActedBy(replay, c, bar, replay.lastOrder = now))'
    BY <1>4 DEF LeftBy, CashAfter, SameBook, Reached, ActedBy, SizeOf
  <2>2. /\ (SameBook(live, replay) <=> (SameBook(live, replay))')
        /\ Live <=> Live'
    BY <1>4 DEF SameBook, Live
  <2>3. \A n : Untouched(live, recent, now, n) => Untouched(live', recent', now', n)
    BY <1>4
  <2> QED BY <1>4, <2>1, <2>2, <2>3 DEF Tracked
<1> QED BY <1>1, <1>2, <1>3, <1>4 DEF Next, BarIsLate, vars

(* The cash, the position and the stop of a bot that misses no bar are     *)
(* those that a replay of the same bars has, whatever the bars and the     *)
(* constants (backtest_replay, bot_evaluation: the two run the same        *)
(* policies), where no price is within the distance of a stop of zero.     *)
THEOREM BooksAgree == ASSUME FarFromZero PROVE Spec => []SameBooks
<1> DEFINE Inv == DeskInv /\ Tracked
<1>1. Init => Inv
  <2> SUFFICES ASSUME Init PROVE Inv
    OBVIOUS
  <2>1. DeskInv /\ live = NewDesk /\ replay = NewReplay /\ now = 0 /\ recent = <<>>
    BY DeskStarts DEF Init, ReplayInit
  <2>2. /\ live.openedAt = 0 /\ live.seen = 0 /\ live.lastOrder = None
        /\ replay.lastOrder = None /\ SameBook(live, replay)
    BY <2>1 DEF NewDesk, NewReplay, SameBook
  <2>3. Untouched(live, recent, now, Len(recent))
    BY <2>1 DEF Untouched
  <2> QED BY <2>1, <2>2, <2>3 DEF Tracked
<1>2. Inv /\ [Next]_vars => Inv'
  BY DeskKept, TrackedKept
<1>3. Inv => SameBooks
  BY DEF Tracked, SameBooks, SameBook
<1> HIDE DEF Inv
<1> QED BY <1>1, <1>2, <1>3, PTL DEF Spec
=============================================================================
