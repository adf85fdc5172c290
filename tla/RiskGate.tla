------------------------------ MODULE RiskGate ------------------------------
(***************************************************************************)
(* The arithmetic of app/trading: what a fill does to a position, what an  *)
(* account is worth, what size the risk gate gives an order and which of   *)
(* its limits the order breaks. The live pipeline and the backtest share   *)
(* it.                                                                     *)
(*                                                                         *)
(* Positions are signed: `units` is positive for a long and negative for a *)
(* short, and `basis` is units * average_entry_price. Prices and           *)
(* quantities are whole numbers and money is counted in thousandths, so    *)
(* that a fee of 0.1 % is a whole number; rules are per mille.             *)
(***************************************************************************)
EXTENDS Integers, FiniteSets, FiniteSetsExt

CONSTANTS
    None,           \* no value
    Rules,          \* the rules of the risk profile version, per mille
    Spread,         \* the stored bid/ask spread
    BrokerMinimum,  \* 50 ticks: the least stop distance at OANDA
    MinQuantity     \* of the instrument

ASSUME RiskAssumption ==
    /\ Spread \in Nat /\ {BrokerMinimum, MinQuantity} \subseteq Nat \ {0}
    /\ None \notin Int

(* CONSERVATIVE_V1_RULES, the only rules there are: what denies is reached *)
(* before what halts.                                                      *)
ASSUME RulesAssumption ==
    /\ {Rules.leverage, Rules.orderShare, Rules.holdingShare, Rules.rewardRisk} \subseteq Nat
    /\ \A limit \in {Rules.initial, Rules.hard} :
          {limit.perTrade, limit.allOpen, limit.drawdown, limit.losses} \subseteq Nat
    /\ Rules.initial.drawdown <= Rules.hard.drawdown
    /\ Rules.initial.losses <= Rules.hard.losses

Abs(n) == IF n < 0 THEN -n ELSE n
Sign(n) == IF n < 0 THEN -1 ELSE 1
Opposite(m, n) == m * n < 0

-----------------------------------------------------------------------------
(* Fills.                                                                  *)

AllowShort(exchange) == exchange = "oanda"
Slippage(exchange) == IF exchange = "oanda" THEN Spread \div 2 ELSE Spread
FillPrice(exchange, units, price) == price + Sign(units) * Slippage(exchange)
Fee(exchange, units, price) == IF exchange = "oanda" THEN 0 ELSE price * Abs(units)

Flat == [units |-> 0, basis |-> 0]

(* A fill opens, increases, reduces, closes or turns a position; what it   *)
(* closes is realized against the average entry price.                     *)
Applied(p, units, price) ==
    LET after == p.units + units
        closed == price * p.units - p.basis
    IN CASE ~Opposite(p.units, units) ->
              [units |-> after, basis |-> p.basis + price * units, realized |-> 0]
         [] Opposite(p.units, units) /\ ~Opposite(p.units, after) ->
              [units |-> after, basis |-> (p.basis * Abs(after)) \div Abs(p.units),
               realized |-> (closed * Abs(units)) \div Abs(p.units)]
         [] OTHER -> [units |-> after, basis |-> price * after, realized |-> closed]

(* Cash moves by the notional and the fee, and not by what was realized.   *)
CashMove(exchange, units, price, base) == -1000 * price * units - Fee(exchange, units, base)

MarketValue(p, price) == 1000 * price * p.units
Unrealized(p, price) == 1000 * (price * p.units - p.basis)
Equity(cash, p, price) == cash + MarketValue(p, price)
OpenRisk(p, price) == IF Unrealized(p, price) < 0 THEN -Unrealized(p, price) ELSE 0

-----------------------------------------------------------------------------
(* Stops.                                                                  *)

(* Without the fifteen bars an average true range needs, the spread and    *)
(* the broker's minimum set the distance.                                  *)
StopDistance(exchange) ==
    Max({3 * Spread} \cup IF exchange = "oanda" THEN {BrokerMinimum} ELSE {})

NoExit == [price |-> None, reason |-> "none"]
Exit(price, reason) == [price |-> price, reason |-> reason]

(* Where a bar leaves a position: at its stop or its target, at the open   *)
(* of a bar that opens beyond the level, and at the stop if it reached     *)
(* both.                                                                   *)
ProtectiveExit(bar, units, stop, target) ==
    LET s == Sign(units)
        worst == IF s > 0 THEN bar.low ELSE bar.high
        best == IF s > 0 THEN bar.high ELSE bar.low
    IN CASE s * (bar.open - stop) <= 0 -> Exit(bar.open, "stop_loss")
         [] s * (bar.open - stop) > 0 /\ s * (worst - stop) <= 0 -> Exit(stop, "stop_loss")
         [] s * (worst - stop) > 0 /\ target # None /\ s * (bar.open - target) >= 0 ->
              Exit(bar.open, "take_profit")
         [] s * (worst - stop) > 0 /\ target # None /\ s * (bar.open - target) < 0
              /\ s * (best - target) >= 0 -> Exit(target, "take_profit")
         [] OTHER -> NoExit

EntryStop(units, price, distance) ==
    LET stop == price - Sign(units) * distance IN IF stop > 0 THEN stop ELSE None

-----------------------------------------------------------------------------
(* The gate. A state s holds what it is judged from: exchange, units (one  *)
(* for a buy, minus one for a sell), price, equity, cash, risk (of what is *)
(* open), held (units), day, week and peak (equity, or None), losses,      *)
(* minutes (since the last order, or None) and delay (in bars).            *)

(* stress_adjusted_stop.                                                   *)
Stress(s) == 1000 * (StopDistance(s.exchange) + Slippage(s.exchange))
             + Fee(s.exchange, 1, s.price)

BrokerLimits(s) ==
    IF s.exchange = "oanda" THEN {(s.equity * Rules.leverage) \div (1000 * s.price)}
    ELSE {((IF s.cash > 0 THEN s.cash \div 1000 ELSE 0) * Rules.orderShare) \div (1000 * s.price)}

(* The size whose loss at the stop is within the budget of one trade, the  *)
(* room left under all open risk, and the broker's limit.                  *)
Quantity(s) ==
    LET room == s.equity * Rules.initial.allOpen - 1000 * s.risk IN
    Max({0, Min({(s.equity * Rules.initial.perTrade) \div (1000 * Stress(s)),
                 IF room > 0 THEN room \div (1000 * Stress(s)) ELSE 0} \cup BrokerLimits(s))})

Adjusted(s) == 1000 * Quantity(s) * Stress(s) < s.equity * Rules.initial.perTrade

Exceeds(part, whole, limit) == part * 1000 > whole * limit
Lost(s, from, limit) ==
    from # None /\ from > 0 /\ from > s.equity /\ Exceeds(from - s.equity, from, limit)

Measure == {"per_trade_loss", "all_open_risk", "daily_loss", "weekly_loss", "peak_drawdown",
            "consecutive_losses", "order_interval", "data_delay"}

(* Which measures are past a column of limits.                             *)
Past(s, limit) ==
    {m \in Measure :
       CASE m = "per_trade_loss" -> Exceeds(Quantity(s) * Stress(s), s.equity, limit.perTrade)
         [] m = "all_open_risk" ->
              Exceeds(s.risk + Quantity(s) * Stress(s), s.equity, limit.allOpen)
         [] m = "daily_loss" -> Lost(s, s.day, limit.daily)
         [] m = "weekly_loss" -> Lost(s, s.week, limit.weekly)
         [] m = "peak_drawdown" -> Lost(s, s.peak, limit.drawdown)
         [] m = "consecutive_losses" -> s.losses > limit.losses
         [] m = "order_interval" -> s.minutes # None /\ s.minutes < limit.minutes
         [] m = "data_delay" -> s.delay > limit.delay}

(* What an order may never do: be too small, go short on spot, or hold     *)
(* more than its share of the equity.                                      *)
Barred(s) ==
    LET after == IF s.units > 0 THEN s.held + Quantity(s) ELSE Max({0, s.held - Quantity(s)}) IN
    {m \in {"quantity_calculation", "binance_no_short", "binance_btc_holding_cap"} :
       CASE m = "quantity_calculation" -> Quantity(s) < MinQuantity
         [] m = "binance_no_short" -> s.exchange = "binance" /\ s.units < 0 /\ s.held = 0
         [] m = "binance_btc_holding_cap" ->
              s.exchange = "binance" /\ Exceeds(1000 * after * s.price, s.equity, Rules.holdingShare)}

(* Both columns deny; the hard one names the reason.                       *)
Hard(s) == Past(s, Rules.hard) \cup Barred(s)

Outcome(s) ==
    CASE s.equity <= 0 \/ (s.equity > 0 /\ Hard(s) # {}) -> "hard_limit_breach"
      [] s.equity > 0 /\ Hard(s) = {} /\ Past(s, Rules.initial) # {} -> "initial_threshold_breach"
      [] OTHER -> IF Adjusted(s) THEN "allow_with_adjustment" ELSE "allow"

Approves(s) == Outcome(s) \in {"allow", "allow_with_adjustment"}
=============================================================================
