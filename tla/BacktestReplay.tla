--------------------------- MODULE BacktestReplay ---------------------------
(***************************************************************************)
(* run_replay of app/trading: a series of bars is walked once, each bar    *)
(* checked against the stop of the position that is held, valued, and its  *)
(* signal acted on, with the fills, limits and sizes of RiskGate.          *)
(*                                                                         *)
(* A bar is an open, a close and the probes its stop is checked on, which  *)
(* are the bar itself or the finer bars inside it. What the strategy says  *)
(* of a bar comes with it. Time is counted in bars.                        *)
(***************************************************************************)
EXTENDS RiskGate, Sequences

CONSTANTS
    Setup,          \* the ways it may be run
    Shape,          \* the bars there may be
    InitialEquity,  \* in thousandths
    BarMinutes,     \* minutes of a bar
    DayBars,        \* bars of a day
    WeekBars,       \* bars of a week
    MaxBars         \* bound: bars of the series

Priced(b) == {b.open, b.high, b.low} \subseteq Nat \ {0} /\ b.open \in b.low .. b.high

(* The bars are those of validated pages (final_points), and a bar's only *)
(* probe is the bar itself.                                                *)
ASSUME SeriesAssumption ==
    /\ {BarMinutes, DayBars, WeekBars} \subseteq Nat \ {0} /\ InitialEquity \in Nat
    /\ \A s \in Setup :
          /\ s.exchange \in {"binance", "oanda"}
          /\ s.policy \in {"signal", "stop_loss", "trailing_stop", "stop_and_target"}
          /\ s.slip \in Nat /\ s.release \in Nat \cup {None}
    /\ \A s \in Shape :
          /\ Priced(s) /\ s.close \in s.low .. s.high
          /\ s.probes \in Seq([open : Nat, high : Nat, low : Nat]) /\ s.probes # <<>>
          /\ \A i \in DOMAIN s.probes : Priced(s.probes[i])
          /\ Len(s.probes) = 1 => s.probes = <<[open |-> s.open, high |-> s.high, low |-> s.low]>>

VARIABLES
    setup,   \* how this series is run: [exchange, policy, slip, release]
    bar,     \* the latest bar, and what the strategy says of it
    now,     \* how many bars have closed
    replay   \* _ReplayState, and what its trades add up to

replayVars == <<setup, bar, now, replay>>

Day(t) == t \div DayBars
Week(t) == t \div WeekBars

NoBar == [open |-> 0, high |-> 0, low |-> 0, close |-> 0, probes |-> <<>>, says |-> 0]
BarOf(shape, says) ==
    [open |-> shape.open, high |-> shape.high, low |-> shape.low, close |-> shape.close,
     probes |-> shape.probes, says |-> says]

(* Nothing has been replayed. `earned` is the sum of the trades, net of    *)
(* their fees, and `exit` the last protective exit, before slippage.       *)
NewReplay ==
    [cash |-> InitialEquity, units |-> 0, basis |-> 0, stop |-> None, target |-> None,
     trail |-> None, highest |-> None, fees |-> 0, dayFrom |-> None, day |-> None,
     weekFrom |-> None, week |-> None, peak |-> 0, losses |-> 0, lastOrder |-> None,
     lockSince |-> None, earned |-> 0, exit |-> NoExit]

EquityAt(r, price) == Equity(r.cash, r, price)

-----------------------------------------------------------------------------
(* Faulty form for TradesExplainEquity: a trade is charged only the fee of *)
(* its exit.                                                               *)
FilledWithoutEntryFees(r, units, base) ==
    LET price == FillPrice(setup.exchange, units, base)
        after == Applied(r, units, price)
        closing == IF Opposite(r.units, units) THEN Min({Abs(units), Abs(r.units)}) ELSE 0
        fee == Fee(setup.exchange, units, base)
        closingFee == (fee * closing) \div Abs(units)
    IN [r EXCEPT !.cash = r.cash + CashMove(setup.exchange, units, price, base),
                 !.units = after.units, !.basis = after.basis,
                 !.fees = IF after.units = 0 THEN 0 ELSE r.fees + fee - closingFee,
                 !.earned = r.earned + 1000 * after.realized - closingFee,
                 !.losses = IF closing = 0 THEN r.losses
                            ELSE IF after.realized < 0 THEN r.losses + 1 ELSE 0,
                 !.stop = IF after.units = 0 THEN None ELSE r.stop,
                 !.target = IF after.units = 0 THEN None ELSE r.target,
                 !.trail = IF after.units = 0 THEN None ELSE r.trail,
                 !.highest = IF after.units = 0 THEN None ELSE r.highest]

(* _apply_and_record: a fill of `units` at `base`. A fill against the      *)
(* position is a trade, charged its own fee and its share of the fees the  *)
(* position was entered with; breaking even ends a losing streak.          *)
Filled(r, units, base) ==
    LET price == FillPrice(setup.exchange, units, base)
        after == Applied(r, units, price)
        closing == IF Opposite(r.units, units) THEN Min({Abs(units), Abs(r.units)}) ELSE 0
        fee == Fee(setup.exchange, units, base)
        closingFee == (fee * closing) \div Abs(units)
        share == IF closing = 0 THEN 0 ELSE (r.fees * closing) \div Abs(r.units)
    IN [r EXCEPT !.cash = r.cash + CashMove(setup.exchange, units, price, base),
                 !.units = after.units, !.basis = after.basis,
                 !.fees = IF after.units = 0 THEN 0 ELSE r.fees - share + fee - closingFee,
                 !.earned = r.earned + 1000 * after.realized - closingFee - share,
                 !.losses = IF closing = 0 THEN r.losses
                            ELSE IF after.realized < 0 THEN r.losses + 1 ELSE 0,
                 !.stop = IF after.units = 0 THEN None ELSE r.stop,
                 !.target = IF after.units = 0 THEN None ELSE r.target,
                 !.trail = IF after.units = 0 THEN None ELSE r.trail,
                 !.highest = IF after.units = 0 THEN None ELSE r.highest]

(* A stop that triggers fills worse than its level; a target does not.     *)
Slipped(price, units) ==
    IF units > 0 THEN (price * (1000 - setup.slip)) \div 1000
    ELSE (price * (1000 + setup.slip)) \div 1000

(* Faulty form for TrailingStopNeverFalls: the stop follows the last high. *)
StopFollowsEachBar(r, probe) ==
    IF r.trail = None \/ r.units <= 0 THEN r
    ELSE [r EXCEPT !.highest = probe.high, !.stop = probe.high - r.trail]

(* _raise_trailing_stop, of a long, after a probe that did not hit it.     *)
TrailingRaised(r, probe) ==
    IF r.trail = None \/ r.units <= 0 THEN r
    ELSE LET highest == Max({r.highest, probe.high}) IN
         [r EXCEPT !.highest = highest, !.stop = Max({r.stop, highest - r.trail})]

(* One probe: nothing once the position is closed.                         *)
Probed(r, probe) ==
    IF setup.policy = "signal" \/ r.units = 0 \/ r.stop = None THEN r
    ELSE LET exit == ProtectiveExit(probe, r.units, r.stop, r.target) IN
         IF exit = NoExit THEN TrailingRaised(r, probe)
         ELSE [Filled(r, -r.units, IF exit.reason = "stop_loss" THEN Slipped(exit.price, r.units)
                                   ELSE exit.price) EXCEPT !.exit = exit]

Stopped(r, b) ==
    LET after[i \in 0 .. Len(b.probes)] ==
          IF i = 0 THEN r ELSE Probed(after[i - 1], b.probes[i])
    IN after[Len(b.probes)]

(* _release_expired_lock: a losing streak or a drawdown that has been past *)
(* its limit for long enough is counted from scratch.                      *)
LockReleased(r, equity) ==
    LET locked == r.losses > Rules.initial.losses \/ Lost([equity |-> equity], r.peak,
                                                         Rules.initial.drawdown)
    IN CASE setup.release = None -> r
         [] setup.release # None /\ ~locked -> [r EXCEPT !.lockSince = None]
         [] setup.release # None /\ locked /\ r.lockSince = None -> [r EXCEPT !.lockSince = now']
         [] OTHER -> IF now' - r.lockSince < setup.release THEN r
                     ELSE [r EXCEPT !.losses = 0, !.peak = equity, !.lockSince = None]

(* The bar is valued at its close, which may be the first value of a day   *)
(* or a week, or the best ever.                                            *)
Valued(r, b) ==
    LET equity == EquityAt(r, b.close)
        kept == LockReleased([r EXCEPT !.peak = Max({r.peak, equity})], equity)
    IN [kept EXCEPT
          !.day = Day(now'), !.dayFrom = IF r.day = Day(now') THEN r.dayFrom ELSE equity,
          !.week = Week(now'), !.weekFrom = IF r.week = Week(now') THEN r.weekFrom ELSE equity]

(* The state the gate judges an entry from. A replay's data is never late. *)
ReplayState(r, b) ==
    [exchange |-> setup.exchange, units |-> b.says, price |-> b.close,
     equity |-> EquityAt(r, b.close), cash |-> r.cash, risk |-> OpenRisk(r, b.close),
     held |-> Abs(r.units), day |-> r.dayFrom, week |-> r.weekFrom, peak |-> r.peak,
     losses |-> r.losses, delay |-> 0,
     minutes |-> IF r.lastOrder = None THEN None ELSE (now' - r.lastOrder) * BarMinutes]

(* A position opened from flat gets its stop, and its target or its trail. *)
Protected(r, units, base) ==
    LET distance == StopDistance(setup.exchange)
        entry == FillPrice(setup.exchange, units, base)
    IN IF setup.policy = "signal" THEN r
       ELSE [r EXCEPT
          !.stop = entry - Sign(units) * distance,
          !.trail = IF setup.policy = "trailing_stop" THEN distance ELSE r.trail,
          !.highest = IF setup.policy = "trailing_stop" THEN entry ELSE r.highest,
          !.target = IF setup.policy = "stop_and_target"
                     THEN entry + Sign(units) * distance * Rules.rewardRisk ELSE r.target]

Entered(r, b) ==
    LET units == b.says * Quantity(ReplayState(r, b))
        filled == [Filled(r, units, b.close) EXCEPT !.lastOrder = now']
    IN IF r.units = 0 THEN Protected(filled, units, b.close) ELSE filled

(* An opposing signal closes the whole position and nothing more; any      *)
(* other is an entry, if the gate approves it.                             *)
Acted(r, b) ==
    CASE b.says = 0 -> r
      [] Opposite(r.units, b.says) -> Filled(r, -r.units, b.close)
      [] OTHER -> IF Approves(ReplayState(r, b)) THEN Entered(r, b) ELSE r

Checked(r, b) == Valued(Stopped([r EXCEPT !.exit = NoExit], b), b)

-----------------------------------------------------------------------------
ReplayInit ==
    /\ setup \in Setup
    /\ bar = NoBar
    /\ now = 0
    /\ replay = NewReplay

(* A bar closes and is replayed.                                           *)
CloseBar(shape, says) ==
    /\ now < MaxBars
    /\ now' = now + 1
    /\ bar' = BarOf(shape, says)
    /\ \E checked \in {Checked(replay, bar')} : replay' = Acted(checked, bar')
    /\ UNCHANGED setup

ReplayNext == \E shape \in Shape, says \in {-1, 0, 1} : CloseBar(shape, says)

-----------------------------------------------------------------------------
(* The trades of a replay, net of all fees, and the cost and entry fees of *)
(* what is still held account for every change of its cash, whatever was   *)
(* added to, stopped out or closed (_apply_and_record, open_entry_fees).   *)
TradesExplainEquity ==
    replay.cash + 1000 * replay.basis + replay.fees = InitialEquity + replay.earned

(* A stop is hit at a price that traded in the probe that hit it: a gap    *)
(* fills at the open (_protective_exit: "a gap cannot fill at a price that *)
(* never traded").                                                         *)
GapsFillAtTheOpen ==
    replay.exit # NoExit =>
        \E i \in DOMAIN bar.probes : replay.exit.price \in bar.probes[i].low .. bar.probes[i].high

(* While a position is held its stop never moves against it, however many  *)
(* probes a bar has (_raise_trailing_stop: "never downward").              *)
TrailingStopNeverFalls ==
    [][replay.units > 0 /\ replay'.units >= replay.units /\ replay.stop # None
       /\ replay'.exit = NoExit => replay'.stop >= replay.stop]_replayVars

=============================================================================
