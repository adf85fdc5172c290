----------------------------- MODULE PaperDesk -----------------------------
(***************************************************************************)
(* A paper bot of app/trading on live bars, beside the replay of the same  *)
(* bars: bot_evaluation on the latest bar, order_flow's orders, the        *)
(* account's snapshots, the gate, the halts it raises and relaxes, the     *)
(* locks of risk_locks and the Owner who releases them.                    *)
(*                                                                         *)
(* An evaluation is one step here (BotTrading takes it apart). Bars may be *)
(* late, and the worker may be down while several of them close.           *)
(***************************************************************************)
EXTENDS BacktestReplay

CONSTANTS
    Window,   \* the bars an evaluation reads (_HISTORY_WINDOW)
    MaxLate   \* bound: bars the data is behind the clock

ASSUME WindowAssumption == Window \in Nat \ {0} /\ MaxLate \in Nat

VARIABLES
    recent,   \* the last bars, Window at most
    late,     \* how many bars the data is behind the clock
    live,     \* the account: its ledger, position, snapshots and signals
    halt,     \* the active trading_halt of each cause
    parted    \* history: the bot had reason to differ from the replay

vars == <<setup, bar, now, replay, recent, late, live, halt, parted>>

Lock == {"consecutive_loss_limit", "peak_drawdown_limit"}
Cause == Lock \cup {"data_delay", "daily_loss_dd_limit"}

(* A bot's strategy exits on signals, or has a stop as well.               *)
Live == setup.policy \in {"signal", "stop_loss"} /\ setup.slip = 0 /\ setup.release = None

Time == now + late

(* `earned` and `fees` are of the ledger; `dayOf` and `weekOf` are when    *)
(* the first snapshots `day` and `week` were taken; `seen` is the last bar *)
(* with a signal. History: `stake` is what a position was opened with,     *)
(* `overrun` what its stop cost above that, `touched` that a bar reached   *)
(* the stop, `outage` that more bars were missed than an evaluation reads, *)
(* and `denied` what an entry was denied for.                              *)
NewDesk ==
    [cash |-> InitialEquity, units |-> 0, basis |-> 0, stop |-> None, openedAt |-> 0,
     streak |-> 0, earned |-> 0, fees |-> 0, dayOf |-> None, day |-> None, weekOf |-> None,
     week |-> None, peak |-> None, lastOrder |-> None, seen |-> 0, stake |-> None,
     overrun |-> 0, touched |-> FALSE, outage |-> FALSE, denied |-> {}]

TypeOK ==
    /\ setup \in Setup /\ now \in 0 .. MaxBars /\ late \in 0 .. MaxLate
    /\ Len(recent) = Min({now, Window})
    /\ halt \in [Cause -> {"none", "warning", "entry_halted"}]
    /\ {live.cash, live.units, live.basis, live.earned, live.fees} \subseteq Int
    /\ live.streak \in 0 .. now /\ live.seen \in 0 .. now
    /\ live.units = 0 => live.stop = None /\ live.basis = 0
    /\ setup.exchange = "binance" => live.units >= 0 /\ replay.units >= 0

-----------------------------------------------------------------------------
(* Orders.                                                                 *)

(* The first equity recorded in a period, if one was (_equity_at).         *)
Since(period, of, equity) == IF of = period THEN equity ELSE None

(* record_account_snapshot, which every fill ends with.                    *)
Snapshot(a) ==
    LET equity == EquityAt(a, bar.close) IN
    [a EXCEPT !.dayOf = Day(Time), !.day = IF a.dayOf = Day(Time) THEN a.day ELSE equity,
              !.weekOf = Week(Time), !.week = IF a.weekOf = Week(Time) THEN a.week ELSE equity,
              !.peak = IF a.peak = None THEN equity ELSE Max({a.peak, equity})]

(* The losing trades at the end of the ledger. What is realized is entered *)
(* unless it is nothing, so a trade that breaks even neither ends a streak *)
(* nor lengthens it.                                                       *)
StreakAfter(streak, realized) ==
    CASE realized < 0 -> streak + 1 [] realized > 0 -> 0 [] OTHER -> streak

(* _record_ledger: the cash, the fee and what was realized.                *)
Booked(a, units, base, realized) ==
    [a EXCEPT !.cash = @ + CashMove(setup.exchange, units, FillPrice(setup.exchange, units, base), base),
              !.earned = @ + 1000 * realized,
              !.fees = @ + Fee(setup.exchange, units, base),
              !.streak = StreakAfter(@, realized)]

(* place_order: the fill, the position, the ledger and a snapshot.         *)
Placed(a, units, base) ==
    LET after == Applied(a, units, FillPrice(setup.exchange, units, base))
        closed == after.units = 0
    IN Snapshot([Booked(a, units, base, after.realized) EXCEPT
         !.units = after.units, !.basis = after.basis,
         !.openedAt = IF a.units = 0 THEN Time ELSE a.openedAt,
         !.stop = IF closed THEN None ELSE a.stop,
         !.stake = IF closed THEN None ELSE a.stake,
         !.touched = ~closed /\ a.touched])

-----------------------------------------------------------------------------
(* The evaluation of the latest bar.                                       *)

(* Faulty form for NoSilentLock: the lock is raised at the hard limit.     *)
LockedAtTheHardLimit(h, a) ==
    [h EXCEPT
       !["consecutive_loss_limit"] =
          IF a.streak > Rules.hard.losses THEN "entry_halted" ELSE @,
       !["peak_drawdown_limit"] =
          IF Lost([equity |-> EquityAt(a, bar.close)], a.peak, Rules.hard.drawdown)
          THEN "entry_halted" ELSE @]

(* sync_lock_halts, before anything else is done with a bar.               *)
LocksSynced(h, a) ==
    [h EXCEPT
       !["consecutive_loss_limit"] =
          IF a.streak > Rules.initial.losses THEN "entry_halted" ELSE @,
       !["peak_drawdown_limit"] =
          IF Lost([equity |-> EquityAt(a, bar.close)], a.peak, Rules.initial.drawdown)
          THEN "entry_halted" ELSE @]

NumberOf(i) == now - Len(recent) + i
Reached(a, b) ==
    a.units # 0 /\ a.stop # None /\ ProtectiveExit(b, a.units, a.stop, None) # NoExit

(* Faulty form for StopsAreHonoured: only the latest bar is looked at.     *)
StopBarsOfLatest(a) == {i \in {Len(recent)} : NumberOf(i) > a.openedAt /\ Reached(a, recent[i])}

(* _stop_exit_price: of the bars that closed after the position was opened.*)
StopBars(a) == {i \in DOMAIN recent : NumberOf(i) > a.openedAt /\ Reached(a, recent[i])}

(* _close_at_stop, at the first such bar.                                  *)
ClosedAtStop(a) ==
    IF StopBars(a) = {} THEN a
    ELSE LET exit == ProtectiveExit(recent[Min(StopBars(a))], a.units, a.stop, None).price
             closed == Placed(a, -a.units, exit)
         IN [closed EXCEPT !.overrun =
               IF a.stake = None \/ exit # a.stop THEN 0
               ELSE a.stake.cash - closed.cash - a.stake.budget
                    - Fee(setup.exchange, a.units, exit)]

(* _minutes_since_last_order: of the orders that entries made.             *)
MinutesSince(order) == IF order = None THEN None ELSE (Time - order) * BarMinutes

(* What evaluate_signal reads. A day or a week without a snapshot has no   *)
(* equity to start from.                                                   *)
LiveState(a) ==
    [exchange |-> setup.exchange, units |-> bar.says, price |-> bar.close,
     equity |-> EquityAt(a, bar.close), cash |-> a.cash, risk |-> OpenRisk(a, bar.close),
     held |-> Abs(a.units),
     day |-> Since(Day(Time), a.dayOf, a.day), week |-> Since(Week(Time), a.weekOf, a.week),
     peak |-> a.peak, losses |-> a.streak, delay |-> late,
     minutes |-> MinutesSince(a.lastOrder)]

StepDown(level) == IF level = "entry_halted" THEN "warning" ELSE "none"
Judged(broken, level) == IF broken THEN "entry_halted" ELSE StepDown(level)

(* _sync_trading_halts: the hard limits halt, their recovery steps down.   *)
HaltsSynced(h, s) ==
    IF s.equity <= 0 THEN h
    ELSE [h EXCEPT
            !["data_delay"] = Judged("data_delay" \in Past(s, Rules.hard), @),
            !["daily_loss_dd_limit"] =
                Judged({"daily_loss", "weekly_loss", "peak_drawdown"} \cap Past(s, Rules.hard) # {}, @)]

Halted(h) == \E c \in Cause : h[c] = "entry_halted"

(* Faulty form for SameBooks: the stop is measured from the close.         *)
OpenedFromTheClose(a) ==
    LET s == LiveState(a)
        units == bar.says * Quantity(s)
        after == [Placed(a, units, bar.close) EXCEPT !.lastOrder = Time]
    IN IF a.units # 0 THEN [after EXCEPT !.stake = None]
       ELSE [after EXCEPT
               !.stop = IF setup.policy # "stop_loss" THEN None
                        ELSE EntryStop(units, bar.close, StopDistance(setup.exchange)),
               !.stake = [cash |-> a.cash, budget |-> (s.equity * Rules.initial.perTrade) \div 1000]]

(* An approved entry. A position opened from flat gets its stop; one that  *)
(* is added to keeps it.                                                   *)
Opened(a) ==
    LET s == LiveState(a)
        units == bar.says * Quantity(s)
        after == [Placed(a, units, bar.close) EXCEPT !.lastOrder = Time]
    IN IF a.units # 0 THEN [after EXCEPT !.stake = None]
       ELSE [after EXCEPT
               !.stop = IF setup.policy # "stop_loss" THEN None
                        ELSE EntryStop(units, FillPrice(setup.exchange, units, bar.close),
                                       StopDistance(setup.exchange)),
               !.stake = [cash |-> a.cash, budget |-> (s.equity * Rules.initial.perTrade) \div 1000]]

(* What a bar's signal leads to: the account and the halts.                *)
Decided(a, h) ==
    LET s == LiveState(a)
        gated == HaltsSynced(h, s)
    IN CASE bar.says = 0 -> [desk |-> a, halt |-> h]
         [] Opposite(a.units, bar.says) -> [desk |-> Placed(a, -a.units, bar.close), halt |-> h]
         [] OTHER ->
              [desk |-> CASE ~Approves(s) ->
                               [a EXCEPT !.denied = Past(s, Rules.initial) \cup Past(s, Rules.hard)]
                          [] Approves(s) /\ Halted(gated) -> a
                          [] OTHER -> Opened(a),
               halt |-> gated]

(* evaluate_bot_on_latest_bar, of a bar without a signal of this run.      *)
Evaluate ==
    /\ Live /\ now > 0 /\ live.seen # now
    /\ \E stopped \in {ClosedAtStop([live EXCEPT
                          !.seen = now, !.denied = {},
                          !.outage = @ \/ (live.units # 0 /\ now - live.seen > Window)])} :
       \E done \in {Decided(stopped, LocksSynced(halt, live))} :
          /\ live' = done.desk
          /\ halt' = done.halt
          /\ parted' = (parted \/ late > 0 \/ (done.desk.lastOrder = now) # (replay.lastOrder = now))
    /\ UNCHANGED <<setup, bar, now, replay, recent, late>>

-----------------------------------------------------------------------------
(* The market and the Owner.                                               *)

(* A bar closes, on time or as the next of those that are late. A bar the  *)
(* bot has not evaluated by then is missed.                                *)
BarCloses(shape, says) ==
    /\ CloseBar(shape, says)
    /\ recent' = SubSeq(Append(recent, bar'), IF Len(recent) = Window THEN 2 ELSE 1, Len(recent) + 1)
    /\ late' = Max({0, late - 1})
    /\ live' = [live EXCEPT !.touched = @ \/ (now' > live.openedAt /\ Reached(live, bar'))]
    /\ parted' = (parted \/ live.seen # now \/ Len(shape.probes) > 1)
    /\ UNCHANGED halt

(* The next bar does not come when it should.                              *)
BarIsLate ==
    /\ Live /\ now > 0 /\ now < MaxBars /\ late < MaxLate
    /\ late' = late + 1
    /\ UNCHANGED <<setup, bar, now, replay, recent, live, halt, parted>>

(* release_lock: the lock is gone at once and its count starts over.       *)
ReleaseLock(c) ==
    /\ halt[c] # "none"
    /\ halt' = [halt EXCEPT ![c] = "none"]
    /\ live' = [live EXCEPT !.denied = {},
                            !.streak = IF c = "consecutive_loss_limit" THEN 0 ELSE @,
                            !.peak = IF c = "peak_drawdown_limit" THEN None ELSE @]
    /\ parted' = TRUE
    /\ UNCHANGED <<setup, bar, now, replay, recent, late>>

(* /release of another halt: one step down.                                *)
ReleaseOneStep(c) ==
    /\ halt[c] # "none"
    /\ halt' = [halt EXCEPT ![c] = StepDown(@)]
    /\ parted' = TRUE
    /\ UNCHANGED <<setup, bar, now, replay, recent, late, live>>

Init ==
    /\ ReplayInit
    /\ recent = <<>> /\ late = 0 /\ live = NewDesk /\ parted = FALSE
    /\ halt = [c \in Cause |-> "none"]

Next ==
    \/ Evaluate
    \/ \E shape \in Shape, says \in {-1, 0, 1} : BarCloses(shape, says)
    \/ BarIsLate
    \/ \E c \in Lock : ReleaseLock(c)
    \/ \E c \in Cause \ Lock : ReleaseOneStep(c)

Spec == Init /\ [][Next]_vars

-----------------------------------------------------------------------------
(* A bot that misses no bar has the cash, the position and the stop the    *)
(* replay of the same bars has, up to the first entry that one of them is  *)
(* refused (backtest_replay: "a backtest run's execution policy matches    *)
(* the live pipeline's, not just its signal/risk logic").                  *)
SameBooks ==
    Live /\ ~parted /\ live.seen = now =>
        <<live.cash, live.units, live.basis, live.stop>>
          = <<replay.cash, replay.units, replay.basis, replay.stop>>

(* Whatever was missed while the worker was down, once a bar is evaluated  *)
(* no bar since the entry has reached the stop of a position that is still *)
(* open, unless more bars were missed than an evaluation reads             *)
(* (_stop_exit_price).                                                     *)
StopsAreHonoured == live.seen = now /\ live.touched => live.outage

(* An account that is denied an entry for its losses or its drawdown has a *)
(* halt that says so, which an Owner can release, unless the loss was made *)
(* in the evaluation that denies it (sync_lock_halts: "nothing ever clears *)
(* it -- silently").                                                       *)
NoSilentLock ==
    [][live'.seen # live.seen /\ (live.units = 0 \/ live'.units = live.units) =>
         /\ "consecutive_losses" \in live'.denied => halt'["consecutive_loss_limit"] # "none"
         /\ "peak_drawdown" \in live'.denied => halt'["peak_drawdown_limit"] # "none"]_vars

(* A position opened by one order and closed at its stop has cost no more  *)
(* than the share of the equity that one trade may lose, and the fee of    *)
(* its exit, which the gate does not count (stress_adjusted_stop).         *)
StoppedWithinBudget == live.overrun <= 0

(* Of a stop, in the replay and live: an exit fills at a price that was    *)
(* traded, no bar that reached it is passed over, and the loss at it is    *)
(* within the share of equity that the entry was sized for.                *)
StopsAreKept == GapsFillAtTheOpen /\ StopsAreHonoured /\ StoppedWithinBudget
=============================================================================
