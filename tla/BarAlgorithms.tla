---------------------------- MODULE BarAlgorithms ----------------------------
(***************************************************************************)
(* The algorithms over the bars of one series, as it grows bar by bar,     *)
(* with holes: aggregation (bar_aggregation), the indicators computed      *)
(* afresh from a history (indicators) and carried along from bar to bar    *)
(* (build_indicator_table), the strategies' signals and the filters on     *)
(* them. The series stays shorter than _HISTORY_WINDOW.                    *)
(*                                                                         *)
(* A bar opens at the hour `at`. Prices are in units so small that no      *)
(* division of an average has a remainder (EMA over three bars, the ATR    *)
(* and the RSI over two); an RSI is in thousandths, rounded down, and an   *)
(* ATR in proportion to its close in millionths.                           *)
(***************************************************************************)
EXTENDS Integers, SequencesExt

CONSTANTS
    Closes,      \* the closing prices
    Reach,       \* how far a bar's high is above its open and close
    Entry, Exit, \* entry_period, exit_period
    MaxHour,     \* bound: the last hour
    Oversold, ExitLevel, MomentumCap

ASSUME BarAssumption ==
    /\ Closes \subseteq Nat \ {0} /\ Reach \in Nat /\ MaxHour \in Nat
    /\ Entry \in Nat \ {0} /\ Exit \in Nat \ {0}
    /\ Oversold \in Int /\ ExitLevel \in Int /\ MomentumCap \in Int

VARIABLES bars, entry

barVars == <<bars, entry>>

Unknown == -1   \* an indicator without enough history

TrendPeriod == 3
AtrPeriod == 2
RsiPeriod == 2
MedianWindow == 3

Greatest(S) == CHOOSE x \in S : \A y \in S : y <= x
Least(S) == CHOOSE x \in S : \A y \in S : x <= y

(* The sum of the first n members.                                         *)
Total(s, n) ==
    LET sum[i \in 0 .. n] == IF i = 0 THEN 0 ELSE sum[i - 1] + s[i]
    IN sum[n]

Gain(x) == Greatest({x, 0})
Size(x) == Greatest({x, -x})

-----------------------------------------------------------------------------
(* aggregate_bars                                                          *)

Members(bucket, hours) == {b \in ToSet(bars) : b.at \div hours = bucket}

Complete(bucket, hours) == Cardinality(Members(bucket, hours)) = hours

Joined(members, at) ==
    [at |-> at,
     open |-> (CHOOSE b \in members : \A c \in members : b.at <= c.at).open,
     close |-> (CHOOSE b \in members : \A c \in members : c.at <= b.at).close,
     high |-> Greatest({b.high : b \in members}),
     low |-> Least({b.low : b \in members})]

AggregateBars(hours) ==
    {Joined(Members(k, hours), k * hours) :
        k \in {j \in 0 .. MaxHour \div hours : Complete(j, hours)}}

-----------------------------------------------------------------------------
(* indicators.py, of a history h.                                          *)

TrueRange(b, previous) ==
    Greatest({b.high - b.low, Size(b.high - previous.close), Size(b.low - previous.close)})

(* Wilder's smoothing after a seed.                                        *)
Wilder(s, period) ==
    LET avg[i \in period .. Len(s)] ==
            IF i = period THEN Total(s, period) \div period
            ELSE (avg[i - 1] * (period - 1) + s[i]) \div period
    IN avg[Len(s)]

TrueRanges(h) == [i \in 1 .. Len(h) - 1 |-> TrueRange(h[i + 1], h[i])]
Gains(h) == [i \in 1 .. Len(h) - 1 |-> Gain(h[i + 1].close - h[i].close)]
Losses(h) == [i \in 1 .. Len(h) - 1 |-> Gain(h[i].close - h[i + 1].close)]

AverageTrueRange(h) ==
    IF Len(h) < AtrPeriod + 1 THEN Unknown ELSE Wilder(TrueRanges(h), AtrPeriod)

ClosesOf(h) == [i \in 1 .. Len(h) |-> h[i].close]

Smoothed(s, period) ==
    LET ema[i \in period .. Len(s)] ==
            IF i = period THEN Total(s, period) \div period
            ELSE LET last == ema[i - 1] IN last + (2 * (s[i] - last)) \div (period + 1)
    IN ema[Len(s)]

Ema(h, period) == IF Len(h) < period THEN Unknown ELSE Smoothed(ClosesOf(h), period)

RsiOf(gain, loss) ==
    IF loss = 0 THEN IF gain > 0 THEN 100000 ELSE 50000
    ELSE (100000 * gain) \div (gain + loss)

RelativeStrength(h) ==
    IF Len(h) < RsiPeriod + 1 THEN Unknown
    ELSE RsiOf(Wilder(Gains(h), RsiPeriod), Wilder(Losses(h), RsiPeriod))

-----------------------------------------------------------------------------
(* build_indicator_table: what its loop carries from bar to bar.           *)

NoEntry == [n |-> 0, sums |-> [close |-> 0, range |-> 0, gain |-> 0, loss |-> 0],
            ema |-> Unknown, atr |-> Unknown, gain |-> Unknown, loss |-> Unknown, ratios |-> <<>>]

(* Faulty form for TableMatches: the seed is taken one value too late.     *)
CarriedLate(avg, n, sum, x, period) ==
    IF n = period + 1 THEN sum \div period
    ELSE IF avg # Unknown THEN (avg * (period - 1) + x) \div period ELSE Unknown

(* A smoothed average after its n-th value x, their sum being `sum`.       *)
Carried(avg, n, sum, x, period) ==
    IF n = period THEN sum \div period
    ELSE IF avg # Unknown THEN (avg * (period - 1) + x) \div period ELSE Unknown

CarriedEma(ema, n, sum, close) ==
    IF n = TrendPeriod THEN sum \div TrendPeriod
    ELSE IF ema # Unknown THEN ema + (2 * (close - ema)) \div (TrendPeriod + 1) ELSE Unknown

NextEntry(e, b) ==
    LET known == bars # <<>>
        range == IF known THEN TrueRange(b, Last(bars)) ELSE 0
        change == IF known THEN b.close - Last(bars).close ELSE 0
        sums == [close |-> e.sums.close + b.close, range |-> e.sums.range + range,
                 gain |-> e.sums.gain + Gain(change), loss |-> e.sums.loss + Gain(0 - change)]
        atr == Carried(e.atr, e.n, sums.range, range, AtrPeriod)
        ratios == IF atr = Unknown THEN e.ratios ELSE Append(e.ratios, (1000000 * atr) \div b.close)
    IN [n |-> e.n + 1, sums |-> sums,
        ema |-> CarriedEma(e.ema, e.n + 1, sums.close, b.close),
        atr |-> atr,
        gain |-> Carried(e.gain, e.n, sums.gain, Gain(change), RsiPeriod),
        loss |-> Carried(e.loss, e.n, sums.loss, Gain(0 - change), RsiPeriod),
        ratios |-> SubSeq(ratios, Greatest({1, Len(ratios) - MedianWindow + 1}), Len(ratios))]

Rsi(e) == IF e.gain = Unknown \/ e.loss = Unknown THEN Unknown ELSE RsiOf(e.gain, e.loss)

MedianRatio(e) ==
    IF Len(e.ratios) < MedianWindow THEN Unknown
    ELSE SortSeq(e.ratios, <)[(MedianWindow + 1) \div 2]

-----------------------------------------------------------------------------
(* The signals, of a history h that ends with the bar they are for.        *)

Window(h, i, period) == ToSet(SubSeq(h, i - period, i - 1))
BreaksAbove(h, i) == h[i].close > Greatest({b.high : b \in Window(h, i, Entry)})
BreaksBelow(h, i) == h[i].close < Least({b.low : b \in Window(h, i, Exit)})

Donchian(h) ==
    LET n == Len(h)
    IN IF n < Greatest({Entry, Exit}) + 2 THEN "hold"
       ELSE IF BreaksAbove(h, n) /\ ~BreaksAbove(h, n - 1) THEN "buy"
       ELSE IF BreaksBelow(h, n) /\ ~BreaksBelow(h, n - 1) THEN "sell"
       ELSE "hold"

(* With a fast EMA of one bar.                                             *)
EmaTrend(h) ==
    LET now == Last(h).close
        before == Front(h)
    IN IF Len(h) < TrendPeriod + 1 THEN "hold"
       ELSE IF Ema(before, 1) <= Ema(before, 3) /\ Ema(h, 1) > Ema(h, 3)
               /\ now > Ema(h, TrendPeriod) THEN "buy"
       ELSE IF Ema(before, 1) >= Ema(before, 3) /\ Ema(h, 1) < Ema(h, 3) THEN "sell"
       ELSE "hold"

RsiMeanReversion(h) ==
    LET now == RelativeStrength(h)
        before == RelativeStrength(Front(h))
    IN IF Len(h) < Greatest({RsiPeriod + 2, TrendPeriod}) THEN "hold"
       ELSE IF before >= Oversold /\ Oversold > now /\ Last(h).close > Ema(h, TrendPeriod)
            THEN "buy"
       ELSE IF before <= ExitLevel /\ ExitLevel < now THEN "sell"
       ELSE "hold"

Filters == [trend : BOOLEAN, volatility : {"any", "calm", "expanding"}, cap : BOOLEAN]
NoFilters == [trend |-> FALSE, volatility |-> "any", cap |-> FALSE]

(* ConfluenceFilters.allows_buy                                            *)
AllowsBuy(f, e, close) ==
    \/ f = NoFilters
    \/ /\ f.trend => e.ema # Unknown /\ close > e.ema
       /\ f.volatility # "any" =>
             /\ MedianRatio(e) # Unknown
             /\ (Last(e.ratios) <= MedianRatio(e)) = (f.volatility = "calm")
       /\ f.cap => Rsi(e) # Unknown /\ Rsi(e) < MomentumCap

Confluence(f, h, e) ==
    IF Donchian(h) = "buy" /\ ~AllowsBuy(f, e, Last(h).close) THEN "hold" ELSE Donchian(h)

-----------------------------------------------------------------------------
(* A bar closes, after the one before or after a hole; it opens where that *)
(* one closed.                                                             *)
BarCloses(at, close, up) ==
    LET open == IF bars = <<>> THEN close ELSE Last(bars).close
        bar == [at |-> at, open |-> open, close |-> close,
                high |-> Greatest({open, close}) + (IF up THEN Reach ELSE 0),
                low |-> Least({open, close}) - (IF up THEN 0 ELSE Reach)]
    IN /\ bars # <<>> => at > Last(bars).at
       /\ bars' = Append(bars, bar)
       /\ entry' = NextEntry(entry, bar)

BarInit == bars = <<>> /\ entry = NoEntry

BarNext ==
    \E at \in 0 .. MaxHour, close \in Closes, up \in BOOLEAN : BarCloses(at, close, up)

BarSpec == BarInit /\ [][BarNext]_barVars

-----------------------------------------------------------------------------
(* Bars of four hours are those that two bars of two hours make up, so a   *)
(* hole anywhere in one leaves it out, whatever hour the series begins at. *)
AggregatesCompose ==
    LET twos == AggregateBars(2)
    IN AggregateBars(4) =
          {Joined({p[1], p[2]}, p[1].at) :
              p \in {q \in twos \X twos : q[1].at % 4 = 0 /\ q[2].at = q[1].at + 2}}

(* build_indicator_table: each snapshot is the one that indicators.py      *)
(* computes from the series up to that bar.                                *)
TableMatches ==
    bars # <<>> =>
        /\ entry.ema = Ema(bars, TrendPeriod)
        /\ entry.atr = AverageTrueRange(bars)
        /\ Rsi(entry) = RelativeStrength(bars)

(* A signal is an event: the bar after a buy is not another buy (which the *)
(* replay would add to the position), nor that after a sell a sell.        *)
SignalsAreEvents ==
    Len(bars) > 1 =>
        LET before == Front(bars)
        IN /\ Donchian(before) # "hold" => Donchian(bars) # Donchian(before)
           /\ EmaTrend(before) = "buy" => EmaTrend(bars) # "buy"
           /\ RsiMeanReversion(before) = "buy" => RsiMeanReversion(bars) # "buy"

(* Filters hold back entries and nothing else, one filter more never lets  *)
(* more through, and each entry whose volatility can be told passes just   *)
(* one of "calm" and "expanding".                                          *)
FiltersOnlyHold ==
    bars # <<>> =>
        LET Acts(f) == Confluence(f, bars, entry)
            free == Donchian(bars)
        IN /\ \A f \in Filters : Acts(f) = free \/ (free = "buy" /\ Acts(f) = "hold")
           /\ \A f \in Filters : Acts(f) = "buy" =>
                 /\ Acts([f EXCEPT !.trend = FALSE]) = "buy"
                 /\ Acts([f EXCEPT !.cap = FALSE]) = "buy"
                 /\ Acts([f EXCEPT !.volatility = "any"]) = "buy"
           /\ free = "buy" /\ MedianRatio(entry) # Unknown =>
                 Cardinality({v \in {"calm", "expanding"} :
                                Acts([NoFilters EXCEPT !.volatility = v]) = "buy"}) = 1

(* What the strategies see and say, bar by bar: whole bars, the indicators *)
(* of their definitions, events, and filters that hold back entries only.  *)
SignalsAreSound ==
    /\ AggregatesCompose
    /\ TableMatches
    /\ SignalsAreEvents
    /\ FiltersOnlyHold
=============================================================================
