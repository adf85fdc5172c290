----------------------------- MODULE WalkForward -----------------------------
(***************************************************************************)
(* How a strategy is judged on the past (backtest_walk_forward,            *)
(* backtest_metrics, backtest_robustness), on a market that grows bar by   *)
(* bar. The replay of a window is that of BacktestReplay cut down to what  *)
(* the windows need: which bars a signal sees, and the equity after each   *)
(* bar. A price and an equity are counted by their logarithm, so that      *)
(* products of returns are sums, and losses from a peak differences.       *)
(*                                                                         *)
(* A window [start, end) of bars counted from 0, as the code has it, is    *)
(* bars start + 1 .. end of the sequence `moves`.                          *)
(***************************************************************************)
EXTENDS Integers, SequencesExt

CONSTANTS
    PriceMoves,       \* what a bar's close may differ from the one before
    TrainBars, TestBars,
    HistoryWindow,    \* _HISTORY_WINDOW
    MaxPoints,        \* EQUITY_CURVE_MAX_POINTS
    Cost,             \* of closing a position at the end of a window
    BarsPerDay,
    MaxHistory        \* bound: bars of the market

ASSUME WalkAssumption ==
    /\ PriceMoves \subseteq Int /\ Cost \in Nat /\ MaxHistory \in Nat
    /\ TrainBars \in Nat \ {0} /\ TestBars \in Nat \ {0}
    /\ HistoryWindow \in Nat \ {0} /\ BarsPerDay \in Nat \ {0}
    /\ MaxPoints \in Nat /\ MaxPoints >= 4

VARIABLE moves

Largest(S) == CHOOSE x \in S : \A y \in S : y <= x
Smallest(S) == CHOOSE x \in S : \A y \in S : x <= y
Capped(x, bound) == IF x < bound THEN x ELSE bound

Sum(s) ==
    LET sum[i \in 0 .. Len(s)] == IF i = 0 THEN 0 ELSE sum[i - 1] + s[i]
    IN sum[Len(s)]

-----------------------------------------------------------------------------
(* Windows.                                                                *)

(* split_candles_for_walk_forward, with its train_ratio of 0.7.            *)
SplitIndex(n) == (n * 7) \div 10
CanSplit(n) == SplitIndex(n) > 0 /\ SplitIndex(n) < n

Fold(start) ==
    [trainStart |-> start, trainEnd |-> start + TrainBars,
     testEnd |-> start + TrainBars + TestBars]

(* split_candles_rolling                                                   *)
Folds(n) ==
    [k \in 1 .. (IF n < TrainBars + TestBars THEN 0 ELSE (n - TrainBars) \div TestBars) |->
        Fold((k - 1) * TestBars)]

-----------------------------------------------------------------------------
(* Replay.                                                                 *)

Candidates == <<"fast", "slow">>

(* A generator sees a history and nothing else; a slow one needs all of it. *)
Signal(name, h) ==
    LET seen == IF name = "fast" THEN Last(h) ELSE Sum(h)
    IN IF name = "slow" /\ Len(h) < HistoryWindow THEN "hold"
       ELSE IF seen > 0 THEN "buy" ELSE IF seen < 0 THEN "sell" ELSE "hold"

(* Faulty form for WarmupIsEnough: one bar of warm-up too few.             *)
WarmupShort(start) == Capped(start, HistoryWindow - 2)

Warmup(start) == Capped(start, HistoryWindow - 1)

(* What the signal of bar i sees in a replay that begins at bar `first`.   *)
History(m, first, i) == SubSeq(m, Largest({first, i - HistoryWindow + 1}), i)

Flat == [long |-> FALSE, marks |-> <<>>]

(* A bar of the replay: its move, then the fill of its signal.             *)
Marked(state, move, signal) ==
    LET level == IF state.marks = <<>> THEN 0 ELSE Last(state.marks)
    IN [long |-> signal = "buy" \/ (state.long /\ signal = "hold"),
        marks |-> Append(state.marks, level + (IF state.long THEN move ELSE 0))]

(* run_replay of candles[start - warm : end], `warm` bars of it warm-up.   *)
Replay(m, start, end, warm, name) ==
    LET state[i \in start .. end] ==
            IF i = start THEN Flat
            ELSE Marked(state[i - 1], m[i], Signal(name, History(m, start - warm + 1, i)))
    IN state[end]

(* ending_equity: the last position is closed after the last mark.         *)
Ending(r) == Last(r.marks) - (IF r.long THEN Cost ELSE 0)

(* compute_metrics, max_drawdown_pct: from the initial equity on.          *)
Peak(curve, i, initial) == Largest({initial} \cup {curve[k] : k \in 1 .. i})
DrawdownFrom(initial, curve) ==
    Largest({0} \cup {Peak(curve, i, initial) - curve[i] : i \in DOMAIN curve})

(* _replay_window                                                          *)
ReplayWindow(m, start, end, name) == Replay(m, start, end, Warmup(start), name)

(* loss_averse_score                                                       *)
Score(r) == Ending(r) - 2 * DrawdownFrom(0, r.marks)

(* run_selected_walk_forward: the best on the train part, the earliest of  *)
(* equals.                                                                 *)
Chosen(m, f) ==
    LET ScoreOf(name) == Score(ReplayWindow(m, f.trainStart, f.trainEnd, name))
    IN IF ScoreOf("slow") > ScoreOf("fast") THEN "slow" ELSE "fast"

Tested(m, f) == ReplayWindow(m, f.trainEnd, f.testEnd, Chosen(m, f))

-----------------------------------------------------------------------------
(* Robustness.                                                             *)

(* chain_windows: each window from where the last one ended.               *)
Joining(acc, r) ==
    LET level == acc.level + Ending(r)
    IN [curve |-> Append(acc.curve \o [i \in DOMAIN r.marks |-> acc.level + r.marks[i]], level),
        level |-> level]

Chained(rs) ==
    LET joined[k \in 0 .. Len(rs)] ==
            IF k = 0 THEN [curve |-> <<>>, level |-> 0] ELSE Joining(joined[k - 1], rs[k])
    IN joined[Len(rs)]

(* max_drawdown: the peak begins with the first value.                     *)
MaxDrawdown(curve) == IF curve = <<>> THEN 0 ELSE DrawdownFrom(Head(curve), curve)

(* longest_underwater, one bar being one unit of time.                     *)
Surfacing(acc, curve, i) ==
    IF acc.peak = 0 THEN [peak |-> i, longest |-> 0]
    ELSE IF curve[i] >= curve[acc.peak]
         THEN [peak |-> i, longest |-> Largest({acc.longest, i - acc.peak})]
         ELSE acc

LongestUnderwater(curve) ==
    LET seen[i \in 0 .. Len(curve)] ==
            IF i = 0 THEN [peak |-> 0, longest |-> 0] ELSE Surfacing(seen[i - 1], curve, i)
        end == seen[Len(curve)]
    IN IF curve # <<>> /\ Last(curve) < curve[end.peak]
       THEN Largest({end.longest, Len(curve) - end.peak}) ELSE end.longest

(* The last value of each period of p bars.                                *)
Closings(curve, p) ==
    [k \in 1 .. (Len(curve) + p - 1) \div p |-> curve[Capped(k * p, Len(curve))]]

(* worst_daily_return                                                      *)
WorstDaily(curve) ==
    LET closes == Closings(curve, BarsPerDay)
    IN Smallest({closes[k + 1] - closes[k] : k \in 1 .. Len(closes) - 1})

(* yearly_returns, of years of p bars.                                     *)
Yearly(curve, p) ==
    LET ends == Closings(curve, p)
    IN [k \in DOMAIN ends |-> ends[k] - (IF k = 1 THEN Head(curve) ELSE ends[k - 1])]

(* compounded_return                                                       *)
Compounded(rs) == Sum([k \in DOMAIN rs |-> Ending(rs[k])])

BucketSize(n) ==
    LET count == Largest({1, (MaxPoints - 2) \div 2}) IN (n + count - 1) \div count

(* downsample_equity_curve: the indexes that are kept.                     *)
PointsOf(n, k) == (k * BucketSize(n) + 1) .. Capped((k + 1) * BucketSize(n), n)

Lowest(curve, S) ==
    CHOOSE i \in S : \A k \in S : curve[i] < curve[k] \/ (curve[i] = curve[k] /\ i <= k)
Highest(curve, S) ==
    CHOOSE i \in S : \A k \in S : curve[i] > curve[k] \/ (curve[i] = curve[k] /\ i <= k)

Downsampled(curve) ==
    LET n == Len(curve)
    IN IF n <= MaxPoints THEN DOMAIN curve
       ELSE {1, n} \cup UNION {{Lowest(curve, PointsOf(n, k)), Highest(curve, PointsOf(n, k))} :
                                 k \in 0 .. (n - 1) \div BucketSize(n)}

-----------------------------------------------------------------------------
BarComes(move) == Len(moves) < MaxHistory /\ moves' = Append(moves, move)

WalkInit == moves = <<>>
WalkNext == \E move \in PriceMoves : BarComes(move)
WalkSpec == WalkInit /\ [][WalkNext]_moves

-----------------------------------------------------------------------------
AllFolds == Folds(Len(moves))
Price == [i \in DOMAIN moves |-> Sum(SubSeq(moves, 1, i))]

(* The test parts tile the bars from the end of the first train part on,   *)
(* each right behind its own train part, and what is left over is shorter  *)
(* than a test part. The single split leaves no bar out either.            *)
FoldsTile ==
    LET n == Len(moves)
        fs == AllFolds
    IN /\ n >= TrainBars + TestBars <=> fs # <<>>
       /\ \A k \in DOMAIN fs :
             /\ fs[k].trainStart >= 0 /\ fs[k].testEnd <= n
             /\ fs[k].trainEnd = (IF k = 1 THEN TrainBars ELSE fs[k - 1].testEnd)
       /\ fs # <<>> => n - Last(fs).testEnd < TestBars
       /\ n > 1 => CanSplit(n)

(* Each signal inside a window is the one of a replay of the whole series: *)
(* the warm-up is as long as a history, less the bar itself.               *)
WarmupIsEnough ==
    \A k \in DOMAIN AllFolds, name \in ToSet(Candidates) :
        \A i \in AllFolds[k].trainEnd + 1 .. AllFolds[k].testEnd :
            Signal(name, History(moves, AllFolds[k].trainEnd - Warmup(AllFolds[k].trainEnd) + 1, i))
                = Signal(name, History(moves, 1, i))

(* The choice for a fold is made without its test part, and the result of  *)
(* a fold does not change with the bars that come later.                   *)
ChoiceIsBlind ==
    \A k \in DOMAIN AllFolds :
        LET f == AllFolds[k]
        IN /\ Chosen(moves, f) = Chosen(SubSeq(moves, 1, f.trainEnd), f)
           /\ Tested(moves, f) = Tested(SubSeq(moves, 1, f.testEnd), f)

(* The chained curve ends at the compounded return, falls from its peaks   *)
(* at least as deep as each window (measured from where it began, or the   *)
(* first from its first mark) and stays under water as long.               *)
DrawdownsAddUp ==
    LET rs == [k \in DOMAIN AllFolds |-> Tested(moves, AllFolds[k])]
        curve == Chained(rs).curve
    IN rs # <<>> =>
          /\ Last(curve) = Compounded(rs)
          /\ \A k \in DOMAIN rs :
                LET whole == Append(rs[k].marks, Ending(rs[k]))
                IN /\ MaxDrawdown(curve) >= (IF k = 1 THEN MaxDrawdown(whole)
                                             ELSE DrawdownFrom(0, whole))
                   /\ LongestUnderwater(curve) >= LongestUnderwater(whole)
          /\ MaxDrawdown(curve) = 0 <=> \A i \in 1 .. Len(curve) - 1 : curve[i] <= curve[i + 1]

(* The returns of the years make up the return of the curve, in which the  *)
(* worst day is not above the average of the days after the first.         *)
PeriodsCompound ==
    moves # <<>> =>
        LET closes == Closings(Price, BarsPerDay)
        IN /\ Sum(Yearly(Price, 2 * BarsPerDay)) = Last(Price) - Head(Price)
           /\ Len(closes) > 1 =>
                 WorstDaily(Price) * (Len(closes) - 1) <= Last(closes) - Head(closes)

(* A stored curve has no more than its number of points, its first and     *)
(* last, and the highest and the lowest of all.                            *)
SampleKeepsExtremes ==
    moves # <<>> =>
        LET kept == Downsampled(Price)
        IN /\ kept \subseteq DOMAIN Price /\ Cardinality(kept) <= MaxPoints
           /\ {1, Len(Price)} \subseteq kept
           /\ {Largest(ToSet(Price)), Smallest(ToSet(Price))} \subseteq {Price[i] : i \in kept}

(* The folds of a walk-forward run: they tile the series, each has the     *)
(* history its signals need and chooses without its test part.             *)
FoldsAreHonest == FoldsTile /\ WarmupIsEnough /\ ChoiceIsBlind

(* The figures told of a run agree with its curve.                         *)
FiguresAgree == DrawdownsAddUp /\ PeriodsCompound /\ SampleKeepsExtremes

WalkForwardIsSound == FoldsAreHonest /\ FiguresAgree
=============================================================================
