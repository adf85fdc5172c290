----------------------------- MODULE TickCandles -----------------------------
(***************************************************************************)
(* TickToCandleNormalizer (oanda_stream): the candles of one timeframe,    *)
(* made of the ticks of an OANDA price stream as they arrive, some late    *)
(* and some without a price. CandleFeed publishes what it returns.         *)
(***************************************************************************)
EXTENDS Integers, SequencesExt

CONSTANTS
    Prices,     \* mid prices, one of them not positive
    Bucket,     \* the timeframe, in the unit of time of the ticks
    MaxTicks,   \* bound: ticks that arrive
    MaxTime     \* bound: the time of a tick

ASSUME TickAssumption ==
    Bucket \in Nat \ {0} /\ Prices \subseteq Int /\ MaxTicks \in Nat /\ MaxTime \in Nat

VARIABLES
    ticks,     \* history: every tick, in the order of arrival
    bucket,    \* the candle that is open
    updates    \* history: the updates that were returned, the latest last

tickVars == <<ticks, bucket, updates>>

NoBucket == [at |-> -1, open |-> 0, high |-> 0, low |-> 0, close |-> 0, volume |-> 0]

Floor(time) == (time \div Bucket) * Bucket

Started(time, p) ==
    [at |-> Floor(time), open |-> p, high |-> p, low |-> p, close |-> p, volume |-> 1]

(* _MutableOHLCV.update                                                    *)
Updated(p) ==
    [at |-> bucket.at, open |-> bucket.open, close |-> p, volume |-> bucket.volume + 1,
     high |-> IF p > bucket.high THEN p ELSE bucket.high,
     low |-> IF p < bucket.low THEN p ELSE bucket.low]

(* Faulty form for FinalsAreExact: a late tick is taken for a current one. *)
NextBucketOfLate(time, p) ==
    IF bucket = NoBucket \/ Floor(time) > bucket.at THEN Started(time, p) ELSE Updated(p)

NextBucket(time, p) ==
    IF bucket = NoBucket \/ Floor(time) > bucket.at THEN Started(time, p)
    ELSE IF Floor(time) = bucket.at THEN Updated(p)
    ELSE bucket

Final(b) == [final |-> TRUE, candle |-> b]
Partial(b) == [final |-> FALSE, candle |-> b]

(* add_tick                                                                *)
AddTick(time, p) ==
    LET next == NextBucket(time, p)
        over == bucket # NoBucket /\ next.at > bucket.at
    IN /\ Len(ticks) < MaxTicks
       /\ ticks' = Append(ticks, [time |-> time, price |-> p])
       /\ IF p <= 0 THEN UNCHANGED <<bucket, updates>>
          ELSE /\ bucket' = next
               /\ updates' = updates \o (IF over THEN <<Final(bucket)>> ELSE <<>>)
                                     \o (IF next # bucket THEN <<Partial(next)>> ELSE <<>>)

TickInit == ticks = <<>> /\ bucket = NoBucket /\ updates = <<>>

TickNext == \E time \in 0 .. MaxTime, p \in Prices : AddTick(time, p)

TickSpec == TickInit /\ [][TickNext]_tickVars

-----------------------------------------------------------------------------
(* The ticks of a candle: those of its time that have a price and that     *)
(* came before any tick of a later candle.                                 *)
Own(at) ==
    LET InTime(i) == ticks[i].price > 0 /\ Floor(ticks[i].time) = at
        Later(i) == ticks[i].price > 0 /\ Floor(ticks[i].time) > at
    IN {i \in DOMAIN ticks : InTime(i) /\ \A k \in 1 .. i : ~Later(k)}

Exact(c) ==
    LET own == Own(c.at)
        prices == {ticks[k].price : k \in own}
    IN /\ own # {} /\ c.volume = Cardinality(own)
       /\ c.open = ticks[Min(own)].price /\ c.close = ticks[Max(own)].price
       /\ c.high = Max(prices) /\ c.low = Min(prices)

(* The final candles ascend without a repetition, and each is exactly what *)
(* its ticks say. A candle is final only when a later one begins, so the   *)
(* last partial one shows all the ticks of the current time.               *)
FinalsAreExact ==
    /\ \A i, k \in {j \in DOMAIN updates : updates[j].final} :
          i < k => updates[i].candle.at < updates[k].candle.at
    /\ \A i \in DOMAIN updates : updates[i].final => Exact(updates[i].candle)
    /\ bucket # NoBucket => Last(updates) = Partial(bucket)
=============================================================================
