----------------------------- MODULE CandleGaps -----------------------------
(***************************************************************************)
(* The stored candles of one series, the rows that report its holes        *)
(* (candle_store, domain/coverage), the backfills that are asked for to    *)
(* fill them (use_cases, backfill_locks) and, for a series of public       *)
(* research data, the import, the refresh and the validation of            *)
(* public_research. How a job is fetched page by page under a lease is the *)
(* matter of MarketDataLease; here a job saves candles and then ends.      *)
(*                                                                         *)
(* Time is counted in candles: candle t is open from t to t + 1. A range   *)
(* asked for begins and ends at such a time.                               *)
(***************************************************************************)
EXTENDS Integers, FiniteSets, SequencesExt

CONSTANTS
    Asker,     \* requests for a backfill that are in flight at once
    Closed,    \* candles of the weekend of a collected (OANDA) series
    Days,      \* the ranges that are asked for, up to now
    MaxNow,    \* bound: the clock
    MaxGapRows, \* bound: rows of market_data_gap
    MaxJobs    \* bound: backfill jobs under way at once

ASSUME GapAssumption == MaxNow \in Nat /\ Days \subseteq Nat

VARIABLES
    series,    \* "collected" by the worker, or "research" data
    stored,    \* open times of the final candles
    now,
    rows,      \* market_data_gap, in the order of their insertion
    jobs,      \* backfill_job: those queued or running
    holder,    \* who has the advisory lock "backfill" of the series
    asking,    \* the requests in flight
    check      \* validate_public_series

gapVars == <<series, stored, now, rows, jobs, holder, asking, check>>

Span(w) == w.from .. w.to - 1
Overlap(v, w) == v.from < w.to /\ v.to > w.from
Key(r) == [from |-> r.from, to |-> r.to]

(* is_expected_market_time.                                                *)
Expected(t) == series = "research" \/ t \notin Closed

(* find_internal_gaps: the runs of candles that are expected and not there *)
(* between two that are.                                                   *)
InternalGaps(times) ==
    LET Missing(t) == Expected(t) /\ t \notin times
    IN {w \in [from : 0 .. MaxNow, to : 0 .. MaxNow] :
            /\ w.from < w.to
            /\ \A t \in Span(w) : Missing(t)
            /\ ~Missing(w.from - 1) /\ ~Missing(w.to)
            /\ \E s \in times : s < w.from
            /\ \E s \in times : s >= w.to}

(* Faulty form for JobSettlesItsGap: the bracketing candle is looked for   *)
(* beyond the end.                                                         *)
FilledBeyond(w, times) == \A t \in w.from .. w.to + 1 : Expected(t) => t \in times

(* _gap_is_filled.                                                         *)
Filled(w, times) == /\ \A t \in Span(w) : Expected(t) => t \in times
                    /\ \E t \in Span(w) : Expected(t)

Standing(r, w) == r.status \in {"open", "ignored"} /\ Overlap(r, w)

(* Faulty form for OpenGapsAreDisjoint: only a filled row is settled.      *)
SettledWhenFilled(r, w) ==
    LET times == stored \cap Span(w)
    IN Standing(r, w) /\ Key(r) \notin InternalGaps(times) /\ Filled(r, times)

(* A row is settled when it is filled, or others take its place.           *)
Settled(r, w) ==
    LET times == stored \cap Span(w)
        found == InternalGaps(times)
    IN /\ Standing(r, w) /\ Key(r) \notin found
       /\ (\E g \in found : Overlap(g, r)) \/ Filled(r, times)

(* The holes of the range that no row stands for.                          *)
Unreported(w) ==
    InternalGaps(stored \cap Span(w))
        \ {Key(rows[i]) : i \in {k \in DOMAIN rows : Standing(rows[k], w)}}

(* persist_internal_gaps, under its advisory lock.                         *)
Persisted(w) ==
    [i \in DOMAIN rows |-> IF Settled(rows[i], w) THEN [rows[i] EXCEPT !.status = "resolved"]
                           ELSE rows[i]]
    \o SetToSeq({[from |-> g.from, to |-> g.to, status |-> "open"] : g \in Unreported(w)})

RoomFor(w) == Len(rows) + Cardinality(Unreported(w)) <= MaxGapRows

(* classify_candle_coverage over the range of a job.                       *)
Coverage(w) ==
    LET times == stored \cap Span(w)
    IN IF times = {} THEN "empty"
       ELSE IF InternalGaps(times) # {} THEN "partial_gaps"
       ELSE IF /\ \E s \in times : s <= w.from + 1
               /\ \E s \in times : s + 1 >= w.to - 1 THEN "complete"
       ELSE "partial_source_limit"

-----------------------------------------------------------------------------
(* Requests.                                                               *)

NoAsk == [phase |-> "idle", from |-> 0, to |-> 0, gap |-> 0]

(* enqueue_backfill: the last `days`.                                      *)
AskDays(a, days) ==
    /\ series = "collected" /\ asking[a] = NoAsk /\ now >= days
    /\ asking' = [asking EXCEPT ![a] = [phase |-> "asked", from |-> now - days, to |-> now,
                                        gap |-> 0]]
    /\ UNCHANGED <<series, stored, now, rows, jobs, holder, check>>

(* enqueue_gap_backfill: an open gap, and a candle on each side.           *)
AskGap(a, i) ==
    /\ series = "collected" /\ asking[a] = NoAsk /\ rows[i].status = "open"
    /\ asking' = [asking EXCEPT ![a] = [phase |-> "asked", from |-> rows[i].from - 1,
                                        to |-> rows[i].to + 1, gap |-> i]]
    /\ UNCHANGED <<series, stored, now, rows, jobs, holder, check>>

Duplicate(w) == \E j \in DOMAIN jobs : Overlap(jobs[j], w)

(* ensure_no_overlapping_backfill: the lock, and then the question.        *)
Admitted(a) ==
    /\ asking[a].phase = "asked" /\ holder = {}
    /\ IF Duplicate(asking[a])
       THEN asking' = [asking EXCEPT ![a] = NoAsk] /\ UNCHANGED holder
       ELSE asking' = [asking EXCEPT ![a].phase = "admitted"] /\ holder' = {a}
    /\ UNCHANGED <<series, stored, now, rows, jobs, check>>

Enqueued(a) ==
    /\ asking[a].phase = "admitted" /\ Len(jobs) < MaxJobs
    /\ jobs' = Append(jobs, [from |-> asking[a].from, to |-> asking[a].to,
                             gap |-> asking[a].gap])
    /\ asking' = [asking EXCEPT ![a] = NoAsk] /\ holder' = holder \ {a}
    /\ UNCHANGED <<series, stored, now, rows, check>>

(* The access is refused, or the request dies.                             *)
AskFails(a) ==
    /\ asking[a] # NoAsk
    /\ asking' = [asking EXCEPT ![a] = NoAsk] /\ holder' = holder \ {a}
    /\ UNCHANGED <<series, stored, now, rows, jobs, check>>

-----------------------------------------------------------------------------
(* The worker. `got` is what the exchange has of a range.                  *)

Later == {t \in 0 .. now - 1 : \A s \in stored : t > s}

Closing(w) == {t \in Span(w) : t >= 0 /\ t < now /\ Expected(t)}

JobSaves(j) ==
    /\ \E got \in SUBSET Closing(jobs[j]) : stored' = stored \cup got
    /\ UNCHANGED <<series, now, rows, jobs, holder, asking, check>>

(* PageStore.complete.                                                     *)
JobCompletes(j) ==
    /\ RoomFor(jobs[j])
    /\ rows' = Persisted(jobs[j])
    /\ jobs' = RemoveAt(jobs, j)
    /\ UNCHANGED <<series, stored, now, holder, asking, check>>

JobFails(j) ==
    /\ jobs' = RemoveAt(jobs, j)
    /\ UNCHANGED <<series, stored, now, rows, holder, asking, check>>

(* A subscription goes on behind the latest candle.                        *)
Polled ==
    /\ series = "collected"
    /\ \E got \in SUBSET {t \in Later : Expected(t)} : stored' = stored \cup got
    /\ UNCHANGED <<series, now, rows, jobs, holder, asking, check>>

-----------------------------------------------------------------------------
(* Public research data.                                                   *)

(* refresh_public_klines; backfill_public_klines if nothing is stored yet. *)
Refreshed ==
    /\ series = "research"
    /\ \A s \in stored : s + 2 <= now
    /\ \E got \in SUBSET Later : stored' = stored \cup got
    /\ UNCHANGED <<series, now, rows, jobs, holder, asking, check>>

NoCheck == [phase |-> "idle", from |-> 0, to |-> 0, todo |-> {}]

(* validate_public_series: a first look ...                                *)
ValidateStarts ==
    /\ series = "research" /\ check = NoCheck /\ stored # {}
    /\ LET w == [from |-> Min(stored), to |-> Max(stored) + 1]
       IN /\ RoomFor(w)
          /\ rows' = Persisted(w)
          /\ check' = [phase |-> "asking", from |-> w.from, to |-> w.to,
                       todo |-> {i \in DOMAIN rows' : rows'[i].status = "open"}]
    /\ UNCHANGED <<series, stored, now, jobs, holder, asking>>

(* ... each open window is asked for again ...                             *)
ValidateAsks(i) ==
    /\ \E got \in SUBSET Closing(rows[i]) : stored' = stored \cup got
    /\ check' = [check EXCEPT !.todo = @ \ {i}]
    /\ UNCHANGED <<series, now, rows, jobs, holder, asking>>

(* ... and a second look. The session does not flush before it queries:    *)
(* the rows ignored are those that are open in the database.               *)
ValidateEnds ==
    /\ check.phase = "asking" /\ check.todo = {} /\ RoomFor(check)
    /\ rows' = [i \in DOMAIN Persisted(check) |->
                  IF i \in DOMAIN rows /\ rows[i].status = "open"
                  THEN [rows[i] EXCEPT !.status = "ignored"] ELSE Persisted(check)[i]]
    /\ check' = NoCheck
    /\ UNCHANGED <<series, stored, now, jobs, holder, asking>>

ValidateDies ==
    /\ check # NoCheck
    /\ check' = NoCheck
    /\ UNCHANGED <<series, stored, now, rows, jobs, holder, asking>>

CandleCloses ==
    /\ now < MaxNow
    /\ now' = now + 1
    /\ UNCHANGED <<series, stored, rows, jobs, holder, asking, check>>

GapInit ==
    /\ series \in {"collected", "research"}
    /\ stored = {} /\ now = 0 /\ rows = <<>> /\ jobs = <<>> /\ holder = {}
    /\ asking = [a \in Asker |-> NoAsk] /\ check = NoCheck

GapNext ==
    \/ \E a \in Asker : \/ \E days \in Days : AskDays(a, days)
                        \/ \E i \in DOMAIN rows : AskGap(a, i)
                        \/ Admitted(a) \/ Enqueued(a) \/ AskFails(a)
    \/ \E j \in DOMAIN jobs : JobSaves(j) \/ JobCompletes(j) \/ JobFails(j)
    \/ Polled \/ Refreshed
    \/ ValidateStarts
    \/ \E i \in check.todo : ValidateAsks(i)
    \/ ValidateEnds \/ ValidateDies
    \/ CandleCloses

GapSpec == GapInit /\ [][GapNext]_gapVars

-----------------------------------------------------------------------------
(* The summary of a series counts a missing candle once: the ranges of its *)
(* open rows never overlap, whatever the ranges that were checked and in   *)
(* whichever order.                                                        *)
OpenGapsAreDisjoint ==
    \A i, k \in DOMAIN rows :
        i # k /\ rows[i].status = "open" /\ rows[k].status = "open" => ~Overlap(rows[i], rows[k])

(* No two backfills of a series that are under way overlap, though any     *)
(* number of requests ask at once.                                         *)
NoOverlappingJobs ==
    \A i, k \in DOMAIN jobs :
        i # k => ~Overlap(jobs[i], jobs[k])

Whole(w) == \A t \in Span(w) : Expected(t) => t \in stored

(* A backfill asked for a gap settles its row if it ends with every candle *)
(* of the gap stored, and says "complete" then and only then.              *)
JobSettlesItsGap ==
    [][\A j \in DOMAIN jobs : jobs[j].gap # 0 /\ JobCompletes(j) =>
          LET filled == Whole(rows[jobs[j].gap])
          IN /\ filled => rows'[jobs[j].gap].status # "open"
             /\ filled = (Coverage(jobs[j]) = "complete")]_gapVars

(* A gap is kept as ignored only if it is still missing after the source   *)
(* was asked for it again (validate_public_series: "one the source itself  *)
(* does not have").                                                        *)
IgnoredIsMissing ==
    [][\A i \in DOMAIN rows :
          rows[i].status = "open" /\ rows'[i].status = "ignored" => ~Whole(rows[i])]_gapVars

(* No candle is asked for twice: not by two open rows, and not by two jobs *)
(* that were admitted at the same moment.                                  *)
NothingIsAskedTwice == OpenGapsAreDisjoint /\ NoOverlappingJobs
=============================================================================
