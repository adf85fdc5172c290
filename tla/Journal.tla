------------------------------- MODULE Journal -------------------------------
(***************************************************************************)
(* What the screens tell of the past: the trade history (every fill, with  *)
(* totals) and the decision history (every evaluation, with what came of   *)
(* it), page by page and newest first, while evaluations go on. A page is  *)
(* several SELECTs under READ COMMITTED; an evaluation is one transaction  *)
(* that stamps its rows some time before it commits them.                  *)
(*                                                                         *)
(* Each bot trades an account and instrument of its own, spot (it holds or *)
(* it does not). An id is drawn at random, so that it orders rows of one   *)
(* time in any way.                                                        *)
(***************************************************************************)
EXTENDS Integers, FiniteSets, Sequences, FiniteSetsExt

CONSTANTS
    Trader,
    Id,
    PageSize,
    Gains,     \* what closing a position makes
    Asked,     \* the sets of outcomes a reader asks for
    MaxWall    \* bound: the clock

ASSUME JournalAssumption == Id \subseteq Int /\ PageSize \in Nat \ {0}

VARIABLES
    wall,
    evaluated,   \* rows of signal, with what refers to them
    trades,    \* rows of fill, with the realized_pnl entry of each
    holds,     \* the bot has an open position
    draft,     \* the open transaction of a bot's evaluation
    view       \* the reader

journalVars == <<wall, evaluated, trades, holds, draft, view>>

NoDraft == [phase |-> "none"]
NoView == [list |-> "none"]

Drawn(rows) == {r.id : r \in rows}
Spare(rows, kind) ==
    Id \ (Drawn(rows) \cup UNION {Drawn(draft[b][kind]) : b \in {c \in Trader : draft[c].phase = "done"}})

-----------------------------------------------------------------------------
(* evaluate_bot_on_latest_bar, as far as it leaves rows behind             *)

Evaluates(b) ==
    /\ draft[b].phase = "none"
    /\ draft' = [draft EXCEPT ![b] = [phase |-> "open", since |-> wall]]
    /\ UNCHANGED <<wall, evaluated, trades, holds, view>>

(* What becomes of a signal. The Risk Gate denies a sale of nothing.       *)
Decided(action, held, paused, denied, halted) ==
    IF action = "hold" THEN "hold"
    ELSE IF action = "sell" /\ held THEN "closed"
    ELSE IF paused THEN "paused"
    ELSE IF denied \/ action = "sell" THEN "denied"
    ELSE IF halted THEN "halted"
    ELSE "ordered"

(* The signal, the risk decision of an entry, the intent of one that was   *)
(* placed, and the audit row dote_gate.close_only.                         *)
SignalRow(b, id, action, did) ==
    [id |-> id, at |-> draft[b].since, bot |-> b, action |-> action,
     risk |-> CASE did = "denied" -> "deny" [] did \in {"halted", "ordered"} -> "allow"
                [] OTHER -> "none",
     intent |-> did = "ordered", closed |-> did = "closed", did |-> did]

FillAt(b, id, gain) == [id |-> id, at |-> wall, bot |-> b, gain |-> gain]

(* The stop of the position is checked before the signal.                  *)
Decides(b) ==
    /\ draft[b].phase = "open"
    /\ \E action \in {"buy", "sell", "hold"}, stopHit, paused, denied, halted \in BOOLEAN :
          LET held == holds[b] /\ ~stopHit
              did == Decided(action, held, paused, denied, halted)
          IN /\ stopHit => holds[b]
             /\ \E id \in Spare(evaluated, "rows") : \E a, z \in Spare(trades, "fills") :
                \E gain \in Gains :
                   /\ stopHit /\ did = "ordered" => a # z
                   /\ draft' = [draft EXCEPT ![b] =
                        [phase |-> "done", rows |-> {SignalRow(b, id, action, did)},
                         fills |-> (IF stopHit THEN {FillAt(b, a, gain)} ELSE {})
                                   \cup (IF did = "closed" THEN {FillAt(b, z, gain)} ELSE {})
                                   \cup (IF did = "ordered" THEN {FillAt(b, z, 0)} ELSE {}),
                         after |-> did = "ordered" \/ (held /\ did # "closed")]]
    /\ UNCHANGED <<wall, evaluated, trades, holds, view>>

Records(b) ==
    /\ draft[b].phase = "done"
    /\ evaluated' = evaluated \cup draft[b].rows
    /\ trades' = trades \cup draft[b].fills
    /\ holds' = [holds EXCEPT ![b] = draft[b].after]
    /\ draft' = [draft EXCEPT ![b] = NoDraft]
    /\ view' = IF view.list = "none" THEN view ELSE [view EXCEPT !.calm = FALSE]
    /\ UNCHANGED wall

RollsBack(b) ==
    /\ draft[b].phase # "none"
    /\ draft' = [draft EXCEPT ![b] = NoDraft]
    /\ UNCHANGED <<wall, evaluated, trades, holds, view>>

-----------------------------------------------------------------------------
(* The pages. before = <<>> is the first one.                              *)

Newer(r, s) == r.at > s.at \/ (r.at = s.at /\ r.id > s.id)

(* Faulty form for JournalIsTrue: the cursor is the time alone.            *)
PastTime(r, before) == before = <<>> \/ before[1].at > r.at

Past(r, before) == before = <<>> \/ Newer(before[1], r)

Newest(rows) == {r \in rows : Cardinality({s \in rows : Newer(s, r)}) < PageSize}

(* The oldest row of a page that is not the last one.                      *)
NextBefore(rows) ==
    IF Cardinality(rows) <= PageSize THEN <<>>
    ELSE <<CHOOSE r \in Newest(rows) : \A s \in Newest(rows) : s = r \/ Newer(s, r)>>

Matching(rows) == {r \in rows : r.bot \in view.bots}

(* The reader opens the list of the trades of some bots, or of their       *)
(* decisions that came out in one of some ways.                            *)
OpensList(list, bots, outcomes) ==
    /\ view = NoView
    /\ view' = [list |-> list, bots |-> bots, outcomes |-> outcomes, pc |-> "page",
                before |-> <<>>, shown |-> {}, again |-> FALSE, first |-> {}, asked |-> {},
                calm |-> TRUE, count |-> 0, realized |-> 0]
    /\ UNCHANGED <<wall, evaluated, trades, holds, draft>>

(* Adds the next page to what was shown, and notes if one of its rows was  *)
(* shown before or follows an older one.                                   *)
Shown(rows) ==
    LET rest == {r \in rows : Past(r, view.before)}
    IN [view EXCEPT !.shown = @ \cup Newest(rest),
                    !.before = NextBefore(rest),
                    !.again = @ \/ \E r \in Newest(rest), s \in view.shown :
                                      r.id = s.id \/ Newer(r, s)]

-----------------------------------------------------------------------------
(* list_fills                                                              *)

ReadsTrades ==
    /\ view.list = "trades" /\ view.pc = "page"
    /\ view' = [Shown(Matching(trades)) EXCEPT
                  !.pc = "counts",
                  !.first = IF view.before = <<>> THEN Matching(trades) ELSE @,
                  !.calm = view.before = <<>> \/ @]
    /\ UNCHANGED <<wall, evaluated, trades, holds, draft>>

(* _fill_totals, its two SELECTs                                           *)
ReadsCounts ==
    /\ view.list = "trades" /\ view.pc = "counts"
    /\ view' = [view EXCEPT !.count = Cardinality(Matching(trades)), !.pc = "realized"]
    /\ UNCHANGED <<wall, evaluated, trades, holds, draft>>

Realized(rows) == FoldSet(LAMBDA r, total : r.gain + total, 0, rows)

RealizedTotal == Realized(Matching(trades))

ReadsRealized ==
    /\ view.list = "trades" /\ view.pc = "realized"
    /\ view' = [view EXCEPT !.realized = RealizedTotal, !.pc = "told"]
    /\ UNCHANGED <<wall, evaluated, trades, holds, draft>>

-----------------------------------------------------------------------------
(* list_decisions                                                          *)

(* derive_outcome: from the rows that refer to the signal.                 *)
Outcome(r, closings) ==
    IF r.action = "hold" THEN "hold"
    ELSE IF r.intent THEN "ordered"
    ELSE IF r.id \in closings THEN "closed"
    ELSE IF r.risk = "deny" THEN "denied"
    ELSE IF r.risk # "none" THEN "halted"
    ELSE "paused"

(* _closed_signal_ids: the audit rows, in a SELECT before the one of the   *)
(* signals. asked is the history of the signals that were there by then.   *)
ReadsClosings ==
    /\ view.list = "decisions" /\ view.pc = "page"
    /\ view' = [view EXCEPT !.asked = evaluated, !.pc = "signals",
                            !.first = IF view.before = <<>> THEN Matching(evaluated) ELSE @]
    /\ UNCHANGED <<wall, evaluated, trades, holds, draft>>

ReadsSignals ==
    /\ view.list = "decisions" /\ view.pc = "signals"
    /\ LET closings == {r.id : r \in {s \in view.asked : s.closed}}
           Told(r) == [id |-> r.id, at |-> r.at, did |-> r.did, late |-> r \notin view.asked,
                       outcome |-> Outcome(r, closings)]
           told == {Told(r) : r \in Matching(evaluated)}
       IN view' = [Shown({t \in told : t.outcome \in view.outcomes}) EXCEPT !.pc = "told"]
    /\ UNCHANGED <<wall, evaluated, trades, holds, draft>>

-----------------------------------------------------------------------------
LastPage == view.list # "none" /\ view.pc = "told" /\ view.before = <<>>

TurnsPage ==
    /\ view.list # "none" /\ view.pc = "told" /\ view.before # <<>>
    /\ view' = [view EXCEPT !.pc = "page"]
    /\ UNCHANGED <<wall, evaluated, trades, holds, draft>>

Ticks ==
    /\ wall < MaxWall /\ wall' = wall + 1
    /\ UNCHANGED <<evaluated, trades, holds, draft, view>>

JournalInit ==
    /\ wall = 0 /\ evaluated = {} /\ trades = {}
    /\ holds = [b \in Trader |-> FALSE]
    /\ draft = [b \in Trader |-> NoDraft]
    /\ view = NoView

JournalNext ==
    \/ \E b \in Trader : Evaluates(b) \/ Decides(b) \/ Records(b) \/ RollsBack(b)
    \/ Ticks
    \/ \E bots \in {Trader} \cup {{b} : b \in Trader} : OpensList("trades", bots, {})
    \/ \E b \in Trader, outcomes \in Asked : OpensList("decisions", {b}, outcomes)
    \/ ReadsTrades \/ ReadsCounts \/ ReadsRealized \/ ReadsClosings \/ ReadsSignals
    \/ TurnsPage

JournalSpec == JournalInit /\ [][JournalNext]_journalVars

-----------------------------------------------------------------------------
(* Turning the pages to the last one shows every row that was there when   *)
(* the first was read, once, and newest first, whatever is recorded        *)
(* meanwhile (trade_history: "a page does not shift when a new fill        *)
(* arrives").                                                              *)
PagesAreExact ==
    LastPage =>
      /\ ~view.again
      /\ \A r \in view.first :
           (view.list = "trades" \/ r.did \in view.outcomes) => (\E s \in view.shown : s.id = r.id)

(* An entry says what the evaluation did, unless it was recorded between   *)
(* the two SELECTs of its page; then a closing is told as a pause          *)
(* (derive_outcome, list_decisions).                                       *)
DecisionsAreTold ==
    view.list = "decisions" =>
      \A t \in view.shown :
        t.outcome = t.did \/ (t.late /\ t.did = "closed" /\ t.outcome = "paused")

(* If nothing was recorded since the first page was read, the totals are   *)
(* those of the rows that were shown (_fill_totals).                       *)
TotalsAddUp ==
    LastPage /\ view.list = "trades" /\ view.calm =>
      view.count = Cardinality(view.shown) /\ view.realized = Realized(view.shown)

(* What a reader of the journal is told, page after page, while bots       *)
(* evaluate and fill: complete, once, with the outcome there was, and with *)
(* totals that belong to the rows.                                         *)
JournalIsTrue == PagesAreExact /\ DecisionsAreTold /\ TotalsAddUp
=============================================================================
