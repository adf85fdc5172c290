----------------------------- MODULE TradingHalt -----------------------------
(***************************************************************************)
(* The trading_halt rows of one scope and one cause (trading_halt), with   *)
(* the evaluations and checks that raise and relax them (risk_gate,        *)
(* risk_locks, ledger_check) and the Owners who release them               *)
(* (routes/trading_halts). A session reads the active row without a lock   *)
(* and writes it by its id when it commits. PaperDesk has what the halts   *)
(* do to orders, BotTrading what the emergency stop does to bots.          *)
(***************************************************************************)
EXTENDS Integers, FiniteSets, Sequences

CONSTANTS
    Evaluator,   \* sessions of workers that judge the cause
    Owner,       \* requests of Owners
    MaxSwings,   \* bound: how often the cause comes or goes
    MaxReleases  \* bound: releases by Owners

VARIABLES
    cause,     \* "limit" (data delay, losses), "lock", or "ledger"
    breach,    \* the cause is there now
    swings, releases,
    halts,     \* the rows, in the order of their insertion
    judging,   \* the sessions
    calm       \* history: of each row, that it was lowered since it was raised

haltVars == <<cause, breach, swings, releases, halts, judging, calm>>

(* Levels: 1 warning, 2 entry_halted, 4 emergency_stopped.                 *)
Raised == IF cause = "ledger" THEN 4 ELSE 2

Active == {i \in DOMAIN halts : halts[i].active}

(* _find_active_halt                                                       *)
FoundHalt == IF Active = {} THEN 0 ELSE CHOOSE i \in Active : TRUE

(* `row` and `level` are as they were read; the row may be raised since.   *)
NoJudging == [phase |-> "idle", bad |-> FALSE, row |-> 0, level |-> 0, stale |-> FALSE]

Done(s) == judging' = [judging EXCEPT ![s] = NoJudging]

-----------------------------------------------------------------------------
(* The limits are measured, ... (An account with a ledger halt is left     *)
(* alone by the check.)                                                    *)
Judges(e) ==
    /\ judging[e] = NoJudging
    /\ cause = "ledger" => Active = {}
    /\ breach \/ cause = "limit"
    /\ judging' = [judging EXCEPT ![e].phase = "judged", ![e].bad = breach]
    /\ UNCHANGED <<cause, breach, swings, releases, halts, calm>>

(* ... the active row is looked for, ...                                   *)
Looks(e) ==
    /\ judging[e].phase = "judged"
    /\ judging' = [judging EXCEPT ![e].phase = "looked", ![e].row = FoundHalt,
                                  ![e].level = IF Active = {} THEN 0 ELSE halts[FoundHalt].level]
    /\ UNCHANGED <<cause, breach, swings, releases, halts, calm>>

(* ... and it is raised, or a new one inserted, which                      *)
(* uq_trading_halt_active admits if there is no active one.                *)
HaltWith(row) ==
    IF row = 0 THEN Append(halts, [level |-> Raised, active |-> TRUE])
    ELSE [halts EXCEPT ![row].level = Raised]

Admits(row) == row = 0 => Active = {}

(* activate_or_escalate                                                    *)
Activates(e) ==
    LET j == judging[e]
    IN /\ j.phase = "looked" /\ j.bad /\ Raised > j.level
       /\ Admits(j.row)
       /\ halts' = HaltWith(j.row)
       /\ calm' = IF j.row = 0 THEN Append(calm, FALSE) ELSE [calm EXCEPT ![j.row] = FALSE]
       /\ judging' = [s \in DOMAIN judging |->
                        IF s = e THEN NoJudging
                        ELSE [judging[s] EXCEPT !.stale = @ \/ (judging[s].row = j.row /\ j.row # 0)]]
       /\ UNCHANGED <<cause, breach, swings, releases>>

(* The session has nothing to write, or the index refuses its row.         *)
NothingToDo(e) ==
    LET j == judging[e]
    IN /\ j.phase = "looked"
       /\ \/ j.bad /\ (Raised <= j.level \/ ~Admits(j.row))
          \/ ~j.bad /\ (j.row = 0 \/ j.level = 4)
       /\ Done(e)
       /\ UNCHANGED <<cause, breach, swings, releases, halts, calm>>

(* Faulty form for TwoStepsDown: a recovery releases the halt.             *)
SteppedToTheEnd(level) == [level |-> level, active |-> FALSE]

(* Faulty form for HaltsSettle: the last level is never left.              *)
SteppedToWarning(level) == [level |-> IF level = 1 THEN 1 ELSE level - 1, active |-> TRUE]

(* _ONE_STEP_DOWN: an assignment of what was read, one level less.         *)
Stepped(level) ==
    IF level = 1 THEN [level |-> 1, active |-> FALSE] ELSE [level |-> level - 1, active |-> TRUE]

(* The attributes that change are written, and no others.                  *)
SteppedRow(old, level) ==
    LET new == Stepped(level)
    IN IF new.active THEN [old EXCEPT !.level = new.level] ELSE [old EXCEPT !.active = FALSE]

(* deescalate_one_step, of an evaluation that found the limits kept.       *)
StepsDown(e) ==
    LET j == judging[e]
    IN /\ j.phase = "looked" /\ ~j.bad /\ j.row # 0 /\ j.level < 4
       /\ halts' = [halts EXCEPT ![j.row] = SteppedRow(@, j.level)]
       /\ calm' = [calm EXCEPT ![j.row] = TRUE]
       /\ Done(e)
       /\ UNCHANGED <<cause, breach, swings, releases>>

-----------------------------------------------------------------------------
(* _get_halt finds an active row. An emergency halt for a broken ledger is *)
(* checked again before it is released.                                    *)
OwnerLooks(o) ==
    /\ judging[o] = NoJudging /\ Active # {} /\ releases < MaxReleases
    /\ ~(cause = "ledger" /\ breach)
    /\ releases' = releases + 1
    /\ judging' = [judging EXCEPT ![o].phase = "asked", ![o].row = FoundHalt,
                                  ![o].level = halts[FoundHalt].level]
    /\ UNCHANGED <<cause, breach, swings, halts, calm>>

(* deescalate_one_step, release_lock, release_emergency_stop.              *)
OwnerReleases(o) ==
    LET j == judging[o]
    IN /\ j.phase = "asked"
       /\ halts' = [halts EXCEPT ![j.row] = IF cause = "limit" THEN SteppedRow(@, j.level)
                                            ELSE [@ EXCEPT !.active = FALSE]]
       /\ calm' = [calm EXCEPT ![j.row] = TRUE]
       /\ Done(o)
       /\ UNCHANGED <<cause, breach, swings, releases>>

(* A session rolls back.                                                   *)
SessionFails(s) ==
    /\ judging[s] # NoJudging
    /\ Done(s)
    /\ UNCHANGED <<cause, breach, swings, releases, halts, calm>>

Swings ==
    /\ swings < MaxSwings
    /\ swings' = swings + 1 /\ breach' = ~breach
    /\ UNCHANGED <<cause, releases, halts, judging, calm>>

HaltInit ==
    /\ cause \in {"limit", "lock", "ledger"}
    /\ breach = FALSE /\ swings = 0 /\ releases = 0
    /\ halts = <<>> /\ calm = <<>>
    /\ judging = [s \in Evaluator \cup Owner |-> NoJudging]

Evaluates(e) == Judges(e) \/ Looks(e) \/ Activates(e) \/ NothingToDo(e) \/ StepsDown(e)

HaltNext ==
    \/ \E e \in Evaluator : Evaluates(e)
    \/ \E o \in Owner : OwnerLooks(o) \/ OwnerReleases(o)
    \/ \E s \in Evaluator \cup Owner : SessionFails(s)
    \/ Swings

(* Each bar of an active bot is evaluated, the ledger checked again and    *)
(* again, and one that fails is evaluated again.                           *)
HaltFairness ==
    \A e \in Evaluator : /\ WF_haltVars(Judges(e))
                         /\ SF_haltVars(Looks(e))
                         /\ SF_haltVars(Activates(e) \/ NothingToDo(e) \/ StepsDown(e))

HaltSpec == HaltInit /\ [][HaltNext]_haltVars /\ HaltFairness

-----------------------------------------------------------------------------
(* The two-step safety valve: an evaluation, or an Owner, releases a limit *)
(* only after two steps down since it was raised, unless it was raised     *)
(* again behind that session's back; other causes go by an Owner's hand.   *)
(* One cause has one active row, however many sessions find none at once:  *)
(* with two, the release of one would leave the cause halted unseen.       *)
TwoStepsDown ==
    [][/\ Cardinality(Active') <= 1
       /\ \A i \in Active : halts'[i].active \/
             \E s \in Evaluator \cup Owner :
                 /\ judging[s].row = i /\ judging'[s] = NoJudging
                 /\ IF cause = "limit" THEN calm[i] \/ judging[s].stale ELSE s \in Owner]_haltVars

(* When the cause comes and goes no more, the halt is in force if it stays *)
(* and a limit's halt is gone if it does not, whatever the sessions wrote  *)
(* over one another before.                                                *)
HaltsSettle ==
    <>[](IF breach THEN \E i \in Active : halts[i].level = Raised
         ELSE cause = "limit" => Active = {})
=============================================================================
