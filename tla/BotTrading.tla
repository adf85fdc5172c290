----------------------------- MODULE BotTrading -----------------------------
(***************************************************************************)
(* One paper bot of app/trading: its row and runs, the halts over it, the  *)
(* position of its account, the worker processes that evaluate it on each  *)
(* closed bar, and the requests that start, pause, resume, stop and        *)
(* emergency-stop it.                                                      *)
(*                                                                         *)
(* Transactions are READ COMMITTED and lock nothing they read, so each is  *)
(* a step that reads and a later step that writes what it decided; the     *)
(* writes of one transaction are one step. A worker's pass remembers the   *)
(* row of the bot it listed, and a session the position row it loaded.     *)
(* Quantities are signed: long is positive, short is negative, and one     *)
(* entry is one unit.                                                      *)
(***************************************************************************)
EXTENDS Integers, FiniteSets, FiniteSetsExt

CONSTANTS
    Worker,      \* trading worker processes (nothing stops a second one)
    Request,     \* requests of the API that run at the same time
    None,        \* SQL NULL
    AllowShort,  \* the account is OANDA's: it may be short
    Threshold,   \* FAILURE_THRESHOLD: failed passes before a bot is failed
    EmergencyScope, \* scopes in which an emergency stop is asked for
    MaxBars,     \* bound: bars that close
    MaxRuns,     \* bound: times the bot is started
    MaxUnits,    \* bound: units the risk gate approves in one direction
    MaxRows      \* bound: position rows ever opened

ASSUME ConstantsAssumption ==
    /\ AllowShort \in BOOLEAN /\ IsFiniteSet(Worker)
    /\ Threshold \in Nat \ {0} /\ MaxBars \in Nat /\ MaxRuns \in Nat /\ MaxUnits \in Nat
    /\ MaxRows \in Nat
    /\ EmergencyScope \subseteq {"bot", "workspace"}
    /\ None \notin Nat

VARIABLES
    bot,       \* the trading_bot row
    run,       \* the status of each bot_run row, "none" before it exists
    halts,     \* scopes with an active emergency_stopped trading_halt
    open,      \* the open trading_position rows of the account
    opened,    \* how many rows were ever opened
    net,       \* the signed sum of the fills
    signals,   \* how many signal rows each run has for each bar
    latest,    \* the latest final candle and what the strategy says of it
    late,      \* history: entries evaluations committed under these halts
    worker,    \* what each worker process remembers
    request    \* what each request remembers

vars == <<bot, run, halts, open, opened, net, signals, latest, late, worker, request>>

Run == 1 .. MaxRuns
Bar == 1 .. MaxBars
Scope == {"bot", "workspace", "account"}
ActiveStates == {"running", "paused"}
ActiveRuns == {r \in Run : run[r] \in ActiveStates}

(* What one transaction writes: the row it closes at its stop, the row it  *)
(* changes with the units it read and leaves there, the units it opens a   *)
(* row with, and the units it fills in all. None is no row.                *)
NoOrder == [stopped |-> None, row |-> None, held |-> 0, left |-> 0, opens |-> 0, fill |-> 0]

IdleWorker == [pc |-> "idle", actual |-> "stopped", run |-> None, bar |-> 0,
               order |-> NoOrder, failures |-> 0]

IdleRequest == [pc |-> "idle", kind |-> "none", scope |-> "none", known |-> FALSE,
                close |-> FALSE, run |-> None, todo |-> {},
                seen |-> 0, order |-> NoOrder]

OpenRow == [row : Nat \ {0}, units : Int \ {0}]
Order == [stopped : Nat \cup {None}, row : Nat \cup {None}, held : Int, left : Int,
          opens : Int, fill : Int]

WorkerState ==
    [pc : {"idle", "listed", "taken", "write", "failed", "failing"},
     actual : ActiveStates \cup {"stopped"}, run : Run \cup {None}, bar : 0 .. MaxBars,
     order : Order, failures : 0 .. Threshold]

RequestState ==
    [pc : {"idle", "write", "close", "look", "fill"},
     kind : {"none", "start", "pause", "resume", "stop", "emergency"},
     scope : EmergencyScope \cup {"none"}, known : BOOLEAN, close : BOOLEAN,
     run : Run \cup {None}, todo : SUBSET OpenRow, seen : Int, order : Order]

TypeOK ==
    /\ bot \in [desired : ActiveStates \cup {"stopped"},
                actual : ActiveStates \cup {"stopped", "failed"}]
    /\ run \in [Run -> ActiveStates \cup {"none", "stopped", "failed"}]
    /\ halts \subseteq Scope
    /\ open \in SUBSET OpenRow /\ opened \in Nat
    /\ \A p \in open : p.row <= opened
    /\ net \in Int /\ late \in Nat
    /\ signals \in [Run \X Bar -> Nat]
    /\ latest \in [bar : 0 .. MaxBars, says : {"hold", "buy", "sell"}, stop : BOOLEAN]
    /\ worker \in [Worker -> WorkerState]
    /\ request \in [Request -> RequestState]

Init ==
    /\ bot = [desired |-> "stopped", actual |-> "stopped"]
    /\ run = [r \in Run |-> "none"]
    /\ halts = {}
    /\ open = {} /\ opened = 0
    /\ net = 0 /\ late = 0
    /\ signals = [s \in Run \X Bar |-> 0]
    /\ latest = [bar |-> 0, says |-> "hold", stop |-> FALSE]
    /\ worker = [w \in Worker |-> IdleWorker]
    /\ request = [q \in Request |-> IdleRequest]

-----------------------------------------------------------------------------
(* order_flow: what an order may do, and what its transaction writes.      *)

Side(says) == CASE says = "buy" -> 1 [] says = "sell" -> -1 [] OTHER -> 0
Sign(n) == IF n < 0 THEN -1 ELSE 1
Magnitude(n) == IF n < 0 THEN -n ELSE n
Opposes(a, b) == a * b < 0

(* entry_blocked_by_halt: the scopes a placed order is checked against.    *)
Blocked(scopes) == halts \cap scopes # {}

(* place_order refuses an entry under a halt; a fill that closes or        *)
(* reduces is always allowed. A short exists only where it is supported.   *)
Refused(held, units, scopes) ==
    \/ ~Opposes(held, units) /\ Blocked(scopes)
    \/ held + units < 0 /\ ~AllowShort

(* _apply_fill_to_position on an open row, and with none open.             *)
Changes(p, units) == [NoOrder EXCEPT !.row = p.row, !.held = p.units, !.left = p.units + units,
                                     !.fill = units]
Opens(units) == [NoOrder EXCEPT !.opens = units, !.fill = units]
ClosesAtStop(p) == [NoOrder EXCEPT !.stopped = p.row, !.fill = -p.units]

(* Its UPDATE names the quantity, whatever happened to the row since it    *)
(* was read, and the side only when the fill turns the position around. A  *)
(* row closed meanwhile stays closed.                                      *)
Rewritten(p, order) ==
    IF p.row # order.row THEN p
    ELSE [p EXCEPT !.units = IF Opposes(order.held, order.left) THEN order.left
                             ELSE Sign(p.units) * Magnitude(order.left)]

After(order) ==
    LET kept == {Rewritten(p, order) : p \in {x \in open : x.row # order.stopped}}
        new == IF order.opens = 0 THEN {} ELSE {[row |-> opened + 1, units |-> order.opens]}
    IN {p \in kept \cup new : p.units # 0}

(* uq_position_open: one open row for an account, instrument and side.     *)
BreaksUniqueness(order) ==
    \E p, q \in After(order) : p # q /\ Sign(p.units) = Sign(q.units)

Writes(order) ==
    /\ open' = After(order)
    /\ opened' = IF order.opens = 0 THEN opened ELSE opened + 1
    /\ net' = net + order.fill

WritesNothing == UNCHANGED <<open, opened, net>>

Held == MapThenSumSet(LAMBDA p : p.units, open)

-----------------------------------------------------------------------------
(* The worker: run_active_bots_once and evaluate_bot_on_latest_bar.        *)

Remembers(w, state) == worker' = [worker EXCEPT ![w] = state]

(* The pass lists the active bots; this one's row stays as it was read.    *)
ListBots(w) ==
    /\ worker[w].pc = "idle" /\ bot.actual \in ActiveStates
    /\ Remembers(w, [worker[w] EXCEPT !.pc = "listed", !.actual = bot.actual])
    /\ UNCHANGED <<bot, run, halts, open, opened, net, signals, latest, late, request>>

(* The active run of a listed bot (whichever comes first), or none.        *)
TakeRun(w) ==
    /\ worker[w].pc = "listed"
    /\ \/ \E r \in ActiveRuns : Remembers(w, [worker[w] EXCEPT !.pc = "taken", !.run = r])
       \/ /\ ActiveRuns = {}
          /\ Remembers(w, [IdleWorker EXCEPT !.failures = worker[w].failures])
    /\ UNCHANGED <<bot, run, halts, open, opened, net, signals, latest, late, request>>

(* Nothing to do: no candle, or this run has a signal for the latest one.  *)
AlreadyProcessed(w) ==
    /\ worker[w].pc = "taken"
    /\ latest.bar = 0 \/ signals[worker[w].run, latest.bar] > 0
    /\ Remembers(w, IdleWorker)
    /\ UNCHANGED <<bot, run, halts, open, opened, net, signals, latest, late, request>>

(* _open_position, given the rows there are: whichever comes first.        *)
NoRow == [row |-> None, units |-> 0]
AnyOf(rows) == IF rows = {} THEN {NoRow} ELSE rows

(* _close_at_stop, before anything else.                                   *)
StopOrders == IF latest.stop /\ open # {} THEN {ClosesAtStop(p) : p \in open} ELSE {NoOrder}

EntryOrder(existing, units) == IF existing = NoRow THEN Opens(units) ELSE Changes(existing, units)

(* Faulty form for FewLateEntries: no entry is checked against the halts.  *)
SignalOrdersWhateverTheHalts(w, existing) ==
    LET units == Side(latest.says) IN
    IF Opposes(existing.units, units) THEN {Changes(existing, -existing.units)}
    ELSE IF units = 0 \/ worker[w].actual = "paused" \/ (existing.units + units < 0 /\ ~AllowShort)
              \/ Magnitude(existing.units + units) > MaxUnits
    THEN {NoOrder} ELSE {NoOrder, EntryOrder(existing, units)}

(* What a signal leads to: an opposing one closes the whole position and   *)
(* nothing more; any other is an entry, unless the bot was listed as       *)
(* paused, a halt blocks it, or the risk gate denies it.                   *)
SignalOrders(w, existing) ==
    LET units == Side(latest.says) IN
    IF Opposes(existing.units, units) THEN {Changes(existing, -existing.units)}
    ELSE IF units = 0 \/ worker[w].actual = "paused" \/ Refused(existing.units, units, Scope)
              \/ Magnitude(existing.units + units) > MaxUnits
    THEN {NoOrder} ELSE {NoOrder, EntryOrder(existing, units)}

(* The stop's order and the signal's belong to one transaction.            *)
Together(stop, order) ==
    [order EXCEPT !.stopped = stop.stopped, !.fill = order.fill + stop.fill]

(* _evaluate, up to its commit.                                            *)
Evaluate(w) ==
    /\ worker[w].pc = "taken" /\ latest.bar > 0
    /\ signals[worker[w].run, latest.bar] = 0
    /\ \E stop \in StopOrders :
         \E existing \in AnyOf({p \in open : p.row # stop.stopped}) :
           \E order \in SignalOrders(w, existing) :
             Remembers(w, [worker[w] EXCEPT !.pc = "write", !.bar = latest.bar,
                                            !.order = Together(stop, order)])
    /\ UNCHANGED <<bot, run, halts, open, opened, net, signals, latest, late, request>>

(* Faulty form for EveryBarIsHandled: each pass counts anew.               *)
CountFailureEachPass(w) ==
    Remembers(w, [IdleWorker EXCEPT !.failures = 1,
                                 !.pc = IF Threshold = 1 THEN "failed" ELSE "idle"])

(* An exception: rolled back whole and counted in the worker's memory. The *)
(* count is only compared with the threshold, and stays there.             *)
CountFailure(w) ==
    LET failures == IF worker[w].failures < Threshold THEN worker[w].failures + 1 ELSE Threshold
    IN Remembers(w, [IdleWorker EXCEPT !.failures = failures,
                                   !.pc = IF failures = Threshold THEN "failed" ELSE "idle"])

EvaluationRaises(w) ==
    /\ worker[w].pc \in {"taken", "write"}
    /\ CountFailure(w)
    /\ UNCHANGED <<bot, run, halts, open, opened, net, signals, latest, late, request>>

(* A transaction that opens or adds to a position.                         *)
IsEntry(order) == order.opens # 0 \/ Magnitude(order.left) > Magnitude(order.held)

(* Faulty form for ActedOnce: no uq_signal_idempotency.                    *)
CommitRepeats(w) ==
    LET order == worker[w].order key == <<worker[w].run, worker[w].bar>> IN
    /\ worker[w].pc = "write"
    /\ IF BreaksUniqueness(order)
       THEN CountFailure(w) /\ WritesNothing /\ UNCHANGED <<signals, late>>
       ELSE /\ signals' = [signals EXCEPT ![key] = @ + 1]
            /\ Writes(order)
            /\ late' = late
            /\ Remembers(w, IdleWorker)
    /\ UNCHANGED <<bot, run, halts, latest, request>>

(* The commit of a cycle: the signal, and the orders with their fill,      *)
(* position and ledger rows. A second signal for the bar is refused        *)
(* (uq_signal_idempotency). A success ends the count of failures.          *)
Commit(w) ==
    LET order == worker[w].order key == <<worker[w].run, worker[w].bar>> IN
    /\ worker[w].pc = "write"
    /\ order.opens # 0 => opened < MaxRows
    /\ IF signals[key] > 0 \/ BreaksUniqueness(order)
       THEN CountFailure(w) /\ WritesNothing /\ UNCHANGED <<signals, late>>
       ELSE /\ signals' = [signals EXCEPT ![key] = @ + 1]
            /\ Writes(order)
            /\ late' = IF halts # {} /\ IsEntry(order) THEN late + 1 ELSE late
            /\ Remembers(w, IdleWorker)
    /\ UNCHANGED <<bot, run, halts, latest, request>>

(* _fail_bot: the bot is read again; one that is no longer active is left. *)
ReadFailed(w) ==
    /\ worker[w].pc = "failed"
    /\ IF bot.actual \notin ActiveStates THEN Remembers(w, IdleWorker)
       ELSE \E r \in IF ActiveRuns = {} THEN {None} ELSE ActiveRuns :
              Remembers(w, [worker[w] EXCEPT !.pc = "failing", !.run = r])
    /\ UNCHANGED <<bot, run, halts, open, opened, net, signals, latest, late, request>>

(* fail_bot: the run ends as failed and the bot is meant to be stopped.    *)
FailBot(w) ==
    /\ worker[w].pc = "failing"
    /\ bot' = [desired |-> "stopped", actual |-> "failed"]
    /\ run' = [r \in Run |-> IF r = worker[w].run THEN "failed" ELSE run[r]]
    /\ Remembers(w, IdleWorker)
    /\ UNCHANGED <<halts, open, opened, net, signals, latest, late, request>>

(* The database goes away: rolled back, not counted against the bot. A     *)
(* failure that could not be recorded stays counted.                       *)
DatabaseOutage(w) ==
    /\ worker[w].pc # "idle"
    /\ Remembers(w, [IdleWorker EXCEPT !.failures = worker[w].failures])
    /\ UNCHANGED <<bot, run, halts, open, opened, net, signals, latest, late, request>>

(* The process dies and is started again: the count is lost.               *)
Crash(w) ==
    /\ worker[w] # IdleWorker
    /\ Remembers(w, IdleWorker)
    /\ UNCHANGED <<bot, run, halts, open, opened, net, signals, latest, late, request>>

-----------------------------------------------------------------------------
(* The requests: each reads the rows it needs, then commits what it        *)
(* decided from them. A request that is refused changes nothing.           *)

Continues(q, state) == request' = [request EXCEPT ![q] = state]

Begins(q, kind, r) ==
    /\ request[q].pc = "idle"
    /\ Continues(q, [IdleRequest EXCEPT !.pc = "write", !.kind = kind, !.run = r])
    /\ UNCHANGED <<bot, run, halts, open, opened, net, signals, latest, late, worker>>

(* validate_bot_startup: among its checks, an emergency stop of the bot or *)
(* of its workspace, and a recent candle. The halt of an account is not    *)
(* asked for.                                                              *)
MayRun == halts \cap {"bot", "workspace"} = {} /\ latest.bar > 0

ReadStart(q) == bot.desired = "stopped" /\ MayRun /\ Begins(q, "start", None)

ReadPause(q) ==
    /\ bot.desired = "running"
    /\ \E r \in {x \in Run : run[x] = "running"} : Begins(q, "pause", r)

ReadResume(q) ==
    /\ bot.desired = "paused" /\ MayRun
    /\ \E r \in {x \in Run : run[x] = "paused"} : Begins(q, "resume", r)

ReadStop(q) ==
    /\ bot.desired # "stopped"
    /\ \E r \in ActiveRuns : Begins(q, "stop", r)

(* Faulty form for ActiveBotHasRun: a stop ends the run and only asks the bot to. *)
StopsRunOnly(r) ==
    /\ bot' = [bot EXCEPT !.desired = "stopped"]
    /\ run' = [run EXCEPT ![r] = "stopped"]

(* stop_bot: open orders there are none of, since every order is filled in *)
(* the transaction that places it.                                         *)
Stops(r) ==
    /\ bot' = [desired |-> "stopped", actual |-> "stopped"]
    /\ run' = [run EXCEPT ![r] = "stopped"]

Moves(state, r) ==
    /\ bot' = [desired |-> state, actual |-> state]
    /\ run' = [run EXCEPT ![r] = state]

(* start_bot opens a run of its own.                                       *)
StartBot(q) ==
    /\ request[q].kind = "start"
    /\ \E r \in Run : /\ run[r] = "none" /\ \A x \in Run : run[x] = "none" => x >= r
                      /\ Moves("running", r)

PauseBot(q) == request[q].kind = "pause" /\ Moves("paused", request[q].run)
ResumeBot(q) == request[q].kind = "resume" /\ Moves("running", request[q].run)
StopBot(q) == request[q].kind = "stop" /\ Stops(request[q].run)

CommitCommand(q) ==
    /\ request[q].pc = "write"
    /\ StartBot(q) \/ PauseBot(q) \/ ResumeBot(q) \/ StopBot(q)
    /\ Continues(q, IdleRequest)
    /\ UNCHANGED <<halts, open, opened, net, signals, latest, late, worker>>

(* emergency_stop: whether the halt is there already and which run to end, *)
(* none if the bot is already meant to be stopped.                         *)
ReadEmergency(q, scope, close) ==
    /\ request[q].pc = "idle"
    /\ \E r \in IF bot.desired = "stopped" \/ ActiveRuns = {} THEN {None} ELSE ActiveRuns :
         Continues(q, [IdleRequest EXCEPT !.pc = "write", !.kind = "emergency", !.scope = scope,
                                          !.known = scope \in halts, !.close = close, !.run = r])
    /\ UNCHANGED <<bot, run, halts, open, opened, net, signals, latest, late, worker>>

StopCommitted(q) ==
    Continues(q, IF request[q].close THEN [request[q] EXCEPT !.pc = "close"] ELSE IdleRequest)

(* Faulty form for EmergencyMeansStopped: the bots are stopped only the first     *)
(* time.                                                                   *)
EmergencyStopsOnce(q) ==
    LET r == request[q].run scope == request[q].scope IN
    /\ request[q].pc = "write" /\ request[q].kind = "emergency"
    /\ halts' = halts \cup {scope}
    /\ IF r = None \/ halts # {} THEN UNCHANGED <<bot, run>> ELSE Stops(r)
    /\ StopCommitted(q)
    /\ UNCHANGED <<open, opened, net, signals, latest, late, worker>>

(* The halt, the stop and the audit rows are one transaction. A halt that  *)
(* somebody else activated in the meantime makes it fail as a whole        *)
(* (uq_trading_halt_active).                                               *)
EmergencyStop(q) ==
    LET r == request[q].run scope == request[q].scope IN
    /\ request[q].pc = "write" /\ request[q].kind = "emergency"
    /\ IF ~request[q].known /\ scope \in halts
       THEN Continues(q, IdleRequest) /\ UNCHANGED <<bot, run, halts>>
       ELSE /\ halts' = IF request[q].known THEN halts ELSE halts \cup {scope}
            /\ IF r = None THEN UNCHANGED <<bot, run>> ELSE Stops(r)
            /\ StopCommitted(q)
    /\ UNCHANGED <<open, opened, net, signals, latest, late, worker>>

(* _close_open_positions: the open rows are listed after that commit; each *)
(* is closed in a transaction of its own, and one failing does not stop    *)
(* the others.                                                             *)
ListPositions(q) ==
    /\ request[q].pc = "close"
    /\ Continues(q, IF open = {} THEN IdleRequest
                    ELSE [request[q] EXCEPT !.pc = "look", !.todo = open])
    /\ UNCHANGED <<bot, run, halts, open, opened, net, signals, latest, late, worker>>

(* place_order for the listed row t looks again, without the bot's scope.  *)
(* The session knows a listed row as it was listed, if it is still open;   *)
(* with no row open the order opens one the other way.                     *)
PlaceClose(q, t) ==
    \E p \in AnyOf(open) :
        LET listed == {x \in request[q].todo : x.row = p.row}
            existing == IF listed = {} THEN p ELSE CHOOSE x \in listed : TRUE
        IN /\ request[q].pc = "look" /\ t \in request[q].todo
           /\ ~Refused(existing.units, -t.units, {"account", "workspace"})
           /\ Continues(q, [request[q] EXCEPT
                  !.pc = "fill", !.seen = t.units, !.todo = request[q].todo \ {t},
                  !.order = EntryOrder(existing, -t.units)])
           /\ UNCHANGED <<bot, run, halts, open, opened, net, signals, latest, late, worker>>

GoesOn(q, rest) ==
    Continues(q, IF rest = {} THEN IdleRequest
                 ELSE [request[q] EXCEPT !.pc = "look", !.todo = rest, !.seen = 0,
                                         !.order = NoOrder])

CommitClose(q) ==
    LET order == request[q].order IN
    /\ request[q].pc = "fill" /\ ~BreaksUniqueness(order)
    /\ order.opens # 0 => opened < MaxRows
    /\ Writes(order)
    /\ GoesOn(q, request[q].todo)
    /\ UNCHANGED <<bot, run, halts, signals, latest, late, worker>>

(* A close that is refused or fails is rolled back; the rest is read anew. *)
CloseFails(q, t) ==
    /\ \/ request[q].pc = "look" /\ t \in request[q].todo
       \/ request[q].pc = "fill" /\ t = NoRow
    /\ GoesOn(q, {p \in open : \E x \in request[q].todo \ {t} : x.row = p.row})
    /\ UNCHANGED <<bot, run, halts, open, opened, net, signals, latest, late, worker>>

(* A request that fails or whose process dies: what it has committed stays. *)
RequestDies(q) ==
    /\ request[q].pc # "idle"
    /\ Continues(q, IdleRequest)
    /\ UNCHANGED <<bot, run, halts, open, opened, net, signals, latest, late, worker>>

-----------------------------------------------------------------------------
(* What happens around them.                                               *)

CloseBar(says, stop) ==
    /\ latest.bar < MaxBars
    /\ latest' = [bar |-> latest.bar + 1, says |-> says, stop |-> stop]
    /\ UNCHANGED <<bot, run, halts, open, opened, net, signals, late, worker, request>>

(* What reconcile finds in the positions of the account: more than one row *)
(* open, or other units than the fills add up to.                          *)
Disagrees == Cardinality(open) > 1 \/ Held # net

(* check_ledger_reconciliation.                                            *)
LedgerMismatch ==
    /\ Disagrees /\ "account" \notin halts
    /\ halts' = halts \cup {"account"}
    /\ UNCHANGED <<bot, run, open, opened, net, signals, latest, late, worker, request>>

(* An Owner's emergency release, which starts no bot; that of the account  *)
(* is refused while its records disagree.                                  *)
Release(scope) ==
    /\ scope \in halts /\ (scope = "account" => ~Disagrees)
    /\ halts' = halts \ {scope}
    /\ late' = IF halts' = {} THEN 0 ELSE late
    /\ UNCHANGED <<bot, run, open, opened, net, signals, latest, worker, request>>

-----------------------------------------------------------------------------
WorkerStep(w) ==
    \/ ListBots(w) \/ TakeRun(w) \/ AlreadyProcessed(w) \/ Evaluate(w) \/ EvaluationRaises(w)
    \/ Commit(w) \/ ReadFailed(w) \/ FailBot(w)

RequestStep(q) ==
    \/ ReadStart(q) \/ ReadPause(q) \/ ReadResume(q) \/ ReadStop(q) \/ CommitCommand(q)
    \/ \E scope \in EmergencyScope, close \in BOOLEAN : ReadEmergency(q, scope, close)
    \/ EmergencyStop(q) \/ ListPositions(q) \/ CommitClose(q) \/ RequestDies(q)
    \/ \E t \in request[q].todo \cup {NoRow} : PlaceClose(q, t) \/ CloseFails(q, t)

Environment ==
    \/ \E says \in {"hold", "buy", "sell"}, stop \in BOOLEAN : CloseBar(says, stop)
    \/ LedgerMismatch
    \/ \E scope \in Scope : Release(scope)

Undisturbed ==
    \/ \E w \in Worker : WorkerStep(w)
    \/ \E q \in Request : RequestStep(q)
    \/ Environment

Next == Undisturbed \/ \E w \in Worker : DatabaseOutage(w) \/ Crash(w)

Spec == Init /\ [][Next]_vars

(* Every worker process keeps polling, and after some point neither it nor *)
(* the database goes away again: an evaluation that is cut off each time   *)
(* never commits.                                                          *)
FairSpec == Spec /\ <>[][Undisturbed]_vars /\ \A w \in Worker : WF_vars(WorkerStep(w))

-----------------------------------------------------------------------------
(* Safety.                                                                 *)

(* An active bot has a run in the same state, so no pass ever skips it in  *)
(* silence, whatever requests and failures run at the same time            *)
(* (run_active_bots_once: "should not happen").                            *)
ActiveBotHasRun == bot.actual \in ActiveStates => \E r \in Run : run[r] = bot.actual

(* One run acts on one bar at most once, however many worker processes     *)
(* poll and whichever of them are restarted (uq_signal_idempotency,        *)
(* evaluate_bot_on_latest_bar).                                            *)
ActedOnce == \A s \in Run \X Bar : signals[s] <= 1

(* Under a halt, each worker process commits at most the one entry it had  *)
(* decided before the halt (entry_blocked_by_halt).                        *)
FewLateEntries == late <= Cardinality(Worker)

(* When requests come one at a time, a bot under an emergency stop is not  *)
(* active until an Owner releases it and somebody starts it again          *)
(* (emergency_stop, validate_bot_startup).                                 *)
EmergencyMeansStopped == halts \cap {"bot", "workspace"} # {} => bot.actual \notin ActiveStates

(* The position is what its fills add up to (ledger_reconciliation: "they  *)
(* agree unless a bug, a manual edit or a partial restore broke that").    *)
PositionMatchesFills == Held = net

-----------------------------------------------------------------------------
(* Liveness.                                                               *)

(* A bar that closes while the bot is active is acted on, unless a later   *)
(* bar closes or the bot stops first: a cycle that keeps raising is not    *)
(* retried forever, it fails the bot.                                      *)
EveryBarIsHandled ==
    \A b \in Bar :
        latest.bar = b /\ bot.actual \in ActiveStates
          ~> \/ latest.bar # b \/ bot.actual \notin ActiveStates
             \/ \E r \in ActiveRuns : signals[r, b] > 0
=============================================================================
