------------------------- MODULE BotTradingProofs -------------------------
(***************************************************************************)
(* Proofs about BotTrading, for every number of workers, requests, runs    *)
(* and bars: the types of its state, that a run acts on a bar once, that   *)
(* an active bot has a run in its state, and, when requests come one at a  *)
(* time, that a bot under an emergency stop is not active. They rest on    *)
(* what the state of a worker and of a request says about the run it       *)
(* remembers.                                                              *)
(***************************************************************************)
EXTENDS BotTrading, FiniteSetTheorems, TLAPS

(* A worker that took a run or is about to write has one, and a bar.       *)
SettledWorker ==
    {s \in WorkerState : /\ s.pc \in {"taken", "write"} => s.run \in Run
                         /\ s.pc = "write" => s.bar \in Bar}

(* A request that pauses, resumes or stops a bot has a run, and an         *)
(* emergency stop has a scope.                                             *)
SettledRequest ==
    {s \in RequestState :
        s.pc = "write" => /\ s.kind \in {"pause", "resume", "stop"} => s.run \in Run
                          /\ s.kind = "emergency" => s.scope \in EmergencyScope}

WorkersOK == worker \in [Worker -> WorkerState] /\ \A w \in Worker : worker[w] \in SettledWorker
RequestsOK ==
    request \in [Request -> RequestState] /\ \A q \in Request : request[q] \in SettledRequest

RowsOK ==
    /\ open \in SUBSET OpenRow /\ opened \in Nat /\ net \in Int
    /\ \A p \in open : p.row <= opened

BotOK ==
    /\ bot \in [desired : ActiveStates \cup {"stopped"},
                actual : ActiveStates \cup {"stopped", "failed"}]
    /\ run \in [Run -> ActiveStates \cup {"none", "stopped", "failed"}]
    /\ ActiveBotHasRun

SignalsOK == signals \in [Run \X Bar -> Nat] /\ late \in Nat /\ ActedOnce

RestOK ==
    /\ halts \subseteq Scope
    /\ latest \in [bar : 0 .. MaxBars, says : {"hold", "buy", "sell"}, stop : BOOLEAN]

IInv == WorkersOK /\ RequestsOK /\ RowsOK /\ BotOK /\ SignalsOK /\ RestOK
-----------------------------------------------------------------------------
(* Orders are orders, whichever row they are computed from                 *)
(* (_apply_fill_to_position).                                              *)
AnyRow == [row : Nat \cup {None}, units : Int]

LEMMA RowTypes == OpenRow \subseteq AnyRow /\ NoRow \in AnyRow
BY DEF OpenRow, AnyRow, NoRow

LEMMA OrderTypes ==
    /\ NoOrder \in Order
    /\ \A u \in Int : Opens(u) \in Order
    /\ \A p \in AnyRow, u \in Int : Changes(p, u) \in Order /\ EntryOrder(p, u) \in Order
    /\ \A p \in AnyRow : ClosesAtStop(p) \in Order
<1>1. NoOrder \in Order
  BY DEF NoOrder, Order
<1>2. ASSUME NEW u \in Int PROVE Opens(u) \in Order
  BY <1>1 DEF Opens, Order
<1>3. ASSUME NEW p \in AnyRow, NEW u \in Int PROVE Changes(p, u) \in Order
  <2>1. p.row \in Nat \cup {None} /\ p.units \in Int /\ p.units + u \in Int
    BY DEF AnyRow
  <2> QED BY <1>1, <2>1 DEF Changes, Order
<1>4. ASSUME NEW p \in AnyRow PROVE ClosesAtStop(p) \in Order
  <2>1. p.row \in Nat \cup {None} /\ p.units \in Int /\ -p.units \in Int
    BY DEF AnyRow
  <2> QED BY <1>1, <2>1 DEF ClosesAtStop, Order
<1> QED BY <1>1, <1>2, <1>3, <1>4 DEF EntryOrder

(* An open row that is rewritten keeps its place; only its units change.   *)
LEMMA RewrittenType ==
    ASSUME NEW p \in OpenRow, NEW order \in Order
    PROVE  Rewritten(p, order) \in [row : Nat \ {0}, units : Int] /\ Rewritten(p, order).row = p.row
<1> DEFINE units == IF Opposes(order.held, order.left) THEN order.left
                    ELSE Sign(p.units) * Magnitude(order.left)
<1>1. Sign(p.units) \in Int /\ order.left \in Int /\ Magnitude(order.left) \in Int
  BY DEF Sign, Magnitude, OpenRow, Order
<1>2. units \in Int
  BY <1>1
<1>3. Rewritten(p, order) = IF p.row # order.row THEN p ELSE [p EXCEPT !.units = units]
  BY DEF Rewritten
<1> HIDE DEF units
<1> QED BY <1>2, <1>3 DEF OpenRow

(* What a transaction writes are position rows (place_order).              *)
LEMMA RowsWritten ==
    ASSUME RowsOK, NEW order \in Order, Writes(order)
    PROVE  RowsOK'
<1>1. /\ order.opens \in Int /\ order.fill \in Int
      /\ opened \in Nat /\ net \in Int /\ open \subseteq OpenRow
  BY DEF Order, RowsOK
<1>2. opened' \in Nat /\ opened <= opened' /\ (order.opens # 0 => opened' = opened + 1)
  BY <1>1 DEF Writes
<1>3. net' \in Int
  BY <1>1 DEF Writes
<1>4. ASSUME NEW p \in open' PROVE p \in OpenRow /\ p.row <= opened'
  <2>1. p.units # 0
    BY DEF Writes, After
  <2>2. CASE \E x \in open : p = Rewritten(x, order)
    <3>1. PICK x \in open : p = Rewritten(x, order)
      BY <2>2
    <3>2. x \in OpenRow /\ x.row <= opened /\ x.row \in Nat
      BY <1>1 DEF RowsOK, OpenRow
    <3>3. p \in [row : Nat \ {0}, units : Int] /\ p.row = x.row
      BY <3>1, <3>2, RewrittenType
    <3> QED BY <1>1, <1>2, <2>1, <3>2, <3>3 DEF OpenRow
  <2>3. CASE order.opens # 0 /\ p = [row |-> opened + 1, units |-> order.opens]
    BY <1>1, <1>2, <2>1, <2>3 DEF OpenRow
  <2>4. (\E x \in open : p = Rewritten(x, order))
          \/ (order.opens # 0 /\ p = [row |-> opened + 1, units |-> order.opens])
    BY DEF Writes, After
  <2> QED BY <2>2, <2>3, <2>4
<1> QED BY <1>2, <1>3, <1>4 DEF RowsOK

(* What an evaluation may come to write is an order (_evaluate).           *)
LEMMA DecisionTypes ==
    ASSUME RowsOK, RestOK, NEW w, NEW stop \in StopOrders,
           NEW existing \in AnyOf({p \in open : p.row # stop.stopped}),
           NEW order \in SignalOrders(w, existing)
    PROVE  Together(stop, order) \in Order
<1>1. open \subseteq OpenRow
  BY DEF RowsOK
<1>2. stop \in Order
  BY <1>1, OrderTypes, RowTypes DEF StopOrders
<1>3. existing \in AnyRow
  BY <1>1, RowTypes DEF AnyOf
<1>4. Side(latest.says) \in Int /\ -existing.units \in Int
  BY <1>3 DEF Side, AnyRow
<1>5. order \in {Changes(existing, -existing.units), NoOrder,
                 EntryOrder(existing, Side(latest.says))}
  BY DEF SignalOrders
<1>6. order \in Order
  BY <1>3, <1>4, <1>5, OrderTypes
<1>7. stop.stopped \in Nat \cup {None} /\ order.fill + stop.fill \in Int
  BY <1>2, <1>6 DEF Order
<1> QED BY <1>6, <1>7 DEF Together, Order
-----------------------------------------------------------------------------
(* A state of a worker, or of a request, that replaces another.            *)
LEMMA WorkerReplaced ==
    ASSUME WorkersOK, NEW w \in Worker, NEW s \in SettledWorker, Remembers(w, s)
    PROVE  WorkersOK'
<1>1. s \in WorkerState
  BY DEF SettledWorker
<1>2. worker' \in [Worker -> WorkerState]
  BY <1>1 DEF WorkersOK, Remembers
<1>3. ASSUME NEW v \in Worker PROVE worker'[v] \in SettledWorker
  BY DEF WorkersOK, Remembers
<1> QED BY <1>2, <1>3 DEF WorkersOK

LEMMA RequestReplaced ==
    ASSUME RequestsOK, NEW q \in Request, NEW s \in SettledRequest, Continues(q, s)
    PROVE  RequestsOK'
<1>1. s \in RequestState
  BY DEF SettledRequest
<1>2. request' \in [Request -> RequestState]
  BY <1>1 DEF RequestsOK, Continues
<1>3. ASSUME NEW x \in Request PROVE request'[x] \in SettledRequest
  BY DEF RequestsOK, Continues
<1> QED BY <1>2, <1>3 DEF RequestsOK

LEMMA IdleTypes ==
    /\ \A n \in 0 .. Threshold, pc \in {"idle", "failed"} :
         [IdleWorker EXCEPT !.failures = n, !.pc = pc] \in SettledWorker
    /\ \A n \in 0 .. Threshold : [IdleWorker EXCEPT !.failures = n] \in SettledWorker
    /\ IdleWorker \in SettledWorker /\ IdleRequest \in SettledRequest
<1>1. /\ IdleWorker = [pc |-> "idle", actual |-> "stopped", run |-> None, bar |-> 0,
                       order |-> NoOrder, failures |-> 0]
      /\ 0 \in 0 .. MaxBars /\ 0 \in 0 .. Threshold
  BY ConstantsAssumption DEF IdleWorker
<1>2. IdleWorker \in WorkerState
  BY <1>1, OrderTypes DEF WorkerState
<1>3. IdleRequest \in SettledRequest
  BY OrderTypes DEF IdleRequest, SettledRequest, RequestState
<1> QED BY <1>1, <1>2, <1>3 DEF SettledWorker, WorkerState

LEMMA CountFailureType ==
    ASSUME WorkersOK, NEW w \in Worker, CountFailure(w)
    PROVE  WorkersOK'
<1> DEFINE failures == IF worker[w].failures < Threshold THEN worker[w].failures + 1 ELSE Threshold
           pc == IF failures = Threshold THEN "failed" ELSE "idle"
<1>1. worker[w].failures \in 0 .. Threshold
  BY DEF WorkersOK, WorkerState
<1>2. failures \in 0 .. Threshold /\ pc \in {"idle", "failed"}
  BY <1>1, ConstantsAssumption
<1>3. Remembers(w, [IdleWorker EXCEPT !.failures = failures, !.pc = pc])
  BY DEF CountFailure
<1> HIDE DEF failures, pc
<1> QED BY <1>2, <1>3, IdleTypes, WorkerReplaced
-----------------------------------------------------------------------------
(* The parts of the invariant that a step leaves alone.                    *)
LEMMA WorkerOnly ==
    ASSUME IInv, WorkersOK',
           UNCHANGED <<bot, run, halts, open, opened, net, signals, latest, late, request>>
    PROVE  IInv'
BY DEF IInv, RequestsOK, RowsOK, BotOK, SignalsOK, RestOK, ActiveBotHasRun, ActedOnce

LEMMA RequestOnly ==
    ASSUME IInv, RequestsOK',
           UNCHANGED <<bot, run, halts, open, opened, net, signals, latest, late, worker>>
    PROVE  IInv'
BY DEF IInv, WorkersOK, RowsOK, BotOK, SignalsOK, RestOK, ActiveBotHasRun, ActedOnce
-----------------------------------------------------------------------------
(* What a worker remembers after each of its steps that only reads.        *)
LEMMA WorkerReads ==
    ASSUME IInv, NEW w \in Worker,
           \/ ListBots(w) \/ TakeRun(w) \/ AlreadyProcessed(w) \/ Evaluate(w)
           \/ EvaluationRaises(w) \/ ReadFailed(w) \/ DatabaseOutage(w) \/ Crash(w)
    PROVE  IInv'
<1>1. /\ WorkersOK /\ RowsOK /\ RestOK /\ worker[w] \in SettledWorker
      /\ worker[w] \in WorkerState /\ worker[w].failures \in 0 .. Threshold
  BY DEF IInv, WorkersOK, WorkerState
<1>2. UNCHANGED <<bot, run, halts, open, opened, net, signals, latest, late, request>>
  BY DEF ListBots, TakeRun, AlreadyProcessed, Evaluate, EvaluationRaises, ReadFailed,
         DatabaseOutage, Crash
<1>3. WorkersOK'
  <2>1. CASE ListBots(w)
    <3>1. [worker[w] EXCEPT !.pc = "listed", !.actual = bot.actual] \in SettledWorker
      BY <1>1, <2>1 DEF ListBots, SettledWorker, WorkerState, ActiveStates
    <3> QED BY <1>1, <2>1, <3>1, WorkerReplaced DEF ListBots
  <2>2. CASE TakeRun(w)
    <3>1. ASSUME NEW r \in ActiveRuns
          PROVE  [worker[w] EXCEPT !.pc = "taken", !.run = r] \in SettledWorker
      BY <1>1 DEF SettledWorker, WorkerState, ActiveRuns
    <3> QED BY <1>1, <2>2, <3>1, IdleTypes, WorkerReplaced DEF TakeRun
  <2>3. CASE AlreadyProcessed(w)
    BY <1>1, <2>3, IdleTypes, WorkerReplaced DEF AlreadyProcessed
  <2>4. CASE Evaluate(w)
    <3>1. worker[w].pc = "taken" /\ latest.bar > 0
      BY <2>4 DEF Evaluate
    <3>2. latest.bar \in Bar /\ latest.bar \in 0 .. MaxBars
      BY <1>1, <3>1, ConstantsAssumption DEF RestOK, Bar
    <3>3. ASSUME NEW order \in Order
          PROVE  [worker[w] EXCEPT !.pc = "write", !.bar = latest.bar, !.order = order]
                   \in SettledWorker
      BY <1>1, <3>1, <3>2 DEF SettledWorker, WorkerState
    <3>4. \E stop \in StopOrders :
            \E existing \in AnyOf({p \in open : p.row # stop.stopped}) :
              \E order \in SignalOrders(w, existing) :
                Remembers(w, [worker[w] EXCEPT !.pc = "write", !.bar = latest.bar,
                                               !.order = Together(stop, order)])
      BY <2>4 DEF Evaluate
    <3>5. \E order \in Order :
            Remembers(w, [worker[w] EXCEPT !.pc = "write", !.bar = latest.bar, !.order = order])
      BY <1>1, <3>4, DecisionTypes
    <3> QED BY <1>1, <3>3, <3>5, WorkerReplaced
  <2>5. CASE EvaluationRaises(w)
    BY <1>1, <2>5, CountFailureType DEF EvaluationRaises
  <2>6. CASE ReadFailed(w)
    <3>1. ASSUME NEW r \in Run \cup {None}
          PROVE  [worker[w] EXCEPT !.pc = "failing", !.run = r] \in SettledWorker
      BY <1>1 DEF SettledWorker, WorkerState
    <3> QED BY <1>1, <2>6, <3>1, IdleTypes, WorkerReplaced DEF ReadFailed, ActiveRuns
  <2>7. CASE DatabaseOutage(w)
    BY <1>1, <2>7, IdleTypes, WorkerReplaced DEF DatabaseOutage
  <2>8. CASE Crash(w)
    BY <1>1, <2>8, IdleTypes, WorkerReplaced DEF Crash
  <2> QED BY <2>1, <2>2, <2>3, <2>4, <2>5, <2>6, <2>7, <2>8
<1> QED BY <1>2, <1>3, WorkerOnly

(* The commit of a cycle counts the bar once: either it is refused, or the *)
(* run had no signal for the bar.                                          *)
LEMMA CommitStep ==
    ASSUME IInv, NEW w \in Worker, Commit(w)
    PROVE  IInv'
<1> DEFINE order == worker[w].order
           key == <<worker[w].run, worker[w].bar>>
<1>1. /\ WorkersOK /\ RequestsOK /\ RowsOK /\ BotOK /\ SignalsOK /\ RestOK
      /\ worker[w] \in SettledWorker /\ worker[w].pc = "write"
      /\ UNCHANGED <<bot, run, halts, latest, request>>
  BY DEF IInv, WorkersOK, Commit
<1>2. order \in Order /\ key \in Run \X Bar
  BY <1>1 DEF SettledWorker, WorkerState
<1>3. RequestsOK' /\ BotOK' /\ RestOK'
  BY <1>1 DEF RequestsOK, BotOK, RestOK, ActiveBotHasRun
<1>4. CASE signals[key] > 0 \/ BreaksUniqueness(order)
  <2>1. CountFailure(w) /\ WritesNothing /\ UNCHANGED <<signals, late>>
    BY <1>4 DEF Commit
  <2>2. WorkersOK'
    BY <1>1, <2>1, CountFailureType
  <2>3. RowsOK' /\ SignalsOK'
    BY <1>1, <2>1 DEF WritesNothing, RowsOK, SignalsOK, ActedOnce
  <2> QED BY <1>3, <2>2, <2>3 DEF IInv
<1>5. CASE ~(signals[key] > 0 \/ BreaksUniqueness(order))
  <2>1. /\ signals' = [signals EXCEPT ![key] = signals[key] + 1]
        /\ Writes(order)
        /\ late' = IF halts # {} /\ IsEntry(order) THEN late + 1 ELSE late
        /\ Remembers(w, IdleWorker)
    BY <1>5 DEF Commit
  <2>2. WorkersOK'
    BY <1>1, <2>1, IdleTypes, WorkerReplaced
  <2>3. RowsOK'
    BY <1>1, <1>2, <2>1, RowsWritten
  <2>4. signals[key] = 0
    BY <1>1, <1>2, <1>5 DEF SignalsOK
  <2>5. signals' \in [Run \X Bar -> Nat] /\ late' \in Nat
    BY <1>1, <1>2, <2>1, <2>4 DEF SignalsOK
  <2>6. ASSUME NEW s \in Run \X Bar PROVE signals'[s] <= 1
    BY <1>1, <1>2, <2>1, <2>4 DEF SignalsOK, ActedOnce
  <2>7. SignalsOK'
    BY <2>5, <2>6 DEF SignalsOK, ActedOnce
  <2> QED BY <1>3, <2>2, <2>3, <2>7 DEF IInv
<1> QED BY <1>4, <1>5

(* A failed bot is not active, so it needs no run.                         *)
LEMMA FailBotStep ==
    ASSUME IInv, NEW w \in Worker, FailBot(w)
    PROVE  IInv'
<1>1. /\ WorkersOK /\ RequestsOK /\ RowsOK /\ BotOK /\ SignalsOK /\ RestOK
      /\ bot' = [desired |-> "stopped", actual |-> "failed"]
      /\ run' = [r \in Run |-> IF r = worker[w].run THEN "failed" ELSE run[r]]
      /\ Remembers(w, IdleWorker)
      /\ UNCHANGED <<halts, open, opened, net, signals, latest, late, request>>
  BY DEF IInv, FailBot
<1>2. WorkersOK'
  BY <1>1, IdleTypes, WorkerReplaced
<1>3. BotOK'
  BY <1>1 DEF BotOK, ActiveBotHasRun, ActiveStates
<1>4. RequestsOK' /\ RowsOK' /\ SignalsOK' /\ RestOK'
  BY <1>1 DEF RequestsOK, RowsOK, SignalsOK, RestOK, ActedOnce
<1> QED BY <1>2, <1>3, <1>4 DEF IInv
-----------------------------------------------------------------------------
(* A request that begins with a run, or with none where none is needed.    *)
LEMMA BeginsStep ==
    ASSUME IInv, NEW q \in Request, NEW kind \in {"start", "pause", "resume", "stop"},
           NEW r \in Run \cup {None}, kind # "start" => r \in Run, Begins(q, kind, r)
    PROVE  IInv'
<1>1. RequestsOK
  BY DEF IInv
<1>2. [IdleRequest EXCEPT !.pc = "write", !.kind = kind, !.run = r] \in SettledRequest
  BY IdleTypes DEF SettledRequest, RequestState
<1>3. RequestsOK'
  BY <1>1, <1>2, RequestReplaced DEF Begins
<1> QED BY <1>3, RequestOnly DEF Begins

LEMMA CommandsBegin ==
    ASSUME IInv, NEW q \in Request,
           ReadStart(q) \/ ReadPause(q) \/ ReadResume(q) \/ ReadStop(q)
    PROVE  IInv'
BY BeginsStep DEF ReadStart, ReadPause, ReadResume, ReadStop, ActiveRuns

(* Whoever writes the bot last also writes a run: the bot and that run are *)
(* in one state, or the bot is not active (start_bot, pause_bot,           *)
(* resume_bot, stop_bot).                                                  *)
LEMMA BotWritten ==
    ASSUME BotOK, NEW r \in Run,
           Stops(r) \/ \E state \in ActiveStates : Moves(state, r)
    PROVE  BotOK'
<1>1. CASE Stops(r)
  BY <1>1 DEF Stops, BotOK, ActiveBotHasRun, ActiveStates
<1>2. CASE \E state \in ActiveStates : Moves(state, r)
  <2>1. PICK state \in ActiveStates : Moves(state, r)
    BY <1>2
  <2>2. run' \in [Run -> ActiveStates \cup {"none", "stopped", "failed"}] /\ run'[r] = state
    BY <2>1 DEF Moves, BotOK
  <2>3. bot' = [desired |-> state, actual |-> state]
    BY <2>1 DEF Moves
  <2> QED BY <2>2, <2>3 DEF BotOK, ActiveBotHasRun
<1> QED BY <1>1, <1>2

LEMMA CommitCommandStep ==
    ASSUME IInv, NEW q \in Request, CommitCommand(q)
    PROVE  IInv'
<1>1. /\ WorkersOK /\ RequestsOK /\ RowsOK /\ BotOK /\ SignalsOK /\ RestOK
      /\ request[q] \in SettledRequest /\ request[q].pc = "write"
      /\ Continues(q, IdleRequest)
      /\ UNCHANGED <<halts, open, opened, net, signals, latest, late, worker>>
  BY DEF IInv, RequestsOK, CommitCommand
<1>2. \E r \in Run : Stops(r) \/ \E state \in ActiveStates : Moves(state, r)
  <2>1. CASE StartBot(q)
    BY <2>1 DEF StartBot, ActiveStates
  <2>2. CASE PauseBot(q) \/ ResumeBot(q) \/ StopBot(q)
    <3>1. request[q].run \in Run
      BY <1>1, <2>2 DEF SettledRequest, PauseBot, ResumeBot, StopBot
    <3> QED BY <2>2, <3>1 DEF PauseBot, ResumeBot, StopBot, ActiveStates
  <2> QED BY <2>1, <2>2 DEF CommitCommand
<1>3. BotOK'
  BY <1>1, <1>2, BotWritten
<1>4. RequestsOK'
  BY <1>1, IdleTypes, RequestReplaced
<1>5. WorkersOK' /\ RowsOK' /\ SignalsOK' /\ RestOK'
  BY <1>1 DEF WorkersOK, RowsOK, SignalsOK, RestOK, ActedOnce
<1> QED BY <1>3, <1>4, <1>5 DEF IInv

LEMMA ReadEmergencyStep ==
    ASSUME IInv, NEW q \in Request, NEW scope \in EmergencyScope, NEW close \in BOOLEAN,
           ReadEmergency(q, scope, close)
    PROVE  IInv'
<1>1. RequestsOK
  BY DEF IInv
<1>2. ASSUME NEW r \in Run \cup {None}, NEW known \in BOOLEAN
      PROVE  [IdleRequest EXCEPT !.pc = "write", !.kind = "emergency", !.scope = scope,
                                 !.known = known, !.close = close, !.run = r] \in SettledRequest
  BY IdleTypes DEF SettledRequest, RequestState
<1>3. PICK r \in Run \cup {None} :
        Continues(q, [IdleRequest EXCEPT !.pc = "write", !.kind = "emergency", !.scope = scope,
                                         !.known = scope \in halts, !.close = close, !.run = r])
  BY DEF ReadEmergency, ActiveRuns
<1>4. (scope \in halts) \in BOOLEAN
  OBVIOUS
<1>5. RequestsOK'
  BY <1>1, <1>2, <1>3, <1>4, RequestReplaced
<1> QED BY <1>5, RequestOnly DEF ReadEmergency

LEMMA EmergencyStopStep ==
    ASSUME IInv, NEW q \in Request, EmergencyStop(q)
    PROVE  IInv'
<1> DEFINE r == request[q].run
           scope == request[q].scope
<1>1. /\ WorkersOK /\ RequestsOK /\ RowsOK /\ BotOK /\ SignalsOK /\ RestOK
      /\ request[q] \in SettledRequest /\ request[q] \in RequestState
      /\ request[q].pc = "write" /\ request[q].kind = "emergency"
      /\ UNCHANGED <<open, opened, net, signals, latest, late, worker>>
  BY DEF IInv, RequestsOK, EmergencyStop
<1>2. WorkersOK' /\ RowsOK' /\ SignalsOK'
  BY <1>1 DEF WorkersOK, RowsOK, SignalsOK, ActedOnce
<1>3. r \in Run \cup {None}
  BY <1>1 DEF RequestState
<1>4. [request[q] EXCEPT !.pc = "close"] \in SettledRequest
  BY <1>1 DEF SettledRequest, RequestState
<1>5. RequestsOK'
  BY <1>1, <1>4, IdleTypes, RequestReplaced DEF EmergencyStop, StopCommitted
<1>6. UNCHANGED <<bot, run>> \/ (r \in Run /\ Stops(r))
  BY <1>3 DEF EmergencyStop
<1>7. BotOK'
  <2>1. CASE UNCHANGED <<bot, run>>
    BY <1>1, <2>1 DEF BotOK, ActiveBotHasRun
  <2> QED BY <1>1, <1>6, <2>1, BotWritten
<1>8. halts' \subseteq Scope
  <2>1. CASE halts' = halts
    BY <1>1, <2>1 DEF RestOK
  <2>2. CASE halts' = halts \cup {scope}
    <3>1. scope \in EmergencyScope
      BY <1>1 DEF SettledRequest
    <3> QED BY <1>1, <2>2, <3>1, ConstantsAssumption DEF RestOK, Scope
  <2> QED BY <2>1, <2>2 DEF EmergencyStop
<1>9. RestOK'
  BY <1>1, <1>8 DEF RestOK
<1> QED BY <1>2, <1>5, <1>7, <1>9 DEF IInv
-----------------------------------------------------------------------------
(* The closes that follow an emergency stop.                               *)
LEMMA GoesOnType ==
    ASSUME RequestsOK, NEW q \in Request, NEW rest \in SUBSET OpenRow, GoesOn(q, rest)
    PROVE  RequestsOK'
<1>1. request[q] \in RequestState
  BY DEF RequestsOK
<1>2. [request[q] EXCEPT !.pc = "look", !.todo = rest, !.seen = 0, !.order = NoOrder]
        \in SettledRequest
  <2>1. NoOrder \in Order
    BY OrderTypes
  <2>2. ASSUME NEW n \in Int, NEW order \in Order
        PROVE  [request[q] EXCEPT !.pc = "look", !.todo = rest, !.seen = n, !.order = order]
                 \in SettledRequest
    BY <1>1 DEF SettledRequest, RequestState
  <2>3. 0 \in Int
    OBVIOUS
  <2> QED BY <2>1, <2>2, <2>3, Zenon
<1> QED BY <1>2, IdleTypes, RequestReplaced DEF GoesOn

LEMMA CloseReads ==
    ASSUME IInv, NEW q \in Request, NEW t \in request[q].todo \cup {NoRow},
           ListPositions(q) \/ PlaceClose(q, t) \/ CloseFails(q, t) \/ RequestDies(q)
    PROVE  IInv'
<1>1. /\ RequestsOK /\ RowsOK /\ request[q] \in SettledRequest /\ request[q] \in RequestState
      /\ open \subseteq OpenRow /\ request[q].todo \subseteq OpenRow
  BY DEF IInv, RequestsOK, RowsOK, RequestState
<1>2. UNCHANGED <<bot, run, halts, open, opened, net, signals, latest, late, worker>>
  BY DEF ListPositions, PlaceClose, CloseFails, RequestDies
<1>3. CASE ListPositions(q)
  <2>1. [request[q] EXCEPT !.pc = "look", !.todo = open] \in SettledRequest
    BY <1>1 DEF SettledRequest, RequestState
  <2>2. RequestsOK'
    BY <1>1, <1>3, <2>1, IdleTypes, RequestReplaced DEF ListPositions
  <2> QED BY <1>2, <2>2, RequestOnly
<1>4. CASE PlaceClose(q, t)
  <2>1. t \in OpenRow /\ -t.units \in Int /\ t.units \in Int
    <3>1. t \in request[q].todo
      BY <1>4 DEF PlaceClose
    <3> QED BY <1>1, <3>1 DEF OpenRow
  <2>2. \E existing \in AnyRow :
          Continues(q, [request[q] EXCEPT
             !.pc = "fill", !.seen = t.units, !.todo = request[q].todo \ {t},
             !.order = EntryOrder(existing, -t.units)])
    BY <1>1, <1>4, RowTypes DEF PlaceClose, AnyOf
  <2>3. PICK existing \in AnyRow :
          Continues(q, [request[q] EXCEPT
             !.pc = "fill", !.seen = t.units, !.todo = request[q].todo \ {t},
             !.order = EntryOrder(existing, -t.units)])
    BY <2>2
  <2>4. EntryOrder(existing, -t.units) \in Order
    BY <2>1, OrderTypes
  <2>5. request[q].todo \ {t} \in SUBSET OpenRow
    BY <1>1
  <2> HIDE DEF EntryOrder
  <2>6. [request[q] EXCEPT !.pc = "fill", !.seen = t.units, !.todo = request[q].todo \ {t},
                           !.order = EntryOrder(existing, -t.units)] \in SettledRequest
    BY <1>1, <2>1, <2>4, <2>5 DEF SettledRequest, RequestState
  <2>7. RequestsOK'
    BY <1>1, <2>3, <2>6, RequestReplaced
  <2> QED BY <1>2, <2>7, RequestOnly
<1>5. CASE CloseFails(q, t)
  <2>1. RequestsOK'
    BY <1>1, <1>5, GoesOnType DEF CloseFails
  <2> QED BY <1>2, <2>1, RequestOnly
<1>6. CASE RequestDies(q)
  <2>1. RequestsOK'
    BY <1>1, <1>6, IdleTypes, RequestReplaced DEF RequestDies
  <2> QED BY <1>2, <2>1, RequestOnly
<1> QED BY <1>3, <1>4, <1>5, <1>6

LEMMA CommitCloseStep ==
    ASSUME IInv, NEW q \in Request, CommitClose(q)
    PROVE  IInv'
<1>1. /\ WorkersOK /\ RequestsOK /\ RowsOK /\ BotOK /\ SignalsOK /\ RestOK
      /\ request[q] \in RequestState
      /\ Writes(request[q].order) /\ GoesOn(q, request[q].todo)
      /\ UNCHANGED <<bot, run, halts, signals, latest, late, worker>>
  BY DEF IInv, RequestsOK, CommitClose
<1>2. request[q].order \in Order /\ request[q].todo \in SUBSET OpenRow
  BY <1>1 DEF RequestState
<1>3. RowsOK'
  BY <1>1, <1>2, RowsWritten
<1>4. RequestsOK'
  BY <1>1, <1>2, GoesOnType
<1>5. WorkersOK' /\ BotOK' /\ SignalsOK' /\ RestOK'
  BY <1>1 DEF WorkersOK, BotOK, SignalsOK, RestOK, ActedOnce, ActiveBotHasRun
<1> QED BY <1>3, <1>4, <1>5 DEF IInv

LEMMA EnvironmentStep ==
    ASSUME IInv, Environment
    PROVE  IInv'
<1>1. /\ WorkersOK /\ RequestsOK /\ RowsOK /\ BotOK /\ SignalsOK /\ RestOK
      /\ UNCHANGED <<bot, run, open, opened, net, signals, worker, request>>
  BY DEF IInv, Environment, CloseBar, LedgerMismatch, Release
<1>2. WorkersOK' /\ RequestsOK' /\ RowsOK' /\ BotOK'
  BY <1>1 DEF WorkersOK, RequestsOK, RowsOK, BotOK, ActiveBotHasRun
<1>3. late' \in Nat
  BY <1>1 DEF Environment, CloseBar, LedgerMismatch, Release, SignalsOK
<1>4. SignalsOK'
  BY <1>1, <1>3 DEF SignalsOK, ActedOnce
<1>5. halts' \subseteq Scope
  BY <1>1 DEF Environment, CloseBar, LedgerMismatch, Release, RestOK, Scope
<1>6. latest' \in [bar : 0 .. MaxBars, says : {"hold", "buy", "sell"}, stop : BOOLEAN]
  <2>1. CASE latest' = latest
    BY <1>1, <2>1 DEF RestOK
  <2>2. CASE \E says \in {"hold", "buy", "sell"}, stop \in BOOLEAN : CloseBar(says, stop)
    <3>1. latest.bar \in 0 .. MaxBars
      BY <1>1 DEF RestOK
    <3> QED BY <2>2, <3>1, ConstantsAssumption DEF CloseBar
  <2> QED BY <2>1, <2>2 DEF Environment, LedgerMismatch, Release
<1> QED BY <1>2, <1>4, <1>5, <1>6 DEF IInv, RestOK
-----------------------------------------------------------------------------
LEMMA Initially == Init => IInv
<1> SUFFICES ASSUME Init PROVE IInv
  OBVIOUS
<1> USE DEF Init
<1>1. WorkersOK
  BY IdleTypes DEF WorkersOK, SettledWorker
<1>2. RequestsOK
  BY IdleTypes DEF RequestsOK, SettledRequest
<1>3. RowsOK
  BY DEF RowsOK
<1>4. BotOK
  BY DEF BotOK, ActiveBotHasRun, ActiveStates
<1>5. SignalsOK
  BY DEF SignalsOK, ActedOnce
<1>6. RestOK
  BY ConstantsAssumption DEF RestOK
<1> QED BY <1>1, <1>2, <1>3, <1>4, <1>5, <1>6 DEF IInv

LEMMA Inductive == IInv /\ [Next]_vars => IInv'
<1> SUFFICES ASSUME IInv, [Next]_vars PROVE IInv'
  OBVIOUS
<1>1. ASSUME NEW w \in Worker, WorkerStep(w) \/ DatabaseOutage(w) \/ Crash(w) PROVE IInv'
  BY <1>1, WorkerReads, CommitStep, FailBotStep DEF WorkerStep
<1>2. ASSUME NEW q \in Request, RequestStep(q) PROVE IInv'
  BY <1>2, CommandsBegin, CommitCommandStep, ReadEmergencyStep, EmergencyStopStep, CloseReads,
     CommitCloseStep DEF RequestStep
<1>3. CASE Environment
  BY <1>3, EnvironmentStep
<1>4. CASE UNCHANGED vars
  BY <1>4, WorkerOnly DEF vars, IInv, WorkersOK
<1> QED BY <1>1, <1>2, <1>3, <1>4 DEF Next, Undisturbed

LEMMA Invariant == Spec => []IInv
<1> QED BY Initially, Inductive, PTL DEF Spec

(* The state keeps its types whatever the requests, the workers and the    *)
(* failures between them do (the columns of trading_bot, bot_run,          *)
(* trading_position and signal, and what a pass remembers).                *)
THEOREM TypeCorrect == Spec => []TypeOK
<1>1. IInv => TypeOK
  BY DEF IInv, WorkersOK, RequestsOK, RowsOK, BotOK, SignalsOK, RestOK, TypeOK
<1> QED BY <1>1, Invariant, PTL

(* However many worker processes poll, one run acts on a bar at most once  *)
(* (evaluate_bot_on_latest_bar, uq_signal_idempotency).                    *)
THEOREM ActsOnce == Spec => []ActedOnce
<1>1. IInv => ActedOnce
  BY DEF IInv, SignalsOK
<1> QED BY <1>1, Invariant, PTL

(* However many requests and workers change the bot at the same time, an   *)
(* active bot has a run in its state (bot_lifecycle).                      *)
THEOREM ActiveHasRun == Spec => []ActiveBotHasRun
<1>1. IInv => ActiveBotHasRun
  BY DEF IInv, BotOK
<1> QED BY <1>1, Invariant, PTL
-----------------------------------------------------------------------------
(* An emergency stop needs more than its property says: that no request    *)
(* that would make the bot active has been admitted under it, that a stop  *)
(* which found no run to end found a bot that is not active, and that the  *)
(* two states of the bot go together.                                      *)
Activates(s) == s.pc = "write" /\ s.kind \in {"start", "pause", "resume"}
EndsNothing(s) == s.pc = "write" /\ s.kind = "emergency" /\ s.run = None

Coupled ==
    IF bot.desired = "stopped" THEN bot.actual \notin ActiveStates ELSE bot.actual = bot.desired

Halted == halts \cap {"bot", "workspace"} # {}

Admitted ==
    \A q \in Request :
        /\ Halted => ~Activates(request[q])
        /\ EndsNothing(request[q]) => bot.actual \notin ActiveStates

Serial == Coupled /\ Admitted /\ EmergencyMeansStopped

(* What one request does when it is the only one.                          *)
LEMMA AloneAdmitted ==
    ASSUME RequestsOK, NEW q \in Request, \A x \in Request : x = q, NEW s, Continues(q, s),
           Halted' => ~Activates(s), EndsNothing(s) => bot'.actual \notin ActiveStates
    PROVE  Admitted'
BY DEF Continues, RequestsOK, Admitted

LEMMA IdleAdmitted == ~Activates(IdleRequest) /\ ~EndsNothing(IdleRequest)
BY DEF Activates, EndsNothing, IdleRequest

(* The commands: none that makes the bot active begins under an emergency  *)
(* stop, since startup is validated and a pause needs a running bot.       *)
LEMMA CommandBeginsSerial ==
    ASSUME IInv, Serial, NEW q \in Request, \A x \in Request : x = q,
           ReadStart(q) \/ ReadPause(q) \/ ReadResume(q) \/ ReadStop(q)
    PROVE  Serial'
<1>1. RequestsOK
  BY DEF IInv
<1>2. UNCHANGED <<bot, run, halts>>
  BY DEF ReadStart, ReadPause, ReadResume, ReadStop, Begins
<1>3. ASSUME NEW kind \in {"start", "pause", "resume", "stop"}, NEW r, Begins(q, kind, r),
             Halted => kind = "stop"
      PROVE  Admitted'
  <2> DEFINE s == [IdleRequest EXCEPT !.pc = "write", !.kind = kind, !.run = r]
  <2>1. s.kind = kind
    BY DEF IdleRequest
  <2>2. Continues(q, s)
    BY <1>3 DEF Begins
  <2> HIDE DEF s
  <2>3. (Halted' => ~Activates(s)) /\ ~EndsNothing(s)
    BY <1>2, <1>3, <2>1 DEF Activates, EndsNothing, Halted
  <2> QED BY <1>1, <2>2, <2>3, AloneAdmitted
<1>4. Admitted'
  <2>1. CASE ReadStart(q)
    BY <1>3, <2>1 DEF ReadStart, MayRun, Halted
  <2>2. CASE ReadPause(q)
    <3>1. bot.desired = "running" /\ \E r \in Run : Begins(q, "pause", r)
      BY <2>2 DEF ReadPause
    <3>2. ~Halted
      BY <3>1 DEF Serial, Coupled, EmergencyMeansStopped, Halted, ActiveStates
    <3> QED BY <1>3, <3>1, <3>2
  <2>3. CASE ReadResume(q)
    BY <1>3, <2>3 DEF ReadResume, MayRun, Halted
  <2>4. CASE ReadStop(q)
    BY <1>3, <2>4 DEF ReadStop
  <2> QED BY <2>1, <2>2, <2>3, <2>4
<1> QED BY <1>2, <1>4 DEF Serial, Coupled, EmergencyMeansStopped

LEMMA CommandSerial ==
    ASSUME IInv, Serial, NEW q \in Request, \A x \in Request : x = q, CommitCommand(q)
    PROVE  Serial'
<1>1. RequestsOK /\ request[q].pc = "write" /\ halts' = halts /\ Continues(q, IdleRequest)
  BY DEF IInv, CommitCommand
<1>2. Admitted'
  BY <1>1, AloneAdmitted, IdleAdmitted
<1>3. (\E r : Stops(r)) \/ (Activates(request[q]) /\ \E state \in ActiveStates : \E r : Moves(state, r))
  BY <1>1 DEF CommitCommand, StartBot, PauseBot, ResumeBot, StopBot, Activates, ActiveStates
<1>4. CASE \E r : Stops(r)
  <2>1. bot' = [desired |-> "stopped", actual |-> "stopped"]
    BY <1>4 DEF Stops
  <2> QED BY <1>2, <2>1 DEF Serial, Coupled, EmergencyMeansStopped, ActiveStates
<1>5. CASE Activates(request[q]) /\ \E state \in ActiveStates : \E r : Moves(state, r)
  <2>1. PICK state \in ActiveStates : bot' = [desired |-> state, actual |-> state]
    BY <1>5 DEF Moves
  <2>2. ~Halted'
    BY <1>1, <1>5 DEF Serial, Admitted, Halted
  <2> QED BY <1>2, <2>1, <2>2 DEF Serial, Coupled, EmergencyMeansStopped, Halted, ActiveStates
<1> QED BY <1>3, <1>4, <1>5

(* The emergency stop itself: the run it found is the bot's, or the bot    *)
(* was not active and nothing made it so since.                            *)
LEMMA EmergencySerial ==
    ASSUME IInv, Serial, NEW q \in Request, \A x \in Request : x = q, EmergencyStop(q)
    PROVE  Serial'
<1>1. /\ RequestsOK /\ request[q] \in RequestState
      /\ request[q].pc = "write" /\ request[q].kind = "emergency"
  BY DEF IInv, RequestsOK, EmergencyStop
<1>2. ~Activates([request[q] EXCEPT !.pc = "close"]) /\ ~EndsNothing([request[q] EXCEPT !.pc = "close"])
  BY <1>1 DEF Activates, EndsNothing, RequestState
<1>3. Admitted'
  BY <1>1, <1>2, AloneAdmitted, IdleAdmitted DEF EmergencyStop, StopCommitted
<1>4. \/ UNCHANGED <<bot, halts>>
      \/ UNCHANGED bot /\ request[q].run = None
      \/ bot' = [desired |-> "stopped", actual |-> "stopped"]
  BY DEF EmergencyStop, Stops
<1>5. CASE UNCHANGED <<bot, halts>>
  BY <1>3, <1>5 DEF Serial, Coupled, EmergencyMeansStopped
<1>6. CASE UNCHANGED bot /\ request[q].run = None
  <2>1. bot.actual \notin ActiveStates
    BY <1>1, <1>6 DEF Serial, Admitted, EndsNothing
  <2> QED BY <1>3, <1>6, <2>1 DEF Serial, Coupled, EmergencyMeansStopped
<1>7. CASE bot' = [desired |-> "stopped", actual |-> "stopped"]
  BY <1>3, <1>7 DEF Serial, Coupled, EmergencyMeansStopped, ActiveStates
<1> QED BY <1>4, <1>5, <1>6, <1>7

LEMMA ReadEmergencySerial ==
    ASSUME IInv, Serial, NEW q \in Request, \A x \in Request : x = q,
           NEW scope \in EmergencyScope, NEW close \in BOOLEAN, ReadEmergency(q, scope, close)
    PROVE  Serial'
<1> DEFINE State(r) == [IdleRequest EXCEPT !.pc = "write", !.kind = "emergency", !.scope = scope,
                                           !.known = scope \in halts, !.close = close, !.run = r]
<1>1. RequestsOK /\ ActiveBotHasRun /\ bot' = bot /\ halts' = halts
  BY DEF IInv, BotOK, ReadEmergency
<1>2. PICK r \in IF bot.desired = "stopped" \/ ActiveRuns = {} THEN {None} ELSE ActiveRuns :
        Continues(q, State(r))
  BY DEF ReadEmergency
<1>3. State(r).kind = "emergency" /\ State(r).run = r
  BY DEF IdleRequest
<1>4. ~Activates(State(r))
  BY <1>3 DEF Activates
<1>5. r = None => bot.actual \notin ActiveStates
  <2>1. CASE bot.desired = "stopped"
    BY <2>1 DEF Serial, Coupled
  <2>2. CASE ActiveRuns = {}
    BY <1>1, <2>2 DEF ActiveBotHasRun, ActiveRuns
  <2>3. CASE r \in ActiveRuns
    BY <2>3, ConstantsAssumption DEF ActiveRuns, Run
  <2> QED BY <1>2, <2>1, <2>2, <2>3
<1> HIDE DEF State
<1>6. Admitted'
  BY <1>1, <1>2, <1>3, <1>4, <1>5, AloneAdmitted DEF EndsNothing
<1> QED BY <1>1, <1>6 DEF Serial, Coupled, EmergencyMeansStopped

(* The closes and a death: they write neither the bot nor a halt, and are  *)
(* no command.                                                             *)
LEMMA CloseSerial ==
    ASSUME IInv, Serial, NEW q \in Request, \A x \in Request : x = q,
           \/ ListPositions(q) \/ CommitClose(q) \/ RequestDies(q)
           \/ \E t : PlaceClose(q, t) \/ CloseFails(q, t)
    PROVE  Serial'
<1>1. RequestsOK /\ request[q] \in RequestState /\ UNCHANGED <<bot, halts>>
  BY DEF IInv, RequestsOK, ListPositions, CommitClose, RequestDies, PlaceClose, CloseFails
<1>2. ASSUME NEW s, s.pc # "write", Continues(q, s)
      PROVE  Admitted'
  BY <1>1, <1>2, AloneAdmitted DEF Activates, EndsNothing
<1>3. IdleRequest.pc # "write"
  BY DEF IdleRequest
<1>4. ASSUME NEW rest, GoesOn(q, rest)
      PROVE  Admitted'
  <2> DEFINE s == [request[q] EXCEPT !.pc = "look", !.todo = rest, !.seen = 0, !.order = NoOrder]
  <2>1. s.pc # "write"
    BY <1>1 DEF RequestState
  <2>2. Continues(q, IdleRequest) \/ Continues(q, s)
    BY <1>4 DEF GoesOn
  <2> HIDE DEF s
  <2> QED BY <1>2, <1>3, <2>1, <2>2
<1>5. CASE ListPositions(q)
  <2> DEFINE s == [request[q] EXCEPT !.pc = "look", !.todo = open]
  <2>1. s.pc # "write"
    BY <1>1 DEF RequestState
  <2>2. Continues(q, IdleRequest) \/ Continues(q, s)
    BY <1>5 DEF ListPositions
  <2> HIDE DEF s
  <2> QED BY <1>1, <1>2, <1>3, <2>1, <2>2 DEF Serial, Coupled, EmergencyMeansStopped
<1>6. CASE CommitClose(q) \/ RequestDies(q) \/ \E t : CloseFails(q, t)
  <2>1. Admitted'
    BY <1>2, <1>3, <1>4, <1>6 DEF CommitClose, RequestDies, CloseFails
  <2> QED BY <1>1, <2>1 DEF Serial, Coupled, EmergencyMeansStopped
<1>7. CASE \E t : PlaceClose(q, t)
  <2>1. PICK t : PlaceClose(q, t)
    BY <1>7
  <2>2. \E order : Continues(q, [request[q] EXCEPT !.pc = "fill", !.seen = t.units,
                                   !.todo = request[q].todo \ {t}, !.order = order])
    BY <2>1, Zenon DEF PlaceClose
  <2>3. PICK order : Continues(q, [request[q] EXCEPT !.pc = "fill", !.seen = t.units,
                                     !.todo = request[q].todo \ {t}, !.order = order])
    BY <2>2
  <2>4. [request[q] EXCEPT !.pc = "fill", !.seen = t.units,
                           !.todo = request[q].todo \ {t}, !.order = order].pc # "write"
    BY <1>1 DEF RequestState
  <2>5. Admitted'
    BY <1>2, <2>3, <2>4
  <2> QED BY <1>1, <2>5 DEF Serial, Coupled, EmergencyMeansStopped
<1> QED BY <1>5, <1>6, <1>7

(* A worker writes the bot only to fail it, and the ledger check halts     *)
(* nothing but the account.                                                *)
LEMMA OthersSerial ==
    ASSUME IInv, Serial,
           \/ \E w \in Worker : WorkerStep(w) \/ DatabaseOutage(w) \/ Crash(w)
           \/ Environment \/ UNCHANGED vars
    PROVE  Serial'
<1>1. request' = request
  BY DEF WorkerStep, ListBots, TakeRun, AlreadyProcessed, Evaluate, EvaluationRaises, Commit,
     ReadFailed, FailBot, DatabaseOutage, Crash, Environment, CloseBar, LedgerMismatch, Release, vars
<1>2. bot' = bot \/ bot' = [desired |-> "stopped", actual |-> "failed"]
  BY DEF WorkerStep, ListBots, TakeRun, AlreadyProcessed, Evaluate, EvaluationRaises, Commit,
     ReadFailed, FailBot, DatabaseOutage, Crash, Environment, CloseBar, LedgerMismatch, Release, vars
<1>3. halts' \subseteq halts \cup {"account"}
  BY DEF WorkerStep, ListBots, TakeRun, AlreadyProcessed, Evaluate, EvaluationRaises, Commit,
     ReadFailed, FailBot, DatabaseOutage, Crash, Environment, CloseBar, LedgerMismatch, Release, vars
<1>4. Halted' => Halted
  BY <1>3 DEF Halted
<1> QED BY <1>1, <1>2, <1>4 DEF Serial, Coupled, Admitted, EmergencyMeansStopped, Halted, ActiveStates,
     Activates, EndsNothing

LEMMA SerialInductive ==
    ASSUME \A p, q \in Request : p = q, IInv, Serial, [Next]_vars
    PROVE  Serial'
<1>1. ASSUME NEW q \in Request, RequestStep(q) PROVE Serial'
  <2>1. \A x \in Request : x = q
    OBVIOUS
  <2> QED BY <1>1, <2>1, CommandBeginsSerial, CommandSerial, EmergencySerial, ReadEmergencySerial,
          CloseSerial DEF RequestStep
<1> QED BY <1>1, OthersSerial DEF Next, Undisturbed

(* When requests come one at a time, nothing that runs beside them makes a *)
(* bot active under an emergency stop, wherever its evaluation was when    *)
(* the stop came (emergency_stop, validate_bot_startup, fail_bot).         *)
THEOREM StopHolds ==
    ASSUME \A p, q \in Request : p = q
    PROVE  Spec => []EmergencyMeansStopped
<1>1. Init => Serial
  <2> SUFFICES ASSUME Init PROVE Serial
    OBVIOUS
  <2>1. Admitted
    BY IdleAdmitted DEF Init, Admitted, Halted
  <2> QED BY <2>1 DEF Init, Serial, Coupled, EmergencyMeansStopped, ActiveStates
<1>2. IInv /\ Serial /\ [Next]_vars => Serial'
  BY SerialInductive
<1>3. Serial => EmergencyMeansStopped
  BY DEF Serial
<1> QED BY <1>1, <1>2, <1>3, Invariant, PTL DEF Spec
-----------------------------------------------------------------------------
(* Late entries. While a halt is up no evaluation decides on an entry, so  *)
(* each worker has at most the one it decided on before: entries that were *)
(* committed and entries that are still to be are no more than the         *)
(* workers.                                                                *)
Deciders == {w \in Worker : worker[w].pc = "write" /\ IsEntry(worker[w].order)}

LateOK ==
    /\ halts = {} => late = 0
    /\ late + Cardinality(Deciders) <= Cardinality(Worker)

LEMMA DecidersAreWorkers ==
    ASSUME LateOK
    PROVE  /\ IsFiniteSet(Deciders) /\ Cardinality(Deciders) \in Nat
           /\ Cardinality(Worker) \in Nat
           /\ \A D \in SUBSET Worker :
                IsFiniteSet(D) /\ Cardinality(D) \in Nat /\ Cardinality(D) <= Cardinality(Worker)
<1>1. IsFiniteSet(Worker) /\ Cardinality(Worker) \in Nat
  BY ConstantsAssumption, FS_CardinalityType
<1>2. ASSUME NEW D \in SUBSET Worker
      PROVE  IsFiniteSet(D) /\ Cardinality(D) \in Nat /\ Cardinality(D) <= Cardinality(Worker)
  BY <1>1, FS_Subset, FS_CardinalityType
<1>3. Deciders \in SUBSET Worker
  BY DEF Deciders
<1> QED BY <1>1, <1>2, <1>3

(* Fewer decisions in hand, and as many entries.                           *)
LEMMA LateKept ==
    ASSUME IInv, LateOK, Deciders' \subseteq Deciders, late' = late, halts' = {} => late' = 0
    PROVE  LateOK'
<1>1. Cardinality(Deciders') <= Cardinality(Deciders) /\ Cardinality(Deciders') \in Nat
  BY DecidersAreWorkers, FS_Subset, FS_CardinalityType
<1>2. late \in Nat
  BY DEF IInv, SignalsOK
<1> QED BY <1>1, <1>2, DecidersAreWorkers DEF LateOK

(* A worker that does not decide leaves the decisions of the others.       *)
LEMMA DeciderLeaves ==
    ASSUME IInv, NEW w \in Worker, NEW s, Remembers(w, s), s.pc # "write" \/ ~IsEntry(s.order)
    PROVE  Deciders' = Deciders \ {w}
<1>1. worker'[w] = s /\ \A v \in Worker \ {w} : worker'[v] = worker[v]
  BY DEF IInv, WorkersOK, Remembers
<1> QED BY <1>1 DEF Deciders

(* Under a halt an evaluation decides on no entry (entry_blocked_by_halt); *)
(* closing a position is none.                                             *)
LEMMA NoEntryUnderHalt ==
    ASSUME IInv, halts # {}, NEW w \in Worker, NEW stop \in StopOrders,
           NEW existing \in AnyOf({p \in open : p.row # stop.stopped}),
           NEW order \in SignalOrders(w, existing)
    PROVE  ~IsEntry(Together(stop, order))
<1>1. existing \in AnyRow
  BY RowTypes DEF AnyOf, IInv, RowsOK
<1>2. Blocked(Scope)
  BY DEF Blocked, IInv, RestOK
<1>3. order \in {Changes(existing, -existing.units), NoOrder}
  BY <1>2 DEF SignalOrders, Refused
<1>4. order.opens = 0 /\ order.left = 0 /\ order.held \in Int
  <2>1. /\ existing.units \in Int /\ -existing.units \in Int
        /\ existing.units + (-existing.units) = 0
    BY <1>1 DEF AnyRow
  <2>2. \A u \in Int : LET changed == Changes(existing, u) IN
          changed.held = existing.units /\ changed.left = existing.units + u /\ changed.opens = 0
    BY DEF Changes, NoOrder
  <2>3. CASE order = NoOrder
    BY <2>3 DEF NoOrder
  <2>4. CASE order = Changes(existing, -existing.units)
    BY <2>1, <2>2, <2>4
  <2> QED BY <1>3, <2>3, <2>4
<1>5. /\ Together(stop, order).opens = order.opens
      /\ Together(stop, order).left = order.left /\ Together(stop, order).held = order.held
  <2>1. order \in Order
    <3>1. -existing.units \in Int
      BY <1>1 DEF AnyRow
    <3> QED BY <1>1, <1>3, <3>1, OrderTypes
  <2> QED BY <2>1 DEF Together, Order
<1> QED BY <1>4, <1>5 DEF IsEntry, Magnitude

LEMMA LateEvaluate ==
    ASSUME IInv, LateOK, NEW w \in Worker, Evaluate(w)
    PROVE  LateOK'
<1>1. late' = late /\ halts' = halts /\ late \in Nat
  BY DEF Evaluate, IInv, SignalsOK
<1>2. CASE halts = {}
  <2>1. Deciders' \subseteq Worker
    BY DEF Deciders
  <2> QED BY <1>1, <1>2, <2>1, DecidersAreWorkers DEF LateOK
<1>3. CASE halts # {}
  <2>1. PICK stop \in StopOrders :
          \E existing \in AnyOf({p \in open : p.row # stop.stopped}) :
            \E order \in SignalOrders(w, existing) :
              Remembers(w, [worker[w] EXCEPT !.pc = "write", !.bar = latest.bar,
                                             !.order = Together(stop, order)])
    BY DEF Evaluate
  <2>2. PICK existing \in AnyOf({p \in open : p.row # stop.stopped}) :
          \E order \in SignalOrders(w, existing) :
            Remembers(w, [worker[w] EXCEPT !.pc = "write", !.bar = latest.bar,
                                           !.order = Together(stop, order)])
    BY <2>1
  <2>3. PICK order \in SignalOrders(w, existing) :
          Remembers(w, [worker[w] EXCEPT !.pc = "write", !.bar = latest.bar,
                                         !.order = Together(stop, order)])
    BY <2>2
  <2> DEFINE s == [worker[w] EXCEPT !.pc = "write", !.bar = latest.bar,
                                    !.order = Together(stop, order)]
  <2>4. s.order = Together(stop, order)
    BY DEF IInv, WorkersOK, WorkerState
  <2>5. ~IsEntry(s.order)
    BY <1>3, <2>4, NoEntryUnderHalt
  <2>6. Remembers(w, s)
    BY <2>3
  <2> HIDE DEF s
  <2>7. Deciders' = Deciders \ {w}
    BY <2>5, <2>6, DeciderLeaves
  <2> QED BY <1>1, <1>3, <2>7, LateKept
<1> QED BY <1>2, <1>3

(* A commit under a halt turns a decision into an entry.                   *)
LEMMA LateCommit ==
    ASSUME IInv, LateOK, NEW w \in Worker, Commit(w)
    PROVE  LateOK'
<1> DEFINE order == worker[w].order
<1>1. worker[w].pc = "write" /\ halts' = halts /\ late \in Nat
  BY DEF Commit, IInv, SignalsOK
<1>2. CASE CountFailure(w) /\ late' = late
  <2>1. Deciders' = Deciders \ {w}
    <3>1. \A n, pc : [IdleWorker EXCEPT !.failures = n, !.pc = pc].pc = pc
      BY DEF IdleWorker
    <3> QED BY <1>2, <3>1, DeciderLeaves DEF CountFailure
  <2> QED BY <1>1, <1>2, <2>1, LateKept DEF LateOK
<1>3. CASE /\ Remembers(w, IdleWorker)
           /\ late' = IF halts # {} /\ IsEntry(order) THEN late + 1 ELSE late
  <2>1. Deciders' = Deciders \ {w}
    BY <1>3, DeciderLeaves DEF IdleWorker
  <2>2. CASE halts # {} /\ IsEntry(order)
    <3>1. w \in Deciders
      BY <1>1, <2>2 DEF Deciders
    <3>2. Cardinality(Deciders') = Cardinality(Deciders) - 1
      BY <2>1, <3>1, DecidersAreWorkers, FS_RemoveElement
    <3> QED BY <1>1, <1>3, <2>2, <3>2, DecidersAreWorkers DEF LateOK
  <2>3. CASE ~(halts # {} /\ IsEntry(order))
    BY <1>1, <1>3, <2>1, <2>3, LateKept DEF LateOK
  <2> QED BY <2>2, <2>3
<1> QED BY <1>2, <1>3 DEF Commit

LEMMA LateOthers ==
    ASSUME IInv, LateOK, NEW w \in Worker,
           \/ ListBots(w) \/ TakeRun(w) \/ AlreadyProcessed(w) \/ EvaluationRaises(w)
           \/ ReadFailed(w) \/ FailBot(w) \/ DatabaseOutage(w) \/ Crash(w)
    PROVE  LateOK'
<1>1. halts' = halts /\ late' = late
  BY DEF ListBots, TakeRun, AlreadyProcessed, EvaluationRaises, ReadFailed, FailBot,
         DatabaseOutage, Crash
<1>2. \E s : Remembers(w, s) /\ s.pc # "write"
  <2>1. worker[w] \in WorkerState
    BY DEF IInv, WorkersOK
  <2>2. /\ \A n, p : [IdleWorker EXCEPT !.failures = n, !.pc = p].pc = p
        /\ \A n : [IdleWorker EXCEPT !.failures = n].pc = "idle"
        /\ IdleWorker.pc = "idle"
    BY DEF IdleWorker
  <2>3. \A r : /\ [worker[w] EXCEPT !.pc = "taken", !.run = r].pc = "taken"
               /\ [worker[w] EXCEPT !.pc = "failing", !.run = r].pc = "failing"
               /\ [worker[w] EXCEPT !.pc = "listed", !.actual = r].pc = "listed"
    BY <2>1 DEF WorkerState
  <2>4. CASE EvaluationRaises(w)
    <3> DEFINE failures == IF worker[w].failures < Threshold THEN worker[w].failures + 1
                           ELSE Threshold
               pc == IF failures = Threshold THEN "failed" ELSE "idle"
    <3>1. Remembers(w, [IdleWorker EXCEPT !.failures = failures, !.pc = pc])
      BY <2>4 DEF EvaluationRaises, CountFailure
    <3>2. pc # "write"
      OBVIOUS
    <3> HIDE DEF failures, pc
    <3>3. [IdleWorker EXCEPT !.failures = failures, !.pc = pc].pc = pc
      BY <2>2
    <3> QED BY <3>1, <3>2, <3>3
  <2>5. CASE ListBots(w)
    BY <2>3, <2>5 DEF ListBots
  <2>6. CASE TakeRun(w)
    BY <2>2, <2>3, <2>6 DEF TakeRun
  <2>7. CASE AlreadyProcessed(w) \/ FailBot(w) \/ DatabaseOutage(w) \/ Crash(w)
    BY <2>2, <2>7 DEF AlreadyProcessed, FailBot, DatabaseOutage, Crash
  <2>8. CASE ReadFailed(w)
    BY <2>2, <2>3, <2>8 DEF ReadFailed
  <2> QED BY <2>4, <2>5, <2>6, <2>7, <2>8
<1>3. Deciders' = Deciders \ {w}
  BY <1>2, DeciderLeaves
<1> QED BY <1>1, <1>3, LateKept DEF LateOK

(* Requests and the environment decide nothing for a worker: a halt that   *)
(* comes up finds no late entries, and the last that is lifted ends them.  *)
LEMMA LateAround ==
    ASSUME IInv, LateOK, worker' = worker,
           \/ late' = late /\ (halts' = {} => halts = {})
           \/ \E scope \in Scope : Release(scope)
    PROVE  LateOK'
<1>1. Deciders' = Deciders
  BY DEF Deciders
<1>2. CASE late' = late /\ (halts' = {} => halts = {})
  BY <1>1, <1>2, LateKept DEF LateOK
<1>3. CASE \E scope \in Scope : Release(scope)
  <2>1. late' = IF halts' = {} THEN 0 ELSE late
    BY <1>3 DEF Release
  <2>2. late \in Nat
    BY DEF IInv, SignalsOK
  <2> QED BY <1>1, <2>1, <2>2, DecidersAreWorkers DEF LateOK
<1> QED BY <1>2, <1>3

LEMMA LateRequests ==
    ASSUME IInv, NEW q \in Request, RequestStep(q)
    PROVE  worker' = worker /\ late' = late /\ (halts' = {} => halts = {})
BY DEF RequestStep, ReadStart, ReadPause, ReadResume, ReadStop, Begins, CommitCommand, ReadEmergency,
       EmergencyStop, ListPositions, PlaceClose, CommitClose, CloseFails, RequestDies

LEMMA LateInductive == IInv /\ LateOK /\ [Next]_vars => LateOK'
<1> SUFFICES ASSUME IInv, LateOK, [Next]_vars PROVE LateOK'
  OBVIOUS
<1>1. CASE \E w \in Worker : WorkerStep(w)
  BY <1>1, LateEvaluate, LateCommit, LateOthers DEF WorkerStep
<1>2. CASE \E q \in Request : RequestStep(q)
  BY <1>2, LateRequests, LateAround
<1>3. CASE Environment
  BY <1>3, LateAround DEF Environment, CloseBar, LedgerMismatch, Release
<1>4. CASE \E w \in Worker : DatabaseOutage(w) \/ Crash(w)
  BY <1>4, LateOthers
<1>5. CASE UNCHANGED vars
  BY <1>5, LateAround DEF vars
<1> QED BY <1>1, <1>2, <1>3, <1>4, <1>5 DEF Next, Undisturbed

(* However many workers there are, the entries that are committed while a  *)
(* halt is up are no more than the workers: each had decided on at most    *)
(* one when it came up (entry_blocked_by_halt reads before the commit).    *)
THEOREM LateBounded == Spec => []FewLateEntries
<1>1. Init => LateOK
  <2> SUFFICES ASSUME Init PROVE LateOK
    OBVIOUS
  <2>1. Deciders = {} /\ late = 0
    BY DEF Init, Deciders, IdleWorker
  <2>2. Cardinality(Deciders) = 0 /\ Cardinality(Worker) \in Nat
    BY <2>1, FS_EmptySet, ConstantsAssumption, FS_CardinalityType
  <2> QED BY <2>1, <2>2 DEF LateOK
<1>2. IInv /\ LateOK => FewLateEntries
  <2> SUFFICES ASSUME IInv, LateOK PROVE FewLateEntries
    OBVIOUS
  <2>1. late \in Nat
    BY DEF IInv, SignalsOK
  <2> QED BY <2>1, DecidersAreWorkers DEF LateOK, FewLateEntries
<1> QED BY <1>1, <1>2, Invariant, LateInductive, PTL DEF Spec
=============================================================================
