----------------------- MODULE MarketDataLeaseProofs -----------------------
(***************************************************************************)
(* Proofs about MarketDataLease, for every number of workers, targets,     *)
(* jobs, subscriptions, tokens, ticks and bars. First the types of its     *)
(* state and the fencing of its writes: OpenWriteIsOwner is strengthened   *)
(* by what the state of a worker says about what it remembers, and by the  *)
(* link between the two columns of a polling checkpoint, without which the *)
(* types are not preserved. Then what a step may do to a row, from which   *)
(* the action properties follow; the invariant that links a claim, the     *)
(* page of its worker and the cursor of its row; and the refinement of     *)
(* FencedFeed.                                                             *)
(***************************************************************************)
EXTENDS MarketDataLease, TLAPS

(* A worker that is on a page has a target and, once the page is prepared, *)
(* a checkpoint to compare; only a backfill is completed, and a worker     *)
(* that failed knows how.                                                  *)
SettledWorker ==
    {s \in WorkerState :
        /\ s.pc \notin {"discover", "select"} => s.work \in Work
        /\ s.pc \in {"save", "fetch"} /\ s.work \in Polling => s.cursor # None
        /\ s.pc = "complete" => s.work \in Backfill
        /\ s.pc = "fail" => s.failure \in AnyFailure}

(* The two kinds of row keep to their statuses, and the two columns of a   *)
(* polling checkpoint are set and cleared together.                        *)
RowOf(t) ==
    {row \in TargetRow :
        /\ t \in Backfill => row.status \in BackfillStatus
        /\ t \in Polling => /\ row.status \in PollingStatus
                            /\ (row.cursor = None) = (row.scanTo = None)}

WorkersOK == worker \in [Worker -> WorkerState] /\ \A w \in Worker : worker[w] \in SettledWorker

RowsOK == target \in [Work -> TargetRow] /\ \A t \in Work : target[t] \in RowOf(t)

LeaseOK ==
    /\ lease \in LeaseRow
    /\ lease.token # None => lease.owner \in Worker /\ lease.work \in Work

(* What is left of the types.                                              *)
RestOK ==
    /\ txn \in Worker \cup {None}
    /\ candles \subseteq Int
    /\ handled \in [Backfill -> SUBSET Int]
    /\ bars \in FirstBars .. MaxBars
    /\ access \in AccessStates
    /\ told \subseteq {f.code : f \in AnyFailure}

(* An open write is in one of the four states that write.                  *)
WriterOK == txn # None => worker[txn].pc \in {"prepare", "save", "complete", "fail"}

IInv == WorkersOK /\ RowsOK /\ LeaseOK /\ RestOK /\ WriterOK /\ OpenWriteIsOwner
-----------------------------------------------------------------------------
(* The failures that may be recorded have the fields they are read for.    *)
LEMMA FailureTypes ==
    ASSUME NEW f \in AnyFailure
    PROVE  f.retryable \in BOOLEAN /\ f.retryAfter \in Nat
<1>1. CASE f \in Failure
  BY <1>1, ConstantsAssumption
<1>2. CASE f = Interrupted
  BY <1>2 DEF Interrupted
<1>3. CASE f = AccessChanged
  BY <1>3 DEF AccessChanged
<1>4. CASE f = AccessUnavailable
  BY <1>4 DEF AccessUnavailable
<1> QED BY <1>1, <1>2, <1>3, <1>4 DEF AnyFailure

(* A failure leaves a row a row, of the same kind and with the same cursor *)
(* (_recover, PageStore.fail).                                             *)
LEMMA AfterFailureType ==
    ASSUME NEW row \in TargetRow, NEW f \in AnyFailure
    PROVE  /\ AfterFailure(row, f) \in TargetRow
           /\ AfterFailure(row, f).cursor = row.cursor
           /\ AfterFailure(row, f).scanTo = row.scanTo
           /\ row.status \in PollingStatus => AfterFailure(row, f).status = row.status
           /\ row.status \notin PollingStatus => AfterFailure(row, f).status \in BackfillStatus
<1> DEFINE delay == Later(IF row.failures = 0 THEN RetryTicks ELSE LongRetryTicks, f.retryAfter)
           stopped == IF Retries(row, f) THEN None ELSE f.code
           status == IF row.status \in PollingStatus THEN row.status
                     ELSE IF Retries(row, f) THEN "queued" ELSE "failed"
<1>1. delay \in Nat
  BY FailureTypes, ConstantsAssumption DEF Later
<1>2. stopped \in {g.code : g \in AnyFailure} \cup {None}
  OBVIOUS
<1>3. /\ status \in BackfillStatus \cup PollingStatus
      /\ row.status \in PollingStatus => status = row.status
      /\ row.status \notin PollingStatus => status \in BackfillStatus
  BY DEF BackfillStatus, PollingStatus
<1>4. AfterFailure(row, f) = [row EXCEPT !.failures = row.failures + 1, !.delay = delay,
                                         !.status = status, !.stopped = stopped]
  BY DEF AfterFailure
<1> HIDE DEF delay, stopped, status
<1>5. AfterFailure(row, f) = [status |-> status, stopped |-> stopped, cursor |-> row.cursor,
                              scanTo |-> row.scanTo, delay |-> delay,
                              failures |-> row.failures + 1]
  BY <1>4 DEF TargetRow
<1>6. row.failures + 1 \in Nat /\ row.cursor \in Int \cup {None} /\ row.scanTo \in Int \cup {None}
  BY DEF TargetRow
<1>7. AfterFailure(row, f) \in TargetRow
  BY <1>1, <1>2, <1>3, <1>5, <1>6 DEF TargetRow
<1> QED BY <1>3, <1>5, <1>7

(* A target that failed once more is a row of its kind.                    *)
LEMMA FailedRow ==
    ASSUME NEW t \in Work, NEW row \in RowOf(t), NEW f \in AnyFailure
    PROVE  AfterFailure(row, f) \in RowOf(t)
<1>1. row \in TargetRow
  BY DEF RowOf
<1>2. /\ AfterFailure(row, f) \in TargetRow
      /\ AfterFailure(row, f).cursor = row.cursor
      /\ AfterFailure(row, f).scanTo = row.scanTo
      /\ row.status \in PollingStatus => AfterFailure(row, f).status = row.status
      /\ row.status \notin PollingStatus => AfterFailure(row, f).status \in BackfillStatus
  BY <1>1, AfterFailureType
<1>3. t \in Backfill => row.status \in BackfillStatus /\ row.status \notin PollingStatus
  BY DEF RowOf, BackfillStatus, PollingStatus
<1>4. t \in Polling => row.status \in PollingStatus /\ (row.cursor = None) = (row.scanTo = None)
  BY DEF RowOf
<1> HIDE DEF AfterFailure
<1> QED BY <1>2, <1>3, <1>4 DEF RowOf

(* A row that replaces a row of its kind leaves the table in order.        *)
LEMMA RowReplaced ==
    ASSUME RowsOK, NEW t \in Work, NEW row \in RowOf(t), target' = [target EXCEPT ![t] = row]
    PROVE  RowsOK'
<1>1. row \in TargetRow
  BY DEF RowOf
<1>2. target' \in [Work -> TargetRow]
  BY <1>1 DEF RowsOK
<1>3. ASSUME NEW u \in Work PROVE target'[u] \in RowOf(u)
  BY DEF RowsOK
<1> QED BY <1>2, <1>3 DEF RowsOK

(* The same for what a worker remembers.                                   *)
LEMMA WorkerReplaced ==
    ASSUME WorkersOK, NEW w \in Worker, NEW s \in SettledWorker, worker' = [worker EXCEPT ![w] = s]
    PROVE  WorkersOK'
<1>1. s \in WorkerState
  BY DEF SettledWorker
<1>2. worker' \in [Worker -> WorkerState]
  BY <1>1 DEF WorkersOK
<1>3. ASSUME NEW v \in Worker PROVE worker'[v] \in SettledWorker
  BY DEF WorkersOK
<1> QED BY <1>2, <1>3 DEF WorkersOK

(* A worker that starts, or is done with a claim, remembers nothing else.  *)
LEMMA IdleSettled ==
    ASSUME NEW queue \in SUBSET Work, NEW pc \in {"discover", "select"}
    PROVE  [Idle EXCEPT !.pc = pc, !.queue = queue] \in SettledWorker /\ Idle \in SettledWorker
<1>1. NoPage \in Page
  BY DEF NoPage, Page
<1>2. Idle \in WorkerState
  BY <1>1 DEF Idle, WorkerState
<1>3. [Idle EXCEPT !.pc = pc, !.queue = queue] \in WorkerState
  BY <1>2 DEF WorkerState
<1>4. Idle.pc = "discover" /\ [Idle EXCEPT !.pc = pc, !.queue = queue].pc = pc
  BY DEF Idle
<1> QED BY <1>2, <1>3, <1>4 DEF SettledWorker

(* The end of a claim leaves the workers in order (Done).                  *)
LEMMA DoneWorkers ==
    ASSUME WorkersOK, NEW w \in Worker, worker' = [worker EXCEPT ![w] = Done(w)]
    PROVE  WorkersOK'
<1>1. worker[w].queue \in SUBSET Work
  BY DEF WorkersOK, WorkerState
<1>2. Done(w) \in SettledWorker
  BY <1>1, IdleSettled DEF Done
<1> QED BY <1>2, WorkerReplaced

(* What recovery of an expired lease leaves is in order (_recover).        *)
LEMMA RecoveredRows ==
    ASSUME RowsOK, LeaseOK, RestOK
    PROVE  /\ RecoveredTarget \in [Work -> TargetRow]
           /\ \A t \in Work : RecoveredTarget[t] \in RowOf(t)
           /\ RecoveredTold \subseteq {f.code : f \in AnyFailure}
<1>1. Interrupted \in AnyFailure
  BY DEF AnyFailure
<1>2. CASE Expired /\ Active(target[lease.work])
  <2>1. lease.work \in Work
    BY <1>2 DEF Expired, LeaseOK
  <2>2. AfterFailure(target[lease.work], Interrupted) \in RowOf(lease.work)
    BY <1>1, <2>1, FailedRow DEF RowsOK
  <2>3. AfterFailure(target[lease.work], Interrupted) \in TargetRow
    BY <2>2 DEF RowOf
  <2>4. RecoveredTarget = [target EXCEPT ![lease.work] = AfterFailure(@, Interrupted)]
    BY <1>2 DEF RecoveredTarget
  <2>5. RecoveredTarget \in [Work -> TargetRow]
    BY <2>3, <2>4 DEF RowsOK
  <2>6. \A t \in Work : RecoveredTarget[t] \in RowOf(t)
    BY <2>2, <2>4 DEF RowsOK
  <2>7. RecoveredTold \subseteq {f.code : f \in AnyFailure}
    BY <1>1, <1>2 DEF RecoveredTold, ToldAfter, RestOK
  <2> QED BY <2>5, <2>6, <2>7
<1>3. CASE ~(Expired /\ Active(target[lease.work]))
  BY <1>3 DEF RecoveredTarget, RecoveredTold, RowsOK, RestOK
<1> QED BY <1>2, <1>3

(* The pages a worker may prepare (prepare).                               *)
LEMMA WindowType ==
    ASSUME RestOK, NEW start \in Int, NEW scanEnd \in Int, NEW first \in Int,
           NEW overlap \in BOOLEAN
    PROVE  Window(start, scanEnd, first, overlap) \in Page
<1> DEFINE from == IF overlap THEN Later(start - 1, first) ELSE start
<1>1. from \in Int
  BY DEF Later
<1>2. Earlier(scanEnd, from + PageSize) \in Int
  BY <1>1, ConstantsAssumption DEF Earlier
<1>3. access.version \in Nat
  BY ConstantsAssumption DEF RestOK
<1>4. Window(start, scanEnd, first, overlap) =
        [start |-> from, end |-> Earlier(scanEnd, from + PageSize),
         scanEnd |-> scanEnd, access |-> access.version]
  BY DEF Window
<1> HIDE DEF from
<1> QED BY <1>1, <1>2, <1>3, <1>4 DEF Page

(* The window of a backfill is a page (prepare).                           *)
LEMMA BackfillWindowType ==
    ASSUME RestOK, NEW row \in TargetRow
    PROVE  BackfillWindow(row) \in Page
<1> DEFINE start == IF row.cursor = None THEN 0 ELSE row.cursor
           overlap == 0 < start /\ start < BackfillEnd
<1>1. start \in Int /\ BackfillEnd \in Int /\ 0 \in Int
  BY ConstantsAssumption DEF TargetRow
<1>2. overlap \in BOOLEAN
  OBVIOUS
<1>3. BackfillWindow(row) = Window(start, BackfillEnd, 0, overlap)
  BY Zenon DEF BackfillWindow
<1> HIDE DEF start, overlap
<1>4. Window(start, BackfillEnd, 0, overlap) \in Page
  BY <1>1, <1>2, WindowType, Zenon
<1> QED BY <1>3, <1>4

(* The close of the latest stored candle is a time, if there is one.       *)
LEMMA LatestCloseType ==
    ASSUME RestOK
    PROVE  LatestClose \subseteq Int \cup {None}
BY DEF LatestClose, RestOK

(* A polling scan has both its bounds while it lasts (prepare).            *)
LEMMA ScanType ==
    ASSUME RestOK, NEW t \in Polling, NEW row \in RowOf(t), NEW latest \in Int \cup {None}
    PROVE  /\ Scan(row, latest) \in RowOf(t)
           /\ Scan(row, latest).cursor \in Int /\ Scan(row, latest).scanTo \in Int
<1>1. row \in TargetRow /\ row.status \in PollingStatus /\ (row.cursor = None) = (row.scanTo = None)
  BY DEF RowOf
<1>2. bars \in Int /\ None \notin Int /\ t \notin Backfill
  BY ConstantsAssumption DEF RestOK
<1>3. CASE row.cursor # None
  BY <1>1, <1>3 DEF Scan, TargetRow
<1>4. CASE row.cursor = None
  <2> DEFINE cursor == IF latest = None THEN bars - 2 ELSE Earlier(latest, bars)
  <2>1. cursor \in Int
    BY <1>2 DEF Earlier
  <2>2. Scan(row, latest) = [row EXCEPT !.scanTo = bars, !.cursor = cursor]
    BY <1>4 DEF Scan
  <2> HIDE DEF cursor
  <2>3. /\ Scan(row, latest) \in TargetRow
        /\ Scan(row, latest).cursor = cursor /\ Scan(row, latest).scanTo = bars
        /\ Scan(row, latest).status = row.status
    BY <1>1, <1>2, <2>1, <2>2 DEF TargetRow
  <2> QED BY <1>1, <1>2, <2>1, <2>3 DEF RowOf
<1> QED BY <1>3, <1>4

(* The window of a polling scan is a page (prepare).                       *)
LEMMA PollingWindowType ==
    ASSUME RestOK, NEW t \in Polling, NEW row \in RowOf(t), NEW latest \in Int \cup {None}
    PROVE  PollingWindow(row, latest) \in Page
<1> DEFINE scan == Scan(row, latest)
           overlap == row.cursor # None \/ latest # None
<1>1. scan.cursor \in Int /\ scan.scanTo \in Int
  BY ScanType
<1>2. overlap \in BOOLEAN
  OBVIOUS
<1>3. PollingWindow(row, latest) = Window(scan.cursor, scan.scanTo, scan.cursor - 1, overlap)
  BY Zenon DEF PollingWindow
<1> HIDE DEF scan, overlap
<1>4. scan.cursor - 1 \in Int
  BY <1>1
<1>5. Window(scan.cursor, scan.scanTo, scan.cursor - 1, overlap) \in Page
  BY <1>1, <1>2, <1>4, WindowType, Zenon
<1> QED BY <1>3, <1>5

(* A saved page leaves a row of its kind (save).                           *)
LEMMA SavedRowType ==
    ASSUME NEW t \in Work, target[t] \in RowOf(t), NEW page \in Page,
           t \in Polling => target[t].cursor # None
    PROVE  SavedRow(t, page) \in RowOf(t)
<1> DEFINE row == [target[t] EXCEPT !.cursor = page.end, !.failures = 0, !.delay = 0]
<1>1. target[t] \in TargetRow /\ page.end \in Int /\ PollTicks \in Nat /\ None \notin Int
  BY ConstantsAssumption DEF RowOf, Page
<1>2. /\ row \in TargetRow /\ row.status = target[t].status
      /\ row.cursor = page.end /\ row.scanTo = target[t].scanTo
  BY <1>1 DEF TargetRow
<1> HIDE DEF row
<1>3. CASE t \in Polling /\ page.end = page.scanEnd
  <2>1. SavedRow(t, page) = [row EXCEPT !.cursor = None, !.scanTo = None, !.delay = PollTicks]
    BY <1>3 DEF SavedRow, row
  <2>2. /\ SavedRow(t, page) \in TargetRow /\ SavedRow(t, page).status = target[t].status
        /\ SavedRow(t, page).cursor = None /\ SavedRow(t, page).scanTo = None
    BY <1>1, <1>2, <2>1 DEF TargetRow
  <2> QED BY <2>2 DEF RowOf
<1>4. CASE ~(t \in Polling /\ page.end = page.scanEnd)
  <2>1. SavedRow(t, page) = row
    BY <1>4 DEF SavedRow, row
  <2> QED BY <1>1, <1>2, <2>1 DEF RowOf
<1> QED BY <1>3, <1>4

(* A released lease is a lease row that nobody holds.                      *)
LEMMA NoLeaseOK ==
    NoLease \in LeaseRow /\ NoLease.token = None
BY ConstantsAssumption DEF NoLease, LeaseRow

(* Fencing asks nothing when no write is open.                             *)
LEMMA NoWriter ==
    ASSUME txn' = None
    PROVE  (WriterOK /\ OpenWriteIsOwner)'
BY DEF WriterOK, OpenWriteIsOwner

(* Another worker's move leaves an open write what it was.                 *)
LEMMA OtherWriter ==
    ASSUME WorkersOK, RestOK, WriterOK, OpenWriteIsOwner, NEW w \in Worker, txn # w, NEW s,
           worker' = [worker EXCEPT ![w] = s], UNCHANGED <<txn, lease, target>>
    PROVE  (WriterOK /\ OpenWriteIsOwner)'
<1>1. txn # None => worker'[txn] = worker[txn]
  BY DEF RestOK, WorkersOK
<1> QED BY <1>1 DEF WriterOK, OpenWriteIsOwner, Active

(* The worker that writes is on a target, at the checkpoint it compares.   *)
LEMMA WriterFacts ==
    ASSUME WorkersOK, RowsOK, LeaseOK, RestOK, WriterOK, OpenWriteIsOwner, NEW w \in Worker, txn = w
    PROVE  /\ worker[w] \in WorkerState /\ worker[w].work \in Work
           /\ target[worker[w].work] \in RowOf(worker[w].work)
           /\ target[worker[w].work] \in TargetRow
           /\ target[worker[w].work].cursor = worker[w].cursor
<1>1. txn # None
  BY ConstantsAssumption
<1>2. worker[w] \in WorkerState /\ worker[w].work \in Work
  BY <1>1 DEF WorkersOK, WriterOK, SettledWorker
<1>3. target[worker[w].work].cursor = worker[w].cursor
  BY <1>1 DEF OpenWriteIsOwner
<1> QED BY <1>2, <1>3 DEF RowsOK

(* A write that is rolled back leaves a worker that failed (fail).         *)
LEMMA RolledBack ==
    ASSUME WorkersOK, NEW w \in Worker, worker[w].work \in Work, NEW f \in AnyFailure,
           RollBackTo(w, f)
    PROVE  WorkersOK' /\ txn' = None /\ UNCHANGED <<lease, target, candles, handled>>
<1>1. worker[w] \in WorkerState
  BY DEF WorkersOK
<1>2. NoPage \in Page
  BY DEF NoPage, Page
<1>3. [worker[w] EXCEPT !.pc = "fail", !.failure = f, !.page = NoPage, !.points = {}]
        \in SettledWorker
  BY <1>1, <1>2 DEF WorkerState, SettledWorker
<1> QED BY <1>3, WorkerReplaced DEF RollBackTo

(* What a write can find wrong with its access may be recorded (_recheck). *)
LEMMA AccessFailureType ==
    ASSUME NEW w \in Worker
    PROVE  AccessFailure(w) = None \/ AccessFailure(w) \in AnyFailure
BY DEF AccessFailure, AnyFailure

(* A prepared page leaves a worker with a range, and a row of its kind.    *)
LEMMA PreparedOK ==
    ASSUME WorkersOK, RowsOK, NEW w \in Worker, worker[w].work \in Work,
           NEW row \in RowOf(worker[w].work), NEW page \in Page,
           worker[w].work \in Polling => row.cursor # None, Prepared(w, row, page)
    PROVE  WorkersOK' /\ RowsOK' /\ txn' = None /\ UNCHANGED <<lease, candles, handled>>
<1> DEFINE pc == IF worker[w].work \in Backfill /\ page.start = page.scanEnd
                 THEN "complete" ELSE "fetch"
<1>1. worker[w] \in WorkerState /\ row.cursor \in Int \cup {None}
  BY DEF WorkersOK, RowOf, TargetRow
<1>2. worker' = [worker EXCEPT ![w] = [worker[w] EXCEPT
                   !.cursor = row.cursor, !.page = page, !.pc = pc]]
  BY Zenon DEF Prepared
<1>3. pc \in {"complete", "fetch"} /\ (pc = "complete" => worker[w].work \in Backfill)
  OBVIOUS
<1> HIDE DEF pc
<1>4. [worker[w] EXCEPT !.cursor = row.cursor, !.page = page, !.pc = pc] \in SettledWorker
  BY <1>1, <1>3 DEF WorkerState, SettledWorker
<1>5. RowsOK'
  BY RowReplaced DEF Prepared
<1> QED BY <1>2, <1>4, <1>5, WorkerReplaced DEF Prepared

(* The step invariance of IInv, action by action.                          *)
LEMMA Preserved == IInv /\ [Next]_vars => IInv'
<1> SUFFICES ASSUME WorkersOK, RowsOK, LeaseOK, RestOK, WriterOK, OpenWriteIsOwner, [Next]_vars
             PROVE  IInv'
  BY DEF IInv
<1>1. ASSUME NEW w \in Worker, RecoverExpired(w) PROVE IInv'
  <2>1. WorkersOK'
    BY <1>1 DEF RecoverExpired, WorkersOK, WorkerState, SettledWorker
  <2>2. RowsOK'
    BY <1>1, RecoveredRows DEF RecoverExpired, RowsOK
  <2>3. (LeaseOK /\ RestOK)'
    <3>1. lease' = lease \/ lease' = NoLease
      BY <1>1 DEF RecoverExpired
    <3>2. told' \subseteq {f.code : f \in AnyFailure}
      BY <1>1, RecoveredRows DEF RecoverExpired, RestOK
    <3> QED BY <1>1, <3>1, <3>2, NoLeaseOK DEF RecoverExpired, LeaseOK, RestOK
  <2>4. (WriterOK /\ OpenWriteIsOwner)'
    BY <1>1 DEF RecoverExpired, WriterOK, OpenWriteIsOwner, WorkersOK, WorkerState
  <2> QED BY <2>1, <2>2, <2>3, <2>4 DEF IInv
<1>2. ASSUME NEW w \in Worker, Discover(w) PROVE IInv'
  <2>1. PICK queue \in SUBSET Work :
            worker' = [worker EXCEPT ![w] = [worker[w] EXCEPT !.pc = "select", !.queue = queue]]
    BY <1>2 DEF Discover
  <2>2. WorkersOK'
    <3>1. worker[w] \in WorkerState
      BY DEF WorkersOK
    <3>2. [worker[w] EXCEPT !.pc = "select", !.queue = queue] \in SettledWorker
      BY <3>1 DEF WorkerState, SettledWorker
    <3> QED BY <2>1, <3>2, WorkerReplaced
  <2>3. RowsOK'
    BY <1>2 DEF Discover, RowsOK
  <2>4. (LeaseOK /\ RestOK)'
    BY <1>2 DEF Discover, LeaseOK, RestOK
  <2>5. (WriterOK /\ OpenWriteIsOwner)'
    <3>1. txn # w /\ UNCHANGED <<txn, lease, target>>
      BY <1>2, ConstantsAssumption DEF Discover, WriterOK
    <3> QED BY <2>1, <3>1, OtherWriter
  <2> QED BY <2>2, <2>3, <2>4, <2>5 DEF IInv
<1>3. ASSUME NEW w \in Worker, NEW t \in Work, ClaimRefused(w, t) PROVE IInv'
  <2>1. WorkersOK'
    BY <1>3 DEF ClaimRefused, WorkersOK, WorkerState, SettledWorker
  <2>2. RowsOK'
    BY <1>3 DEF ClaimRefused, RowsOK
  <2>3. (LeaseOK /\ RestOK)'
    BY <1>3 DEF ClaimRefused, LeaseOK, RestOK
  <2>4. (WriterOK /\ OpenWriteIsOwner)'
    BY <1>3 DEF ClaimRefused, WriterOK, OpenWriteIsOwner, WorkersOK, WorkerState
  <2> QED BY <2>1, <2>2, <2>3, <2>4 DEF IInv
<1>4. ASSUME NEW w \in Worker, NEW t \in Work, Claim(w, t) PROVE IInv'
  <2>1. \/ /\ target' = RecoveredTarget /\ lease' = NoLease
           /\ worker' = [worker EXCEPT ![w].queue = @ \ {t}]
        \/ \E token \in Token :
             /\ lease' = [owner |-> w, token |-> token, work |-> t, left |-> LeaseTicks]
             /\ target' = [RecoveredTarget EXCEPT
                   ![t].status = IF @ = "queued" THEN "running" ELSE @]
             /\ worker' = [worker EXCEPT ![w] = [worker[w] EXCEPT
                   !.pc = "prepare", !.queue = @ \ {t}, !.work = t,
                   !.token = token, !.cursor = RecoveredTarget[t].cursor, !.keepalive = TRUE]]
    <3>1. CASE Due(RecoveredTarget[t])
      BY <1>4, <3>1, Zenon DEF Claim
    <3>2. CASE ~Due(RecoveredTarget[t])
      BY <1>4, <3>2 DEF Claim
    <3> QED BY <3>1, <3>2
  <2>2. RecoveredTarget[t] \in TargetRow /\ RecoveredTarget[t] \in RowOf(t)
    BY RecoveredRows
  <2>3. WorkersOK'
    <3>1. CASE worker' = [worker EXCEPT ![w].queue = @ \ {t}]
      BY <3>1 DEF WorkersOK, WorkerState, SettledWorker
    <3>2. ASSUME NEW token \in Token PROVE
            [worker[w] EXCEPT !.pc = "prepare", !.queue = @ \ {t}, !.work = t, !.token = token,
               !.cursor = RecoveredTarget[t].cursor, !.keepalive = TRUE] \in SettledWorker
      <4>1. worker[w] \in WorkerState
        BY DEF WorkersOK
      <4>2. RecoveredTarget[t].cursor \in Int \cup {None}
        BY <2>2 DEF TargetRow
      <4> QED BY <4>1, <4>2 DEF WorkerState, SettledWorker
    <3> QED BY <2>1, <3>1, <3>2, WorkerReplaced
  <2>4. RowsOK'
    <3>1. [RecoveredTarget[t] EXCEPT !.status = IF @ = "queued" THEN "running" ELSE @] \in RowOf(t)
      BY <2>2 DEF RowOf, TargetRow, BackfillStatus, PollingStatus
    <3>2. [RecoveredTarget[t] EXCEPT !.status = IF @ = "queued" THEN "running" ELSE @] \in TargetRow
      BY <3>1 DEF RowOf
    <3> QED BY <2>1, <3>1, <3>2, RecoveredRows DEF RowsOK
  <2>5. (LeaseOK /\ RestOK)'
    <3>1. told' \subseteq {f.code : f \in AnyFailure}
      BY <1>4, RecoveredRows DEF Claim
    <3>2. LeaseOK'
      <4>1. CASE lease' = NoLease
        BY <4>1, NoLeaseOK DEF LeaseOK
      <4>2. ASSUME NEW token \in Token,
                   lease' = [owner |-> w, token |-> token, work |-> t, left |-> LeaseTicks]
            PROVE  LeaseOK'
        BY <1>4, <4>2, ConstantsAssumption DEF LeaseOK, LeaseRow
      <4> QED BY <2>1, <4>1, <4>2
    <3> QED BY <1>4, <3>1, <3>2 DEF Claim, RestOK
  <2>6. (WriterOK /\ OpenWriteIsOwner)'
    BY <1>4, NoWriter DEF Claim
  <2> QED BY <2>3, <2>4, <2>5, <2>6 DEF IInv
<1>5. ASSUME NEW w \in Worker, BeginWrite(w) PROVE IInv'
  <2>1. WorkersOK'
    BY <1>5, ConstantsAssumption DEF BeginWrite, WorkersOK, WorkerState, SettledWorker
  <2>2. RowsOK'
    BY <1>5 DEF BeginWrite, RowsOK
  <2>3. (LeaseOK /\ RestOK)'
    BY <1>5 DEF BeginWrite, LeaseOK, RestOK
  <2>4. (WriterOK /\ OpenWriteIsOwner)'
    BY <1>5, ConstantsAssumption
       DEF BeginWrite, MayWrite, Owned, WriterOK, OpenWriteIsOwner, WorkersOK, WorkerState
  <2> QED BY <2>1, <2>2, <2>3, <2>4 DEF IInv
<1>6. ASSUME NEW w \in Worker, Prepare(w) PROVE IInv'
  <2>1. txn = w
    BY <1>6 DEF Prepare
  <2>2. worker[w].work \in Work /\ target[worker[w].work] \in RowOf(worker[w].work)
        /\ target[worker[w].work] \in TargetRow
    BY <2>1, WriterFacts
  <2>3. WorkersOK' /\ RowsOK' /\ txn' = None /\ UNCHANGED <<lease, candles, handled>>
    <3> DEFINE t == worker[w].work
               row == target[worker[w].work]
    <3>1. CASE ~access.usable
      <4>1. RollBackTo(w, AccessUnavailable) /\ AccessUnavailable \in AnyFailure
        BY <1>6, <3>1 DEF Prepare, AnyFailure
      <4> QED BY <2>2, <4>1, RolledBack DEF RowsOK
    <3>2. CASE access.usable /\ t \in Backfill
      <4>1. Prepared(w, row, BackfillWindow(row))
        BY <1>6, <3>2 DEF Prepare
      <4>2. t \notin Polling
        BY <3>2, ConstantsAssumption
      <4> QED BY <2>2, <4>1, <4>2, BackfillWindowType, PreparedOK
    <3>3. CASE access.usable /\ t \in Polling
      <4>1. t \notin Backfill
        BY <3>3, ConstantsAssumption
      <4>2. PICK latest \in LatestClose : Prepared(w, Scan(row, latest), PollingWindow(row, latest))
        BY <1>6, <3>3, <4>1 DEF Prepare
      <4>3. latest \in Int \cup {None}
        BY LatestCloseType
      <4>4. Scan(row, latest) \in RowOf(t) /\ Scan(row, latest).cursor # None
        BY <2>2, <3>3, <4>3, ScanType, ConstantsAssumption
      <4>5. PollingWindow(row, latest) \in Page
        BY <2>2, <3>3, <4>3, PollingWindowType
      <4> HIDE DEF row
      <4> QED BY <2>2, <4>2, <4>4, <4>5, PreparedOK
    <3> QED BY <2>2, <3>1, <3>2, <3>3 DEF Work
  <2>4. WorkersOK'
    BY <2>3
  <2>5. RowsOK'
    BY <2>3
  <2>6. (LeaseOK /\ RestOK)'
    BY <1>6, <2>3 DEF Prepare, LeaseOK, RestOK
  <2>7. (WriterOK /\ OpenWriteIsOwner)'
    BY <2>3, NoWriter
  <2> QED BY <2>4, <2>5, <2>6, <2>7 DEF IInv
<1>7. ASSUME NEW w \in Worker, FetchReturns(w) PROVE IInv'
  <2>1. PICK points \in SUBSET Int :
            worker' = [worker EXCEPT ![w] = [worker[w] EXCEPT !.pc = "save", !.points = points]]
    <3>1. {} \subseteq Int /\ worker[w].page.start .. worker[w].page.end - 1 \subseteq Int
      BY DEF WorkersOK, WorkerState, Page
    <3> QED BY <1>7, <3>1 DEF FetchReturns
  <2>2. WorkersOK'
    <3>1. worker[w] \in SettledWorker /\ worker[w] \in WorkerState /\ worker[w].pc = "fetch"
      BY <1>7 DEF FetchReturns, WorkersOK, SettledWorker
    <3> DEFINE s == [worker[w] EXCEPT !.pc = "save", !.points = points]
    <3>2. /\ s \in WorkerState /\ s.pc = "save"
          /\ s.work = worker[w].work /\ s.cursor = worker[w].cursor
      BY <3>1 DEF WorkerState
    <3> HIDE DEF s
    <3>3. s \in SettledWorker
      BY <3>1, <3>2 DEF SettledWorker
    <3> QED BY <2>1, <3>3, WorkerReplaced DEF s
  <2>3. RowsOK'
    BY <1>7 DEF FetchReturns, RowsOK
  <2>4. (LeaseOK /\ RestOK)'
    BY <1>7 DEF FetchReturns, LeaseOK, RestOK
  <2>5. (WriterOK /\ OpenWriteIsOwner)'
    <3>1. txn # w /\ UNCHANGED <<txn, lease, target>>
      BY <1>7, ConstantsAssumption DEF FetchReturns, WriterOK
    <3> QED BY <2>1, <3>1, OtherWriter
  <2> QED BY <2>2, <2>3, <2>4, <2>5 DEF IInv
<1>8. ASSUME NEW w \in Worker, FetchFails(w) PROVE IInv'
  <2>1. PICK f \in AnyFailure :
            worker' = [worker EXCEPT ![w] = [worker[w] EXCEPT !.pc = "fail", !.failure = f]]
    BY <1>8 DEF FetchFails, AnyFailure
  <2>2. WorkersOK'
    <3>1. worker[w] \in WorkerState /\ worker[w].work \in Work
      BY <1>8 DEF FetchFails, WorkersOK, SettledWorker
    <3>2. [worker[w] EXCEPT !.pc = "fail", !.failure = f] \in SettledWorker
      BY <3>1 DEF WorkerState, SettledWorker
    <3> QED BY <2>1, <3>2, WorkerReplaced
  <2>3. RowsOK'
    BY <1>8 DEF FetchFails, RowsOK
  <2>4. (LeaseOK /\ RestOK)'
    BY <1>8 DEF FetchFails, LeaseOK, RestOK
  <2>5. (WriterOK /\ OpenWriteIsOwner)'
    <3>1. txn # w /\ UNCHANGED <<txn, lease, target>>
      BY <1>8, ConstantsAssumption DEF FetchFails, WriterOK
    <3> QED BY <2>1, <3>1, OtherWriter
  <2> QED BY <2>2, <2>3, <2>4, <2>5 DEF IInv
<1>9. ASSUME NEW w \in Worker, Save(w) PROVE IInv'
  <2>1. txn = w /\ worker[w].pc = "save"
    BY <1>9 DEF Save
  <2>2. /\ worker[w] \in WorkerState /\ worker[w].work \in Work
        /\ target[worker[w].work] \in RowOf(worker[w].work)
        /\ target[worker[w].work] \in TargetRow
        /\ target[worker[w].work].cursor = worker[w].cursor
    BY <2>1, WriterFacts
  <2>3. WorkersOK' /\ RowsOK' /\ (LeaseOK /\ RestOK)' /\ txn' = None
    <3>1. CASE AccessFailure(w) = None
      <4>1. worker' = [worker EXCEPT ![w] = Done(w)] /\ lease' = NoLease /\ txn' = None
        BY <1>9, <3>1 DEF Save
      <4>2. worker[w].page \in Page /\ worker[w].points \subseteq Int
        BY <2>2 DEF WorkerState
      <4>3. worker[w].work \in Polling => target[worker[w].work].cursor # None
        BY <2>1, <2>2 DEF WorkersOK, SettledWorker
      <4>4. SavedRow(worker[w].work, worker[w].page) \in RowOf(worker[w].work)
        BY <2>2, <4>2, <4>3, SavedRowType
      <4>5. RowsOK'
        BY <1>9, <2>2, <3>1, <4>4, RowReplaced DEF Save
      <4>6. candles' \subseteq Int
        BY <1>9, <3>1, <4>2 DEF Save, RestOK
      <4>7. handled' \in [Backfill -> SUBSET Int]
        <5>1. worker[w].page.start .. worker[w].page.end - 1 \subseteq Int
          BY <4>2 DEF Page
        <5> QED BY <1>9, <3>1, <5>1 DEF Save, RestOK
      <4>8. (LeaseOK /\ RestOK)'
        BY <1>9, <4>1, <4>6, <4>7, NoLeaseOK DEF Save, LeaseOK, RestOK
      <4> QED BY <4>1, <4>5, <4>8, DoneWorkers
    <3>2. CASE AccessFailure(w) # None
      <4>1. RollBackTo(w, AccessFailure(w)) /\ AccessFailure(w) \in AnyFailure
        BY <1>9, <3>2, AccessFailureType DEF Save
      <4>2. WorkersOK' /\ txn' = None /\ UNCHANGED <<lease, target, candles, handled>>
        BY <2>2, <4>1, RolledBack
      <4> QED BY <1>9, <4>2 DEF Save, RowsOK, LeaseOK, RestOK
    <3> QED BY <3>1, <3>2
  <2>4. WorkersOK'
    BY <2>3
  <2>5. RowsOK'
    BY <2>3
  <2>6. (LeaseOK /\ RestOK)'
    BY <2>3
  <2>7. (WriterOK /\ OpenWriteIsOwner)'
    BY <2>3, NoWriter
  <2> QED BY <2>4, <2>5, <2>6, <2>7 DEF IInv
<1>10. ASSUME NEW w \in Worker, Complete(w) PROVE IInv'
  <2>1. txn = w /\ worker[w].pc = "complete"
    BY <1>10 DEF Complete
  <2>2. /\ worker[w] \in WorkerState /\ worker[w].work \in Work
        /\ target[worker[w].work] \in RowOf(worker[w].work)
        /\ target[worker[w].work] \in TargetRow
        /\ target[worker[w].work].cursor = worker[w].cursor
    BY <2>1, WriterFacts
  <2>3. WorkersOK' /\ RowsOK' /\ (LeaseOK /\ RestOK)' /\ txn' = None
    <3>1. CASE AccessFailure(w) = None
      <4> DEFINE row == [target[worker[w].work] EXCEPT !.status = "succeeded", !.failures = 0]
      <4>1. /\ worker' = [worker EXCEPT ![w] = Done(w)] /\ lease' = NoLease /\ txn' = None
            /\ UNCHANGED <<candles, handled, bars, access, told>>
        BY <1>10, <3>1 DEF Complete
      <4>2. row \in RowOf(worker[w].work)
        <5>1. worker[w].work \in Backfill /\ worker[w].work \notin Polling
          BY <2>1, ConstantsAssumption DEF WorkersOK, SettledWorker
        <5> QED BY <2>2, <5>1 DEF RowOf, TargetRow, BackfillStatus
      <4>3. target' = [target EXCEPT ![worker[w].work] = row]
        BY <1>10, <2>2, <3>1 DEF Complete, RowsOK
      <4> HIDE DEF row
      <4> QED BY <2>2, <4>1, <4>2, <4>3, RowReplaced, DoneWorkers, NoLeaseOK DEF LeaseOK, RestOK
    <3>2. CASE AccessFailure(w) # None
      <4>1. RollBackTo(w, AccessFailure(w)) /\ AccessFailure(w) \in AnyFailure
        BY <1>10, <3>2, AccessFailureType DEF Complete
      <4>2. WorkersOK' /\ txn' = None /\ UNCHANGED <<lease, target, candles, handled>>
        BY <2>2, <4>1, RolledBack
      <4> QED BY <1>10, <4>2 DEF Complete, RowsOK, LeaseOK, RestOK
    <3> QED BY <3>1, <3>2
  <2>4. WorkersOK'
    BY <2>3
  <2>5. RowsOK'
    BY <2>3
  <2>6. (LeaseOK /\ RestOK)'
    BY <2>3
  <2>7. (WriterOK /\ OpenWriteIsOwner)'
    BY <2>3, NoWriter
  <2> QED BY <2>4, <2>5, <2>6, <2>7 DEF IInv
<1>11. ASSUME NEW w \in Worker, Fail(w) PROVE IInv'
  <2>1. txn = w /\ worker[w].pc = "fail"
    BY <1>11 DEF Fail
  <2>2. /\ worker[w] \in WorkerState /\ worker[w].work \in Work
        /\ target[worker[w].work] \in RowOf(worker[w].work)
        /\ target[worker[w].work] \in TargetRow
        /\ target[worker[w].work].cursor = worker[w].cursor
    BY <2>1, WriterFacts
  <2>3. worker[w].failure \in AnyFailure
    BY <2>1 DEF WorkersOK, SettledWorker
  <2>4. /\ worker' = [worker EXCEPT ![w] = Done(w)] /\ lease' = NoLease /\ txn' = None
        /\ UNCHANGED <<candles, handled, bars, access>>
    BY <1>11 DEF Fail
  <2>5. WorkersOK'
    BY <2>4, DoneWorkers
  <2>6. RowsOK'
    <3>1. AfterFailure(target[worker[w].work], worker[w].failure) \in RowOf(worker[w].work)
      BY <2>2, <2>3, FailedRow
    <3>2. target' = [target EXCEPT ![worker[w].work] =
                       AfterFailure(target[worker[w].work], worker[w].failure)]
      BY <1>11 DEF Fail
    <3> QED BY <2>2, <3>1, <3>2, RowReplaced
  <2>7. (LeaseOK /\ RestOK)'
    <3>1. told' \subseteq {f.code : f \in AnyFailure}
      BY <1>11, <2>3 DEF Fail, ToldAfter, RestOK
    <3> QED BY <2>4, <3>1, NoLeaseOK DEF LeaseOK, RestOK
  <2>8. (WriterOK /\ OpenWriteIsOwner)'
    BY <2>4, NoWriter
  <2> QED BY <2>5, <2>6, <2>7, <2>8 DEF IInv
<1>12. ASSUME NEW w \in Worker, Release(w) PROVE IInv'
  <2>1. WorkersOK'
    BY <1>12, DoneWorkers DEF Release
  <2>2. RowsOK'
    BY <1>12 DEF Release, RowsOK
  <2>3. (LeaseOK /\ RestOK)'
    BY <1>12, NoLeaseOK DEF Release, LeaseOK, RestOK
  <2>4. (WriterOK /\ OpenWriteIsOwner)'
    BY <1>12, NoWriter DEF Release
  <2> QED BY <2>1, <2>2, <2>3, <2>4 DEF IInv
<1>13. ASSUME NEW w \in Worker, Heartbeat(w) PROVE IInv'
  <2>1. WorkersOK'
    <3>1. [worker[w] EXCEPT !.keepalive = FALSE] \in SettledWorker
      BY <1>13 DEF WorkersOK, WorkerState, SettledWorker
    <3>2. \/ worker' = worker
          \/ worker' = [worker EXCEPT ![w] = [worker[w] EXCEPT !.keepalive = FALSE]]
      BY <1>13 DEF Heartbeat
    <3> QED BY <1>13, <3>1, <3>2, WorkerReplaced DEF WorkersOK
  <2>2. RowsOK'
    BY <1>13 DEF Heartbeat, RowsOK
  <2>3. (LeaseOK /\ RestOK)'
    <3>1. [lease EXCEPT !.left = LeaseTicks] \in LeaseRow
      BY ConstantsAssumption DEF LeaseOK, LeaseRow
    <3>2. lease' = lease \/ lease' = [lease EXCEPT !.left = LeaseTicks]
      BY <1>13 DEF Heartbeat
    <3>3. LeaseOK'
      BY <3>1, <3>2 DEF LeaseOK, LeaseRow
    <3> QED BY <1>13, <3>3 DEF Heartbeat, RestOK
  <2>4. (WriterOK /\ OpenWriteIsOwner)'
    BY <1>13, NoWriter DEF Heartbeat
  <2> QED BY <2>1, <2>2, <2>3, <2>4 DEF IInv
<1>14. ASSUME NEW w \in Worker, Crash(w) PROVE IInv'
  <2>1. WorkersOK'
    <3>1. Idle \in SettledWorker
      BY IdleSettled
    <3> QED BY <1>14, <3>1, WorkerReplaced DEF Crash
  <2>2. RowsOK'
    BY <1>14 DEF Crash, RowsOK
  <2>3. (LeaseOK /\ RestOK)'
    BY <1>14 DEF Crash, LeaseOK, RestOK
  <2>4. (WriterOK /\ OpenWriteIsOwner)'
    <3>1. CASE txn = w
      BY <1>14, <3>1, NoWriter DEF Crash
    <3>2. CASE txn # w
      BY <1>14, <3>2, OtherWriter DEF Crash
    <3> QED BY <3>1, <3>2
  <2> QED BY <2>1, <2>2, <2>3, <2>4 DEF IInv
<1>15. ASSUME NEW w \in Worker, DatabaseError(w) PROVE IInv'
  <2>1. WorkersOK'
    BY <1>15, DoneWorkers DEF DatabaseError
  <2>2. RowsOK'
    BY <1>15 DEF DatabaseError, RowsOK
  <2>3. (LeaseOK /\ RestOK)'
    BY <1>15 DEF DatabaseError, LeaseOK, RestOK
  <2>4. (WriterOK /\ OpenWriteIsOwner)'
    <3>1. CASE txn = w
      BY <1>15, <3>1, NoWriter DEF DatabaseError
    <3>2. CASE txn # w
      BY <1>15, <3>2, OtherWriter DEF DatabaseError
    <3> QED BY <3>1, <3>2
  <2> QED BY <2>1, <2>2, <2>3, <2>4 DEF IInv
<1>16. ASSUME NEW w \in Worker, CancelFetch(w) PROVE IInv'
  <2>1. WorkersOK'
    <3>1. [worker[w] EXCEPT !.pc = "release"] \in SettledWorker
      BY <1>16 DEF CancelFetch, WorkersOK, WorkerState, SettledWorker
    <3> QED BY <1>16, <3>1, WorkerReplaced DEF CancelFetch
  <2>2. RowsOK'
    BY <1>16 DEF CancelFetch, RowsOK
  <2>3. (LeaseOK /\ RestOK)'
    BY <1>16 DEF CancelFetch, LeaseOK, RestOK
  <2>4. (WriterOK /\ OpenWriteIsOwner)'
    BY <1>16 DEF CancelFetch, WriterOK, OpenWriteIsOwner, WorkersOK, WorkerState
  <2> QED BY <2>1, <2>2, <2>3, <2>4 DEF IInv
<1>17. ASSUME NEW w \in Worker, KeepaliveDies(w) PROVE IInv'
  <2>1. WorkersOK'
    <3>1. [worker[w] EXCEPT !.keepalive = FALSE] \in SettledWorker
      BY <1>17 DEF WorkersOK, WorkerState, SettledWorker
    <3>2. worker' = [worker EXCEPT ![w] = [worker[w] EXCEPT !.keepalive = FALSE]]
      BY <1>17 DEF KeepaliveDies, WorkersOK, WorkerState
    <3> QED BY <1>17, <3>1, <3>2, WorkerReplaced
  <2>2. RowsOK'
    BY <1>17 DEF KeepaliveDies, RowsOK
  <2>3. (LeaseOK /\ RestOK)'
    BY <1>17 DEF KeepaliveDies, LeaseOK, RestOK
  <2>4. (WriterOK /\ OpenWriteIsOwner)'
    BY <1>17 DEF KeepaliveDies, WriterOK, OpenWriteIsOwner, WorkersOK, WorkerState
  <2> QED BY <2>1, <2>2, <2>3, <2>4 DEF IInv
<1>18. ASSUME NEW t \in Backfill, EnqueueBackfill(t) PROVE IInv'
  <2>1. WorkersOK'
    BY <1>18 DEF EnqueueBackfill, WorkersOK
  <2>2. RowsOK'
    <3>1. NewRow("queued") \in RowOf(t)
      BY <1>18, ConstantsAssumption DEF NewRow, RowOf, TargetRow, BackfillStatus
    <3> QED BY <1>18, <3>1, RowReplaced DEF EnqueueBackfill, Work
  <2>3. (LeaseOK /\ RestOK)'
    BY <1>18 DEF EnqueueBackfill, LeaseOK, RestOK
  <2>4. (WriterOK /\ OpenWriteIsOwner)'
    <3>1. lease.work # t /\ UNCHANGED <<txn, lease, worker>>
      BY <1>18 DEF EnqueueBackfill
    <3>2. target'[lease.work] = target[lease.work] \/ lease.work \notin Work
      BY <1>18, <3>1 DEF EnqueueBackfill, RowsOK
    <3>3. txn # None => lease.work \in Work
      BY DEF OpenWriteIsOwner, WriterOK, WorkersOK, SettledWorker, RestOK
    <3> QED BY <3>1, <3>2, <3>3 DEF WriterOK, OpenWriteIsOwner, Active
  <2> QED BY <2>1, <2>2, <2>3, <2>4 DEF IInv
<1>19. ASSUME NEW t \in Polling, EnableSubscription(t) PROVE IInv'
  <2>1. WorkersOK'
    BY <1>19 DEF EnableSubscription, WorkersOK
  <2>2. RowsOK'
    <3>1. [target[t] EXCEPT !.status = "enabled"] \in RowOf(t)
      <4>1. target[t] \in RowOf(t) /\ t \notin Backfill
        BY <1>19, ConstantsAssumption DEF RowsOK, Work
      <4> QED BY <4>1 DEF RowOf, TargetRow, PollingStatus
    <3> QED BY <1>19, <3>1, RowReplaced DEF EnableSubscription, Work
  <2>3. (LeaseOK /\ RestOK)'
    BY <1>19 DEF EnableSubscription, LeaseOK, RestOK
  <2>4. (WriterOK /\ OpenWriteIsOwner)'
    <3>1. txn # None => lease.work # t /\ lease.work \in Work
      BY <1>19
         DEF EnableSubscription, RowLocked, OpenWriteIsOwner, WriterOK, WorkersOK, SettledWorker, RestOK
    <3>2. txn # None => target'[lease.work] = target[lease.work]
      BY <1>19, <3>1 DEF EnableSubscription, RowsOK
    <3> QED BY <1>19, <3>1, <3>2 DEF EnableSubscription, WriterOK, OpenWriteIsOwner, Active
  <2> QED BY <2>1, <2>2, <2>3, <2>4 DEF IInv
<1>20. ASSUME NEW t \in Polling, DisableSubscription(t) PROVE IInv'
  <2>1. WorkersOK'
    BY <1>20 DEF DisableSubscription, WorkersOK
  <2>2. RowsOK'
    <3>1. [target[t] EXCEPT !.status = "disabled"] \in RowOf(t)
      <4>1. target[t] \in RowOf(t) /\ t \notin Backfill
        BY <1>20, ConstantsAssumption DEF RowsOK, Work
      <4> QED BY <4>1 DEF RowOf, TargetRow, PollingStatus
    <3> QED BY <1>20, <3>1, RowReplaced DEF DisableSubscription, Work
  <2>3. (LeaseOK /\ RestOK)'
    BY <1>20 DEF DisableSubscription, LeaseOK, RestOK
  <2>4. (WriterOK /\ OpenWriteIsOwner)'
    <3>1. txn # None => lease.work # t /\ lease.work \in Work
      BY <1>20
         DEF DisableSubscription, RowLocked, OpenWriteIsOwner, WriterOK, WorkersOK, SettledWorker, RestOK
    <3>2. txn # None => target'[lease.work] = target[lease.work]
      BY <1>20, <3>1 DEF DisableSubscription, RowsOK
    <3> QED BY <1>20, <3>1, <3>2 DEF DisableSubscription, WriterOK, OpenWriteIsOwner, Active
  <2> QED BY <2>1, <2>2, <2>3, <2>4 DEF IInv
<1>21. ASSUME NEW state \in AccessStates, ChangeAccess(state) PROVE IInv'
  <2>1. WorkersOK'
    BY <1>21 DEF ChangeAccess, WorkersOK
  <2>2. RowsOK'
    BY <1>21 DEF ChangeAccess, RowsOK
  <2>3. (LeaseOK /\ RestOK)'
    BY <1>21, ConstantsAssumption DEF ChangeAccess, LeaseOK, RestOK
  <2>4. (WriterOK /\ OpenWriteIsOwner)'
    BY <1>21 DEF ChangeAccess, WriterOK, OpenWriteIsOwner, Active
  <2> QED BY <2>1, <2>2, <2>3, <2>4 DEF IInv
<1>22. ASSUME CloseBar PROVE IInv'
  <2>1. WorkersOK'
    BY <1>22 DEF CloseBar, WorkersOK
  <2>2. RowsOK'
    BY <1>22 DEF CloseBar, RowsOK
  <2>3. (LeaseOK /\ RestOK)'
    BY <1>22, ConstantsAssumption DEF CloseBar, LeaseOK, RestOK
  <2>4. (WriterOK /\ OpenWriteIsOwner)'
    BY <1>22 DEF CloseBar, WriterOK, OpenWriteIsOwner, Active
  <2> QED BY <2>1, <2>2, <2>3, <2>4 DEF IInv
<1>23. ASSUME Tick PROVE IInv'
  <2>1. WorkersOK'
    BY <1>23 DEF Tick, WorkersOK
  <2>2. RowsOK'
    <3>1. ASSUME NEW t \in Work PROVE [target[t] EXCEPT !.delay = Later(@ - 1, 0)] \in RowOf(t)
      <4>1. target[t] \in RowOf(t) /\ Later(target[t].delay - 1, 0) \in Nat
        BY DEF RowsOK, TargetRow, Later
      <4> HIDE DEF Later
      <4> QED BY <4>1 DEF RowOf, TargetRow
    <3>2. ASSUME NEW t \in Work PROVE [target[t] EXCEPT !.delay = Later(@ - 1, 0)] \in TargetRow
      BY <3>1 DEF RowOf
    <3> QED BY <1>23, <3>1, <3>2 DEF Tick, RowsOK
  <2>3. (LeaseOK /\ RestOK)'
    <3>1. Later(lease.left - 1, 0) \in 0 .. LeaseTicks
      BY ConstantsAssumption DEF LeaseOK, LeaseRow, Later
    <3>2. LeaseOK'
      BY <1>23, <3>1 DEF Tick, LeaseOK, LeaseRow
    <3> QED BY <1>23, <3>2 DEF Tick, RestOK
  <2>4. (WriterOK /\ OpenWriteIsOwner)'
    <3>1. UNCHANGED <<txn, worker>> /\ lease'.owner = lease.owner
          /\ lease'.token = lease.token /\ lease'.work = lease.work
      BY <1>23 DEF Tick, LeaseOK, LeaseRow
    <3>2. ASSUME NEW t \in Work
          PROVE  /\ target'[t].cursor = target[t].cursor /\ target'[t].status = target[t].status
                 /\ target'[t].stopped = target[t].stopped
      BY <1>23 DEF Tick, RowsOK, TargetRow
    <3>3. txn # None => lease.work \in Work
      BY DEF OpenWriteIsOwner, WriterOK, WorkersOK, SettledWorker, RestOK
    <3> QED BY <3>1, <3>2, <3>3 DEF WriterOK, OpenWriteIsOwner, Active
  <2> QED BY <2>1, <2>2, <2>3, <2>4 DEF IInv
<1>24. ASSUME QuietPeriodEnds PROVE IInv'
  <2>1. WorkersOK'
    BY <1>24 DEF QuietPeriodEnds, WorkersOK
  <2>2. RowsOK'
    BY <1>24 DEF QuietPeriodEnds, RowsOK
  <2>3. (LeaseOK /\ RestOK)'
    BY <1>24 DEF QuietPeriodEnds, LeaseOK, RestOK
  <2>4. (WriterOK /\ OpenWriteIsOwner)'
    BY <1>24 DEF QuietPeriodEnds, WriterOK, OpenWriteIsOwner, Active
  <2> QED BY <2>1, <2>2, <2>3, <2>4 DEF IInv
<1>25. CASE UNCHANGED vars
  BY <1>25 DEF vars, IInv, WorkersOK, RowsOK, LeaseOK, RestOK, WriterOK, OpenWriteIsOwner, Active
<1> QED
  BY <1>1, <1>2, <1>3, <1>4, <1>5, <1>6, <1>7, <1>8, <1>9, <1>10, <1>11, <1>12, <1>13, <1>14,
     <1>15, <1>16, <1>17, <1>18, <1>19, <1>20, <1>21, <1>22, <1>23, <1>24, <1>25
     DEF Next, Undisturbed, WorkerStep, Fault
-----------------------------------------------------------------------------
(* The invariant holds of the empty database.                              *)
LEMMA Established == Init => IInv
<1> SUFFICES ASSUME Init PROVE IInv
  OBVIOUS
<1>1. WorkersOK
  <2>1. Idle \in SettledWorker /\ Idle \in WorkerState
    BY IdleSettled DEF SettledWorker
  <2> QED BY <2>1 DEF Init, WorkersOK
<1>2. RowsOK
  <2>1. ASSUME NEW t \in Work
        PROVE  NewRow(IF t \in Backfill THEN "none" ELSE "enabled") \in RowOf(t)
    BY <2>1, ConstantsAssumption DEF NewRow, RowOf, TargetRow, Work, BackfillStatus, PollingStatus
  <2>2. ASSUME NEW t \in Work
        PROVE  NewRow(IF t \in Backfill THEN "none" ELSE "enabled") \in TargetRow
    BY <2>1 DEF RowOf
  <2> QED BY <2>1, <2>2 DEF Init, RowsOK
<1>3. LeaseOK
  BY NoLeaseOK DEF Init, LeaseOK
<1>4. RestOK
  BY ConstantsAssumption DEF Init, RestOK
<1>5. WriterOK /\ OpenWriteIsOwner
  BY DEF Init, WriterOK, OpenWriteIsOwner
<1> QED BY <1>1, <1>2, <1>3, <1>4, <1>5 DEF IInv

(* The invariant implies the types.                                        *)
LEMMA Types == IInv => TypeOK
BY DEF IInv, TypeOK, WorkersOK, RowsOK, LeaseOK, RestOK

(* The state of the lease protocol keeps its types: no operation leaves a  *)
(* row with a status of the other kind, a page without a range or a        *)
(* failure without a class.                                                *)
THEOREM TypeCorrect == Spec => []TypeOK
BY Established, Preserved, Types, PTL DEF Spec

(* Fencing: whatever the number of workers, however they are interrupted,  *)
(* paused, restarted or disturbed by requests, an open write transaction   *)
(* is always that of the worker the lease row names, on a target that is   *)
(* wanted and has not moved since the claim (guarded_write).               *)
THEOREM Fencing == Spec => []OpenWriteIsOwner
<1>1. IInv => OpenWriteIsOwner
  BY DEF IInv
<1> QED BY <1>1, Established, Preserved, PTL DEF Spec
-----------------------------------------------------------------------------
(* What a step may do to a row. It leaves the checkpoint and what was      *)
(* counted alone; ...                                                      *)
RowKept(t) ==
    /\ target'[t].cursor = target[t].cursor
    /\ target'[t].stopped = target[t].stopped /\ target'[t].failures = target[t].failures
    /\ (target'[t].status = "succeeded") = (target[t].status = "succeeded")
    /\ t \in Backfill => handled'[t] = handled[t]

(* ... or counts a failure of a row that was active (_recover, fail); ...  *)
RowFailed(t) ==
    /\ Active(target[t])
    /\ target'[t].cursor = target[t].cursor
    /\ \E f \in AnyFailure :
          /\ target'[t].stopped = (IF Retries(target[t], f) THEN None ELSE f.code)
          /\ told' = ToldAfter(target[t], f)
    /\ target'[t].status # "succeeded"
    /\ t \in Backfill => handled'[t] = handled[t]

(* ... or is what the owner of the lease writes on an active row (prepare, *)
(* save, complete); ...                                                    *)
RowWritten(t) ==
    /\ Active(target[t]) /\ target'[t].stopped = target[t].stopped
    /\ \E w \in Worker :
          /\ txn = w /\ worker[w].work = t
          /\ \/ /\ t \in Backfill => /\ target'[t].cursor = target[t].cursor
                                     /\ handled'[t] = handled[t]
                /\ target'[t].status # "succeeded"
             \/ /\ worker[w].pc = "save" /\ AccessFailure(w) = None
                /\ target'[t] = SavedRow(t, worker[w].page)
                /\ t \in Backfill =>
                      handled'[t] = handled[t] \cup worker[w].page.start .. worker[w].page.end - 1
             \/ /\ worker[w].pc = "complete" /\ t \in Backfill
                /\ target'[t].cursor = target[t].cursor /\ handled'[t] = handled[t]

(* ... or is a new request (enqueue_backfill).                             *)
RowQueued(t) == t \in Backfill /\ target'[t] = NewRow("queued") /\ handled'[t] = {}

RowStep(t) == RowKept(t) \/ RowFailed(t) \/ RowWritten(t) \/ RowQueued(t)

(* A step that leaves the table alone leaves each of its rows alone.       *)
LEMMA TableKept ==
    ASSUME UNCHANGED <<target, handled>>, NEW t \in Work
    PROVE  RowStep(t)
BY DEF RowStep, RowKept

(* Recovery counts the failure of an active target and leaves the others   *)
(* as they are (_recover).                                                 *)
LEMMA RecoveredStep ==
    ASSUME IInv, NEW t \in Work, told' = RecoveredTold, UNCHANGED handled,
           target'[t] = RecoveredTarget[t]
    PROVE  RowKept(t) \/ RowFailed(t)
<1>1. target \in [Work -> TargetRow] /\ Interrupted \in AnyFailure
  BY DEF IInv, RowsOK, AnyFailure
<1>2. CASE Expired /\ Active(target[lease.work]) /\ t = lease.work
  <2>1. target'[t] = AfterFailure(target[t], Interrupted) /\ told' = ToldAfter(target[t], Interrupted)
    BY <1>1, <1>2 DEF RecoveredTarget, RecoveredTold
  <2>2. /\ target'[t].cursor = target[t].cursor
        /\ target'[t].stopped = IF Retries(target[t], Interrupted) THEN None ELSE Interrupted.code
        /\ target'[t].status # "succeeded"
    BY <1>1, <1>2, <2>1 DEF AfterFailure, TargetRow, Active, PollingStatus
  <2> QED BY <1>1, <1>2, <2>1, <2>2 DEF RowFailed
<1>3. CASE ~(Expired /\ Active(target[lease.work]) /\ t = lease.work)
  BY <1>1, <1>3 DEF RecoveredTarget, RowKept
<1> QED BY <1>2, <1>3

(* What the passes that do not work on a page do: recovery of an expired   *)
(* lease, ...                                                              *)
LEMMA RecoverRows ==
    ASSUME IInv, NEW w \in Worker, RecoverExpired(w), NEW t \in Work
    PROVE  RowKept(t) \/ RowFailed(t)
<1>1. CASE Expired /\ txn = None
  BY <1>1, RecoveredStep DEF RecoverExpired
<1>2. CASE ~(Expired /\ txn = None)
  BY <1>2 DEF RecoverExpired, RowKept
<1> QED BY <1>1, <1>2

(* ... a claim, which is not granted on the target it recovered, ...       *)
LEMMA ClaimRows ==
    ASSUME IInv, NEW w \in Worker, NEW u \in Work, Claim(w, u), NEW t \in Work
    PROVE  RowKept(t) \/ RowFailed(t)
<1> USE DEF IInv
<1>0. target \in [Work -> TargetRow] /\ handled \in [Backfill -> SUBSET Int]
  BY DEF RowsOK, RestOK
<1>1. told' = RecoveredTold /\ UNCHANGED handled
  BY DEF Claim
<1>2. CASE target' = RecoveredTarget
  BY <1>1, <1>2, RecoveredStep
<1>3. CASE /\ Due(RecoveredTarget[u])
           /\ target' = [RecoveredTarget EXCEPT ![u].status = IF @ = "queued" THEN "running" ELSE @]
  <2>1. RecoveredTarget \in [Work -> TargetRow]
    BY RecoveredRows
  <2>2. CASE t # u
    <3>1. target'[t] = RecoveredTarget[t]
      BY <1>3, <2>1, <2>2
    <3> QED BY <1>1, <3>1, RecoveredStep
  <2>3. CASE t = u
    <3>1. RecoveredTarget[u] = target[u]
      <4>1. CASE Expired /\ Active(target[lease.work]) /\ u = lease.work
        <5>1. RecoveredTarget[u] = AfterFailure(target[u], Interrupted)
          BY <1>0, <4>1 DEF RecoveredTarget
        <5>2. AfterFailure(target[u], Interrupted).delay =
                Later(IF target[u].failures = 0 THEN RetryTicks ELSE LongRetryTicks, 0)
          BY <1>0 DEF AfterFailure, TargetRow, Interrupted
        <5>3. AfterFailure(target[u], Interrupted).delay # 0
          BY <5>2, ConstantsAssumption DEF Later
        <5> QED BY <1>3, <5>1, <5>3 DEF Due
      <4>2. CASE ~(Expired /\ Active(target[lease.work]) /\ u = lease.work)
        BY <1>0, <4>2 DEF RecoveredTarget
      <4> QED BY <4>1, <4>2
    <3>2. target'[u] = [target[u] EXCEPT !.status = IF @ = "queued" THEN "running" ELSE @]
      BY <1>3, <2>1, <3>1
    <3>3. RowKept(u)
      BY <1>0, <1>1, <3>2 DEF RowKept, TargetRow
    <3> QED BY <2>3, <3>3
  <2> QED BY <2>2, <2>3
<1>4. \/ target' = RecoveredTarget
      \/ /\ Due(RecoveredTarget[u])
         /\ target' = [RecoveredTarget EXCEPT ![u].status = IF @ = "queued" THEN "running" ELSE @]
  <2>1. CASE Due(RecoveredTarget[u])
    BY <2>1, Zenon DEF Claim
  <2>2. CASE ~Due(RecoveredTarget[u])
    BY <2>2 DEF Claim
  <2> QED BY <2>1, <2>2
<1> QED BY <1>2, <1>3, <1>4

(* ... and the end of a page that failed.                                  *)
LEMMA FailRows ==
    ASSUME IInv, NEW w \in Worker, Fail(w), NEW t \in Work
    PROVE  RowKept(t) \/ RowFailed(t)
<1> USE DEF IInv
<1>1. target \in [Work -> TargetRow]
  BY DEF RowsOK
<1>2. txn = w /\ worker[w].pc = "fail"
  BY DEF Fail
<1> DEFINE u == worker[w].work
           f == worker[w].failure
<1>3. u \in Work /\ Active(target[u]) /\ target[u] \in TargetRow /\ f \in AnyFailure
  BY <1>2, WriterFacts, ConstantsAssumption DEF OpenWriteIsOwner, WorkersOK, SettledWorker
<1>4. /\ target' = [target EXCEPT ![u] = AfterFailure(target[u], f)]
      /\ told' = ToldAfter(target[u], f) /\ handled' = handled
  BY DEF Fail
<1>5. CASE t # u
  BY <1>1, <1>4, <1>5 DEF RowKept
<1>6. CASE t = u
  <2>1. target'[t] = AfterFailure(target[t], f)
    BY <1>1, <1>4, <1>6
  <2>2. /\ target'[t].cursor = target[t].cursor
        /\ target'[t].stopped = IF Retries(target[t], f) THEN None ELSE f.code
        /\ target'[t].status # "succeeded"
    BY <1>1, <1>3, <1>6, <2>1 DEF AfterFailure, TargetRow, Active, PollingStatus
  <2> QED BY <1>3, <1>4, <1>6, <2>2 DEF RowFailed
<1> QED BY <1>5, <1>6

(* Every step is one of these for every row.                               *)
LEMMA RowSteps ==
    ASSUME IInv, [Next]_vars, NEW t \in Work
    PROVE  RowStep(t)
<1> USE DEF IInv
<1>1. target \in [Work -> TargetRow] /\ handled \in [Backfill -> SUBSET Int]
  BY DEF RowsOK, RestOK
<1>2. ASSUME NEW w \in Worker, RecoverExpired(w) PROVE RowStep(t)
  BY <1>2, RecoverRows DEF RowStep
<1>3. ASSUME NEW w \in Worker, NEW u \in Work, Claim(w, u) PROVE RowStep(t)
  BY <1>3, ClaimRows DEF RowStep
<1>4. ASSUME NEW w \in Worker, txn = w
      PROVE  /\ worker[w].work \in Work /\ Active(target[worker[w].work])
             /\ target[worker[w].work] \in RowOf(worker[w].work)
  BY <1>4, WriterFacts, ConstantsAssumption DEF OpenWriteIsOwner
<1>5. ASSUME NEW w \in Worker, NEW f, RollBackTo(w, f) PROVE RowStep(t)
  BY <1>5, TableKept DEF RollBackTo
<1>6. ASSUME NEW w \in Worker, Prepare(w) PROVE RowStep(t)
  <2>1. txn = w
    BY <1>6 DEF Prepare
  <2> DEFINE u == worker[w].work
             row == target[u]
  <2>2. u \in Work /\ Active(row) /\ row \in RowOf(u) /\ row \in TargetRow
    BY <1>1, <1>4, <2>1
  <2>3. CASE ~access.usable
    BY <1>5, <1>6, <2>3 DEF Prepare
  <2>4. ASSUME NEW new, NEW page, Prepared(w, new, page), new.stopped = row.stopped,
               u \in Backfill => new = row, new.status = row.status
        PROVE  RowStep(t)
    <3>1. target' = [target EXCEPT ![u] = new] /\ handled' = handled
      BY <2>4 DEF Prepared
    <3>2. CASE t # u
      BY <1>1, <3>1, <3>2 DEF RowStep, RowKept
    <3>3. CASE t = u
      <4>1. target'[t] = new
        BY <1>1, <3>1, <3>3
      <4>2. new.status # "succeeded"
        BY <2>2, <2>4 DEF Active
      <4> QED BY <2>1, <2>2, <2>4, <3>1, <3>3, <4>1, <4>2 DEF RowStep, RowWritten
    <3> QED BY <3>2, <3>3
  <2>5. CASE access.usable /\ u \in Backfill
    BY <1>6, <2>4, <2>5 DEF Prepare
  <2>6. CASE access.usable /\ u \notin Backfill
    <3>1. PICK latest : Prepared(w, Scan(row, latest), PollingWindow(row, latest))
      BY <1>6, <2>6 DEF Prepare
    <3>2. Scan(row, latest).stopped = row.stopped /\ Scan(row, latest).status = row.status
      BY <2>2 DEF Scan, TargetRow
    <3> HIDE DEF row
    <3> QED BY <2>4, <2>6, <3>1, <3>2
  <2> QED BY <2>3, <2>5, <2>6
<1>7. ASSUME NEW w \in Worker, Save(w) PROVE RowStep(t)
  <2>1. txn = w /\ worker[w].pc = "save"
    BY <1>7 DEF Save
  <2> DEFINE u == worker[w].work
  <2>2. u \in Work /\ Active(target[u]) /\ target[u] \in TargetRow
    BY <1>1, <1>4, <2>1
  <2>3. CASE AccessFailure(w) # None
    BY <1>5, <1>7, <2>3 DEF Save
  <2>4. CASE AccessFailure(w) = None
    <3>1. /\ target' = [target EXCEPT ![u] = SavedRow(u, worker[w].page)]
          /\ handled' = IF u \in Backfill
                        THEN [handled EXCEPT ![u] = @ \cup worker[w].page.start .. worker[w].page.end - 1]
                        ELSE handled
      BY <1>7, <2>4 DEF Save
    <3>2. CASE t # u
      BY <1>1, <3>1, <3>2 DEF RowStep, RowKept
    <3>3. CASE t = u
      <4>1. target'[t] = SavedRow(t, worker[w].page)
        BY <1>1, <3>1, <3>3
      <4>2. SavedRow(t, worker[w].page).stopped = target[t].stopped
        BY <1>1 DEF SavedRow, TargetRow
      <4> HIDE DEF SavedRow
      <4>3. t \in Backfill =>
              handled'[t] = handled[t] \cup worker[w].page.start .. worker[w].page.end - 1
        BY <1>1, <3>1, <3>3
      <4> QED BY <2>1, <2>2, <2>4, <3>3, <4>1, <4>2, <4>3 DEF RowStep, RowWritten
    <3> QED BY <3>2, <3>3
  <2> QED BY <2>3, <2>4
<1>8. ASSUME NEW w \in Worker, Complete(w) PROVE RowStep(t)
  <2>1. txn = w /\ worker[w].pc = "complete"
    BY <1>8 DEF Complete
  <2> DEFINE u == worker[w].work
  <2>2. u \in Backfill /\ Active(target[u]) /\ target[u] \in TargetRow
    BY <1>1, <1>4, <2>1 DEF WorkersOK, SettledWorker
  <2>3. CASE AccessFailure(w) # None
    BY <1>5, <1>8, <2>3 DEF Complete
  <2>4. CASE AccessFailure(w) = None
    <3>1. /\ target' = [target EXCEPT ![u].status = "succeeded", ![u].failures = 0]
          /\ handled' = handled
      BY <1>8, <2>4 DEF Complete
    <3>2. CASE t # u
      BY <1>1, <3>1, <3>2 DEF RowStep, RowKept
    <3>3. CASE t = u
      <4>1. target'[t].cursor = target[t].cursor /\ target'[t].stopped = target[t].stopped
        BY <1>1, <3>1, <3>3 DEF TargetRow
      <4> QED BY <2>1, <2>2, <3>1, <3>3, <4>1 DEF RowStep, RowWritten
    <3> QED BY <3>2, <3>3
  <2> QED BY <2>3, <2>4
<1>9. ASSUME NEW w \in Worker, Fail(w) PROVE RowStep(t)
  BY <1>9, FailRows DEF RowStep
<1>10. ASSUME NEW u \in Backfill, EnqueueBackfill(u) PROVE RowStep(t)
  BY <1>1, <1>10 DEF EnqueueBackfill, RowStep, RowKept, RowQueued
<1>11. ASSUME NEW u \in Polling, EnableSubscription(u) \/ DisableSubscription(u) PROVE RowStep(t)
  <2>1. target[u].status \in {"enabled", "disabled"} /\ u \in Work
    BY ConstantsAssumption DEF RowsOK, RowOf, Work, PollingStatus
  <2> QED BY <1>1, <1>11, <2>1 DEF EnableSubscription, DisableSubscription, RowStep, RowKept, TargetRow
<1>12. ASSUME Tick PROVE RowStep(t)
  BY <1>1, <1>12 DEF Tick, RowStep, RowKept, TargetRow
<1>13. ASSUME UNCHANGED <<target, handled>> PROVE RowStep(t)
  BY <1>13, TableKept
<1> QED
  BY <1>2, <1>3, <1>6, <1>7, <1>8, <1>9, <1>10, <1>11, <1>12, <1>13
     DEF Next, Undisturbed, WorkerStep, Fault, vars, Discover, ClaimRefused, Heartbeat,
         KeepaliveDies, BeginWrite, FetchReturns, FetchFails, CancelFetch, Release, DatabaseError,
         Crash, ChangeAccess, CloseBar, QuietPeriodEnds

(* Collection never stops by itself in silence (announce_stopped).         *)
THEOREM StopsAnnounced == Spec => StopsAreAnnounced
<1>1. ASSUME IInv, [Next]_vars, NEW t \in Work,
             target[t].stopped = None, target'[t].stopped # None
      PROVE  target'[t].stopped \in told'
  <2>1. RowStep(t)
    BY <1>1, RowSteps
  <2> QED BY <1>1, <2>1 DEF RowStep, RowKept, RowFailed, RowWritten, RowQueued, NewRow, ToldAfter
<1>2. IInv /\ [Next]_vars =>
        [\A t \in Work : target[t].stopped = None /\ target'[t].stopped # None
                            => target'[t].stopped \in told']_vars
  BY <1>1
<1> QED BY <1>2, Established, Preserved, PTL DEF Spec, StopsAreAnnounced

(* A disabled subscription is left alone (guarded_write, _recover).        *)
THEOREM DisabledAlone == Spec => DisabledIsLeftAlone
<1>1. ASSUME IInv, [Next]_vars, NEW t \in Polling, target[t].status = "disabled"
      PROVE  /\ target'[t].failures = target[t].failures
             /\ target'[t].stopped = target[t].stopped
             /\ target'[t].cursor = target[t].cursor
  <2>1. t \in Work /\ t \notin Backfill /\ RowStep(t)
    BY <1>1, RowSteps, ConstantsAssumption DEF Work
  <2> QED BY <1>1, <2>1 DEF RowStep, RowKept, RowFailed, RowWritten, RowQueued, Active
<1>2. IInv /\ [Next]_vars =>
        [\A t \in Polling :
           target[t].status = "disabled" /\ target'[t].status = "disabled" =>
             /\ target'[t].failures = target[t].failures
             /\ target'[t].stopped = target[t].stopped
             /\ target'[t].cursor = target[t].cursor]_vars
  BY <1>1
<1> QED BY <1>2, Established, Preserved, PTL DEF Spec, DisabledIsLeftAlone

(* A page is saved only under the access it was fetched with (_recheck).   *)
THEOREM SavedWithItsAccess == Spec => SavedUnderItsAccess
<1>1. ASSUME IInv, [Next]_vars, NEW w \in Worker,
             worker[w].pc = "save", worker'[w].pc = "select", target' # target
      PROVE  access.usable /\ access.version = worker[w].page.access
  <2>1. worker \in [Worker -> WorkerState] /\ worker'[w] # worker[w]
    BY <1>1 DEF IInv, WorkersOK
  <2>2. PICK v \in Worker : RecoverExpired(v) \/ (\E t \in Work : Claim(v, t)) \/ Prepare(v)
                              \/ Save(v) \/ Complete(v) \/ Fail(v)
    BY <1>1, <2>1
       DEF Next, Undisturbed, WorkerStep, Fault, vars, Discover, ClaimRefused, Heartbeat,
           KeepaliveDies, BeginWrite, FetchReturns, FetchFails, CancelFetch, Release, DatabaseError,
           Crash, ChangeAccess, CloseBar, QuietPeriodEnds, EnqueueBackfill, EnableSubscription,
           DisableSubscription, Tick
  <2>3. \E s : worker' = [worker EXCEPT ![v] = s]
    BY <2>2 DEF RecoverExpired, Claim, Prepare, Prepared, RollBackTo, Save, Complete, Fail
  <2>4. v = w
    BY <2>1, <2>3
  <2>5. Save(w)
    BY <1>1, <2>2, <2>4 DEF RecoverExpired, Claim, Prepare, Complete, Fail
  <2>6. AccessFailure(w) = None
    BY <1>1, <2>5 DEF Save, RollBackTo
  <2> QED BY <2>6, FailureAssumption DEF AccessFailure, AnyFailure
<1>2. IInv /\ [Next]_vars =>
        [\A w \in Worker :
           worker[w].pc = "save" /\ worker'[w].pc = "select" /\ target' # target
             => access.usable /\ access.version = worker[w].page.access]_vars
  BY <1>1
<1> QED BY <1>2, Established, Preserved, PTL DEF Spec, SavedUnderItsAccess
-----------------------------------------------------------------------------
(* Where a page begins: a backfill without a cursor is at its first bar.   *)
Reached(cursor) == IF cursor = None THEN 0 ELSE cursor

Idling == {"discover", "select"}

(* A worker has a token while it has a claim, and no other worker has it;  *)
(* a lease that nobody holds names nothing.                                *)
ClaimsOK ==
    /\ \A w \in Worker : worker[w].token = None <=> worker[w].pc \in Idling
    /\ \A v, w \in Worker : worker[v].token = worker[w].token => v = w \/ worker[v].token = None
    /\ lease.token = None => lease = NoLease

(* The page of a backfill continues what was reached, without a gap and    *)
(* further than before; a job is completed from its end.                   *)
PagesOK ==
    \A w \in Worker : worker[w].work \in Backfill =>
        /\ worker[w].pc \in {"fetch", "save"} =>
              /\ worker[w].page.start \in 0 .. Reached(worker[w].cursor)
              /\ worker[w].page.end \in Reached(worker[w].cursor) + 1 .. BackfillEnd
        /\ worker[w].pc = "complete" => worker[w].cursor = BackfillEnd

(* A backfill stays within the range it was asked for.                     *)
CursorsOK ==
    \A t \in Backfill :
        /\ Reached(target[t].cursor) \in 0 .. BackfillEnd
        /\ handled[t] \subseteq 0 .. BackfillEnd - 1

(* What the page window of a backfill is (prepare).                        *)
LEMMA BackfillWindowBounds ==
    ASSUME NEW row, row.cursor \in Int \cup {None}, Reached(row.cursor) \in 0 .. BackfillEnd
    PROVE  /\ BackfillWindow(row).scanEnd = BackfillEnd
           /\ BackfillWindow(row).start \in 0 .. Reached(row.cursor)
           /\ \/ Reached(row.cursor) = BackfillEnd
              \/ /\ BackfillWindow(row).end \in Reached(row.cursor) + 1 .. BackfillEnd
                 /\ BackfillWindow(row).start # BackfillEnd
<1> DEFINE start == Reached(row.cursor)
           overlap == 0 < start /\ start < BackfillEnd
           from == IF overlap THEN Later(start - 1, 0) ELSE start
<1>1. start \in 0 .. BackfillEnd /\ BackfillEnd \in Nat \ {0} /\ PageSize \in Nat /\ PageSize >= 2
  BY ConstantsAssumption
<1>2. BackfillWindow(row) = [start |-> from, end |-> Earlier(BackfillEnd, from + PageSize),
                             scanEnd |-> BackfillEnd, access |-> access.version]
  BY Zenon DEF BackfillWindow, Window, Reached
<1> HIDE DEF start
<1>3. from \in 0 .. start /\ from >= start - 1
  BY <1>1 DEF Later
<1>4. start # BackfillEnd => Earlier(BackfillEnd, from + PageSize) \in start + 1 .. BackfillEnd
  BY <1>1, <1>3 DEF Earlier
<1> HIDE DEF from
<1> QED BY <1>1, <1>2, <1>3, <1>4 DEF start

(* The claims after a step of one worker that ends its claim, ...          *)
LEMMA ClaimEnds ==
    ASSUME IInv, ClaimsOK, NEW w \in Worker, NEW s, worker' = [worker EXCEPT ![w] = s],
           s.token = None, s.pc \in Idling, lease' = NoLease \/ lease' = lease
    PROVE  ClaimsOK'
<1>1. worker \in [Worker -> WorkerState]
  BY DEF IInv, WorkersOK
<1> QED BY <1>1 DEF ClaimsOK

(* ... or leaves it with its claim, if it had one.                         *)
LEMMA ClaimStays ==
    ASSUME IInv, ClaimsOK, NEW w \in Worker, NEW s, worker' = [worker EXCEPT ![w] = s],
           s.token = worker[w].token, s.pc \in Idling <=> worker[w].pc \in Idling,
           lease' = NoLease \/ lease' = lease
    PROVE  ClaimsOK'
<1>1. worker \in [Worker -> WorkerState]
  BY DEF IInv, WorkersOK
<1> QED BY <1>1 DEF ClaimsOK

(* What a worker is left with when it is done (Done).                      *)
LEMMA DoneIs ==
    ASSUME NEW w \in Worker
    PROVE  Done(w).token = None /\ Done(w).pc = "select" /\ Done(w).work = None
BY DEF Done, Idle

LEMMA ClaimsPreserved == IInv /\ ClaimsOK /\ [Next]_vars => ClaimsOK'
<1> SUFFICES ASSUME IInv, ClaimsOK, [Next]_vars PROVE ClaimsOK'
  OBVIOUS
<1>1. worker \in [Worker -> WorkerState] /\ lease \in LeaseRow /\ None \notin Token
  BY ConstantsAssumption DEF IInv, WorkersOK, LeaseOK
<1>2. ASSUME NEW w \in Worker, RecoverExpired(w) PROVE ClaimsOK'
  <2> DEFINE s == [worker[w] EXCEPT !.pc = "discover"]
  <2>1. s.token = worker[w].token /\ s.pc \in Idling /\ worker[w].pc \in Idling
    BY <1>1, <1>2 DEF RecoverExpired, WorkerState, Idling
  <2>2. worker' = [worker EXCEPT ![w] = s] /\ (lease' = NoLease \/ lease' = lease)
    BY <1>2 DEF RecoverExpired
  <2> HIDE DEF s
  <2> QED BY <2>1, <2>2, ClaimStays
<1>3. ASSUME NEW w \in Worker, Discover(w) PROVE ClaimsOK'
  <2> DEFINE s == [worker[w] EXCEPT !.pc = "select", !.queue = {t \in Work : Due(target[t])}]
  <2>1. s.token = worker[w].token /\ s.pc \in Idling /\ worker[w].pc \in Idling
    BY <1>1, <1>3 DEF Discover, WorkerState, Idling
  <2>2. worker' = [worker EXCEPT ![w] = s] /\ lease' = lease
    BY <1>3 DEF Discover
  <2> HIDE DEF s
  <2> QED BY <2>1, <2>2, ClaimStays
<1>4. ASSUME NEW w \in Worker, NEW t \in Work, ClaimRefused(w, t) PROVE ClaimsOK'
  <2> DEFINE s == [worker[w] EXCEPT !.queue = @ \ {t}]
  <2>1. s.token = worker[w].token /\ s.pc = worker[w].pc
    BY <1>1 DEF WorkerState
  <2>2. worker' = [worker EXCEPT ![w] = s] /\ lease' = lease
    BY <1>4 DEF ClaimRefused
  <2> HIDE DEF s
  <2> QED BY <2>1, <2>2, ClaimStays
<1>5. ASSUME NEW w \in Worker, NEW t \in Work, Claim(w, t) PROVE ClaimsOK'
  <2>1. CASE ~Due(RecoveredTarget[t])
    <3> DEFINE s == [worker[w] EXCEPT !.queue = @ \ {t}]
    <3>1. s.token = worker[w].token /\ s.pc = worker[w].pc
      BY <1>1 DEF WorkerState
    <3>2. worker' = [worker EXCEPT ![w] = s] /\ lease' = NoLease
      BY <1>5, <2>1 DEF Claim
    <3> HIDE DEF s
    <3> QED BY <3>1, <3>2, ClaimStays
  <2>2. CASE Due(RecoveredTarget[t])
    <3>1. PICK token \in Token \ ({lease.token} \cup {worker[v].token : v \in Worker}) :
             /\ lease' = [owner |-> w, token |-> token, work |-> t, left |-> LeaseTicks]
             /\ worker' = [worker EXCEPT ![w] = [worker[w] EXCEPT
                   !.pc = "prepare", !.queue = @ \ {t}, !.work = t,
                   !.token = token, !.cursor = RecoveredTarget[t].cursor, !.keepalive = TRUE]]
      BY <1>5, <2>2, Zenon DEF Claim
    <3>2. /\ worker'[w].token = token /\ worker'[w].pc = "prepare"
          /\ \A v \in Worker \ {w} : worker'[v] = worker[v]
      BY <1>1, <3>1 DEF WorkerState
    <3>3. token # None /\ \A v \in Worker : worker[v].token # token
      BY <1>1, <3>1
    <3> QED BY <3>1, <3>2, <3>3 DEF ClaimsOK, Idling
  <2> QED BY <2>1, <2>2
<1>6. ASSUME NEW w \in Worker, BeginWrite(w) PROVE ClaimsOK'
  <2> DEFINE s == [worker[w] EXCEPT !.pc = "release"]
  <2>1. s.token = worker[w].token /\ s.pc \notin Idling /\ worker[w].pc \notin Idling
    BY <1>1, <1>6 DEF BeginWrite, WorkerState, Idling
  <2>2. (worker' = worker \/ worker' = [worker EXCEPT ![w] = s]) /\ lease' = lease
    BY <1>6 DEF BeginWrite
  <2> HIDE DEF s
  <2>3. CASE worker' = worker
    BY <2>2, <2>3 DEF ClaimsOK
  <2> QED BY <2>1, <2>2, <2>3, ClaimStays
<1>7. ASSUME NEW w \in Worker, NEW f, RollBackTo(w, f), worker[w].pc \notin Idling PROVE ClaimsOK'
  <2> DEFINE s == [worker[w] EXCEPT !.pc = "fail", !.failure = f, !.page = NoPage, !.points = {}]
  <2>1. s.token = worker[w].token /\ s.pc \notin Idling
    BY <1>1 DEF WorkerState, Idling
  <2>2. worker' = [worker EXCEPT ![w] = s] /\ lease' = lease
    BY <1>7 DEF RollBackTo
  <2> HIDE DEF s
  <2> QED BY <1>7, <2>1, <2>2, ClaimStays
<1>8. ASSUME NEW w \in Worker, NEW row, NEW page, Prepared(w, row, page), worker[w].pc \notin Idling
      PROVE  ClaimsOK'
  <2> DEFINE pc == IF worker[w].work \in Backfill /\ page.start = page.scanEnd
                   THEN "complete" ELSE "fetch"
             s == [worker[w] EXCEPT !.cursor = row.cursor, !.page = page, !.pc = pc]
  <2>1. pc \notin Idling
    BY DEF Idling
  <2>2. worker' = [worker EXCEPT ![w] = s] /\ lease' = lease
    BY <1>8, Zenon DEF Prepared
  <2> HIDE DEF pc
  <2>3. s.token = worker[w].token /\ s.pc \notin Idling
    BY <1>1, <2>1 DEF WorkerState
  <2> HIDE DEF s
  <2> QED BY <1>8, <2>2, <2>3, ClaimStays
<1>9. ASSUME NEW w \in Worker, Prepare(w) PROVE ClaimsOK'
  <2>1. worker[w].pc \notin Idling
    BY <1>9 DEF Prepare, Idling
  <2> QED BY <1>7, <1>8, <1>9, <2>1 DEF Prepare
<1>10. ASSUME NEW w \in Worker, FetchReturns(w) \/ FetchFails(w) \/ CancelFetch(w) PROVE ClaimsOK'
  <2>1. PICK s : /\ worker' = [worker EXCEPT ![w] = s] /\ lease' = lease
                 /\ s.token = worker[w].token /\ s.pc \notin Idling
    BY <1>1, <1>10 DEF FetchReturns, FetchFails, CancelFetch, WorkerState, Idling
  <2>2. worker[w].pc \notin Idling
    BY <1>10 DEF FetchReturns, FetchFails, CancelFetch, Idling
  <2> QED BY <2>1, <2>2, ClaimStays
<1>11. ASSUME NEW w \in Worker, worker' = [worker EXCEPT ![w] = Done(w)],
              lease' = NoLease \/ lease' = lease
       PROVE  ClaimsOK'
  BY <1>11, DoneIs, ClaimEnds DEF Idling
<1>12. ASSUME NEW w \in Worker, Save(w) \/ Complete(w) \/ Fail(w) \/ Release(w) \/ DatabaseError(w)
       PROVE  ClaimsOK'
  <2>1. \/ worker' = [worker EXCEPT ![w] = Done(w)] /\ (lease' = NoLease \/ lease' = lease)
        \/ worker[w].pc \in {"save", "complete"} /\ RollBackTo(w, AccessFailure(w))
    BY <1>12 DEF Save, Complete, Fail, Release, DatabaseError
  <2> QED BY <1>7, <1>11, <2>1 DEF Idling
<1>13. ASSUME NEW w \in Worker, Crash(w) PROVE ClaimsOK'
  <2>1. Idle.token = None /\ Idle.pc \in Idling
    BY DEF Idle, Idling
  <2> QED BY <1>13, <2>1, ClaimEnds DEF Crash
<1>14. ASSUME NEW w \in Worker, Heartbeat(w) \/ KeepaliveDies(w) PROVE ClaimsOK'
  <2>1. ASSUME NEW v \in Worker
        PROVE  worker'[v].token = worker[v].token /\ worker'[v].pc = worker[v].pc
    BY <1>1, <1>14 DEF Heartbeat, KeepaliveDies, WorkerState
  <2>2. lease' = lease \/ (lease.token # None /\ lease'.token = lease.token)
    BY <1>1, <1>14 DEF Heartbeat, KeepaliveDies, Owned, LeaseRow
  <2> QED BY <2>1, <2>2 DEF ClaimsOK
<1>15. ASSUME Tick PROVE ClaimsOK'
  <2>1. lease'.token = lease.token /\ (lease = NoLease => lease' = lease)
    BY <1>1, <1>15 DEF Tick, LeaseRow, NoLease, Later
  <2> QED BY <1>15, <2>1 DEF ClaimsOK, Tick
<1>16. ASSUME UNCHANGED <<lease, worker>> PROVE ClaimsOK'
  BY <1>16 DEF ClaimsOK
<1> QED
  BY <1>2, <1>3, <1>4, <1>5, <1>6, <1>9, <1>10, <1>12, <1>13, <1>14, <1>15, <1>16
     DEF Next, Undisturbed, WorkerStep, Fault, vars, ChangeAccess, CloseBar, QuietPeriodEnds,
         EnqueueBackfill, EnableSubscription, DisableSubscription

(* A worker that is not on a page of a backfill has no page to answer for. *)
LEMMA PagesKept ==
    ASSUME IInv, PagesOK, NEW w \in Worker, NEW s, worker' = [worker EXCEPT ![w] = s],
           s.pc \notin {"fetch", "save", "complete"}
    PROVE  PagesOK'
<1>1. worker \in [Worker -> WorkerState]
  BY DEF IInv, WorkersOK
<1> QED BY <1>1 DEF PagesOK

LEMMA PagesPreserved == IInv /\ PagesOK /\ CursorsOK /\ [Next]_vars => PagesOK'
<1> SUFFICES ASSUME IInv, PagesOK, CursorsOK, [Next]_vars PROVE PagesOK'
  OBVIOUS
<1>1. worker \in [Worker -> WorkerState] /\ target \in [Work -> TargetRow]
  BY DEF IInv, WorkersOK, RowsOK
<1>2. ASSUME NEW w \in Worker,
             \/ RecoverExpired(w) \/ Discover(w) \/ \E t \in Work : ClaimRefused(w, t) \/ Claim(w, t)
             \/ FetchFails(w) \/ CancelFetch(w)
      PROVE  PagesOK'
  <2>1. PICK s : worker' = [worker EXCEPT ![w] = s] /\ s.pc \notin {"fetch", "save", "complete"}
    <3>1. CASE RecoverExpired(w) \/ Discover(w) \/ FetchFails(w) \/ CancelFetch(w)
      BY <1>1, <3>1 DEF RecoverExpired, Discover, FetchFails, CancelFetch, WorkerState
    <3>2. CASE \E t \in Work : ClaimRefused(w, t)
      <4>1. PICK t \in Work : ClaimRefused(w, t)
        BY <3>2
      <4> DEFINE s == [worker[w] EXCEPT !.queue = @ \ {t}]
      <4>2. worker' = [worker EXCEPT ![w] = s] /\ s.pc = "select"
        BY <1>1, <4>1 DEF ClaimRefused, WorkerState
      <4> HIDE DEF s
      <4> QED BY <4>2
    <3>3. CASE \E t \in Work : Claim(w, t)
      <4>1. PICK t \in Work : Claim(w, t)
        BY <3>3
      <4>2. CASE Due(RecoveredTarget[t])
        <5>1. PICK token : worker' = [worker EXCEPT ![w] = [worker[w] EXCEPT
                   !.pc = "prepare", !.queue = @ \ {t}, !.work = t,
                   !.token = token, !.cursor = RecoveredTarget[t].cursor, !.keepalive = TRUE]]
          BY <4>1, <4>2, Zenon DEF Claim
        <5> DEFINE s == [worker[w] EXCEPT
                   !.pc = "prepare", !.queue = @ \ {t}, !.work = t,
                   !.token = token, !.cursor = RecoveredTarget[t].cursor, !.keepalive = TRUE]
        <5>2. worker' = [worker EXCEPT ![w] = s] /\ s.pc = "prepare"
          BY <1>1, <5>1 DEF WorkerState
        <5> HIDE DEF s
        <5> QED BY <5>2
      <4>3. CASE ~Due(RecoveredTarget[t])
        <5> DEFINE s == [worker[w] EXCEPT !.queue = @ \ {t}]
        <5>1. worker' = [worker EXCEPT ![w] = s] /\ s.pc = "select"
          BY <1>1, <4>1, <4>3 DEF Claim, WorkerState
        <5> HIDE DEF s
        <5> QED BY <5>1
      <4> QED BY <4>2, <4>3
    <3> QED BY <1>2, <3>1, <3>2, <3>3
  <2> QED BY <2>1, PagesKept
<1>3. ASSUME NEW w \in Worker, BeginWrite(w) PROVE PagesOK'
  <2>1. CASE worker' = worker
    BY <2>1 DEF PagesOK
  <2>2. CASE worker' = [worker EXCEPT ![w].pc = "release"]
    <3> DEFINE s == [worker[w] EXCEPT !.pc = "release"]
    <3>1. s.pc = "release" /\ worker' = [worker EXCEPT ![w] = s]
      BY <1>1, <2>2 DEF WorkerState
    <3> HIDE DEF s
    <3> QED BY <3>1, PagesKept
  <2> QED BY <1>3, <2>1, <2>2 DEF BeginWrite
<1>4. ASSUME NEW w \in Worker, NEW f, RollBackTo(w, f) PROVE PagesOK'
  <2> DEFINE s == [worker[w] EXCEPT !.pc = "fail", !.failure = f, !.page = NoPage, !.points = {}]
  <2>1. s.pc = "fail" /\ worker' = [worker EXCEPT ![w] = s]
    BY <1>1, <1>4 DEF RollBackTo, WorkerState
  <2> HIDE DEF s
  <2> QED BY <2>1, PagesKept
<1>5. ASSUME NEW w \in Worker, Prepare(w) PROVE PagesOK'
  <2> DEFINE t == worker[w].work
             row == target[t]
  <2>1. t \in Work /\ row \in TargetRow /\ txn = w
    <3>1. txn = w
      BY <1>5 DEF Prepare
    <3> QED BY <3>1, WriterFacts DEF IInv
  <2>2. CASE ~access.usable
    BY <1>4, <1>5, <2>2 DEF Prepare
  <2>3. CASE access.usable /\ t \in Backfill
    <3> DEFINE page == BackfillWindow(row)
               pc == IF t \in Backfill /\ page.start = page.scanEnd THEN "complete" ELSE "fetch"
               s == [worker[w] EXCEPT !.cursor = row.cursor, !.page = page, !.pc = pc]
    <3>1. worker' = [worker EXCEPT ![w] = s]
      BY <1>5, <2>3, Zenon DEF Prepare, Prepared
    <3>2. row.cursor \in Int \cup {None} /\ Reached(row.cursor) \in 0 .. BackfillEnd
      BY <2>1, <2>3 DEF TargetRow, CursorsOK
    <3> HIDE DEF row
    <3>3. /\ page.scanEnd = BackfillEnd /\ page.start \in 0 .. Reached(row.cursor)
          /\ \/ Reached(row.cursor) = BackfillEnd
             \/ page.end \in Reached(row.cursor) + 1 .. BackfillEnd /\ page.start # BackfillEnd
      BY <3>2, BackfillWindowBounds
    <3>4. /\ pc = "complete" => page.start = page.scanEnd
          /\ pc = "fetch" => page.start # page.scanEnd
          /\ pc \in {"complete", "fetch"}
      BY <2>3
    <3>5. Reached(row.cursor) = BackfillEnd => page.start = BackfillEnd
      <4>1. ASSUME Reached(row.cursor) = BackfillEnd PROVE page.start = BackfillEnd
        BY <3>2, <4>1, ConstantsAssumption, Z3 DEF page, BackfillWindow, Window, Reached
      <4> QED BY <4>1
    <3> HIDE DEF pc, page
    <3>6. s.cursor = row.cursor /\ s.page = page /\ s.pc = pc /\ s.work = t
      BY <1>1 DEF WorkerState
    <3> HIDE DEF s
    <3>7. /\ pc = "complete" => row.cursor = BackfillEnd
          /\ pc = "fetch" => page.end \in Reached(row.cursor) + 1 .. BackfillEnd
      <4>1. BackfillEnd \in Nat \ {0}
        BY ConstantsAssumption
      <4>2. pc = "complete" => Reached(row.cursor) = BackfillEnd
        BY <3>2, <3>3, <3>4, <4>1
      <4> QED BY <3>3, <3>4, <3>5, <4>1, <4>2 DEF Reached
    <3> QED BY <1>1, <3>1, <3>3, <3>4, <3>6, <3>7 DEF PagesOK
  <2>4. CASE access.usable /\ t \notin Backfill
    <3>1. PICK latest : Prepared(w, Scan(row, latest), PollingWindow(row, latest))
      BY <1>5, <2>4 DEF Prepare
    <3>2. worker' = [worker EXCEPT ![w] = [worker[w] EXCEPT
             !.cursor = Scan(row, latest).cursor, !.page = PollingWindow(row, latest), !.pc = "fetch"]]
      BY <2>4, <3>1 DEF Prepared
    <3>3. worker'[w].work = t /\ \A v \in Worker \ {w} : worker'[v] = worker[v]
      BY <1>1, <3>2 DEF WorkerState
    <3> QED BY <2>4, <3>3 DEF PagesOK
  <2> QED BY <2>2, <2>3, <2>4
<1>6. ASSUME NEW w \in Worker, FetchReturns(w) PROVE PagesOK'
  <2>1. PICK points : worker' = [worker EXCEPT ![w].pc = "save", ![w].points = points]
    BY <1>6 DEF FetchReturns
  <2>2. /\ worker[w].pc = "fetch"
        /\ worker'[w].pc = "save" /\ worker'[w].page = worker[w].page
        /\ worker'[w].work = worker[w].work /\ worker'[w].cursor = worker[w].cursor
        /\ \A v \in Worker \ {w} : worker'[v] = worker[v]
    BY <1>1, <1>6, <2>1 DEF FetchReturns, WorkerState
  <2> QED BY <2>2 DEF PagesOK
<1>7. ASSUME NEW w \in Worker, Save(w) \/ Complete(w) \/ Fail(w) \/ Release(w) \/ DatabaseError(w)
      PROVE  PagesOK'
  <2>1. worker' = [worker EXCEPT ![w] = Done(w)] \/ RollBackTo(w, AccessFailure(w))
    BY <1>7 DEF Save, Complete, Fail, Release, DatabaseError
  <2>2. CASE worker' = [worker EXCEPT ![w] = Done(w)]
    BY <2>2, DoneIs, PagesKept
  <2> QED BY <1>4, <2>1, <2>2
<1>8. ASSUME NEW w \in Worker, Crash(w) PROVE PagesOK'
  <2>1. Idle.pc = "discover"
    BY DEF Idle
  <2> QED BY <1>8, <2>1, PagesKept DEF Crash
<1>9. ASSUME NEW w \in Worker, Heartbeat(w) \/ KeepaliveDies(w) PROVE PagesOK'
  <2>1. ASSUME NEW v \in Worker
        PROVE  /\ worker'[v].work = worker[v].work /\ worker'[v].pc = worker[v].pc
               /\ worker'[v].page = worker[v].page /\ worker'[v].cursor = worker[v].cursor
    BY <1>1, <1>9 DEF Heartbeat, KeepaliveDies, WorkerState
  <2> QED BY <2>1 DEF PagesOK
<1>10. ASSUME UNCHANGED worker PROVE PagesOK'
  BY <1>10 DEF PagesOK
<1> QED
  BY <1>2, <1>3, <1>5, <1>6, <1>7, <1>8, <1>9, <1>10
     DEF Next, Undisturbed, WorkerStep, Fault, vars, ChangeAccess, CloseBar, QuietPeriodEnds,
         EnqueueBackfill, EnableSubscription, DisableSubscription, Tick

(* What was asked for is reached bar by bar (save, complete).              *)
LEMMA CursorsPreserved ==
    IInv /\ PagesOK /\ CursorsOK /\ CursorMeansHandled /\ [Next]_vars
        => (CursorsOK /\ CursorMeansHandled)'
<1> SUFFICES ASSUME IInv, PagesOK, CursorsOK, CursorMeansHandled, [Next]_vars, NEW t \in Backfill
             PROVE  /\ Reached(target'[t].cursor) \in 0 .. BackfillEnd
                    /\ handled'[t] \subseteq 0 .. BackfillEnd - 1
                    /\ target'[t].cursor # None => 0 .. target'[t].cursor - 1 \subseteq handled'[t]
                    /\ target'[t].status = "succeeded" => handled'[t] = 0 .. BackfillEnd - 1
  BY DEF CursorsOK, CursorMeansHandled, Reached
<1>1. /\ t \in Work /\ t \notin Polling /\ target[t] \in TargetRow /\ None \notin Int
      /\ BackfillEnd \in Nat /\ handled[t] \subseteq Int
  BY ConstantsAssumption DEF Work, IInv, RowsOK, RestOK
<1>2. /\ Reached(target[t].cursor) \in 0 .. BackfillEnd
      /\ handled[t] \subseteq 0 .. BackfillEnd - 1
      /\ target[t].cursor # None => 0 .. target[t].cursor - 1 \subseteq handled[t]
      /\ target[t].status = "succeeded" => handled[t] = 0 .. BackfillEnd - 1
  BY DEF CursorsOK, CursorMeansHandled
<1>3. RowStep(t)
  BY <1>1, RowSteps
<1>4. CASE RowKept(t) \/ RowFailed(t)
  BY <1>2, <1>4 DEF RowKept, RowFailed
<1>5. CASE RowQueued(t)
  BY <1>1, <1>5 DEF RowQueued, NewRow, Reached
<1>6. CASE RowWritten(t)
  <2>1. PICK w \in Worker :
          /\ txn = w /\ worker[w].work = t
          /\ \/ /\ target'[t].cursor = target[t].cursor /\ handled'[t] = handled[t]
                /\ target'[t].status # "succeeded"
             \/ /\ worker[w].pc = "save" /\ target'[t] = SavedRow(t, worker[w].page)
                /\ handled'[t] = handled[t] \cup worker[w].page.start .. worker[w].page.end - 1
             \/ /\ worker[w].pc = "complete"
                /\ target'[t].cursor = target[t].cursor /\ handled'[t] = handled[t]
    BY <1>6 DEF RowWritten
  <2>2. target[t].cursor = worker[w].cursor /\ target[t].status # "succeeded"
    BY <1>6, <2>1, WriterFacts DEF IInv, RowWritten, Active
  <2>3. CASE worker[w].pc = "save" /\ target'[t] = SavedRow(t, worker[w].page)
             /\ handled'[t] = handled[t] \cup worker[w].page.start .. worker[w].page.end - 1
    <3>1. /\ worker[w].page.start \in 0 .. Reached(target[t].cursor)
          /\ worker[w].page.end \in Reached(target[t].cursor) + 1 .. BackfillEnd
      BY <2>1, <2>2, <2>3 DEF PagesOK
    <3>2. target'[t].cursor = worker[w].page.end /\ target'[t].status = target[t].status
      BY <1>1, <2>3 DEF SavedRow, TargetRow
    <3>3. 0 .. worker[w].page.end - 1 \subseteq handled'[t]
      <4>1. 0 .. Reached(target[t].cursor) - 1 \subseteq handled[t]
        BY <1>2 DEF Reached
      <4> QED BY <1>2, <2>3, <3>1, <4>1
    <3>4. handled'[t] \subseteq 0 .. BackfillEnd - 1
      BY <1>1, <1>2, <2>3, <3>1
    <3>5. Reached(worker[w].page.end) \in 0 .. BackfillEnd
      BY <1>1, <1>2, <3>1 DEF Reached
    <3> QED BY <2>2, <3>2, <3>3, <3>4, <3>5
  <2>4. CASE worker[w].pc = "complete" /\ target'[t].cursor = target[t].cursor
             /\ handled'[t] = handled[t]
    <3>1. target[t].cursor = BackfillEnd
      BY <2>1, <2>2, <2>4 DEF PagesOK
    <3>2. 0 .. BackfillEnd - 1 \subseteq handled[t]
      BY <1>1, <1>2, <3>1
    <3>3. handled[t] = 0 .. BackfillEnd - 1
      BY <1>2, <3>2
    <3> QED BY <1>2, <2>4, <3>3
  <2>5. CASE /\ target'[t].cursor = target[t].cursor /\ handled'[t] = handled[t]
             /\ target'[t].status # "succeeded"
    BY <1>2, <2>5
  <2> QED BY <2>1, <2>3, <2>4, <2>5
<1> QED BY <1>3, <1>4, <1>5, <1>6 DEF RowStep

FeedInv == IInv /\ ClaimsOK /\ PagesOK /\ CursorsOK /\ CursorMeansHandled

LEMMA FeedInvariant == Spec => []FeedInv
<1>1. Init => FeedInv
  <2> SUFFICES ASSUME Init PROVE FeedInv
    OBVIOUS
  <2>1. ClaimsOK /\ PagesOK
    BY ConstantsAssumption DEF Init, ClaimsOK, PagesOK, Idle, Idling
  <2>2. CursorsOK /\ CursorMeansHandled
    <3>1. ASSUME NEW t \in Backfill
          PROVE target[t].cursor = None /\ target[t].status = "none" /\ handled[t] = {}
      BY DEF Init, NewRow, Work
    <3>2. 0 \in 0 .. BackfillEnd
      BY ConstantsAssumption
    <3> QED BY <3>1, <3>2 DEF CursorsOK, CursorMeansHandled, Reached
  <2> QED BY <2>1, <2>2, Established DEF FeedInv
<1>2. FeedInv /\ [Next]_vars => FeedInv'
  BY Preserved, ClaimsPreserved, PagesPreserved, CursorsPreserved DEF FeedInv
<1> QED BY <1>1, <1>2, PTL DEF Spec

(* The cursor of a backfill is the upper end of what was handled of it, and*)
(* it succeeds with its whole range (prepare, save, complete).             *)
THEOREM CursorIsHandled == Spec => []CursorMeansHandled
<1>1. FeedInv => CursorMeansHandled
  BY DEF FeedInv
<1> QED BY <1>1, FeedInvariant, PTL
-----------------------------------------------------------------------------
(* The refinement of FencedFeed. The progress of the feed as a function of *)
(* the rows, and what the steps that leave it alone do.                    *)
Clients == {worker[w].token : w \in Worker} \ {None}
Progress == [t \in Backfill |-> IF target[t].cursor = None THEN 0 ELSE target[t].cursor]
Finished == {t \in Backfill : target[t].status = "succeeded"}

LEMMA MappedInit == Init => Feed!FeedInit
BY DEF Init, Feed!FeedInit, Idle, NoLease, NewRow, Work

(* A step that keeps what is reached and done of each backfill keeps the   *)
(* progress of the feed.                                                   *)
LEMMA ProgressKept ==
    ASSUME \A t \in Backfill : RowKept(t) \/ RowFailed(t)
    PROVE  Progress' = Progress /\ Finished' = Finished
<1>1. \A t \in Backfill : target'[t].cursor = target[t].cursor
  BY DEF RowKept, RowFailed
<1>2. \A t \in Backfill : target'[t].status = "succeeded" <=> target[t].status = "succeeded"
  BY DEF RowKept, RowFailed, Active
<1>3. Progress' = Progress
  BY <1>1 DEF Progress
<1>4. Finished' = Finished
  BY <1>2 DEF Finished
<1> QED BY <1>3, <1>4

(* A worker that gives up its claim leaves the clients.                    *)
LEMMA ClientLeaves ==
    ASSUME IInv, ClaimsOK, NEW w \in Worker, NEW s, worker' = [worker EXCEPT ![w] = s],
           s.token = None
    PROVE  Clients' = Clients \ {worker[w].token}
<1>1. worker \in [Worker -> WorkerState]
  BY DEF IInv, WorkersOK
<1>2. worker'[w] = s /\ \A v \in Worker \ {w} : worker'[v] = worker[v]
  BY <1>1
<1>3. \A v \in Worker \ {w} : worker[v].token = worker[w].token => worker[v].token = None
  BY DEF ClaimsOK
<1> QED BY <1>2, <1>3 DEF Clients

(* The clients of a step that gives and takes no token.                    *)
LEMMA ClientsStay ==
    ASSUME \A v \in Worker : worker'[v].token = worker[v].token
    PROVE  Clients' = Clients
BY DEF Clients

(* A worker that is on a claim is a client, by its own token.              *)
LEMMA IsClient ==
    ASSUME IInv, ClaimsOK, NEW w \in Worker, worker[w].pc \notin Idling
    PROVE  worker[w].token \in Token /\ worker[w].token \in Clients
BY DEF IInv, WorkersOK, WorkerState, ClaimsOK, Clients

(* The worker that has an open write holds the feed.                       *)
LEMMA IsHolder ==
    ASSUME IInv, ClaimsOK, NEW w \in Worker, txn = w
    PROVE  /\ lease.token = worker[w].token /\ lease.work = worker[w].work
           /\ lease.token \in Token /\ lease.token \in Clients
           /\ Active(target[lease.work])
<1>1. txn # None /\ worker[w].pc \notin Idling
  BY ConstantsAssumption DEF IInv, WriterOK, Idling
<1> QED BY <1>1, IsClient DEF IInv, OpenWriteIsOwner

(* The steps of the feed, in the terms of the map.                         *)
LEMMA FeedStutters ==
    ASSUME lease'.token = lease.token, lease'.work = lease.work,
           Clients' = Clients, Progress' = Progress, Finished' = Finished
    PROVE  [Feed!FeedNext]_Feed!feedVars
BY DEF Feed!feedVars, Clients, Progress, Finished

LEMMA FeedTakes ==
    ASSUME NEW token \in Token, NEW t \in Work, token \notin Clients \cup {lease.token},
           lease'.token = token, lease'.work = t, Clients' = Clients \cup {token},
           Progress' = Progress, Finished' = Finished
    PROVE  Feed!FeedNext
<1>1. Feed!Take(token, t)
  BY DEF Feed!Take, Clients, Progress, Finished
<1> QED BY <1>1 DEF Feed!FeedNext

LEMMA FeedExpires ==
    ASSUME lease.token # None, lease' = NoLease,
           Clients' = Clients, Progress' = Progress, Finished' = Finished
    PROVE  Feed!FeedNext
<1>1. Feed!Expire
  BY DEF Feed!Expire, NoLease, Clients, Progress, Finished
<1> QED BY <1>1 DEF Feed!FeedNext

LEMMA FeedGivenUp ==
    ASSUME NEW token \in Token, token \in Clients, Clients' = Clients \ {token},
           lease' = lease \/ (lease.token = token /\ lease' = NoLease),
           Progress' = Progress, Finished' = Finished
    PROVE  Feed!FeedNext
<1>1. Feed!GiveUp(token)
  BY DEF Feed!GiveUp, NoLease, Clients, Progress, Finished
<1> QED BY <1>1 DEF Feed!FeedNext

LEMMA FeedReturned ==
    ASSUME lease.token \in Clients, Clients' = Clients \ {lease.token}, lease' = NoLease
    PROVE  Feed!Return
BY DEF Feed!Return, NoLease, Clients

LEMMA FeedAdvances ==
    ASSUME Feed!Return, lease.work \in Backfill \ Finished,
           NEW p \in Progress[lease.work] + 1 .. BackfillEnd,
           Progress' = [Progress EXCEPT ![lease.work] = p], Finished' = Finished
    PROVE  Feed!FeedNext
<1>1. Feed!Advance
  BY DEF Feed!Advance, Progress, Finished
<1> QED BY <1>1 DEF Feed!FeedNext

LEMMA FeedFinishes ==
    ASSUME Feed!Return, lease.work \in Backfill \ Finished, Progress[lease.work] = BackfillEnd,
           Progress' = Progress, Finished' = Finished \cup {lease.work}
    PROVE  Feed!FeedNext
<1>1. Feed!Finish
  BY DEF Feed!Finish, Progress, Finished
<1> QED BY <1>1 DEF Feed!FeedNext

LEMMA FeedRestarts ==
    ASSUME NEW t \in Backfill, lease.work # t, UNCHANGED lease, Clients' = Clients,
           Progress' = [Progress EXCEPT ![t] = 0], Finished' = Finished \ {t}
    PROVE  Feed!FeedNext
<1>1. Feed!Restart(t)
  BY DEF Feed!Restart, Clients, Progress, Finished
<1> QED BY <1>1 DEF Feed!FeedNext

(* Each step of the lease protocol is a step of the feed, or leaves it.    *)
LEMMA MappedNext == FeedInv /\ [Next]_vars => [Feed!FeedNext]_Feed!feedVars
<1> SUFFICES ASSUME IInv, ClaimsOK, PagesOK, CursorsOK, [Next]_vars
             PROVE  [Feed!FeedNext]_Feed!feedVars
  BY DEF FeedInv
<1> USE DEF IInv
<1>1. /\ worker \in [Worker -> WorkerState] /\ lease \in LeaseRow
      /\ target \in [Work -> TargetRow] /\ None \notin Token /\ Backfill \subseteq Work
      /\ Backfill \cap Polling = {}
  BY ConstantsAssumption DEF WorkersOK, LeaseOK, RowsOK, Work
<1>2. ASSUME UNCHANGED <<target>> PROVE Progress' = Progress /\ Finished' = Finished
  BY <1>2 DEF Progress, Finished
<1>3. ASSUME lease' = NoLease \/ lease' = lease, Clients' = Clients,
             Progress' = Progress, Finished' = Finished
      PROVE  [Feed!FeedNext]_Feed!feedVars
  <2>1. CASE lease' = NoLease /\ lease.token # None
    BY <1>3, <2>1, FeedExpires
  <2>2. CASE lease' = lease
    BY <1>3, <2>2, FeedStutters
  <2>3. CASE lease' = NoLease /\ lease.token = None
    BY <2>2, <2>3 DEF ClaimsOK
  <2> QED BY <1>3, <2>1, <2>2, <2>3
<1>4. ASSUME NEW w \in Worker, RecoverExpired(w) PROVE [Feed!FeedNext]_Feed!feedVars
  <2>1. Progress' = Progress /\ Finished' = Finished
    BY <1>1, <1>4, RecoverRows, ProgressKept
  <2>2. Clients' = Clients
    <3>1. \A v \in Worker : worker'[v].token = worker[v].token
      BY <1>1, <1>4 DEF RecoverExpired, WorkerState
    <3> QED BY <3>1, ClientsStay
  <2> QED BY <1>3, <1>4, <2>1, <2>2 DEF RecoverExpired
<1>5. ASSUME NEW w \in Worker, NEW t \in Work, Claim(w, t) PROVE [Feed!FeedNext]_Feed!feedVars
  <2>1. Progress' = Progress /\ Finished' = Finished
    BY <1>1, <1>5, ClaimRows, ProgressKept
  <2>2. CASE ~Due(RecoveredTarget[t])
    <3>1. lease' = NoLease /\ worker' = [worker EXCEPT ![w].queue = @ \ {t}]
      BY <1>5, <2>2 DEF Claim
    <3>2. \A v \in Worker : worker'[v].token = worker[v].token
      BY <1>1, <3>1 DEF WorkerState
    <3> QED BY <1>3, <2>1, <3>1, <3>2, ClientsStay
  <2>3. CASE Due(RecoveredTarget[t])
    <3>1. PICK token \in Token \ ({lease.token} \cup {worker[v].token : v \in Worker}) :
             /\ lease' = [owner |-> w, token |-> token, work |-> t, left |-> LeaseTicks]
             /\ worker' = [worker EXCEPT ![w] = [worker[w] EXCEPT
                   !.pc = "prepare", !.queue = @ \ {t}, !.work = t,
                   !.token = token, !.cursor = RecoveredTarget[t].cursor, !.keepalive = TRUE]]
      BY <1>5, <2>3, Zenon DEF Claim
    <3>2. worker'[w].token = token /\ \A v \in Worker \ {w} : worker'[v] = worker[v]
      BY <1>1, <3>1 DEF WorkerState
    <3>3. worker[w].token = None
      BY <1>5 DEF Claim, ClaimsOK, Idling
    <3>4. Clients' = Clients \cup {token}
      BY <1>1, <3>1, <3>2, <3>3 DEF Clients
    <3>5. token \in Token /\ token \notin Clients \cup {lease.token}
      BY <3>1 DEF Clients
    <3>6. lease'.token = token /\ lease'.work = t
      BY <3>1
    <3> QED BY <2>1, <3>4, <3>5, <3>6, FeedTakes
  <2> QED BY <2>2, <2>3
<1>6. ASSUME UNCHANGED <<lease, target>>, \A v \in Worker : worker'[v].token = worker[v].token
      PROVE  [Feed!FeedNext]_Feed!feedVars
  BY <1>2, <1>6, ClientsStay, FeedStutters
<1>7. ASSUME NEW w \in Worker, NEW f, RollBackTo(w, f) PROVE [Feed!FeedNext]_Feed!feedVars
  <2>1. \A v \in Worker : worker'[v].token = worker[v].token
    BY <1>1, <1>7 DEF RollBackTo, WorkerState
  <2> QED BY <1>6, <1>7, <2>1 DEF RollBackTo
<1>8. ASSUME NEW w \in Worker, Prepare(w) PROVE [Feed!FeedNext]_Feed!feedVars
  <2> DEFINE t == worker[w].work
             row == target[t]
  <2>1. txn = w /\ t \in Work /\ row \in TargetRow
    <3>1. txn = w
      BY <1>8 DEF Prepare
    <3> QED BY <3>1, WriterFacts
  <2>2. CASE ~access.usable
    BY <1>7, <1>8, <2>2 DEF Prepare
  <2>3. ASSUME NEW new, NEW page, Prepared(w, new, page), t \in Backfill => new = row
        PROVE  [Feed!FeedNext]_Feed!feedVars
    <3>1. \A v \in Worker : worker'[v].token = worker[v].token
      <4> DEFINE pc == IF t \in Backfill /\ page.start = page.scanEnd THEN "complete" ELSE "fetch"
                 s == [worker[w] EXCEPT !.cursor = new.cursor, !.page = page, !.pc = pc]
      <4>1. worker' = [worker EXCEPT ![w] = s]
        BY <2>3, Zenon DEF Prepared
      <4> HIDE DEF pc
      <4>2. s.token = worker[w].token
        BY <1>1 DEF WorkerState
      <4> HIDE DEF s
      <4> QED BY <1>1, <4>1, <4>2
    <3>2. target' = [target EXCEPT ![t] = new] /\ lease' = lease
      BY <2>3 DEF Prepared
    <3>3. \A u \in Backfill : target'[u] = target[u]
      BY <1>1, <2>3, <3>2
    <3>4. Progress' = Progress /\ Finished' = Finished
      BY <3>3 DEF Progress, Finished
    <3> QED BY <3>1, <3>2, <3>4, ClientsStay, FeedStutters
  <2>4. CASE access.usable /\ t \in Backfill
    BY <1>8, <2>3, <2>4 DEF Prepare
  <2>5. CASE access.usable /\ t \notin Backfill
    <3>1. PICK latest : Prepared(w, Scan(row, latest), PollingWindow(row, latest))
      BY <1>8, <2>5 DEF Prepare
    <3> HIDE DEF row
    <3> QED BY <2>3, <2>5, <3>1
  <2> QED BY <2>2, <2>4, <2>5
<1>9. ASSUME NEW w \in Worker, worker' = [worker EXCEPT ![w] = Done(w)]
      PROVE  Clients' = Clients \ {worker[w].token}
  BY <1>9, ClientLeaves, DoneIs
<1>10. ASSUME NEW w \in Worker, Save(w) PROVE [Feed!FeedNext]_Feed!feedVars
  <2> DEFINE t == worker[w].work
             page == worker[w].page
  <2>1. txn = w /\ worker[w].pc = "save"
    BY <1>10 DEF Save
  <2>2. /\ lease.token = worker[w].token /\ lease.work = t /\ lease.token \in Token
        /\ lease.token \in Clients /\ Active(target[t]) /\ target[t].cursor = worker[w].cursor
        /\ t \in Work
    BY <2>1, IsHolder, WriterFacts
  <2>3. CASE AccessFailure(w) # None
    BY <1>7, <1>10, <2>3 DEF Save
  <2>4. CASE AccessFailure(w) = None
    <3>1. /\ target' = [target EXCEPT ![t] = SavedRow(t, page)]
          /\ lease' = NoLease /\ worker' = [worker EXCEPT ![w] = Done(w)]
      BY <1>10, <2>4 DEF Save
    <3>2. Clients' = Clients \ {lease.token}
      BY <1>9, <2>2, <3>1
    <3>3. CASE t \in Backfill
      <4>1. page.end \in Reached(worker[w].cursor) + 1 .. BackfillEnd
        BY <2>1, <3>3 DEF PagesOK
      <4>2. SavedRow(t, page).cursor = page.end /\ SavedRow(t, page).status = target[t].status
        BY <1>1, <3>3 DEF SavedRow, TargetRow
      <4>3. \A u \in Backfill : /\ u # t => target'[u] = target[u]
                                /\ u = t => target'[u] = SavedRow(t, page)
        BY <1>1, <3>1
      <4>4. page.end # None
        BY <4>1, ConstantsAssumption
      <4>5. Progress' = [Progress EXCEPT ![t] = page.end]
        BY <4>2, <4>3, <4>4 DEF Progress
      <4>6. Finished' = Finished
        BY <4>2, <4>3 DEF Finished
      <4>7. page.end \in Progress[lease.work] + 1 .. BackfillEnd
        BY <2>2, <3>3, <4>1 DEF Progress, Reached
      <4>8. lease.work \in Backfill \ Finished
        BY <2>2, <3>3 DEF Finished, Active
      <4>9. Feed!Return
        BY <2>2, <3>1, <3>2, FeedReturned
      <4> QED BY <2>2, <4>5, <4>6, <4>7, <4>8, <4>9, FeedAdvances
    <3>4. CASE t \notin Backfill
      <4>1. \A u \in Backfill : target'[u] = target[u]
        BY <1>1, <3>1, <3>4
      <4>2. Progress' = Progress /\ Finished' = Finished
        BY <4>1 DEF Progress, Finished
      <4> QED BY <2>2, <3>1, <3>2, <4>2, FeedGivenUp
    <3> QED BY <3>3, <3>4
  <2> QED BY <2>3, <2>4
<1>11. ASSUME NEW w \in Worker, Complete(w) PROVE [Feed!FeedNext]_Feed!feedVars
  <2> DEFINE t == worker[w].work
  <2>1. txn = w /\ worker[w].pc = "complete"
    BY <1>11 DEF Complete
  <2>2. /\ lease.token = worker[w].token /\ lease.work = t
        /\ lease.token \in Clients /\ Active(target[t]) /\ target[t].cursor = worker[w].cursor
        /\ t \in Backfill
    BY <2>1, IsHolder, WriterFacts DEF WorkersOK, SettledWorker
  <2>3. CASE AccessFailure(w) # None
    BY <1>7, <1>11, <2>3 DEF Complete
  <2>4. CASE AccessFailure(w) = None
    <3>1. /\ target' = [target EXCEPT ![t].status = "succeeded", ![t].failures = 0]
          /\ lease' = NoLease /\ worker' = [worker EXCEPT ![w] = Done(w)]
      BY <1>11, <2>4 DEF Complete
    <3>2. Clients' = Clients \ {lease.token}
      BY <1>9, <2>2, <3>1
    <3>3. /\ \A u \in Backfill : target'[u].cursor = target[u].cursor
          /\ \A u \in Backfill \ {t} : target'[u] = target[u]
          /\ target'[t].status = "succeeded"
      BY <1>1, <2>2, <3>1 DEF TargetRow
    <3>4. Progress' = Progress
      BY <3>3 DEF Progress
    <3>5. Finished' = Finished \cup {t}
      BY <2>2, <3>3 DEF Finished
    <3>6. worker[w].cursor = BackfillEnd /\ BackfillEnd # None
      BY <2>1, <2>2, ConstantsAssumption DEF PagesOK
    <3>7. Progress[t] = BackfillEnd
      BY <2>2, <3>6 DEF Progress
    <3>8. t \in Backfill \ Finished
      BY <2>2 DEF Finished, Active
    <3>9. Feed!Return
      BY <2>2, <3>1, <3>2, FeedReturned
    <3> QED BY <2>2, <3>4, <3>5, <3>7, <3>8, <3>9, FeedFinishes
  <2> QED BY <2>3, <2>4
<1>12. ASSUME NEW w \in Worker, Fail(w) PROVE [Feed!FeedNext]_Feed!feedVars
  <2>1. Progress' = Progress /\ Finished' = Finished
    BY <1>1, <1>12, FailRows, ProgressKept
  <2>2. txn = w /\ worker' = [worker EXCEPT ![w] = Done(w)] /\ lease' = NoLease
    BY <1>12 DEF Fail
  <2>3. lease.token = worker[w].token /\ lease.token \in Token /\ lease.token \in Clients
    BY <2>2, IsHolder
  <2> QED BY <1>9, <2>1, <2>2, <2>3, FeedGivenUp
<1>13. ASSUME NEW w \in Worker, worker[w].pc \notin Idling, UNCHANGED target,
              NEW s, worker' = [worker EXCEPT ![w] = s], s.token = None,
              lease' = lease \/ (lease.token = worker[w].token /\ lease' = NoLease)
       PROVE  [Feed!FeedNext]_Feed!feedVars
  <2>1. worker[w].token \in Token /\ worker[w].token \in Clients
    BY <1>13, IsClient
  <2>2. Clients' = Clients \ {worker[w].token}
    BY <1>13, ClientLeaves
  <2>3. Progress' = Progress /\ Finished' = Finished
    BY <1>2, <1>13
  <2> QED BY <1>13, <2>1, <2>2, <2>3, FeedGivenUp
<1>14. ASSUME NEW w \in Worker, Release(w) \/ DatabaseError(w) PROVE [Feed!FeedNext]_Feed!feedVars
  <2>1. /\ worker[w].pc \notin Idling /\ UNCHANGED target /\ worker' = [worker EXCEPT ![w] = Done(w)]
        /\ lease' = lease \/ (lease.token = worker[w].token /\ lease' = NoLease)
    BY <1>14 DEF Release, DatabaseError, Idling, Owned
  <2> QED BY <1>13, <2>1, DoneIs
<1>15. ASSUME NEW w \in Worker, Crash(w) PROVE [Feed!FeedNext]_Feed!feedVars
  <2>1. Idle.token = None
    BY DEF Idle
  <2>2. CASE worker[w].pc \notin Idling
    BY <1>13, <1>15, <2>1, <2>2 DEF Crash
  <2>3. CASE worker[w].pc \in Idling
    <3>1. worker[w].token = None
      BY <2>3 DEF ClaimsOK
    <3>2. \A v \in Worker : worker'[v].token = worker[v].token
      BY <1>1, <1>15, <2>1, <3>1 DEF Crash
    <3> QED BY <1>6, <1>15, <3>2 DEF Crash
  <2> QED BY <2>2, <2>3
<1>16. ASSUME NEW w \in Worker, Heartbeat(w) PROVE [Feed!FeedNext]_Feed!feedVars
  <2>1. \A v \in Worker : worker'[v].token = worker[v].token
    BY <1>1, <1>16 DEF Heartbeat, WorkerState
  <2>2. lease'.token = lease.token /\ lease'.work = lease.work /\ UNCHANGED target
    BY <1>1, <1>16 DEF Heartbeat, LeaseRow
  <2> QED BY <1>2, <2>1, <2>2, ClientsStay, FeedStutters
<1>17. ASSUME NEW w \in Worker, \/ Discover(w) \/ \E t \in Work : ClaimRefused(w, t)
                                \/ BeginWrite(w) \/ KeepaliveDies(w)
                                \/ FetchReturns(w) \/ FetchFails(w) \/ CancelFetch(w)
       PROVE  [Feed!FeedNext]_Feed!feedVars
  <2>1. \A v \in Worker : worker'[v].token = worker[v].token
    BY <1>1, <1>17 DEF Discover, ClaimRefused, BeginWrite, KeepaliveDies, FetchReturns,
                       FetchFails, CancelFetch, WorkerState
  <2>2. UNCHANGED <<lease, target>>
    BY <1>17 DEF Discover, ClaimRefused, BeginWrite, KeepaliveDies, FetchReturns,
                 FetchFails, CancelFetch
  <2> QED BY <1>6, <2>1, <2>2
<1>18. ASSUME NEW t \in Backfill, EnqueueBackfill(t) PROVE [Feed!FeedNext]_Feed!feedVars
  <2>1. /\ lease.work # t /\ UNCHANGED <<lease, worker>>
        /\ target' = [target EXCEPT ![t] = NewRow("queued")]
    BY <1>18 DEF EnqueueBackfill
  <2>2. /\ \A u \in Backfill \ {t} : target'[u] = target[u]
        /\ target'[t].cursor = None /\ target'[t].status = "queued"
    BY <1>1, <2>1 DEF NewRow
  <2>3. Progress' = [Progress EXCEPT ![t] = 0]
    BY <2>2 DEF Progress
  <2>4. Finished' = Finished \ {t}
    BY <2>2 DEF Finished
  <2> QED BY <2>1, <2>3, <2>4, ClientsStay, FeedRestarts
<1>19. ASSUME NEW t \in Polling, EnableSubscription(t) \/ DisableSubscription(t)
       PROVE  [Feed!FeedNext]_Feed!feedVars
  <2>1. \A u \in Backfill : target'[u] = target[u]
    BY <1>1, <1>19 DEF EnableSubscription, DisableSubscription
  <2>2. Progress' = Progress /\ Finished' = Finished
    BY <2>1 DEF Progress, Finished
  <2> QED BY <1>19, <2>2, ClientsStay, FeedStutters DEF EnableSubscription, DisableSubscription
<1>20. ASSUME Tick PROVE [Feed!FeedNext]_Feed!feedVars
  <2>1. lease'.token = lease.token /\ lease'.work = lease.work /\ worker' = worker
    BY <1>1, <1>20 DEF Tick, LeaseRow
  <2>2. \A u \in Backfill : target'[u].cursor = target[u].cursor /\ target'[u].status = target[u].status
    BY <1>1, <1>20 DEF Tick, TargetRow
  <2>3. Progress' = Progress /\ Finished' = Finished
    BY <2>2 DEF Progress, Finished
  <2> QED BY <2>1, <2>3, ClientsStay, FeedStutters
<1>21. ASSUME UNCHANGED <<lease, target, worker>> PROVE [Feed!FeedNext]_Feed!feedVars
  BY <1>6, <1>21
<1> QED
  BY <1>4, <1>5, <1>8, <1>10, <1>11, <1>12, <1>14, <1>15, <1>16, <1>17, <1>18, <1>19, <1>20, <1>21
     DEF Next, Undisturbed, WorkerStep, Fault, vars, ChangeAccess, CloseBar, QuietPeriodEnds

(* The workers, their leases and the rows implement the fenced feed.       *)
THEOREM Refines == Spec => ImplementsFencedFeed
BY MappedInit, MappedNext, FeedInvariant, PTL DEF Spec, ImplementsFencedFeed, Feed!FeedSpec
=============================================================================
