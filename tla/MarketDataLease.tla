-------------------------- MODULE MarketDataLease --------------------------
(***************************************************************************)
(* The durable market-data worker of app/market_data: one feed (workspace, *)
(* instrument, time frame), the lease row that grants it to one worker at  *)
(* a time, the backfill jobs and the polling subscription that share it,   *)
(* and the workers that claim it, fetch one page outside any transaction   *)
(* and save that page inside a fenced one.                                 *)
(*                                                                         *)
(* Time is kept as the number of ticks that remain: "left" of the lease    *)
(* (lease_until - clock) and "delay" of a target (next_run_at - clock).    *)
(* Candles are numbered: bar b is [b, b+1), and "bars" have closed so far. *)
(* A transaction that holds the lease row lock is open from BeginWrite to  *)
(* its commit, and time may pass while it is; every other transaction is   *)
(* one step.                                                               *)
(***************************************************************************)
EXTENDS Integers, FiniteSets

CONSTANTS
    Worker,        \* worker processes (more than one may be started)
    Backfill,      \* rows of backfill_job on this feed
    Polling,       \* rows of market_data_subscription on this feed
    Token,         \* lease tokens: uuid4 never repeats one that is in use
    None,          \* SQL NULL
    Failure,       \* what PageAccess.fetch can raise, as classified records
    LeaseTicks,    \* worker_lease_seconds
    RetryTicks,    \* 30 s after the first failure
    LongRetryTicks,\* 120 s after a later one
    PollTicks,     \* poll_interval_seconds
    PageSize,      \* bars of one page
    BackfillEnd,   \* to_time of a backfill whose from_time is bar 0
    FirstBars,     \* bars that have closed when the behaviour starts
    MaxBars,       \* bound: bars that ever close
    AccessStates   \* bound: states of the connection and its account

ASSUME ConstantsAssumption ==
    /\ {LeaseTicks, RetryTicks, LongRetryTicks, PollTicks} \subseteq Nat \ {0}
    /\ PageSize \in Nat /\ PageSize >= 2
    /\ BackfillEnd \in Nat \ {0} /\ FirstBars \in Nat /\ MaxBars \in Nat
    /\ FirstBars >= 2 /\ BackfillEnd <= FirstBars /\ FirstBars <= MaxBars
    /\ \A a \in AccessStates : a.version \in Nat /\ a.usable \in BOOLEAN
    /\ [version |-> 0, usable |-> TRUE] \in AccessStates
    /\ None \notin Worker \cup Token \cup Backfill \cup Polling /\ None \notin Int
    /\ Backfill \cap Polling = {}
    /\ \A f \in Failure : f.retryable \in BOOLEAN /\ f.retryAfter \in Nat

VARIABLES
    lease,    \* the market_data_lease row
    txn,      \* the worker whose open transaction holds that row's lock
    target,   \* the backfill_job and market_data_subscription rows
    candles,  \* open times of the stored final candles
    handled,  \* history: the bars of the windows saved for each backfill
    bars,     \* bars that have closed
    access,   \* the verified connection and selected account
    told,     \* causes announced within the quiet period
    worker    \* what each worker process remembers

vars == <<lease, txn, target, candles, handled, bars, access, told, worker>>

Work == Backfill \cup Polling
MaxFailures == 3
Interrupted == [code |-> "worker_interrupted", retryable |-> TRUE, retryAfter |-> 0]
AccessChanged == [code |-> "access_changed", retryable |-> FALSE, retryAfter |-> 0]
AccessUnavailable == [code |-> "access_unavailable", retryable |-> FALSE, retryAfter |-> 0]
AnyFailure == Failure \cup {Interrupted, AccessChanged, AccessUnavailable}

(* An error is never mistaken for the absence of one.                      *)
ASSUME FailureAssumption == None \notin AnyFailure

NoLease == [owner |-> None, token |-> None, work |-> None, left |-> 0]
NoPage == [start |-> 0, end |-> 0, scanEnd |-> 0, access |-> 0]
Idle == [pc |-> "discover", queue |-> {}, work |-> None, token |-> None, cursor |-> None,
         page |-> NoPage, points |-> {}, failure |-> None, keepalive |-> FALSE]

(* The statuses of the two kinds of target. A backfill row that is "none"  *)
(* does not exist yet; "validating" and "cancelled" are never written.     *)
(* "stopped" is the error_code of a failed job and the blocked_reason of a *)
(* subscription.                                                           *)
BackfillStatus == {"none", "queued", "running", "succeeded", "failed"}
PollingStatus == {"enabled", "disabled"}

Active(row) ==
    \/ row.status \in {"queued", "running"}
    \/ row.status = "enabled" /\ row.stopped = None

Due(row) == Active(row) /\ row.delay = 0

Later(a, b) == IF a > b THEN a ELSE b
Earlier(a, b) == IF a < b THEN a ELSE b
Expired == lease.token # None /\ lease.left = 0

LeaseRow == [owner : Worker \cup {None}, token : Token \cup {None},
             work : Work \cup {None}, left : 0 .. LeaseTicks]

TargetRow == [status : BackfillStatus \cup PollingStatus,
              stopped : {f.code : f \in AnyFailure} \cup {None},
              cursor : Int \cup {None}, scanTo : Int \cup {None},
              delay : Nat, failures : Nat]

Page == [start : Int, end : Int, scanEnd : Int, access : Nat]

WorkerState ==
    [pc : {"discover", "select", "prepare", "fetch", "save", "complete", "fail", "release"},
     queue : SUBSET Work, work : Work \cup {None}, token : Token \cup {None},
     cursor : Int \cup {None}, page : Page, points : SUBSET Int,
     failure : AnyFailure \cup {None}, keepalive : BOOLEAN]

TypeOK ==
    /\ lease \in LeaseRow
    /\ txn \in Worker \cup {None}
    /\ target \in [Work -> TargetRow]
    /\ candles \subseteq Int
    /\ handled \in [Backfill -> SUBSET Int]
    /\ bars \in FirstBars .. MaxBars
    /\ access \in AccessStates
    /\ told \subseteq {f.code : f \in AnyFailure}
    /\ worker \in [Worker -> WorkerState]

NewRow(status) == [status |-> status, stopped |-> None, cursor |-> None,
                   scanTo |-> None, delay |-> 0, failures |-> 0]

Init ==
    /\ lease = NoLease
    /\ txn = None
    /\ target = [t \in Work |-> NewRow(IF t \in Backfill THEN "none" ELSE "enabled")]
    /\ candles = {}
    /\ handled = [t \in Backfill |-> {}]
    /\ bars = FirstBars
    /\ access = [version |-> 0, usable |-> TRUE]
    /\ told = {}
    /\ worker = [w \in Worker |-> Idle]

-----------------------------------------------------------------------------
(* LeaseStore: the lease row, the claims on it and its recovery.           *)

(* _owned: the claim is the one the row records, and it has not run out.   *)
Owned(w) ==
    /\ lease.token # None
    /\ <<lease.owner, lease.token, lease.work>> = <<w, worker[w].token, worker[w].work>>
    /\ lease.left > 0

(* What guarded_write checks before it yields: the lease, then the target. *)
MayWrite(w) ==
    /\ Owned(w)
    /\ Active(target[worker[w].work])
    /\ target[worker[w].work].cursor = worker[w].cursor

Retries(row, f) == f.retryable /\ row.failures + 1 < MaxFailures

(* A target after one more failure: counted, put off, and stopped when it  *)
(* is not to be retried.                                                   *)
AfterFailure(row, f) ==
    [row EXCEPT
        !.failures = @ + 1,
        !.delay = Later(IF row.failures = 0 THEN RetryTicks ELSE LongRetryTicks, f.retryAfter),
        !.status = IF @ \in PollingStatus THEN @ ELSE IF Retries(row, f) THEN "queued" ELSE "failed",
        !.stopped = IF Retries(row, f) THEN None ELSE f.code]

(* announce_stopped: not repeated for a cause told in the quiet period.    *)
ToldAfter(row, f) == IF Retries(row, f) THEN told ELSE told \cup {f.code}

(* Faulty form for DisabledIsLeftAlone: recovery does not look at the target.    *)
RecoveredWhateverTheTarget ==
    IF Expired THEN [target EXCEPT ![lease.work] = AfterFailure(@, Interrupted)] ELSE target

(* Faulty form for StopsAreAnnounced: only fail announces, recovery does not.    *)
RecoveredInSilence == told

(* _recover: the rows and announcements once an expired lease is taken     *)
(* back. A target that is no longer active counts nothing.                 *)
RecoveredTarget ==
    IF Expired /\ Active(target[lease.work])
    THEN [target EXCEPT ![lease.work] = AfterFailure(@, Interrupted)] ELSE target

RecoveredTold ==
    IF Expired /\ Active(target[lease.work])
    THEN ToldAfter(target[lease.work], Interrupted) ELSE told

(* Faulty form for OpenWriteIsOwner: recovery looks at the time, not at the lock. *)
RecoverLocked(w) ==
    /\ worker[w].pc = "select" /\ worker[w].queue = {}
    /\ IF Expired
       THEN lease' = NoLease /\ target' = RecoveredTarget /\ told' = RecoveredTold
       ELSE UNCHANGED <<lease, target, told>>
    /\ worker' = [worker EXCEPT ![w].pc = "discover"]
    /\ UNCHANGED <<txn, candles, handled, bars, access>>

(* recover_expired, at the top of each pass: skips a locked row.           *)
RecoverExpired(w) ==
    /\ worker[w].pc = "select" /\ worker[w].queue = {}
    /\ IF Expired /\ txn = None
       THEN lease' = NoLease /\ target' = RecoveredTarget /\ told' = RecoveredTold
       ELSE UNCHANGED <<lease, target, told>>
    /\ worker' = [worker EXCEPT ![w].pc = "discover"]
    /\ UNCHANGED <<txn, candles, handled, bars, access>>

(* Faulty form for PollingIsServed: backfills come first in every pass.          *)
DiscoverBackfillsFirst(w) ==
    /\ worker[w].pc = "discover"
    /\ LET due == {t \in Work : Due(target[t])}
       IN worker' = [worker EXCEPT ![w].pc = "select", ![w].queue =
                       IF due \cap Backfill # {} THEN due \cap Backfill ELSE due]
    /\ UNCHANGED <<lease, txn, target, candles, handled, bars, access, told>>

(* CandidateScanner.due: a read that locks nothing.                        *)
Discover(w) ==
    /\ worker[w].pc = "discover"
    /\ worker' = [worker EXCEPT ![w].pc = "select",
                                ![w].queue = {t \in Work : Due(target[t])}]
    /\ UNCHANGED <<lease, txn, target, candles, handled, bars, access, told>>

(* claim: nothing while the row is locked or the lease is held.            *)
ClaimRefused(w, t) ==
    /\ worker[w].pc = "select" /\ t \in worker[w].queue
    /\ txn # None \/ lease.left > 0
    /\ worker' = [worker EXCEPT ![w].queue = @ \ {t}]
    /\ UNCHANGED <<lease, txn, target, candles, handled, bars, access, told>>

(* claim otherwise: an expired lease is recovered first, and the target is *)
(* granted if it is active and due after that.                             *)
Claim(w, t) ==
    /\ worker[w].pc = "select" /\ t \in worker[w].queue
    /\ txn = None /\ lease.left = 0
    /\ told' = RecoveredTold
    /\ LET row == RecoveredTarget[t] IN
       IF Due(row)
       THEN \E token \in Token \ ({lease.token} \cup {worker[v].token : v \in Worker}) :
              /\ lease' = [owner |-> w, token |-> token, work |-> t, left |-> LeaseTicks]
              /\ target' = [RecoveredTarget EXCEPT ![t].status =
                               IF @ = "queued" THEN "running" ELSE @]
              /\ worker' = [worker EXCEPT ![w] = [worker[w] EXCEPT
                               !.pc = "prepare", !.queue = @ \ {t}, !.work = t,
                               !.token = token, !.cursor = row.cursor, !.keepalive = TRUE]]
       ELSE /\ lease' = NoLease
            /\ target' = RecoveredTarget
            /\ worker' = [worker EXCEPT ![w].queue = @ \ {t}]
    /\ UNCHANGED <<txn, candles, handled, bars, access>>

(* Faulty form for TypeOK: the lease is prolonged from its old end.              *)
HeartbeatFromOldEnd(w) ==
    /\ worker[w].keepalive /\ txn = None
    /\ IF Owned(w)
       THEN lease' = [lease EXCEPT !.left = @ + LeaseTicks] /\ worker' = worker
       ELSE lease' = lease /\ worker' = [worker EXCEPT ![w].keepalive = FALSE]
    /\ UNCHANGED <<txn, target, candles, handled, bars, access, told>>

(* The keepalive task of a claim: extends a lease that is still owned, and *)
(* ends when it is not.                                                    *)
Heartbeat(w) ==
    /\ worker[w].keepalive /\ txn = None
    /\ IF Owned(w)
       THEN lease' = [lease EXCEPT !.left = LeaseTicks] /\ worker' = worker
       ELSE lease' = lease /\ worker' = [worker EXCEPT ![w].keepalive = FALSE]
    /\ UNCHANGED <<txn, target, candles, handled, bars, access, told>>

(* A database error or lock timeout in the heartbeat ends the task; the    *)
(* page goes on and the lease runs out.                                    *)
KeepaliveDies(w) ==
    /\ worker[w].keepalive
    /\ worker' = [worker EXCEPT ![w].keepalive = FALSE]
    /\ UNCHANGED <<lease, txn, target, candles, handled, bars, access, told>>

-----------------------------------------------------------------------------
(* ExecuteMarketDataPage: prepare, fetch outside any transaction, save; or *)
(* complete, or fail. Every write is under guarded_write.                  *)

(* What a worker forgets when it is done with a claim.                     *)
Done(w) == [Idle EXCEPT !.pc = "select", !.queue = worker[w].queue]

(* guarded_write opens: the lease row lock, then the checks. LeaseLost     *)
(* ends the page as "discarded", after a release.                          *)
BeginWrite(w) ==
    /\ worker[w].pc \in {"prepare", "save", "complete", "fail"}
    /\ txn = None
    /\ IF MayWrite(w)
       THEN txn' = w /\ worker' = worker
       ELSE txn' = None /\ worker' = [worker EXCEPT ![w].pc = "release"]
    /\ UNCHANGED <<lease, target, candles, handled, bars, access, told>>

(* An exception other than LeaseLost inside a write: rolled back, and      *)
(* recorded by PageStore.fail in a transaction of its own.                 *)
RollBackTo(w, f) ==
    /\ txn' = None
    /\ worker' = [worker EXCEPT ![w] = [worker[w] EXCEPT !.pc = "fail", !.failure = f,
                                                 !.page = NoPage, !.points = {}]]
    /\ UNCHANGED <<lease, target, candles, handled>>

(* The part of the range a prepared page asks for: one bar of overlap,     *)
(* except on the first page of a backfill or of a first polling scan.      *)
Window(start, scanEnd, first, overlap) ==
    LET from == IF overlap THEN Later(start - 1, first) ELSE start
    IN [start |-> from, end |-> Earlier(scanEnd, from + PageSize),
        scanEnd |-> scanEnd, access |-> access.version]

(* Faulty form for BackfillEnds: the overlap is also taken at the end.           *)
BackfillWindowOverlapsAtEnd(row) ==
    LET start == IF row.cursor = None THEN 0 ELSE row.cursor
    IN Window(start, BackfillEnd, 0, 0 < start)

BackfillWindow(row) ==
    LET start == IF row.cursor = None THEN 0 ELSE row.cursor
    IN Window(start, BackfillEnd, 0, 0 < start /\ start < BackfillEnd)

(* A polling scan has fixed bounds: a new one runs from the close of the   *)
(* latest stored candle (two bars back if there is none) to now.           *)
LatestClose == IF candles = {} THEN {None}
               ELSE {b + 1 : b \in {c \in candles : \A d \in candles : d <= c}}

Scan(row, latest) ==
    IF row.cursor # None THEN row
    ELSE [row EXCEPT !.scanTo = bars,
                     !.cursor = IF latest = None THEN bars - 2 ELSE Earlier(latest, bars)]

PollingWindow(row, latest) ==
    LET scan == Scan(row, latest)
    IN Window(scan.cursor, scan.scanTo, scan.cursor - 1, row.cursor # None \/ latest # None)

Prepared(w, row, page) ==
    /\ target' = [target EXCEPT ![worker[w].work] = row]
    /\ worker' = [worker EXCEPT ![w] = [worker[w] EXCEPT
          !.cursor = row.cursor, !.page = page,
          !.pc = IF worker[w].work \in Backfill /\ page.start = page.scanEnd
                 THEN "complete" ELSE "fetch"]]
    /\ txn' = None
    /\ UNCHANGED <<lease, candles, handled>>

Prepare(w) ==
    LET row == target[worker[w].work] IN
    /\ txn = w /\ worker[w].pc = "prepare"
    /\ IF ~access.usable THEN RollBackTo(w, AccessUnavailable)
       ELSE IF worker[w].work \in Backfill THEN Prepared(w, row, BackfillWindow(row))
       ELSE \E latest \in LatestClose :
              Prepared(w, Scan(row, latest), PollingWindow(row, latest))
    /\ UNCHANGED <<bars, access, told>>

(* PageAccess.fetch answers: the closed bars of the window, or none.       *)
FetchReturns(w) ==
    /\ worker[w].pc = "fetch"
    /\ \E points \in {{}, worker[w].page.start .. worker[w].page.end - 1} :
         worker' = [worker EXCEPT ![w].pc = "save", ![w].points = points]
    /\ UNCHANGED <<lease, txn, target, candles, handled, bars, access, told>>

(* It raises, or the 30 second limit on it passes.                         *)
FetchFails(w) ==
    /\ worker[w].pc = "fetch"
    /\ \E f \in Failure : worker' = [worker EXCEPT ![w].pc = "fail", ![w].failure = f]
    /\ UNCHANGED <<lease, txn, target, candles, handled, bars, access, told>>

(* The process is told to stop while it waits: a graceful release.         *)
CancelFetch(w) ==
    /\ worker[w].pc = "fetch"
    /\ worker' = [worker EXCEPT ![w].pc = "release"]
    /\ UNCHANGED <<lease, txn, target, candles, handled, bars, access, told>>

(* Faulty form for SavedUnderItsAccess: only the existence of access is checked. *)
AccessFailureUsableOnly(w) == IF access.usable THEN None ELSE AccessUnavailable

(* _recheck: the connection and account the page was fetched with.         *)
AccessFailure(w) ==
    IF ~access.usable THEN AccessUnavailable
    ELSE IF access.version # worker[w].page.access THEN AccessChanged ELSE None

(* Faulty form for CursorMeansHandled: the cursor of a page is the end of the    *)
(* whole range it is part of.                                              *)
SavedRowWholeRange(t, page) ==
    IF t \in Polling
    THEN [target[t] EXCEPT !.cursor = None, !.scanTo = None, !.failures = 0, !.delay = PollTicks]
    ELSE [target[t] EXCEPT !.cursor = page.scanEnd, !.failures = 0, !.delay = 0]

(* The row a saved page leaves: the cursor, and for polling the end of the *)
(* scan.                                                                   *)
SavedRow(t, page) ==
    LET row == [target[t] EXCEPT !.cursor = page.end, !.failures = 0, !.delay = 0]
    IN IF t \in Polling /\ page.end = page.scanEnd
       THEN [row EXCEPT !.cursor = None, !.scanTo = None, !.delay = PollTicks] ELSE row

(* save: the candles, the cursor and the release of the lease, at once.    *)
Save(w) ==
    LET t == worker[w].work page == worker[w].page IN
    /\ txn = w /\ worker[w].pc = "save"
    /\ IF AccessFailure(w) = None
       THEN /\ candles' = candles \cup worker[w].points
            /\ target' = [target EXCEPT ![t] = SavedRow(t, page)]
            /\ handled' = IF t \in Backfill
                          THEN [handled EXCEPT ![t] = @ \cup page.start .. page.end - 1]
                          ELSE handled
            /\ lease' = NoLease /\ txn' = None
            /\ worker' = [worker EXCEPT ![w] = Done(w)]
       ELSE RollBackTo(w, AccessFailure(w))
    /\ UNCHANGED <<bars, access, told>>

(* complete: the last check of a backfill whose cursor reached its end.    *)
Complete(w) ==
    /\ txn = w /\ worker[w].pc = "complete"
    /\ IF AccessFailure(w) = None
       THEN /\ target' = [target EXCEPT ![worker[w].work].status = "succeeded",
                                        ![worker[w].work].failures = 0]
            /\ lease' = NoLease /\ txn' = None
            /\ worker' = [worker EXCEPT ![w] = Done(w)]
            /\ UNCHANGED <<candles, handled>>
       ELSE RollBackTo(w, AccessFailure(w))
    /\ UNCHANGED <<bars, access, told>>

Fail(w) ==
    LET t == worker[w].work f == worker[w].failure IN
    /\ txn = w /\ worker[w].pc = "fail"
    /\ target' = [target EXCEPT ![t] = AfterFailure(@, f)]
    /\ told' = ToldAfter(target[t], f)
    /\ lease' = NoLease /\ txn' = None
    /\ worker' = [worker EXCEPT ![w] = Done(w)]
    /\ UNCHANGED <<candles, handled, bars, access>>

(* Faulty form for ImplementsFencedFeed: a lost lease is given back all the same. *)
ReleaseUnchecked(w) ==
    /\ worker[w].pc = "release" /\ txn = None
    /\ lease' = NoLease
    /\ worker' = [worker EXCEPT ![w] = Done(w)]
    /\ UNCHANGED <<txn, target, candles, handled, bars, access, told>>

Release(w) ==
    /\ worker[w].pc = "release" /\ txn = None
    /\ lease' = IF Owned(w) THEN NoLease ELSE lease
    /\ worker' = [worker EXCEPT ![w] = Done(w)]
    /\ UNCHANGED <<txn, target, candles, handled, bars, access, told>>

(* A database error in any of these: the transaction is rolled back, the   *)
(* claim is dropped and the lease is left to run out.                      *)
DatabaseError(w) ==
    /\ worker[w].pc \in {"prepare", "save", "complete", "fail", "release"}
    /\ txn' = IF txn = w THEN None ELSE txn
    /\ worker' = [worker EXCEPT ![w] = Done(w)]
    /\ UNCHANGED <<lease, target, candles, handled, bars, access, told>>

(* The process dies and is started again: it remembers nothing.            *)
Crash(w) ==
    /\ worker[w] # Idle
    /\ txn' = IF txn = w THEN None ELSE txn
    /\ worker' = [worker EXCEPT ![w] = Idle]
    /\ UNCHANGED <<lease, target, candles, handled, bars, access, told>>

-----------------------------------------------------------------------------
(* What happens around the workers: requests, time and the exchange.       *)

(* A row a transaction of a worker has locked.                             *)
RowLocked(t) == txn # None /\ worker[txn].work = t

(* enqueue_backfill: no queued or running job on the same range. A row     *)
(* stands for the next job once nobody works on the one before.            *)
EnqueueBackfill(t) ==
    /\ \A u \in Backfill : ~Active(target[u])
    /\ lease.work # t /\ \A w \in Worker : worker[w].work # t
    /\ access.usable
    /\ target' = [target EXCEPT ![t] = NewRow("queued")]
    /\ handled' = [handled EXCEPT ![t] = {}]
    /\ UNCHANGED <<lease, txn, candles, bars, access, told, worker>>

(* update_subscriptions: enabling needs usable access; neither direction   *)
(* touches any other column of the row.                                    *)
EnableSubscription(t) ==
    /\ ~RowLocked(t) /\ access.usable
    /\ target' = [target EXCEPT ![t].status = "enabled"]
    /\ UNCHANGED <<lease, txn, candles, handled, bars, access, told, worker>>

DisableSubscription(t) ==
    /\ ~RowLocked(t)
    /\ target' = [target EXCEPT ![t].status = "disabled"]
    /\ UNCHANGED <<lease, txn, candles, handled, bars, access, told, worker>>

(* Disabling and verifying a connection change whether it may be used; new *)
(* credentials and another selected account also change what is used.      *)
ChangeAccess(state) ==
    /\ state.version \in {access.version, access.version + 1}
    /\ access' = state
    /\ UNCHANGED <<lease, txn, target, candles, handled, bars, told, worker>>

CloseBar ==
    /\ bars < MaxBars
    /\ bars' = bars + 1
    /\ UNCHANGED <<lease, txn, target, candles, handled, access, told, worker>>

Tick ==
    /\ lease' = [lease EXCEPT !.left = Later(@ - 1, 0)]
    /\ target' = [t \in Work |-> [target[t] EXCEPT !.delay = Later(@ - 1, 0)]]
    /\ UNCHANGED <<txn, candles, handled, bars, access, told, worker>>

QuietPeriodEnds ==
    /\ told # {} /\ told' = {}
    /\ UNCHANGED <<lease, txn, target, candles, handled, bars, access, worker>>

-----------------------------------------------------------------------------
WorkerStep(w) ==
    \/ RecoverExpired(w) \/ Discover(w)
    \/ \E t \in Work : ClaimRefused(w, t) \/ Claim(w, t)
    \/ BeginWrite(w) \/ Prepare(w) \/ FetchReturns(w) \/ FetchFails(w)
    \/ Save(w) \/ Complete(w) \/ Fail(w) \/ Release(w)

(* What interrupts a worker. Nothing in the code bounds how often.         *)
Fault(w) == Crash(w) \/ DatabaseError(w) \/ CancelFetch(w) \/ KeepaliveDies(w)

Undisturbed ==
    \/ \E w \in Worker : WorkerStep(w) \/ Heartbeat(w)
    \/ \E t \in Backfill : EnqueueBackfill(t)
    \/ \E t \in Polling : EnableSubscription(t) \/ DisableSubscription(t)
    \/ \E state \in AccessStates : ChangeAccess(state)
    \/ CloseBar \/ Tick \/ QuietPeriodEnds

Next == Undisturbed \/ \E w \in Worker : Fault(w)

Spec == Init /\ [][Next]_vars

(* Every worker keeps running its loop while time passes, and after some   *)
(* point is no longer interrupted: a page that is cut off by a restart     *)
(* every time never ends, so liveness needs the interruptions to stop.     *)
FairSpec ==
    /\ Spec /\ <>[][Undisturbed]_vars
    /\ WF_vars(Tick) /\ \A w \in Worker : WF_vars(WorkerStep(w))

-----------------------------------------------------------------------------
(* Safety.                                                                 *)

(* A write transaction that is open belongs to the worker the lease row    *)
(* names, on a target that is still wanted and has not moved since the     *)
(* claim, however much time has passed since it was opened: neither        *)
(* recovery nor another claim takes a locked row away (guarded_write).     *)
OpenWriteIsOwner ==
    txn # None =>
        /\ <<lease.owner, lease.token, lease.work>> =
               <<txn, worker[txn].token, worker[txn].work>>
        /\ Active(target[lease.work])
        /\ target[lease.work].cursor = worker[txn].cursor

(* The cursor of a backfill is the upper end of what was asked for: every  *)
(* bar below it lies in the window of a page that was saved, over any      *)
(* sequence of interruptions, retries and changes of owner, and a job      *)
(* succeeds only when that is its whole range (save, complete).            *)
CursorMeansHandled ==
    \A t \in Backfill :
        /\ target[t].cursor # None => 0 .. target[t].cursor - 1 \subseteq handled[t]
        /\ target[t].status = "succeeded" => handled[t] = 0 .. BackfillEnd - 1

(* A page is saved only under the connection and account it was fetched    *)
(* with, whatever was changed while the request was out (_recheck).        *)
SavedUnderItsAccess ==
    [][\A w \in Worker :
         worker[w].pc = "save" /\ worker'[w].pc = "select" /\ target' # target
         => access.usable /\ access.version = worker[w].page.access]_vars

(* Collection never stops by itself in silence: the step that fails a      *)
(* backfill or blocks a subscription leaves its cause among those          *)
(* announced within the quiet period (announce_stopped in fail and         *)
(* _recover).                                                              *)
StopsAreAnnounced ==
    [][\A t \in Work :
         target[t].stopped = None /\ target'[t].stopped # None
             => target'[t].stopped \in told']_vars

(* The worker never turns collection on: only a request enables a          *)
(* subscription, and a disabled one is left alone, failures included       *)
(* (_recover on an inactive target, guarded_write).                        *)
DisabledIsLeftAlone ==
    [][\A t \in Polling :
         target[t].status = "disabled" /\ target'[t].status = "disabled" =>
           /\ target'[t].failures = target[t].failures
           /\ target'[t].stopped = target[t].stopped
           /\ target'[t].cursor = target[t].cursor]_vars

(* The lease protocol seen from outside.                                   *)
Feed == INSTANCE FencedFeed WITH
    Subject <- Work, Target <- Backfill, Token <- Token, Nobody <- None, Last <- BackfillEnd,
    holder <- lease.token, subject <- lease.work,
    clients <- {worker[w].token : w \in Worker} \ {None},
    progress <- [t \in Backfill |-> IF target[t].cursor = None THEN 0 ELSE target[t].cursor],
    finished <- {t \in Backfill : target[t].status = "succeeded"}

ImplementsFencedFeed == Feed!FeedSpec

-----------------------------------------------------------------------------
(* Liveness.                                                               *)

(* A backfill that was accepted ends: it succeeds, or fails with a cause.  *)
BackfillEnds == \A t \in Backfill : Active(target[t]) ~> ~Active(target[t])

(* A due subscription is taken up, however many backfills are requested    *)
(* one after the other: each pass of the runner tries every due target     *)
(* once, and a backfill gives the lease back after each page.              *)
PollingIsServed ==
    \A t \in Polling : Due(target[t]) ~> lease.work = t \/ ~Active(target[t])
=============================================================================
