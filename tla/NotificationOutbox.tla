------------------------- MODULE NotificationOutbox -------------------------
(***************************************************************************)
(* The outbox of app/notifications: events that other transactions leave   *)
(* there, and the notification workers that claim them in batches, send    *)
(* them to the people of the workspace over each channel and record the    *)
(* outcome of the whole batch in one commit.                               *)
(*                                                                         *)
(* An event that could not be delivered is announced by a notice, an event *)
(* of its own. Time is kept as what remains until available_at. A message  *)
(* is sent before the commit that records it, and may be lost or arrive    *)
(* whatever the sender is told.                                            *)
(***************************************************************************)
EXTENDS Integers, FiniteSets

CONSTANTS
    Worker,      \* notification worker processes
    Subject,     \* what is announced: halts, stopped bots, stalled workers
    Person,      \* Owners and Operators the workspace ever has
    Channel,     \* channels that have an adapter
    None,        \* no event
    BatchSize,   \* _BATCH_SIZE
    MaxAttempts, \* MAX_ATTEMPTS
    Backoff      \* ticks after the nth attempt: _BACKOFF_BASE_SECONDS * 2^n

ASSUME ConstantsAssumption ==
    /\ Channel \subseteq {"in_app", "email"}
    /\ {BatchSize, MaxAttempts} \subseteq Nat \ {0}
    /\ Backoff \in [1 .. MaxAttempts -> Nat]
    /\ None \notin Subject \X {"original", "notice"}

VARIABLES
    outbox,   \* the outbox_event rows
    note,     \* the status of each notification row
    members,  \* who is an active Owner or Operator now
    owed,     \* history: who has been one since the event was recorded
    worker    \* the open transaction of each worker process

vars == <<outbox, note, members, owed, worker>>

Event == Subject \X {"original", "notice"}
Recipient == Person \X Channel
Original(s) == <<s, "original">>
Notice(s) == <<s, "notice">>

OutboxRow == [status : {"none", "pending", "published", "failed"},
              attempts : 0 .. MaxAttempts, delay : Nat]

(* "sent" and "unsent" are the outcomes the transaction has written and    *)
(* not committed; "left" are the claimed events it has not begun.          *)
Transaction == [batch : SUBSET Event, left : SUBSET Event, event : Event \cup {None},
                todo : SUBSET Recipient, sent : SUBSET (Event \X Recipient),
                unsent : SUBSET (Event \X Recipient)]

NoTransaction == [batch |-> {}, left |-> {}, event |-> None, todo |-> {}, sent |-> {},
                  unsent |-> {}]

TypeOK ==
    /\ outbox \in [Event -> OutboxRow]
    /\ note \in [Event \X Recipient -> {"none", "failed", "sent", "acknowledged"}]
    /\ members \subseteq Person
    /\ owed \in [Event -> SUBSET Person]
    /\ worker \in [Worker -> Transaction]

Init ==
    /\ outbox = [e \in Event |-> [status |-> "none", attempts |-> 0, delay |-> 0]]
    /\ note = [n \in Event \X Recipient |-> "none"]
    /\ members = Person
    /\ owed = [e \in Event |-> {}]
    /\ worker = [w \in Worker |-> NoTransaction]

-----------------------------------------------------------------------------
(* publish_system_event, in the transaction of whatever happened.          *)

NewRow == [status |-> "pending", attempts |-> 0, delay |-> 0]

PublishEvent(s) ==
    /\ outbox[Original(s)].status = "none"
    /\ outbox' = [outbox EXCEPT ![Original(s)] = NewRow]
    /\ owed' = [owed EXCEPT ![Original(s)] = members]
    /\ UNCHANGED <<note, members, worker>>

-----------------------------------------------------------------------------
(* deliver_pending_notifications.                                          *)

Locked == UNION {worker[w].batch : w \in Worker}
Due == {e \in Event : outbox[e].status = "pending" /\ outbox[e].delay = 0}

(* Faulty form for NobodyIsToldAgain: rows are claimed without their lock. *)
FreeWhateverTheLocks == Due

Free == Due \ Locked

(* claim_pending_outbox_events: as many due rows as a batch holds, without *)
(* those another transaction has locked.                                   *)
Claim(w) ==
    /\ worker[w] = NoTransaction
    /\ \E batch \in SUBSET Free \ {{}} :
         /\ Cardinality(batch) = BatchSize
              \/ (batch = Free /\ Cardinality(batch) < BatchSize)
         /\ worker' = [worker EXCEPT ![w] = [NoTransaction EXCEPT !.batch = batch, !.left = batch]]
    /\ UNCHANGED <<outbox, note, members, owed>>

(* The next event of the batch: its recipients are who is a member now.    *)
BeginEvent(w) ==
    /\ worker[w].todo = {}
    /\ \E e \in worker[w].left :
         worker' = [worker EXCEPT ![w] = [worker[w] EXCEPT
                       !.event = e, !.left = worker[w].left \ {e}, !.todo = members \X Channel]]
    /\ UNCHANGED <<outbox, note, members, owed>>

HasIt(n) == note[n] \in {"sent", "acknowledged"}

(* Faulty form for PublishedReachesAll: someone it was tried with is skipped. *)
SkipTried(w, r) ==
    /\ r \in worker[w].todo /\ note[<<worker[w].event, r>>] # "none"
    /\ worker' = [worker EXCEPT ![w] = [worker[w] EXCEPT !.todo = worker[w].todo \ {r}]]
    /\ UNCHANGED <<outbox, note, members, owed>>

(* Someone who got it before is skipped.                                   *)
Skip(w, r) ==
    /\ r \in worker[w].todo /\ HasIt(<<worker[w].event, r>>)
    /\ worker' = [worker EXCEPT ![w] = [worker[w] EXCEPT !.todo = worker[w].todo \ {r}]]
    /\ UNCHANGED <<outbox, note, members, owed>>

SendReturns(w, r) ==
    /\ r \in worker[w].todo /\ ~HasIt(<<worker[w].event, r>>)
    /\ worker' = [worker EXCEPT ![w] = [worker[w] EXCEPT
           !.todo = worker[w].todo \ {r}, !.sent = worker[w].sent \cup {<<worker[w].event, r>>}]]
    /\ UNCHANGED <<outbox, note, members, owed>>

(* OSError or SMTPException. The in_app adapter does nothing and cannot    *)
(* fail.                                                                   *)
SendFails(w, r) ==
    /\ r \in worker[w].todo /\ ~HasIt(<<worker[w].event, r>>) /\ r[2] = "email"
    /\ worker' = [worker EXCEPT ![w] = [worker[w] EXCEPT
           !.todo = worker[w].todo \ {r},
           !.unsent = worker[w].unsent \cup {<<worker[w].event, r>>}]]
    /\ UNCHANGED <<outbox, note, members, owed>>

AnyFailed(w, e) == \E n \in worker[w].unsent : n[1] = e

GivesUp(w, e) == AnyFailed(w, e) /\ outbox[e].attempts + 1 >= MaxAttempts

(* Faulty form for EveryEventEnds: a failed delivery is put off and not counted. *)
AfterDeliveryUncounted(w, e) ==
    IF ~AnyFailed(w, e) THEN [outbox[e] EXCEPT !.status = "published"]
    ELSE IF GivesUp(w, e) THEN [outbox[e] EXCEPT !.status = "failed", !.attempts = MaxAttempts]
    ELSE [outbox[e] EXCEPT !.delay = Backoff[1]]

(* A claimed event once all its recipients were tried.                     *)
AfterDelivery(w, e) ==
    LET attempts == outbox[e].attempts + 1 IN
    IF ~AnyFailed(w, e) THEN [outbox[e] EXCEPT !.status = "published"]
    ELSE IF GivesUp(w, e) THEN [outbox[e] EXCEPT !.status = "failed", !.attempts = attempts]
    ELSE [outbox[e] EXCEPT !.attempts = attempts, !.delay = Backoff[attempts]]

(* _announce_give_up: never for a notice, which would announce itself      *)
(* again forever.                                                          *)
Announced(w) ==
    {Notice(s) : s \in {x \in Subject : /\ Original(x) \in worker[w].batch
                                        /\ GivesUp(w, Original(x))}}

(* The one commit of a batch.                                              *)
Commit(w) ==
    /\ worker[w].batch # {} /\ worker[w].left = {} /\ worker[w].todo = {}
    /\ outbox' = [e \in Event |-> IF e \in worker[w].batch THEN AfterDelivery(w, e)
                                  ELSE IF e \in Announced(w) THEN NewRow ELSE outbox[e]]
    /\ note' = [n \in Event \X Recipient |-> IF n \in worker[w].sent THEN "sent"
                                             ELSE IF n \in worker[w].unsent THEN "failed"
                                             ELSE note[n]]
    /\ owed' = [e \in Event |-> IF e \in Announced(w) THEN members ELSE owed[e]]
    /\ worker' = [worker EXCEPT ![w] = NoTransaction]
    /\ UNCHANGED members

(* Any other exception, or the end of the process: the whole batch is      *)
(* rolled back, what was sent stays sent, and no attempt is counted.       *)
RollBack(w) ==
    /\ worker[w] # NoTransaction
    /\ worker' = [worker EXCEPT ![w] = NoTransaction]
    /\ UNCHANGED <<outbox, note, members, owed>>

-----------------------------------------------------------------------------
(* acknowledge_notification and acknowledge_all_notifications: a person's  *)
(* own in_app rows that were sent.                                         *)
Acknowledge(n) ==
    /\ note[n] = "sent" /\ n[2][2] = "in_app"
    /\ note' = [note EXCEPT ![n] = "acknowledged"]
    /\ UNCHANGED <<outbox, members, owed, worker>>

(* Roles are given and taken, accounts are disabled.                       *)
ChangeMembers(people) ==
    /\ members' = people
    /\ owed' = [e \in Event |-> owed[e] \cap people]
    /\ UNCHANGED <<outbox, note, worker>>

Tick ==
    /\ outbox' = [e \in Event |-> IF outbox[e].delay = 0 THEN outbox[e]
                                  ELSE [outbox[e] EXCEPT !.delay = outbox[e].delay - 1]]
    /\ UNCHANGED <<note, members, owed, worker>>

WorkerStep(w) ==
    \/ Claim(w) \/ BeginEvent(w) \/ Commit(w)
    \/ \E r \in worker[w].todo : Skip(w, r) \/ SendReturns(w, r) \/ SendFails(w, r)

Undisturbed ==
    \/ \E w \in Worker : WorkerStep(w)
    \/ \E s \in Subject : PublishEvent(s)
    \/ \E n \in Event \X Recipient : Acknowledge(n)
    \/ \E people \in SUBSET Person : ChangeMembers(people)
    \/ Tick

Next == Undisturbed \/ \E w \in Worker : RollBack(w)

Spec == Init /\ [][Next]_vars

(* Time passes, every worker keeps polling, and after some point no pass   *)
(* is rolled back: one that is rolled back every time records nothing.     *)
OutboxFairness ==
    /\ <>[][Undisturbed]_vars
    /\ WF_vars(Tick) /\ \A w \in Worker : WF_vars(WorkerStep(w))

FairSpec == Spec /\ OutboxFairness

-----------------------------------------------------------------------------
(* Safety.                                                                 *)

(* What a worker has sent, or failed to send, without committing it.       *)
Tried(w) == worker[w].sent \cup worker[w].unsent

(* Nobody is sent an event that is recorded as sent to them, nor one that  *)
(* another worker is sending them now: however many workers poll and fail, *)
(* only a pass that was rolled back is repeated (skip_locked, "without     *)
(* sending twice to someone who already got it").                          *)
NobodyIsToldAgain ==
    [][\A w \in Worker : \A n \in Tried(w)' \ Tried(w) :
           ~HasIt(n) /\ \A v \in Worker \ {w} : n \notin Tried(v)]_vars

(* A published event has reached, over each channel, everyone who was to   *)
(* be told from the time it was recorded, whatever became of the others    *)
(* and of earlier tries ("published only once every recipient has a sent   *)
(* notification").                                                         *)
PublishedReachesAll ==
    \A e \in Event : outbox[e].status = "published" =>
        \A p \in owed[e], c \in Channel : HasIt(<<e, <<p, c>>>>)

(* An event that is given up is announced in the same commit, even if that *)
(* commit was tried before and rolled back (_announce_give_up).            *)
FailedIsAnnounced ==
    \A s \in Subject :
        (outbox[Original(s)].status = "failed") = (outbox[Notice(s)].status # "none")

-----------------------------------------------------------------------------
(* Liveness.                                                               *)

(* Every recorded event ends as published or failed: a recipient that is   *)
(* never reached does not keep it pending forever. (An event is recorded   *)
(* once, so all have ended when none is pending.)                          *)
Pending == {e \in Event : outbox[e].status = "pending"}
EveryEventEnds == Pending # {} ~> Pending = {}

(* The notice of an event that was given up can be read in the application *)
(* by everyone who was to be told of it, though the email that failed may  *)
(* fail again ("in_app always works").                                     *)
Unread ==
    {x \in Subject \X Person : outbox[Notice(x[1])].status # "none"
        /\ x[2] \in owed[Notice(x[1])] /\ ~HasIt(<<Notice(x[1]), <<x[2], "in_app">>>>)}
GiveUpIsReadable == "in_app" \in Channel => (Unread # {} ~> Unread = {})

(* What the end of an event is worth: a published one has reached everyone *)
(* it was owed to on every channel, a given-up one has its notice.         *)
EndsAreTrue == PublishedReachesAll /\ FailedIsAnnounced

(* Every event comes to an end, and with an in-app channel somebody can    *)
(* read of those that were given up.                                       *)
EventsEnd == EveryEventEnds /\ GiveUpIsReadable
=============================================================================
