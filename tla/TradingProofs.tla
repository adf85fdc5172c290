---------------------------- MODULE TradingProofs ----------------------------
(***************************************************************************)
(* Proofs about Provisioning, Journal and LedgerCheck, for every number of *)
(* tasks, bots, names, pages and orders. What is provisioned is whole,     *)
(* unique and what was asked for, what is answered is true, and no two     *)
(* transactions wait for one another: they rest on what a task knows of    *)
(* its open transaction, the rows of the stages before, whose keys nobody  *)
(* else has. What the histories tell is every row there was, once: it      *)
(* rests on the order of the pages, which is total because ids are never   *)
(* drawn twice. A lost row of the ledger is found: what an order adds to   *)
(* the ledger's side it adds to the account's, so a difference stays.      *)
(***************************************************************************)
EXTENDS Provisioning, Journal, LedgerCheck, FiniteSetTheorems, WellFoundedInduction, TLAPS

(* The kinds of row a transaction may have written before a stage.         *)
Before(stage) ==
    CASE stage = "profile" -> {"strategy"}
      [] stage = "snapshot" -> {"strategy", "profile"}
      [] stage = "finish" -> Ensured
      [] OTHER -> {}

(* What holds of task t in state s by itself and with what is stored.      *)
StageOK(t, s) ==
    /\ s.adding => s.stage \in Ensured
    /\ s.todo # {} => s.job \in Jobs
    /\ s.stage # "idle" => s.key \in s.todo
    /\ s.stage = "snapshot" => s.job.what = "backtests"
    /\ \A r \in s.written :
          /\ r.kind \in Before(s.stage) /\ r.by = t
          /\ r.kind = "snapshot" => s.job.what = "backtests" /\ r.key = s.key

UsesOK(s) ==
    /\ s.uses \subseteq {s.job.content}
    /\ s.stage \in {"profile", "snapshot", "finish"} => s.uses = {s.job.content}

ToldOK(t, s) ==
    /\ s.todo \subseteq Name \cup Series
    /\ \A key \in s.todo :
          ~Made(t, key) /\ \A answer \in Answers : <<key, answer>> \notin s.told
    /\ \A key \in Name \cup Series :
          /\ <<key, "ok">> \in s.told => Made(t, key)
          /\ <<key, "error">> \in s.told => ~Made(t, key)
          /\ <<key, "exists">> \in s.told => \E r \in store : r.kind = "bot" /\ r.key = key

TaskOK(t, s) == StageOK(t, s) /\ UsesOK(s) /\ ToldOK(t, s)

(* The rows a transaction has written are of keys that nobody else has.    *)
Fresh(t, r) ==
    /\ ~Taken(r)
    /\ \A u \in Task \ {t} : \A s \in task[u].written : ~SameKey(r, s)

WrittenOK ==
    \A t \in Task : \A r \in task[t].written :
       Fresh(t, r) /\ \A s \in task[t].written : SameKey(r, s) => r = s

MadeOK ==
    \A r \in store :
       r.kind \in {"bot", "run"} =>
          task[r.by].job \in Jobs /\ r.content = {task[r.by].job.content}

IInv ==
    /\ ProvisionTypeOK
    /\ \A t \in Task : TaskOK(t, task[t])
    /\ WrittenOK
    /\ MadeOK /\ OneOfEach /\ NothingIsLeftOver
-----------------------------------------------------------------------------
(* A step that stores nothing keeps the invariant if the task it moves     *)
(* keeps its job, unless it had none, and what it has written is fresh.    *)
LEMMA MovePreserves ==
    ASSUME IInv, NEW t \in Task, NEW s \in TaskState,
           task' = [task EXCEPT ![t] = s], store' = store,
           s.job = task[t].job \/ task[t].job \notin Jobs,
           TaskOK(t, s),
           \A r \in s.written : Fresh(t, r) /\ \A q \in s.written : SameKey(r, q) => r = q
    PROVE  IInv'
<1>1. task'[t] = s /\ (\A u \in Task \ {t} : task'[u] = task[u]) /\ ProvisionTypeOK'
  BY DEF IInv, ProvisionTypeOK
<1>2. \A u \in Task : TaskOK(u, task[u])'
  BY <1>1 DEF IInv, TaskOK, StageOK, UsesOK, ToldOK, Made
<1>3. WrittenOK'
  <2>1. ASSUME NEW r \in s.written PROVE Fresh(t, r)'
    BY <1>1, <2>1 DEF Fresh, Taken
  <2>2. ASSUME NEW u \in Task \ {t}, NEW r \in task[u].written PROVE Fresh(u, r)'
    <3>1. \A q \in s.written : ~SameKey(r, q)
      BY DEF Fresh, SameKey
    <3>2. Fresh(u, r)
      BY DEF IInv, WrittenOK
    <3> QED BY <1>1, <3>1, <3>2 DEF Fresh, Taken
  <2> QED BY <1>1, <2>1, <2>2 DEF WrittenOK, IInv
<1>4. MadeOK'
  BY <1>1 DEF IInv, MadeOK, ProvisionTypeOK, Rows
<1>5. OneOfEach' /\ NothingIsLeftOver'
  BY DEF IInv, OneOfEach, NothingIsLeftOver
<1> QED BY <1>1, <1>2, <1>3, <1>4, <1>5 DEF IInv

LEMMA InitEstablishes == ProvisionInit => IInv
<1> SUFFICES ASSUME ProvisionInit PROVE IInv
  OBVIOUS
<1>1. NoTask \in TaskState
  BY DEF NoTask, NewTask, TaskState, Keys, Stages
<1>2. ASSUME NEW t \in Task PROVE TaskOK(t, task[t])
  BY DEF ProvisionInit, NoTask, NewTask, TaskOK, StageOK, UsesOK, ToldOK, Made
<1> QED
  BY <1>1, <1>2 DEF ProvisionInit, IInv, ProvisionTypeOK, WrittenOK, MadeOK, OneOfEach,
     NothingIsLeftOver, NoTask, NewTask

(* The row a stage wants, and the stage after it.                          *)
LEMMA WantedType ==
    ASSUME IInv, NEW t \in Task, task[t].stage \in Ensured
    PROVE  /\ Wanted(t) \in Rows
           /\ Wanted(t).kind = task[t].stage /\ Wanted(t).by = t
<1>1. task[t] \in TaskState /\ task[t].job \in Jobs /\ TaskOK(t, task[t])
  BY DEF IInv, ProvisionTypeOK, TaskOK, StageOK, Ensured
<1>2. task[t].job.content \in Content
  BY <1>1 DEF Jobs
<1>3. task[t].key \in Keys /\ "approved" \in Keys
  BY <1>1 DEF TaskState, Keys
<1> QED BY <1>1, <1>2, <1>3 DEF Wanted, Row, Rows, Kinds, Ensured

LEMMA StageAfter ==
    ASSUME IInv, NEW t \in Task, task[t].stage \in Ensured,
           NEW next, next = NextStage(task[t].job.what, task[t].stage)
    PROVE  /\ next \in {"profile", "snapshot", "finish"}
           /\ Before(task[t].stage) \subseteq Before(next) /\ task[t].stage \in Before(next)
           /\ task[t].stage \notin Before(task[t].stage)
           /\ next = "snapshot" => task[t].job.what = "backtests"
BY DEF NextStage, Before, Ensured

(* A transaction that is rolled back leaves its task as it was before,     *)
(* with one item less to do.                                               *)
LEMMA FailsPreserves ==
    ASSUME IInv, NEW t \in Task, task[t].stage # "idle", Fails(t)
    PROVE  IInv'
<1> DEFINE s == Ended(t, {}, "error")
<1>1. task[t] \in TaskState /\ TaskOK(t, task[t])
  BY DEF IInv, ProvisionTypeOK
<1>2. task[t].key \in task[t].todo /\ task[t].key \in Name \cup Series
  BY <1>1 DEF TaskOK, StageOK, ToldOK
<1>3. s \in TaskState
  <2>1. task[t].told \cup {<<task[t].key, "error">>} \in SUBSET (Keys \X Answers)
    BY <1>1, <1>2 DEF TaskState, Keys, Answers
  <2>2. task[t].todo \ {task[t].key} \in SUBSET Keys
    BY <1>1 DEF TaskState
  <2> QED BY <1>1, <2>1, <2>2 DEF Ended, TaskState, Stages, Keys
<1>4. /\ s.stage = "idle" /\ s.adding = FALSE /\ s.written = {} /\ s.uses = {}
      /\ s.job = task[t].job /\ s.todo = task[t].todo \ {task[t].key}
      /\ s.told = task[t].told \cup {<<task[t].key, "error">>}
  BY <1>1 DEF Ended, TaskState
<1>5. StageOK(t, s) /\ UsesOK(s)
  BY <1>1, <1>4 DEF TaskOK, StageOK, UsesOK
<1>6. ToldOK(t, s)
  BY <1>1, <1>2, <1>4 DEF TaskOK, ToldOK
<1> HIDE DEF s
<1>7. TaskOK(t, s)
  BY <1>5, <1>6 DEF TaskOK
<1>8. task' = [task EXCEPT ![t] = s] /\ store' = store
  BY DEF Fails, s
<1> QED BY <1>3, <1>4, <1>7, <1>8, MovePreserves
-----------------------------------------------------------------------------
LEMMA AsksPreserves == ASSUME IInv, NEW t \in Task, Asks(t) PROVE IInv'
<1>1. PICK job \in Jobs : task' = [task EXCEPT ![t] = NewTask(job)]
  BY DEF Asks
<1>2. job.keys \subseteq Name \cup Series /\ NewTask(job) \in TaskState
  BY DEF Jobs, NewTask, TaskState, Keys, Stages
<1>3. task[t].job \notin Jobs
  BY DEF Asks, NoTask, NewTask, Jobs
<1>4. \A key : ~Made(t, key)
  BY <1>3 DEF Made, IInv, MadeOK
<1>5. TaskOK(t, NewTask(job))
  BY <1>2, <1>4 DEF TaskOK, StageOK, UsesOK, ToldOK, NewTask
<1>6. NewTask(job).written = {}
  BY DEF NewTask
<1> QED BY <1>1, <1>2, <1>3, <1>5, <1>6, MovePreserves DEF Asks

LEMMA BeginsItemPreserves == ASSUME IInv, NEW t \in Task, BeginsItem(t) PROVE IInv'
<1>1. task[t] \in TaskState /\ TaskOK(t, task[t])
  BY DEF IInv, ProvisionTypeOK
<1>2. task[t].written = {} /\ task[t].stage = "idle" /\ store' = store
  BY <1>1 DEF BeginsItem, TaskOK, StageOK, Before
<1>3. PICK key \in task[t].todo :
        IF ~Backtests(t) /\ Taken(Row("bot", key, {}, t))
        THEN task' = [task EXCEPT ![t].todo = {}, ![t].told = {<<key, "exists">>}]
        ELSE task' = [task EXCEPT ![t].key = key,
                                  ![t].stage = NextStage(task[t].job.what, "idle")]
  BY DEF BeginsItem
<1>4. key \in Name \cup Series /\ key \in Keys
  BY <1>1 DEF TaskOK, ToldOK, Keys
<1>5. CASE ~Backtests(t) /\ Taken(Row("bot", key, {}, t))
  <2> DEFINE s == [task[t] EXCEPT !.todo = {}, !.told = {<<key, "exists">>}]
  <2>1. s \in TaskState
    <3>1. {<<key, "exists">>} \in SUBSET (Keys \X Answers)
      BY <1>4 DEF Answers
    <3> QED BY <1>1, <3>1 DEF TaskState
  <2>2. /\ s.stage = "idle" /\ s.adding = task[t].adding /\ s.written = {}
        /\ s.uses = task[t].uses /\ s.job = task[t].job /\ s.todo = {}
        /\ s.told = {<<key, "exists">>}
    BY <1>1, <1>2 DEF TaskState
  <2>3. \E r \in store : r.kind = "bot" /\ r.key = key
    BY <1>5 DEF Taken, SameKey, Row
  <2>4. TaskOK(t, s)
    BY <1>1, <1>2, <2>2, <2>3 DEF TaskOK, StageOK, UsesOK, ToldOK
  <2>5. task' = [task EXCEPT ![t] = s]
    BY <1>3, <1>5
  <2> HIDE DEF s
  <2> QED BY <1>2, <2>1, <2>2, <2>4, <2>5, MovePreserves
<1>6. CASE ~(~Backtests(t) /\ Taken(Row("bot", key, {}, t)))
  <2> DEFINE s == [task[t] EXCEPT !.key = key, !.stage = "strategy"]
  <2>1. s \in TaskState
    BY <1>1, <1>4 DEF TaskState, Stages, Ensured
  <2>2. /\ s.stage = "strategy" /\ s.adding = task[t].adding /\ s.written = {}
        /\ s.uses = task[t].uses /\ s.job = task[t].job /\ s.todo = task[t].todo
        /\ s.told = task[t].told /\ s.key = key
    BY <1>1, <1>2 DEF TaskState
  <2>3. TaskOK(t, s)
    BY <1>1, <1>2, <2>2 DEF TaskOK, StageOK, UsesOK, ToldOK, Ensured
  <2>4. task' = [task EXCEPT ![t] = s]
    BY <1>3, <1>6 DEF NextStage
  <2> HIDE DEF s
  <2> QED BY <1>2, <2>1, <2>2, <2>3, <2>4, MovePreserves
<1> QED BY <1>5, <1>6

(* A stage that is passed: the task goes on, with the row it added or      *)
(* without one, and with what the version it found or made says.           *)
LEMMA OnwardPreserves ==
    ASSUME IInv, NEW t \in Task, task[t].stage \in Ensured,
           NEW added \in SUBSET {Wanted(t)}, \A r \in added : Fresh(t, r),
           store' = store,
           task' = [task EXCEPT ![t] = [Onward(t) EXCEPT !.written = @ \cup added,
                                                         !.uses = @ \cup Wanted(t).content]]
    PROVE  IInv'
<1> DEFINE next == NextStage(task[t].job.what, task[t].stage)
           s == [Onward(t) EXCEPT !.written = @ \cup added, !.uses = @ \cup Wanted(t).content]
<1>1. task[t] \in TaskState /\ TaskOK(t, task[t])
  BY DEF IInv, ProvisionTypeOK
<1>2. /\ Wanted(t) \in Rows /\ Wanted(t).kind = task[t].stage /\ Wanted(t).by = t
      /\ task[t].job \in Jobs
  BY <1>1, WantedType DEF TaskOK, StageOK, Ensured
<1>3. /\ next \in {"profile", "snapshot", "finish"}
      /\ Before(task[t].stage) \subseteq Before(next) /\ task[t].stage \in Before(next)
      /\ task[t].stage \notin Before(task[t].stage)
      /\ next = "snapshot" => task[t].job.what = "backtests"
  BY StageAfter
<1>4. /\ s.stage = next /\ s.adding = FALSE /\ s.written = task[t].written \cup added
      /\ s.uses = task[t].uses \cup Wanted(t).content /\ s.job = task[t].job
      /\ s.todo = task[t].todo /\ s.told = task[t].told /\ s.key = task[t].key
  BY <1>1 DEF Onward, TaskState
<1>5. s \in TaskState
  <2>1. task[t].uses \cup Wanted(t).content \in SUBSET Content
    BY <1>1, <1>2 DEF TaskState, Rows
  <2>2. task[t].written \cup added \in SUBSET Rows
    BY <1>1, <1>2 DEF TaskState
  <2>3. next \in Stages
    BY <1>3 DEF Stages, Ensured
  <2> QED BY <1>1, <2>1, <2>2, <2>3 DEF Onward, TaskState
<1>6. StageOK(t, s)
  <2>1. task[t].stage = "snapshot" => task[t].job.what = "backtests" /\ Wanted(t).key = task[t].key
    BY <1>1 DEF TaskOK, StageOK, Wanted, Row
  <2>2. ASSUME NEW r \in s.written
        PROVE  /\ r.kind \in Before(next) /\ r.by = t
               /\ r.kind = "snapshot" => task[t].job.what = "backtests" /\ r.key = task[t].key
    BY <1>1, <1>2, <1>3, <1>4, <2>1, <2>2 DEF TaskOK, StageOK
  <2> QED BY <1>1, <1>2, <1>3, <1>4, <2>2 DEF TaskOK, StageOK, Ensured
<1>7. UsesOK(s)
  <2>1. CASE task[t].stage = "snapshot"
    <3>1. Wanted(t).content = {} /\ task[t].uses = {task[t].job.content}
      BY <1>1, <2>1 DEF TaskOK, UsesOK, Wanted, Row
    <3> QED BY <1>4, <3>1 DEF UsesOK
  <2>2. CASE task[t].stage # "snapshot"
    <3>1. Wanted(t).content = {task[t].job.content} /\ task[t].uses \subseteq {task[t].job.content}
      BY <1>1, <2>2 DEF TaskOK, UsesOK, Wanted, Row
    <3> QED BY <1>4, <3>1 DEF UsesOK
  <2> QED BY <2>1, <2>2
<1>8. ToldOK(t, s)
  BY <1>1, <1>4 DEF TaskOK, ToldOK
<1>9. ASSUME NEW r \in s.written
      PROVE  Fresh(t, r) /\ \A q \in s.written : SameKey(r, q) => r = q
  <2>1. \A q \in task[t].written : q.kind # Wanted(t).kind
    BY <1>1, <1>2, <1>3 DEF TaskOK, StageOK
  <2>2. \A q \in task[t].written : ~SameKey(q, Wanted(t)) /\ ~SameKey(Wanted(t), q)
    BY <2>1 DEF SameKey
  <2> QED BY <1>4, <1>9, <2>2 DEF IInv, WrittenOK
<1> HIDE DEF s, next
<1>10. task' = [task EXCEPT ![t] = s]
  BY DEF s
<1> QED BY <1>4, <1>5, <1>6, <1>7, <1>8, <1>9, <1>10, MovePreserves DEF TaskOK

LEMMA FindsPreserves == ASSUME IInv, NEW t \in Task, Finds(t) PROVE IInv'
<1>1. task[t].stage \in Ensured /\ task[t].stage # "idle"
  BY DEF Finds, Ensured
<1>2. PICK r \in Found(t) :
        IF Differs(r, t) THEN Fails(t)
        ELSE /\ task' = [task EXCEPT ![t] = [Onward(t) EXCEPT !.uses = @ \cup r.content]]
             /\ UNCHANGED store
  BY DEF Finds
<1>3. CASE Differs(r, t)
  BY <1>1, <1>2, <1>3, FailsPreserves
<1>4. CASE ~Differs(r, t)
  <2>1. r.content = Wanted(t).content
    BY <1>4 DEF Differs
  <2>2. task[t] \in TaskState
    BY DEF IInv, ProvisionTypeOK
  <2>3. [Onward(t) EXCEPT !.uses = @ \cup r.content]
          = [Onward(t) EXCEPT !.written = @ \cup {}, !.uses = @ \cup Wanted(t).content]
    BY <2>1, <2>2 DEF Onward, TaskState
  <2>4. {} \in SUBSET {Wanted(t)} /\ \A q \in {} : Fresh(t, q)
    OBVIOUS
  <2>5. /\ store' = store
        /\ task' = [task EXCEPT ![t] = [Onward(t) EXCEPT !.written = @ \cup {},
                                                        !.uses = @ \cup Wanted(t).content]]
    BY <1>2, <1>4, <2>3
  <2> QED BY <1>1, <2>4, <2>5, OnwardPreserves
<1> QED BY <1>3, <1>4

LEMMA FindsNonePreserves == ASSUME IInv, NEW t \in Task, FindsNone(t) PROVE IInv'
<1> DEFINE s == [task[t] EXCEPT !.adding = TRUE]
<1>1. task[t] \in TaskState /\ TaskOK(t, task[t]) /\ task[t].stage \in Ensured
  BY DEF IInv, ProvisionTypeOK, FindsNone
<1>2. s \in TaskState
  BY <1>1 DEF TaskState
<1>3. /\ s.stage = task[t].stage /\ s.written = task[t].written /\ s.uses = task[t].uses
      /\ s.job = task[t].job /\ s.todo = task[t].todo /\ s.told = task[t].told
      /\ s.key = task[t].key
  BY <1>1 DEF TaskState
<1>4. TaskOK(t, s)
  BY <1>1, <1>3 DEF TaskOK, StageOK, UsesOK, ToldOK
<1>5. task' = [task EXCEPT ![t] = s] /\ store' = store
  BY DEF FindsNone
<1> HIDE DEF s
<1>6. \A r \in s.written : Fresh(t, r) /\ \A q \in s.written : SameKey(r, q) => r = q
  BY <1>3 DEF IInv, WrittenOK
<1> QED BY <1>2, <1>3, <1>4, <1>5, <1>6, MovePreserves

LEMMA AddsPreserves == ASSUME IInv, NEW t \in Task, Adds(t) PROVE IInv'
<1>1. task[t].stage \in Ensured /\ task[t].stage # "idle"
  BY DEF IInv, TaskOK, StageOK, Adds, Ensured
<1>2. CASE Taken(Wanted(t))
  BY <1>1, <1>2, FailsPreserves DEF Adds
<1>3. CASE ~Taken(Wanted(t))
  <2>1. Fresh(t, Wanted(t))
    BY <1>3 DEF Fresh, Adds, Waits, SameKey
  <2>2. {Wanted(t)} \in SUBSET {Wanted(t)} /\ \A r \in {Wanted(t)} : Fresh(t, r)
    BY <2>1
  <2>3. /\ store' = store
        /\ task' = [task EXCEPT ![t] = [Onward(t) EXCEPT !.written = @ \cup {Wanted(t)},
                                                        !.uses = @ \cup Wanted(t).content]]
    BY <1>3 DEF Adds
  <2> QED BY <1>1, <2>2, <2>3, OnwardPreserves
<1> QED BY <1>2, <1>3

LEMMA RefusesPreserves == ASSUME IInv, NEW t \in Task, Refuses(t) PROVE IInv'
BY FailsPreserves DEF Refuses

LEMMA DiesPreserves == ASSUME IInv, NEW t \in Task, Dies(t) PROVE IInv'
<1> DEFINE s == [NewTask(task[t].job) EXCEPT !.todo = {}, !.told = task[t].told]
<1>1. task[t] \in TaskState /\ TaskOK(t, task[t])
  BY DEF IInv, ProvisionTypeOK
<1>2. /\ s.stage = "idle" /\ s.adding = FALSE /\ s.written = {} /\ s.uses = {}
      /\ s.job = task[t].job /\ s.todo = {} /\ s.told = task[t].told
  BY DEF NewTask
<1>3. s \in TaskState
  BY <1>1 DEF NewTask, TaskState, Keys, Stages
<1>4. TaskOK(t, s)
  BY <1>1, <1>2 DEF TaskOK, StageOK, UsesOK, ToldOK
<1>5. task' = [task EXCEPT ![t] = s] /\ store' = store
  BY DEF Dies
<1> HIDE DEF s
<1> QED BY <1>2, <1>3, <1>4, <1>5, MovePreserves
-----------------------------------------------------------------------------
(* The end of a transaction stores what it wrote and some rows more: with  *)
(* a bot or a run among them, and the bot of an account.                   *)
LEMMA CommitPreserves ==
    ASSUME IInv, NEW t \in Task, task[t].stage = "finish",
           NEW added \in SUBSET Rows,
           \A r \in added : /\ r.kind \in {"account", "deposit", "bot", "run"}
                            /\ r.by = t /\ r.key = task[t].key
                            /\ r.kind \in {"bot", "run"} => r.content = task[t].uses
                            /\ r.kind # "run" => ~Taken(r)
                            /\ r.kind \in {"account", "deposit"} => \E s \in added : s.kind = "bot",
           \A r, s \in added : SameKey(r, s) => r = s,
           \E r \in added : r.kind = IF Backtests(t) THEN "run" ELSE "bot",
           task' = [task EXCEPT ![t] = Ended(t, {}, "ok")],
           store' = store \cup task[t].written \cup added
    PROVE  IInv'
<1> DEFINE s == Ended(t, {}, "ok")
           key == task[t].key
<1>1. task[t] \in TaskState /\ TaskOK(t, task[t])
  BY DEF IInv, ProvisionTypeOK
<1>2. key \in task[t].todo /\ key \in Name \cup Series /\ task[t].job \in Jobs
  BY <1>1 DEF TaskOK, StageOK, ToldOK
<1>3. /\ s.stage = "idle" /\ s.adding = FALSE /\ s.written = {} /\ s.uses = {}
      /\ s.job = task[t].job /\ s.todo = task[t].todo \ {key}
      /\ s.told = task[t].told \cup {<<key, "ok">>}
  BY <1>1 DEF Ended, TaskState
<1>4. s \in TaskState
  <2>1. task[t].told \cup {<<key, "ok">>} \in SUBSET (Keys \X Answers)
    BY <1>1, <1>2 DEF TaskState, Keys, Answers
  <2>2. task[t].todo \ {key} \in SUBSET Keys
    BY <1>1 DEF TaskState
  <2> QED BY <1>1, <2>1, <2>2 DEF Ended, TaskState, Stages, Keys
<1> HIDE DEF s
<1>5. task'[t] = s /\ \A u \in Task \ {t} : task'[u] = task[u]
  BY DEF IInv, ProvisionTypeOK, s
<1>6. ProvisionTypeOK'
  BY <1>1, <1>4, <1>5 DEF IInv, ProvisionTypeOK, TaskState, s
<1>7. \A r \in task[t].written : r.kind \in Ensured /\ r.by = t
  BY <1>1 DEF TaskOK, StageOK, Before
<1>8. /\ \A u \in Task \ {t} : \A k : Made(u, k)' <=> Made(u, k)
      /\ \A k : Made(t, k)' <=> (Made(t, k) \/ k = key)
  <2>1. \A r \in store' \ store : r.by = t
    BY <1>7
  <2>2. \A r \in store' \ store : r.kind \in {"bot", "run"} => r.key = key
    BY <1>7 DEF Ensured
  <2>3. \E r \in store' : r.kind \in {"bot", "run"} /\ r.key = key /\ r.by = t
    OBVIOUS
  <2> QED BY <2>1, <2>2, <2>3 DEF Made
<1>9. ASSUME NEW u \in Task \ {t} PROVE TaskOK(u, task[u])'
  <2>1. TaskOK(u, task[u]) /\ task'[u] = task[u]
    BY <1>5 DEF IInv
  <2> QED BY <1>8, <2>1 DEF TaskOK, StageOK, UsesOK, ToldOK
<1>10. TaskOK(t, task[t])'
  <2>1. StageOK(t, s) /\ UsesOK(s)
    BY <1>1, <1>2, <1>3 DEF TaskOK, StageOK, UsesOK
  <2>2. ASSUME NEW k \in s.todo
        PROVE  ~Made(t, k)' /\ \A answer \in Answers : <<k, answer>> \notin s.told
    BY <1>1, <1>3, <1>8 DEF TaskOK, ToldOK
  <2>3. ASSUME NEW k \in Name \cup Series
        PROVE  /\ <<k, "ok">> \in s.told => Made(t, k)'
               /\ <<k, "error">> \in s.told => ~Made(t, k)'
               /\ <<k, "exists">> \in s.told => \E r \in store' : r.kind = "bot" /\ r.key = k
    BY <1>1, <1>2, <1>3, <1>8 DEF TaskOK, ToldOK, Answers
  <2>4. ToldOK(t, task[t])'
    BY <1>1, <1>3, <1>5, <2>2, <2>3 DEF TaskOK, ToldOK
  <2>5. StageOK(t, task[t])' /\ UsesOK(task[t])'
    BY <1>5, <2>1 DEF StageOK, UsesOK
  <2> QED BY <2>4, <2>5 DEF TaskOK
<1>11. WrittenOK'
  <2>1. ASSUME NEW u \in Task \ {t}, NEW r \in task[u].written PROVE Fresh(u, r)'
    <3>1. Fresh(u, r) /\ r.kind \in Ensured
      <4>1. r.kind \in Before(task[u].stage)
        BY DEF IInv, TaskOK, StageOK
      <4> QED BY <4>1 DEF IInv, WrittenOK, Before, Ensured
    <3>2. \A q \in added : ~SameKey(q, r)
      BY <3>1 DEF SameKey, Ensured
    <3>3. \A q \in task[t].written : ~SameKey(q, r)
      BY <3>1 DEF Fresh, SameKey
    <3> QED BY <1>3, <1>5, <3>1, <3>2, <3>3 DEF Fresh, Taken
  <2> QED BY <1>3, <1>5, <2>1 DEF IInv, WrittenOK
<1>12. MadeOK'
  <2>1. \A r \in added : r.kind \in {"bot", "run"} => r.content = {task[t].job.content}
    BY <1>1 DEF TaskOK, UsesOK
  <2>2. \A u \in Task : task'[u].job = task[u].job
    BY <1>3, <1>5
  <2>3. ASSUME NEW r \in store', r.kind \in {"bot", "run"}
        PROVE  task[r.by].job \in Jobs /\ r.content = {task[r.by].job.content}
    BY <1>2, <1>7, <2>1, <2>3 DEF IInv, MadeOK, Ensured
  <2>4. \A r \in store' : r.by \in Task
    BY <1>6 DEF ProvisionTypeOK, Rows
  <2> QED BY <2>2, <2>3, <2>4 DEF MadeOK
<1>13. OneOfEach'
  <2>1. \A r \in task[t].written : r.kind # "run" /\ \A q \in added : ~SameKey(r, q) /\ ~SameKey(q, r)
    BY <1>7 DEF Ensured, SameKey
  <2>2. \A r \in task[t].written : \A q \in store : ~SameKey(r, q) /\ ~SameKey(q, r)
    BY DEF IInv, WrittenOK, Fresh, Taken, SameKey
  <2>3. \A r, q \in task[t].written : SameKey(r, q) => r = q
    BY DEF IInv, WrittenOK
  <2>4. \A r \in added, q \in store : (SameKey(r, q) \/ SameKey(q, r)) => r.kind = "run" /\ q.kind = "run"
    BY DEF Taken, SameKey
  <2> QED BY <2>1, <2>2, <2>3, <2>4 DEF IInv, OneOfEach
<1>14. NothingIsLeftOver'
  <2>1. ASSUME NEW r \in task[t].written
        PROVE  /\ \E q \in store' : q.kind \in {"bot", "run"} /\ q.by = r.by
               /\ r.kind = "snapshot" => \E q \in store' : q.kind = "run" /\ q.key = r.key
               /\ r.kind \notin {"account", "deposit"}
    <3>1. r.kind = "snapshot" => Backtests(t) /\ r.key = key
      BY <1>1 DEF TaskOK, StageOK, Backtests
    <3> QED BY <1>7, <3>1 DEF Ensured
  <2>2. ASSUME NEW r \in added
        PROVE  /\ r.kind \notin Ensured
               /\ r.kind \in {"account", "deposit"} =>
                     \E q \in store' : q.kind = "bot" /\ q.key = r.key /\ q.by = r.by
    BY DEF Ensured
  <2> QED BY <2>1, <2>2 DEF IInv, NothingIsLeftOver, Ensured
<1> QED BY <1>6, <1>9, <1>10, <1>11, <1>12, <1>13, <1>14 DEF IInv

LEMMA CommitsRunPreserves == ASSUME IInv, NEW t \in Task, CommitsRun(t) PROVE IInv'
<1>1. task[t] \in TaskState
  BY DEF IInv, ProvisionTypeOK
<1>2. /\ RunRow(t) \in Rows /\ RunRow(t).kind = "run" /\ RunRow(t).by = t /\ RunRow(t).key = task[t].key
      /\ RunRow(t).content = task[t].uses
  BY <1>1 DEF RunRow, Row, Rows, Kinds, TaskState
<1>3. /\ task[t].stage = "finish" /\ Backtests(t)
      /\ task' = [task EXCEPT ![t] = Ended(t, {}, "ok")]
      /\ store' = store \cup task[t].written \cup {RunRow(t)}
  BY DEF CommitsRun
<1>4. {RunRow(t)} \in SUBSET Rows
  BY <1>2
<1> QED BY <1>2, <1>3, <1>4, CommitPreserves

(* An account that is stored has its bot, so that a name that is free for  *)
(* a bot is free for its account.                                          *)
LEMMA CommitsBotPreserves == ASSUME IInv, NEW t \in Task, CommitsBot(t) PROVE IInv'
<1>1. task[t] \in TaskState /\ task[t].stage = "finish" /\ task[t].stage # "idle" /\ ~Backtests(t)
  BY DEF IInv, ProvisionTypeOK, CommitsBot
<1>2. CASE Taken(Bot(t))
  BY <1>1, <1>2, FailsPreserves DEF CommitsBot
<1>3. CASE ~Taken(Bot(t))
  <2> DEFINE added == {Bot(t)} \cup (IF task[t].job.what = "create" THEN {} ELSE Funded(t))
  <2>1. /\ Bot(t) \in Rows /\ Bot(t).kind = "bot" /\ Bot(t).by = t /\ Bot(t).key = task[t].key
        /\ Bot(t).content = task[t].uses
    BY <1>1 DEF Bot, Row, Rows, Kinds, TaskState
  <2>2. /\ \A r \in Funded(t) : /\ r \in Rows /\ r.kind \in {"account", "deposit"}
                                /\ r.by = t /\ r.key = task[t].key
        /\ \A r, q \in Funded(t) : SameKey(r, q) => r = q
    BY <1>1 DEF Funded, Row, Rows, Kinds, TaskState, SameKey
  <2>3. ASSUME NEW r \in Funded(t) PROVE ~Taken(r)
    <3>1. SUFFICES ASSUME NEW q \in store, SameKey(q, r) PROVE FALSE
      BY DEF Taken
    <3>2. PICK b \in store : b.kind = "bot" /\ b.key = task[t].key
      BY <2>2, <3>1 DEF SameKey, IInv, NothingIsLeftOver
    <3> QED BY <1>3, <2>1, <3>2 DEF Taken, SameKey
  <2>4. added \in SUBSET Rows /\ Bot(t) \in added
    BY <2>1, <2>2
  <2>5. \A r \in added : r = Bot(t) \/ r \in Funded(t)
    OBVIOUS
  <2> HIDE DEF added
  <2>6. \A r, q \in added : SameKey(r, q) => r = q
    BY <2>1, <2>2, <2>5 DEF SameKey
  <2>7. \A r \in added : /\ r.kind \in {"account", "deposit", "bot", "run"}
                         /\ r.by = t /\ r.key = task[t].key
                         /\ r.kind \in {"bot", "run"} => r.content = task[t].uses
                         /\ r.kind # "run" => ~Taken(r)
                         /\ r.kind \in {"account", "deposit"} => \E q \in added : q.kind = "bot"
    BY <1>3, <2>1, <2>2, <2>3, <2>4, <2>5
  <2>8. \E r \in added : r.kind = IF Backtests(t) THEN "run" ELSE "bot"
    BY <1>1, <2>1, <2>4
  <2>9. /\ task' = [task EXCEPT ![t] = Ended(t, {}, "ok")]
        /\ store' = store \cup task[t].written \cup added
    BY <1>3 DEF CommitsBot, added
  <2> QED BY <1>1, <2>4, <2>6, <2>7, <2>8, <2>9, CommitPreserves
<1> QED BY <1>2, <1>3

LEMMA StutterPreserves == ASSUME IInv, UNCHANGED provisionVars PROVE IInv'
BY DEF provisionVars, IInv, ProvisionTypeOK, TaskOK, StageOK, UsesOK, ToldOK, Made, WrittenOK,
   Fresh, Taken, MadeOK, OneOfEach, NothingIsLeftOver

LEMMA NextPreserves == IInv /\ [ProvisionNext]_provisionVars => IInv'
<1> SUFFICES ASSUME IInv, [ProvisionNext]_provisionVars PROVE IInv'
  OBVIOUS
<1>1. CASE UNCHANGED provisionVars
  BY <1>1, StutterPreserves
<1>2. CASE ProvisionNext
  <2>1. PICK t \in Task :
          \/ Asks(t) \/ BeginsItem(t) \/ Finds(t) \/ FindsNone(t) \/ Adds(t) \/ Refuses(t)
          \/ CommitsBot(t) \/ CommitsRun(t) \/ Dies(t)
    BY <1>2 DEF ProvisionNext
  <2>2. CASE Asks(t) BY <2>2, AsksPreserves
  <2>3. CASE BeginsItem(t) BY <2>3, BeginsItemPreserves
  <2>4. CASE Finds(t) BY <2>4, FindsPreserves
  <2>5. CASE FindsNone(t) BY <2>5, FindsNonePreserves
  <2>6. CASE Adds(t) BY <2>6, AddsPreserves
  <2>7. CASE Refuses(t) BY <2>7, RefusesPreserves
  <2>8. CASE CommitsBot(t) BY <2>8, CommitsBotPreserves
  <2>9. CASE CommitsRun(t) BY <2>9, CommitsRunPreserves
  <2>10. CASE Dies(t) BY <2>10, DiesPreserves
  <2> QED BY <2>1, <2>2, <2>3, <2>4, <2>5, <2>6, <2>7, <2>8, <2>9, <2>10
<1> QED BY <1>1, <1>2

LEMMA Invariant == ProvisionSpec => []IInv
<1> QED BY InitEstablishes, NextPreserves, PTL DEF ProvisionSpec
-----------------------------------------------------------------------------
(* The state of Provisioning keeps its types (the rows of the two tables   *)
(* of versions, the snapshots, accounts, bots and runs).                   *)
THEOREM ProvisionTypes == ProvisionSpec => []ProvisionTypeOK
<1>1. IInv => ProvisionTypeOK
  BY DEF IInv
<1> QED BY Invariant, <1>1, PTL

(* Nothing is stored of a transaction that did not come to its end         *)
(* (provision_paper_bot, run_backtest_batch).                              *)
THEOREM StoredWhole == ProvisionSpec => []NothingIsLeftOver
<1>1. IInv => NothingIsLeftOver
  BY DEF IInv
<1> QED BY Invariant, <1>1, PTL

(* A bot or a run rests on the content its task asked for                  *)
(* (_ensure_strategy_version, _ensure_risk_profile_version).               *)
THEOREM RunsAsAsked == ProvisionSpec => []RunsWhatWasAsked
<1>1. IInv => RunsWhatWasAsked
  BY DEF IInv, MadeOK, RunsWhatWasAsked
<1> QED BY Invariant, <1>1, PTL

(* However many tasks race, there is one row of each key (the unique       *)
(* indexes and the INSERTs that meet them).                                *)
THEOREM OneRowOfEach == ProvisionSpec => []OneOfEach
<1>1. IInv => OneOfEach
  BY DEF IInv
<1> QED BY Invariant, <1>1, PTL

(* What a task answers of an item is what is stored of it (BatchItem).     *)
THEOREM AnswersTrue == ProvisionSpec => []AnswersAreTrue
<1>1. IInv => AnswersAreTrue
  BY DEF IInv, TaskOK, ToldOK, AnswersAreTrue
<1> QED BY Invariant, <1>1, PTL

(* No two transactions wait for one another (ensure_approved_versions      *)
(* takes the strategy before the profile in every caller).                 *)
THEOREM NoTwoWait == ProvisionSpec => []NoWaitCycle
<1>1. IInv => NoWaitCycle
  <2> SUFFICES ASSUME IInv, NEW t \in Task, NEW u \in Task, Waits(t, u), Waits(u, t) PROVE FALSE
    BY DEF NoWaitCycle
  <2>1. ASSUME NEW v \in Task, NEW w \in Task, Waits(v, w)
        PROVE  task[v].stage \in Ensured /\ task[v].stage \in Before(task[w].stage)
    <3>1. PICK r \in task[w].written : SameKey(r, Wanted(v))
      BY <2>1 DEF Waits
    <3>2. task[v].stage \in Ensured /\ r.kind \in Before(task[w].stage)
      BY <2>1 DEF Waits, IInv, TaskOK, StageOK
    <3>3. Wanted(v).kind = task[v].stage
      BY <3>2 DEF Wanted, Row, Ensured
    <3> QED BY <3>1, <3>2, <3>3 DEF SameKey
  <2>2. task[t].stage \in Before(task[u].stage) /\ task[u].stage \in Before(task[t].stage)
    BY <2>1
  <2> QED BY <2>1, <2>2 DEF Before, Ensured
<1> QED BY Invariant, <1>1, PTL

(* All that provision_paper_bot and run_backtest_batch promise, of any     *)
(* number of tasks, names and series.                                      *)
THEOREM Provisioned == ProvisionSpec => []ProvisioningIsSound
<1>1. IInv => ProvisioningIsSound
  BY DEF IInv, MadeOK, RunsWhatWasAsked, TaskOK, ToldOK, AnswersAreTrue, ProvisioningIsSound
<1> QED BY Invariant, <1>1, PTL
-----------------------------------------------------------------------------
(* The least of a set of numbers, by which the end of a page is found.    *)
LEMMA Least ==
    ASSUME NEW S \in SUBSET Nat, S # {}
    PROVE  \E m \in S : \A n \in S : m <= n
<1> DEFINE R == {p \in Nat \X Nat : p[1] < p[2]}
<1>1. IsWellFoundedOn(R, Nat)
  BY NatLessThanWellFounded DEF OpToRel
<1>2. \A n, m \in Nat : n < m => <<n, m>> \in R
  OBVIOUS
<1> HIDE DEF R
<1>3. PICK m \in S : \A n \in S : ~(<<n, m>> \in R)
  BY <1>1, WFMin
<1>4. ASSUME NEW n \in S PROVE m <= n
  <2>1. n \in Nat /\ m \in Nat
    OBVIOUS
  <2>2. ~(n < m)
    BY <1>2, <1>3, <2>1
  <2> QED BY <2>1, <2>2
<1> QED BY <1>4
-----------------------------------------------------------------------------
(* The order of the pages: newest first, by time and then by id.           *)
Stamped(r) == r.id \in Int /\ r.at \in Int
Distinct(S) == \A r, s \in S : r.id = s.id => r = s

LEMMA NewerOrders ==
    ASSUME NEW r, Stamped(r), NEW s, Stamped(s), NEW t, Stamped(t)
    PROVE  /\ ~Newer(r, r) /\ ~(Newer(r, s) /\ Newer(s, r))
           /\ Newer(r, s) /\ Newer(s, t) => Newer(r, t)
           /\ Newer(r, s) \/ Newer(s, r) \/ r.id = s.id
BY DEF Newer, Stamped

(* How many rows come before a row.                                        *)
Ahead(S, r) == {s \in S : Newer(s, r)}
Rank(S, r) == Cardinality(Ahead(S, r))
StampedRows(S) == IsFiniteSet(S) /\ Distinct(S) /\ \A r \in S : Stamped(r)

LEMMA Ranks ==
    ASSUME NEW S, StampedRows(S)
    PROVE  /\ \A r \in S : Rank(S, r) \in Nat /\ Rank(S, r) < Cardinality(S)
           /\ \A r, s \in S : Newer(r, s) => Rank(S, r) < Rank(S, s)
<1>1. ASSUME NEW r \in S
      PROVE  /\ IsFiniteSet(Ahead(S, r)) /\ Rank(S, r) \in Nat /\ r \notin Ahead(S, r)
             /\ IsFiniteSet(Ahead(S, r) \cup {r})
             /\ Cardinality(Ahead(S, r) \cup {r}) = Rank(S, r) + 1
  <2>1. IsFiniteSet(Ahead(S, r))
    BY FS_Subset DEF StampedRows, Ahead
  <2>2. r \notin Ahead(S, r)
    BY NewerOrders DEF StampedRows, Ahead
  <2> QED BY <2>1, <2>2, FS_AddElement, FS_CardinalityType DEF Rank
<1>2. ASSUME NEW r \in S PROVE Rank(S, r) < Cardinality(S)
  <2>1. Ahead(S, r) \cup {r} \in SUBSET S /\ IsFiniteSet(S)
    BY DEF Ahead, StampedRows
  <2>2. Cardinality(Ahead(S, r) \cup {r}) <= Cardinality(S) /\ Cardinality(S) \in Nat
    BY <2>1, FS_Subset, FS_CardinalityType
  <2> QED BY <1>1, <2>2
<1>3. ASSUME NEW r \in S, NEW s \in S, Newer(r, s) PROVE Rank(S, r) < Rank(S, s)
  <2>1. ASSUME NEW x \in Ahead(S, r) \cup {r} PROVE x \in Ahead(S, s)
    BY <1>3, NewerOrders DEF Ahead, StampedRows
  <2>2. Cardinality(Ahead(S, r) \cup {r}) <= Rank(S, s)
    BY <1>1, <2>1, FS_Subset DEF Rank
  <2>3. /\ Rank(S, r) \in Nat /\ Rank(S, s) \in Nat
        /\ Cardinality(Ahead(S, r) \cup {r}) = Rank(S, r) + 1
    BY <1>1
  <2> QED BY <2>2, <2>3
<1> QED BY <1>1, <1>2, <1>3

LEMMA NewestIs == ASSUME NEW S PROVE Newest(S) = {r \in S : Rank(S, r) < PageSize}
BY DEF Newest, Rank, Ahead

(* A short rest is one page; of a longer one, what is not on the page is   *)
(* older than the oldest row of the page.                                  *)
LEMMA LastOfAll ==
    ASSUME NEW S, StampedRows(S), Cardinality(S) <= PageSize
    PROVE  Newest(S) = S /\ NextBefore(S) = <<>>
<1>1. Cardinality(S) \in Nat /\ PageSize \in Nat
  BY JournalAssumption, FS_CardinalityType DEF StampedRows
<1>2. \A r \in S : Rank(S, r) < PageSize
  BY <1>1, Ranks
<1> QED BY <1>2, NewestIs DEF NextBefore

LEMMA OldestOfPage ==
    ASSUME NEW S, StampedRows(S), ~(Cardinality(S) <= PageSize)
    PROVE  \E o \in Newest(S) :
             /\ NextBefore(S) = <<o>>
             /\ \A s \in Newest(S) : s = o \/ Newer(s, o)
             /\ \A r \in S \ Newest(S) : Newer(o, r)
<1>1. PageSize \in Nat \ {0} /\ IsFiniteSet(S) /\ S # {}
  <2>1. Cardinality({}) = 0
    BY FS_EmptySet
  <2> QED BY <2>1, JournalAssumption DEF StampedRows
<1>2. Newest(S) # {}
  <2> DEFINE ranks == {Rank(S, r) : r \in S}
  <2>1. ranks \in SUBSET Nat /\ ranks # {}
    BY <1>1, Ranks
  <2>2. PICK m \in ranks : \A n \in ranks : m <= n
    BY <2>1, Least
  <2>3. PICK r \in S : m = Rank(S, r)
    BY <2>2
  <2>4. Ahead(S, r) = {}
    <3>1. ASSUME NEW s \in Ahead(S, r) PROVE FALSE
      <4>1. s \in S /\ Rank(S, s) < Rank(S, r) /\ Rank(S, s) \in Nat /\ Rank(S, r) \in Nat
        BY <3>1, Ranks DEF Ahead
      <4>2. Rank(S, s) \in ranks
        BY <4>1
      <4> QED BY <2>2, <2>3, <4>1, <4>2
    <3> QED BY <3>1
  <2>5. Rank(S, r) = 0
    BY <2>4, FS_EmptySet DEF Rank
  <2> QED BY <1>1, <2>5, NewestIs
<1>3. \E o \in Newest(S) : \A s \in Newest(S) : Rank(S, s) <= Rank(S, o)
  <2> DEFINE below == {PageSize - Rank(S, r) : r \in Newest(S)}
  <2>1. \A r \in Newest(S) : r \in S /\ Rank(S, r) \in Nat /\ Rank(S, r) < PageSize
    BY Ranks, NewestIs
  <2>2. below \in SUBSET Nat /\ below # {}
    <3>1. \A r \in Newest(S) : PageSize - Rank(S, r) \in Nat
      BY <1>1, <2>1
    <3> QED BY <1>2, <3>1
  <2>3. PICK m \in below : \A n \in below : m <= n
    BY <2>2, Least
  <2>4. PICK o \in Newest(S) : m = PageSize - Rank(S, o)
    BY <2>3
  <2>5. ASSUME NEW s \in Newest(S) PROVE Rank(S, s) <= Rank(S, o)
    <3>1. PageSize - Rank(S, s) \in below
      OBVIOUS
    <3>2. PageSize - Rank(S, o) <= PageSize - Rank(S, s)
      BY <2>3, <2>4, <3>1
    <3> QED BY <1>1, <2>1, <3>2
  <2> QED BY <2>5
<1>4. PICK o \in Newest(S) : \A s \in Newest(S) : Rank(S, s) <= Rank(S, o)
  BY <1>3
<1>5. Newest(S) \subseteq S
  BY NewestIs
<1>6. ASSUME NEW s \in Newest(S) PROVE s = o \/ Newer(s, o)
  <2>1. ~Newer(o, s)
    <3>1. Newer(o, s) => Rank(S, o) < Rank(S, s)
      BY <1>5, Ranks
    <3>2. Rank(S, s) \in Nat /\ Rank(S, o) \in Nat /\ Rank(S, s) <= Rank(S, o)
      BY <1>4, <1>5, Ranks
    <3> QED BY <3>1, <3>2
  <2> QED BY <1>5, <2>1, NewerOrders DEF StampedRows, Distinct
<1>7. PICK x \in Newest(S) : /\ NextBefore(S) = <<x>>
                             /\ \A s \in Newest(S) : s = x \/ Newer(s, x)
  BY <1>6 DEF NextBefore
<1>8. ASSUME NEW r \in S \ Newest(S) PROVE Newer(x, r)
  <2>1. ~Newer(r, x)
    <3>1. /\ Rank(S, r) \in Nat /\ Rank(S, x) \in Nat /\ Rank(S, x) < PageSize
          /\ ~(Rank(S, r) < PageSize)
      BY <1>5, Ranks, NewestIs
    <3>2. Newer(r, x) => Rank(S, r) < Rank(S, x)
      BY <1>5, Ranks
    <3> QED BY <1>1, <3>1, <3>2
  <2>2. x # r /\ x \in S
    BY <1>5
  <2> QED BY <2>1, <2>2, NewerOrders DEF StampedRows, Distinct
<1> QED BY <1>7, <1>8
-----------------------------------------------------------------------------
(* Ids are drawn once, by the tables and by the open transactions.         *)
OwnIds(table, kind, drafts) ==
    /\ Distinct(table)
    /\ \A b \in Trader : drafts[b].phase = "done" =>
         /\ Distinct(drafts[b][kind])
         /\ \A r \in drafts[b][kind] :
              /\ \A s \in table : r.id # s.id
              /\ \A c \in Trader \ {b} : drafts[c].phase = "done" =>
                    \A s \in drafts[c][kind] : r.id # s.id

LEMMA IdsDrawn ==
    ASSUME NEW table, NEW kind, OwnIds(table, kind, draft), NEW b \in Trader, NEW d,
           draft[b].phase # "done", DOMAIN draft = Trader,
           Distinct(d[kind]), \A r \in d[kind] : r.id \in Spare(table, kind)
    PROVE  OwnIds(table, kind, [draft EXCEPT ![b] = d])
<1> DEFINE new == [draft EXCEPT ![b] = d]
<1>1. new[b] = d /\ \A c \in Trader \ {b} : new[c] = draft[c]
  OBVIOUS
<1>2. ASSUME NEW r \in d[kind]
      PROVE  /\ \A s \in table : r.id # s.id
             /\ \A c \in Trader \ {b} : draft[c].phase = "done" =>
                   \A s \in draft[c][kind] : r.id # s.id
  BY DEF Spare, Drawn
<1> HIDE DEF new
<1>3. OwnIds(table, kind, new)
  BY <1>1, <1>2 DEF OwnIds
<1> QED BY <1>3 DEF new

LEMMA IdsDropped ==
    ASSUME NEW table, NEW kind, OwnIds(table, kind, draft), NEW b \in Trader, NEW d,
           d.phase # "done", DOMAIN draft = Trader
    PROVE  OwnIds(table, kind, [draft EXCEPT ![b] = d])
<1> DEFINE new == [draft EXCEPT ![b] = d]
<1>1. new[b] = d /\ \A c \in Trader \ {b} : new[c] = draft[c]
  OBVIOUS
<1> HIDE DEF new
<1>2. OwnIds(table, kind, new)
  BY <1>1 DEF OwnIds
<1> QED BY <1>2 DEF new

LEMMA IdsRecorded ==
    ASSUME NEW table, NEW kind, OwnIds(table, kind, draft), NEW b \in Trader, NEW d,
           draft[b].phase = "done", d.phase # "done", DOMAIN draft = Trader
    PROVE  OwnIds(table \cup draft[b][kind], kind, [draft EXCEPT ![b] = d])
<1> DEFINE new == [draft EXCEPT ![b] = d]
<1>1. new[b] = d /\ \A c \in Trader \ {b} : new[c] = draft[c]
  OBVIOUS
<1> HIDE DEF new
<1>2. Distinct(table \cup draft[b][kind])
  BY DEF OwnIds, Distinct
<1>3. OwnIds(table \cup draft[b][kind], kind, new)
  BY <1>1, <1>2 DEF OwnIds
<1> QED BY <1>3 DEF new
-----------------------------------------------------------------------------
(* A signal and the rows that refer to it say the same (evaluate, on its   *)
(* way to one of its ends).                                                *)
SignalOK(r) ==
    /\ Stamped(r)
    /\ r.did \in {"hold", "closed", "paused", "denied", "halted", "ordered"}
    /\ r.action = "hold" <=> r.did = "hold"
    /\ r.intent <=> r.did = "ordered"
    /\ r.closed <=> r.did = "closed"
    /\ r.risk = CASE r.did = "denied" -> "deny" [] r.did \in {"halted", "ordered"} -> "allow"
                  [] OTHER -> "none"

DraftOK(d) ==
    /\ d.phase \in {"none", "open", "done"}
    /\ d.phase = "open" => d.since \in Int
    /\ d.phase = "done" => /\ IsFiniteSet(d.rows) /\ \A r \in d.rows : SignalOK(r)
                           /\ IsFiniteSet(d.fills) /\ \A r \in d.fills : Stamped(r)

TablesOK ==
    /\ wall \in Nat /\ DOMAIN draft = Trader /\ \A b \in Trader : DraftOK(draft[b])
    /\ IsFiniteSet(evaluated) /\ \A r \in evaluated : SignalOK(r)
    /\ IsFiniteSet(trades) /\ \A r \in trades : Stamped(r)
    /\ OwnIds(evaluated, "rows", draft) /\ OwnIds(trades, "fills", draft)

LEMMA SignalsWritten ==
    ASSUME TablesOK, NEW b \in Trader, draft[b].phase = "open",
           NEW action \in {"buy", "sell", "hold"}, NEW held \in BOOLEAN, NEW paused \in BOOLEAN,
           NEW denied \in BOOLEAN, NEW halted \in BOOLEAN, NEW id \in Id
    PROVE  SignalOK(SignalRow(b, id, action, Decided(action, held, paused, denied, halted)))
<1> DEFINE did == Decided(action, held, paused, denied, halted)
           r == SignalRow(b, id, action, did)
<1>1. /\ did \in {"hold", "closed", "paused", "denied", "halted", "ordered"}
      /\ action = "hold" <=> did = "hold"
  BY DEF Decided
<1> HIDE DEF did
<1>2. /\ r.id = id /\ r.at = draft[b].since /\ r.action = action /\ r.did = did
      /\ r.intent = (did = "ordered") /\ r.closed = (did = "closed")
      /\ r.risk = CASE did = "denied" -> "deny" [] did \in {"halted", "ordered"} -> "allow"
                    [] OTHER -> "none"
  BY DEF SignalRow
<1>3. draft[b].since \in Int /\ id \in Int
  BY JournalAssumption DEF TablesOK, DraftOK
<1> HIDE DEF r
<1>4. SignalOK(r)
  BY <1>1, <1>2, <1>3 DEF SignalOK, Stamped
<1> QED BY <1>4 DEF r, did

LEMMA DraftKept ==
    ASSUME TablesOK, NEW b \in Trader, NEW d, DraftOK(d), draft' = [draft EXCEPT ![b] = d],
           OwnIds(evaluated', "rows", draft'), OwnIds(trades', "fills", draft'), wall' = wall,
           IsFiniteSet(evaluated'), \A r \in evaluated' : SignalOK(r),
           IsFiniteSet(trades'), \A r \in trades' : Stamped(r)
    PROVE  TablesOK'
BY DEF TablesOK, DraftOK, SignalOK, Stamped

LEMMA Deciding ==
    ASSUME TablesOK, NEW b \in Trader, Decides(b)
    PROVE  TablesOK'
<1>1. draft[b].phase = "open" /\ UNCHANGED <<wall, evaluated, trades, holds, view>>
  BY DEF Decides
<1>2. PICK action \in {"buy", "sell", "hold"}, stopHit \in BOOLEAN, paused \in BOOLEAN,
           denied \in BOOLEAN, halted \in BOOLEAN :
         LET held == holds[b] /\ ~stopHit
             did == Decided(action, held, paused, denied, halted)
         IN /\ stopHit => holds[b]
            /\ \E id \in Spare(evaluated, "rows") : \E a, z \in Spare(trades, "fills") :
               \E gain \in Gains :
               /\ stopHit /\ did = "ordered" => a # z
               /\ draft' = [draft EXCEPT ![b] =
                    [phase |-> "done", rows |-> {SignalRow(b, id, action, did)},
                     fills |-> (IF stopHit THEN {FillAt(b, a, gain)} ELSE {})
                               \cup (IF did = "closed" THEN {FillAt(b, z, gain)} ELSE {})
                               \cup (IF did = "ordered" THEN {FillAt(b, z, 0)} ELSE {}),
                     after |-> did = "ordered" \/ (held /\ did # "closed")]]
  BY Zenon DEF Decides
<1> DEFINE held == holds[b] /\ ~stopHit
           did == Decided(action, held, paused, denied, halted)
<1>3. PICK id \in Spare(evaluated, "rows"), a \in Spare(trades, "fills"),
           z \in Spare(trades, "fills"), gain \in Gains :
         /\ stopHit /\ did = "ordered" => a # z
         /\ draft' = [draft EXCEPT ![b] =
              [phase |-> "done", rows |-> {SignalRow(b, id, action, did)},
               fills |-> (IF stopHit THEN {FillAt(b, a, gain)} ELSE {})
                         \cup (IF did = "closed" THEN {FillAt(b, z, gain)} ELSE {})
                         \cup (IF did = "ordered" THEN {FillAt(b, z, 0)} ELSE {}),
               after |-> did = "ordered" \/ (held /\ did # "closed")]]
  BY <1>2
<1> DEFINE fills == (IF stopHit THEN {FillAt(b, a, gain)} ELSE {})
                    \cup (IF did = "closed" THEN {FillAt(b, z, gain)} ELSE {})
                    \cup (IF did = "ordered" THEN {FillAt(b, z, 0)} ELSE {})
           row == SignalRow(b, id, action, did)
           d == [phase |-> "done", rows |-> {row}, fills |-> fills,
                 after |-> did = "ordered" \/ (held /\ did # "closed")]
<1>4. held \in BOOLEAN /\ (stopHit => ~held)
  OBVIOUS
<1>5. did = "closed" => held
  BY DEF Decided
<1>6. SignalOK(row) /\ row.id = id
  <2>1. id \in Id
    BY DEF Spare
  <2>2. SignalOK(row)
    BY <1>1, <1>4, <2>1, SignalsWritten
  <2> QED BY <2>2 DEF SignalRow
<1>7. /\ a \in Int /\ z \in Int /\ wall \in Int
      /\ \A x, y : FillAt(b, x, y).id = x /\ FillAt(b, x, y).at = wall
  BY <1>1, JournalAssumption DEF FillAt, Spare, TablesOK
<1>8. \A r \in fills : Stamped(r) /\ r.id \in Spare(trades, "fills")
  BY <1>7 DEF Stamped
<1>9. IsFiniteSet(fills) /\ Distinct(fills)
  <2>1. CASE stopHit /\ did = "ordered"
    <3>1. fills = {FillAt(b, a, gain), FillAt(b, z, 0)}
      BY <2>1
    <3>2. IsFiniteSet({FillAt(b, a, gain), FillAt(b, z, 0)})
      <4>1. IsFiniteSet({FillAt(b, a, gain)})
        BY FS_Singleton
      <4>2. {FillAt(b, a, gain), FillAt(b, z, 0)} = {FillAt(b, a, gain)} \cup {FillAt(b, z, 0)}
        OBVIOUS
      <4> QED BY <4>1, <4>2, FS_AddElement
    <3> QED BY <1>3, <1>7, <2>1, <3>1, <3>2 DEF Distinct
  <2>2. CASE ~(stopHit /\ did = "ordered")
    <3>1. fills = {} \/ \E f : fills = {f}
      BY <1>4, <1>5, <2>2
    <3> HIDE DEF fills
    <3>2. IsFiniteSet(fills)
      <4>1. CASE fills = {}
        BY <4>1, FS_EmptySet
      <4>2. CASE \E f : fills = {f}
        BY <4>2, FS_Singleton
      <4> QED BY <3>1, <4>1, <4>2
    <3> QED BY <3>1, <3>2 DEF Distinct
  <2> QED BY <2>1, <2>2
<1> HIDE DEF fills, row, did, held
<1>10. DraftOK(d)
  <2>1. IsFiniteSet({row})
    BY FS_Singleton
  <2> QED BY <1>6, <1>8, <1>9, <2>1 DEF DraftOK
<1>11. d["rows"] = {row} /\ d["fills"] = fills
  OBVIOUS
<1>12. draft' = [draft EXCEPT ![b] = d]
  BY <1>3 DEF fills, row, did, held
<1> HIDE DEF d
<1>13. OwnIds(evaluated, "rows", draft')
  BY <1>1, <1>6, <1>11, <1>12, IdsDrawn DEF TablesOK, Distinct
<1>14. OwnIds(trades, "fills", draft')
  BY <1>1, <1>8, <1>9, <1>11, <1>12, IdsDrawn DEF TablesOK
<1> QED BY <1>1, <1>10, <1>12, <1>13, <1>14, DraftKept DEF TablesOK

LEMMA Recording ==
    ASSUME TablesOK, NEW b \in Trader, Records(b)
    PROVE  TablesOK'
<1>1. /\ draft[b].phase = "done" /\ draft' = [draft EXCEPT ![b] = NoDraft]
      /\ evaluated' = evaluated \cup draft[b]["rows"]
      /\ trades' = trades \cup draft[b]["fills"] /\ wall' = wall
  BY DEF Records
<1>2. NoDraft.phase = "none" /\ DraftOK(NoDraft)
  BY DEF NoDraft, DraftOK
<1>3. OwnIds(evaluated', "rows", draft') /\ OwnIds(trades', "fills", draft')
  BY <1>1, <1>2, IdsRecorded DEF TablesOK
<1>4. DraftOK(draft[b])
  BY DEF TablesOK
<1>5. IsFiniteSet(evaluated') /\ \A r \in evaluated' : SignalOK(r)
  BY <1>1, <1>4, FS_Union DEF TablesOK, DraftOK
<1>6. IsFiniteSet(trades') /\ \A r \in trades' : Stamped(r)
  BY <1>1, <1>4, FS_Union DEF TablesOK, DraftOK
<1> QED BY <1>1, <1>2, <1>3, <1>5, <1>6, DraftKept

LEMMA TablesKept ==
    ASSUME TablesOK, [JournalNext]_journalVars
    PROVE  TablesOK'
<1>1. CASE \E b \in Trader : Evaluates(b)
  <2>1. PICK b \in Trader : Evaluates(b)
    BY <1>1
  <2> DEFINE d == [phase |-> "open", since |-> wall]
  <2>2. draft' = [draft EXCEPT ![b] = d] /\ UNCHANGED <<wall, evaluated, trades>>
    BY <2>1 DEF Evaluates
  <2>3. d.phase = "open" /\ DraftOK(d)
    BY DEF DraftOK, TablesOK
  <2> HIDE DEF d
  <2> QED BY <2>2, <2>3, IdsDropped, DraftKept DEF TablesOK
<1>2. CASE \E b \in Trader : RollsBack(b)
  <2>1. PICK b \in Trader : RollsBack(b)
    BY <1>2
  <2>2. draft' = [draft EXCEPT ![b] = NoDraft] /\ UNCHANGED <<wall, evaluated, trades>>
    BY <2>1 DEF RollsBack
  <2>3. NoDraft.phase = "none" /\ DraftOK(NoDraft)
    BY DEF DraftOK, NoDraft
  <2> QED BY <2>2, <2>3, IdsDropped, DraftKept DEF TablesOK
<1>3. CASE Ticks
  BY <1>3 DEF Ticks, TablesOK, DraftOK, SignalOK, Stamped
<1>4. CASE UNCHANGED <<wall, evaluated, trades, holds, draft>>
  BY <1>4 DEF TablesOK, DraftOK, SignalOK, Stamped
<1> QED
  BY <1>1, <1>2, <1>3, <1>4, Deciding, Recording
     DEF JournalNext, journalVars, OpensList, ReadsTrades, ReadsCounts, ReadsRealized, ReadsClosings,
         ReadsSignals, TurnsPage
-----------------------------------------------------------------------------
(* The reader. From the first page on (Begun), what was there at first is  *)
(* shown or older than the cursor, and what is shown is not older than it. *)
Shape(v) ==
    v = [list |-> v.list, bots |-> v.bots, outcomes |-> v.outcomes, pc |-> v.pc,
         before |-> v.before, shown |-> v.shown, again |-> v.again, first |-> v.first,
         asked |-> v.asked, calm |-> v.calm, count |-> v.count, realized |-> v.realized]

Begun(v) == v.before # <<>> \/ v.pc \in {"counts", "realized", "told"}

Paged(v) ==
    /\ ~v.again
    /\ \A s \in v.shown : Stamped(s)
    /\ ~Begun(v) => v.shown = {}
    /\ v.before # <<>> => /\ v.before = <<v.before[1]>> /\ Stamped(v.before[1])
                          /\ \A s \in v.shown : s = v.before[1] \/ Newer(s, v.before[1])

FirstOK(v) ==
    Begun(v) => \A r \in v.first :
      (v.list = "trades" \/ r.did \in v.outcomes) =>
        \/ \E s \in v.shown : s.id = r.id
        \/ v.before # <<>> /\ Newer(v.before[1], r)

(* The trades and their totals.                                            *)
TradesOK ==
    view.list = "trades" =>
      /\ view.pc \in {"page", "counts", "realized", "told"}
      /\ view.first \subseteq Matching(trades) /\ view.shown \subseteq Matching(trades)
      /\ Begun(view) /\ view.calm => view.first = Matching(trades)
      /\ view.pc \in {"realized", "told"} /\ view.calm => view.count = Cardinality(Matching(trades))
      /\ view.pc = "told" /\ view.calm => view.realized = RealizedTotal

(* The decisions: the signals that were there at first were there when the *)
(* closings were read.                                                     *)
DecisionsOK ==
    view.list = "decisions" =>
      /\ view.pc \in {"page", "signals", "told"}
      /\ view.first \subseteq view.asked /\ view.asked \subseteq evaluated
      /\ view.first \subseteq Matching(evaluated)
      /\ \A s \in view.shown : \E r \in evaluated : r.id = s.id /\ r.at = s.at

ViewOK ==
    \/ view = NoView
    \/ /\ view.list \in {"trades", "decisions"} /\ Shape(view)
       /\ Paged(view) /\ FirstOK(view) /\ TradesOK /\ DecisionsOK

JournalInv == TablesOK /\ ViewOK /\ DecisionsAreTold

(* The next page comes after what was shown, and leaves out only what is   *)
(* older than its cursor.                                                  *)
LEMMA PageShown ==
    ASSUME NEW rows, StampedRows(rows), Paged(view), ~(view.pc \in {"counts", "realized", "told"}),
           \A r \in rows, s \in view.shown : r.id = s.id => r.at = s.at,
           NEW rest, rest = {r \in rows : Past(r, view.before)}, NEW next,
           next.shown = view.shown \cup Newest(rest), next.before = NextBefore(rest),
           next.again <=> (view.again \/ \E r \in Newest(rest), s \in view.shown :
                                            r.id = s.id \/ Newer(r, s)),
           Begun(next)
    PROVE  /\ Paged(next) /\ Newest(rest) \subseteq rows
           /\ \A r \in rows : Past(r, view.before) =>
                r \in next.shown \/ (next.before # <<>> /\ Newer(next.before[1], r))
<1>1. StampedRows(rest) /\ rest \subseteq rows
  BY FS_Subset DEF StampedRows, Distinct
<1>2. Newest(rest) \subseteq rest
  BY NewestIs
<1>3. ASSUME NEW r \in rest, NEW s \in view.shown PROVE Newer(s, r) /\ r.id # s.id
  <2>1. view.before # <<>>
    BY DEF Paged, Begun
  <2>2. /\ Stamped(view.before[1]) /\ Stamped(s) /\ Stamped(r)
        /\ s = view.before[1] \/ Newer(s, view.before[1])
        /\ Newer(view.before[1], r)
    BY <1>1, <2>1 DEF Paged, Past, StampedRows
  <2>3. Newer(s, r)
    BY <2>2, NewerOrders
  <2>4. r.id = s.id => r.at = s.at
    BY <1>1
  <2> QED BY <2>2, <2>3, <2>4 DEF Newer, Stamped
<1>4. ~next.again
  <2>1. ASSUME NEW r \in Newest(rest), NEW s \in view.shown PROVE ~(r.id = s.id \/ Newer(r, s))
    <3>1. r \in rest /\ Stamped(r) /\ Stamped(s)
      BY <1>1, <1>2 DEF Paged, StampedRows
    <3> QED BY <1>3, <3>1, NewerOrders
  <2> QED BY <2>1 DEF Paged
<1>5. \A s \in next.shown : Stamped(s)
  BY <1>1, <1>2 DEF Paged, StampedRows
<1>6. CASE Cardinality(rest) <= PageSize
  <2>1. Newest(rest) = rest /\ next.before = <<>>
    BY <1>1, <1>6, LastOfAll
  <2> QED BY <1>1, <1>4, <1>5, <2>1 DEF Paged
<1>7. CASE ~(Cardinality(rest) <= PageSize)
  <2>1. PICK o \in Newest(rest) :
               /\ next.before = <<o>>
               /\ \A s \in Newest(rest) : s = o \/ Newer(s, o)
               /\ \A r \in rest \ Newest(rest) : Newer(o, r)
    BY <1>1, <1>7, OldestOfPage
  <2>2. next.before # <<>> /\ next.before[1] = o /\ o \in rest /\ Stamped(o)
    BY <1>1, <1>2, <2>1 DEF StampedRows
  <2>3. \A s \in next.shown : s = o \/ Newer(s, o)
    BY <1>3, <2>1, <2>2
  <2>4. Paged(next)
    BY <1>4, <1>5, <2>1, <2>2, <2>3 DEF Paged
  <2> QED BY <1>1, <1>2, <2>1, <2>2, <2>4
<1> QED BY <1>6, <1>7

LEMMA ReadingTrades ==
    ASSUME TablesOK, ViewOK, DecisionsAreTold, ReadsTrades
    PROVE  ViewOK' /\ DecisionsAreTold'
<1> DEFINE rows == Matching(trades)
           rest == {r \in rows : Past(r, view.before)}
<1>1. /\ view.list = "trades" /\ view.pc = "page"
      /\ view' = [Shown(rows) EXCEPT
                    !.pc = "counts",
                    !.first = IF view.before = <<>> THEN rows ELSE @,
                    !.calm = view.before = <<>> \/ @]
      /\ UNCHANGED <<trades, evaluated>>
  BY DEF ReadsTrades
<1>2. view # NoView
  BY <1>1 DEF NoView
<1>3. Shape(view) /\ Paged(view) /\ FirstOK(view) /\ TradesOK
  BY <1>2 DEF ViewOK
<1>4. StampedRows(rows)
  BY FS_Subset DEF TablesOK, OwnIds, StampedRows, Distinct, Matching
<1>5. \A r \in rows, s \in view.shown : r.id = s.id => r.at = s.at
  BY <1>1, <1>3, <1>4 DEF TradesOK, StampedRows, Distinct
<1>6. /\ Shape(view') /\ view'.list = "trades" /\ view'.bots = view.bots /\ view'.pc = "counts"
      /\ view'.first = (IF view.before = <<>> THEN rows ELSE view.first)
      /\ view'.calm = (view.before = <<>> \/ view.calm)
      /\ view'.shown = view.shown \cup Newest(rest) /\ view'.before = NextBefore(rest)
      /\ view'.again <=> (view.again \/ \E r \in Newest(rest), s \in view.shown :
                                            r.id = s.id \/ Newer(r, s))
  BY <1>1, <1>3 DEF Shape, Shown
<1>7. rows' = rows
  BY <1>1, <1>6 DEF Matching
<1>8. Begun(view')
  BY <1>6 DEF Begun
<1>9. rest = {r \in rows : Past(r, view.before)}
  OBVIOUS
<1> HIDE DEF rest, rows
<1>10. /\ Paged(view') /\ Newest(rest) \subseteq rows
       /\ \A r \in rows : Past(r, view.before) =>
             r \in view'.shown \/ (view'.before # <<>> /\ Newer(view'.before[1], r))
  <2>1. ~(view.pc \in {"counts", "realized", "told"}) /\ Paged(view)
    BY <1>1, <1>3
  <2> QED BY <1>4, <1>5, <1>6, <1>8, <1>9, <2>1, PageShown, Zenon
<1>11. view'.first \subseteq rows /\ (view'.calm => view'.first = rows)
  BY <1>1, <1>3, <1>6 DEF TradesOK, Begun, rows
<1>12. FirstOK(view')
  <2>1. ASSUME NEW r \in view'.first
        PROVE  \/ \E s \in view'.shown : s.id = r.id
               \/ view'.before # <<>> /\ Newer(view'.before[1], r)
    <3>1. CASE view.before = <<>>
      BY <1>10, <1>11, <3>1 DEF Past
    <3>2. CASE view.before # <<>>
      <4>1. (\E s \in view.shown : s.id = r.id) \/ Newer(view.before[1], r)
        BY <1>1, <1>3, <1>6, <3>2 DEF FirstOK, Begun
      <4> QED BY <1>6, <1>10, <1>11, <4>1 DEF Past
    <3> QED BY <3>1, <3>2
  <2> QED BY <2>1 DEF FirstOK
<1>13. TradesOK'
  <2>1. view'.shown \subseteq rows
    BY <1>1, <1>3, <1>6, <1>10 DEF TradesOK, rows
  <2> QED BY <1>6, <1>7, <1>11, <2>1 DEF TradesOK, rows
<1> QED BY <1>6, <1>10, <1>12, <1>13 DEF ViewOK, DecisionsOK, DecisionsAreTold

(* What an entry says, of a signal that was written with what refers to it.*)
LEMMA EntriesAreTold ==
    ASSUME TablesOK, NEW asked, asked \subseteq evaluated, NEW r \in evaluated,
           NEW closings, closings = {c.id : c \in {s \in asked : s.closed}}
    PROVE  /\ Outcome(r, closings) = r.did
              \/ (r \notin asked /\ r.did = "closed" /\ Outcome(r, closings) = "paused")
<1>1. SignalOK(r) /\ Distinct(evaluated)
  BY DEF TablesOK, OwnIds
<1>2. r.id \in closings => r \in asked /\ r.closed
  BY <1>1 DEF Distinct
<1>3. r \in asked /\ r.closed => r.id \in closings
  OBVIOUS
<1> QED BY <1>1, <1>2, <1>3 DEF SignalOK, Outcome

LEMMA ReadingSignals ==
    ASSUME TablesOK, ViewOK, DecisionsAreTold, ReadsSignals
    PROVE  ViewOK' /\ DecisionsAreTold'
<1> DEFINE closings == {r.id : r \in {s \in view.asked : s.closed}}
           Told(r) == [id |-> r.id, at |-> r.at, did |-> r.did, late |-> r \notin view.asked,
                       outcome |-> Outcome(r, closings)]
           told == {Told(r) : r \in Matching(evaluated)}
           rows == {t \in told : t.outcome \in view.outcomes}
           rest == {r \in rows : Past(r, view.before)}
<1>1. /\ view.list = "decisions" /\ view.pc = "signals"
      /\ view' = [Shown(rows) EXCEPT !.pc = "told"]
      /\ UNCHANGED <<trades, evaluated>>
  BY DEF ReadsSignals
<1>2. view # NoView
  BY <1>1 DEF NoView
<1>3. Shape(view) /\ Paged(view) /\ FirstOK(view) /\ DecisionsOK
  BY <1>2 DEF ViewOK
<1>4. /\ Shape(view') /\ view'.list = "decisions" /\ view'.bots = view.bots /\ view'.pc = "told"
      /\ view'.first = view.first /\ view'.outcomes = view.outcomes /\ view'.asked = view.asked
      /\ view'.shown = view.shown \cup Newest(rest) /\ view'.before = NextBefore(rest)
      /\ view'.again <=> (view.again \/ \E r \in Newest(rest), s \in view.shown :
                                            r.id = s.id \/ Newer(r, s))
  <2> HIDE DEF rows
  <2> QED BY <1>1, <1>3 DEF Shape, Shown
<1>5. \A r : Told(r).id = r.id /\ Told(r).at = r.at /\ Told(r).did = r.did
             /\ (Told(r).late <=> r \notin view.asked) /\ Told(r).outcome = Outcome(r, closings)
  OBVIOUS
<1>6. closings = {c.id : c \in {s \in view.asked : s.closed}}
  OBVIOUS
<1> HIDE DEF closings, Told
<1>7. view.asked \subseteq evaluated
  BY <1>1, <1>3 DEF DecisionsOK
<1>8. ASSUME NEW r \in evaluated
      PROVE  /\ Told(r).outcome = r.did \/ (Told(r).late /\ r.did = "closed" /\ Told(r).outcome = "paused")
             /\ r \in view.asked => Told(r).outcome = r.did
  <2>1. \/ Outcome(r, closings) = r.did
        \/ (r \notin view.asked /\ r.did = "closed" /\ Outcome(r, closings) = "paused")
    BY <1>6, <1>7, EntriesAreTold
  <2>2. r \in view.asked => Outcome(r, closings) = r.did
    BY <2>1
  <2> QED BY <1>5, <2>1, <2>2
<1>9. Matching(evaluated) \subseteq evaluated
  BY DEF Matching
<1>10. \A t \in rows : \E r \in evaluated : t = Told(r)
  BY <1>9
<1>11. StampedRows(rows)
  <2>1. IsFiniteSet(told)
    <3> DEFINE Of(t) == CHOOSE r \in Matching(evaluated) : t = Told(r)
               of == [t \in told |-> Of(t)]
    <3>1. \A t \in told : Of(t) \in Matching(evaluated) /\ t = Told(Of(t))
      OBVIOUS
    <3> HIDE DEF told, Of
    <3>2. of \in Injection(told, Matching(evaluated))
      BY <3>1 DEF Injection, IsInjective
    <3>3. IsFiniteSet(Matching(evaluated))
      BY <1>9, FS_Subset DEF TablesOK
    <3> QED BY <3>2, <3>3, FS_Injection
  <2>2. IsFiniteSet(rows)
    <3>1. rows \in SUBSET told
      OBVIOUS
    <3> QED BY <2>1, <3>1, FS_Subset
  <2> HIDE DEF rows
  <2>3. \A t \in rows : Stamped(t)
    BY <1>5, <1>10 DEF TablesOK, SignalOK, Stamped
  <2>4. Distinct(rows)
    BY <1>5, <1>10 DEF TablesOK, OwnIds, Distinct
  <2> QED BY <2>2, <2>3, <2>4 DEF StampedRows
<1>12. ASSUME NEW r \in Matching(evaluated), r \in view.asked, r.did \in view.outcomes
       PROVE  Told(r) \in rows
  BY <1>8, <1>9, <1>12
<1>13. rest = {r \in rows : Past(r, view.before)}
  OBVIOUS
<1> HIDE DEF rest, rows
<1>14. \A r \in rows, s \in view.shown : r.id = s.id => r.at = s.at
  <2>1. ASSUME NEW t \in rows, NEW s \in view.shown, t.id = s.id PROVE t.at = s.at
    <3>1. PICK r \in evaluated : t = Told(r)
      BY <1>10
    <3>2. PICK q \in evaluated : q.id = s.id /\ q.at = s.at
      BY <1>1, <1>3 DEF DecisionsOK
    <3>3. Distinct(evaluated)
      BY DEF TablesOK, OwnIds
    <3> QED BY <1>5, <2>1, <3>1, <3>2, <3>3 DEF Distinct
  <2> QED BY <2>1
<1>15. Begun(view') /\ ~(view.pc \in {"counts", "realized", "told"})
  BY <1>1, <1>4 DEF Begun
<1>16. /\ Paged(view') /\ Newest(rest) \subseteq rows
       /\ \A r \in rows : Past(r, view.before) =>
             r \in view'.shown \/ (view'.before # <<>> /\ Newer(view'.before[1], r))
  BY <1>3, <1>4, <1>11, <1>13, <1>14, <1>15, PageShown, Zenon
<1>17. FirstOK(view')
  <2>1. ASSUME NEW r \in view'.first, r.did \in view'.outcomes
        PROVE  \/ \E s \in view'.shown : s.id = r.id
               \/ view'.before # <<>> /\ Newer(view'.before[1], r)
    <3>1. Told(r) \in rows
      BY <1>1, <1>3, <1>4, <1>12, <2>1 DEF DecisionsOK
    <3>2. (\E s \in view.shown : s.id = r.id) \/ Past(r, view.before)
      BY <1>1, <1>3, <1>4, <2>1 DEF FirstOK, Begun, Past
    <3>3. Past(r, view.before) => Past(Told(r), view.before)
      BY <1>5 DEF Past, Newer
    <3>4. view'.before # <<>> /\ Newer(view'.before[1], Told(r)) => Newer(view'.before[1], r)
      BY <1>5 DEF Newer
    <3> QED BY <1>4, <1>5, <1>16, <3>1, <3>2, <3>3, <3>4
  <2> QED BY <1>4, <2>1 DEF FirstOK
<1>18. DecisionsAreTold'
  <2>1. ASSUME NEW t \in view'.shown
        PROVE  t.outcome = t.did \/ (t.late /\ t.did = "closed" /\ t.outcome = "paused")
    <3>1. CASE t \in view.shown
      BY <1>1, <3>1 DEF DecisionsAreTold
    <3>2. CASE t \in rows
      BY <1>5, <1>8, <1>10, <3>2
    <3> QED BY <1>4, <1>16, <3>1, <3>2
  <2> QED BY <2>1 DEF DecisionsAreTold
<1>19. DecisionsOK'
  <2>1. ASSUME NEW t \in view'.shown PROVE \E r \in evaluated : r.id = t.id /\ r.at = t.at
    <3>1. CASE t \in view.shown
      BY <1>1, <1>3, <3>1 DEF DecisionsOK
    <3>2. CASE t \in rows
      BY <1>5, <1>10, <3>2
    <3> QED BY <1>4, <1>16, <3>1, <3>2
  <2>2. Matching(evaluated)' = Matching(evaluated)
    BY <1>1, <1>4 DEF Matching
  <2> QED BY <1>1, <1>3, <1>4, <2>1, <2>2 DEF DecisionsOK
<1> QED BY <1>4, <1>16, <1>17, <1>18, <1>19 DEF ViewOK, TradesOK

LEMMA ReadingClosings ==
    ASSUME TablesOK, ViewOK, DecisionsAreTold, ReadsClosings
    PROVE  ViewOK' /\ DecisionsAreTold'
<1>1. /\ view.list = "decisions" /\ view.pc = "page"
      /\ view' = [view EXCEPT !.asked = evaluated, !.pc = "signals",
                              !.first = IF view.before = <<>> THEN Matching(evaluated) ELSE @]
      /\ UNCHANGED <<trades, evaluated>>
  BY DEF ReadsClosings
<1>2. view # NoView
  BY <1>1 DEF NoView
<1>3. Shape(view) /\ Paged(view) /\ FirstOK(view) /\ DecisionsOK
  BY <1>2 DEF ViewOK
<1>4. /\ Shape(view') /\ view'.list = "decisions" /\ view'.bots = view.bots /\ view'.pc = "signals"
      /\ view'.first = (IF view.before = <<>> THEN Matching(evaluated) ELSE view.first)
      /\ view'.outcomes = view.outcomes /\ view'.asked = evaluated
      /\ view'.shown = view.shown /\ view'.before = view.before /\ view'.again = view.again
  BY <1>1, <1>3 DEF Shape
<1>5. Begun(view') <=> Begun(view)
  BY <1>1, <1>4 DEF Begun
<1>6. Paged(view')
  BY <1>3, <1>4, <1>5 DEF Paged
<1>7. FirstOK(view')
  BY <1>1, <1>3, <1>4, <1>5 DEF FirstOK, Begun
<1>8. Matching(evaluated)' = Matching(evaluated) /\ Matching(evaluated) \subseteq evaluated
  BY <1>1, <1>4 DEF Matching
<1>9. DecisionsOK'
  BY <1>1, <1>3, <1>4, <1>8 DEF DecisionsOK
<1>10. DecisionsAreTold'
  BY <1>1, <1>4 DEF DecisionsAreTold
<1> QED BY <1>4, <1>6, <1>7, <1>9, <1>10 DEF ViewOK, TradesOK

LEMMA Totalling ==
    ASSUME TablesOK, ViewOK, DecisionsAreTold, ReadsCounts \/ ReadsRealized
    PROVE  ViewOK' /\ DecisionsAreTold'
<1>1. view.list = "trades" /\ view.pc \in {"counts", "realized"} /\ UNCHANGED <<trades, evaluated>>
  BY DEF ReadsCounts, ReadsRealized
<1>2. view # NoView
  BY <1>1 DEF NoView
<1>3. Shape(view) /\ Paged(view) /\ FirstOK(view) /\ TradesOK
  BY <1>2 DEF ViewOK
<1>4. /\ Shape(view') /\ view'.list = "trades" /\ view'.bots = view.bots
      /\ view'.first = view.first /\ view'.calm = view.calm
      /\ view'.shown = view.shown /\ view'.before = view.before /\ view'.again = view.again
      /\ \/ view.pc = "counts" /\ view'.pc = "realized" /\ view'.count = Cardinality(Matching(trades))
         \/ view.pc = "realized" /\ view'.pc = "told" /\ view'.count = view.count
            /\ view'.realized = RealizedTotal
  BY <1>3 DEF Shape, ReadsCounts, ReadsRealized
<1>5. Begun(view') /\ Begun(view)
  BY <1>1, <1>4 DEF Begun
<1>6. Paged(view') /\ FirstOK(view')
  BY <1>1, <1>3, <1>4, <1>5 DEF Paged, FirstOK
<1>7. Matching(trades)' = Matching(trades) /\ RealizedTotal' = RealizedTotal
  BY <1>1, <1>4 DEF Matching, RealizedTotal
<1>8. TradesOK'
  BY <1>1, <1>3, <1>4, <1>5, <1>7 DEF TradesOK
<1> QED BY <1>4, <1>6, <1>8 DEF ViewOK, DecisionsOK, DecisionsAreTold

LEMMA Turning ==
    ASSUME TablesOK, ViewOK, DecisionsAreTold, TurnsPage
    PROVE  ViewOK' /\ DecisionsAreTold'
<1>1. /\ view.list # "none" /\ view.before # <<>>
      /\ view' = [view EXCEPT !.pc = "page"] /\ UNCHANGED <<trades, evaluated>>
  BY DEF TurnsPage
<1>2. view # NoView
  BY <1>1 DEF NoView
<1>3. /\ view.list \in {"trades", "decisions"} /\ Shape(view) /\ Paged(view) /\ FirstOK(view)
      /\ TradesOK /\ DecisionsOK
  BY <1>2 DEF ViewOK
<1>4. /\ Shape(view') /\ view'.list = view.list /\ view'.bots = view.bots /\ view'.pc = "page"
      /\ view'.outcomes = view.outcomes /\ view'.asked = view.asked
      /\ view'.first = view.first /\ view'.calm = view.calm
      /\ view'.shown = view.shown /\ view'.before = view.before /\ view'.again = view.again
  BY <1>1, <1>3 DEF Shape
<1>5. Begun(view') /\ Begun(view)
  BY <1>1, <1>4 DEF Begun
<1>6. Paged(view') /\ FirstOK(view')
  BY <1>1, <1>3, <1>4, <1>5 DEF Paged, FirstOK
<1>7. Matching(trades)' = Matching(trades) /\ Matching(evaluated)' = Matching(evaluated)
  BY <1>1, <1>4 DEF Matching
<1>8. TradesOK' /\ DecisionsOK'
  BY <1>1, <1>3, <1>4, <1>5, <1>7 DEF TradesOK, DecisionsOK
<1> QED BY <1>3, <1>4, <1>6, <1>8 DEF ViewOK, DecisionsAreTold

(* What is recorded meanwhile is not of the first page's rows, and ends    *)
(* the calm.                                                               *)
LEMMA RecordedMeanwhile ==
    ASSUME TablesOK, ViewOK, DecisionsAreTold, NEW b \in Trader, Records(b)
    PROVE  ViewOK' /\ DecisionsAreTold'
<1>1. /\ view' = IF view.list = "none" THEN view ELSE [view EXCEPT !.calm = FALSE]
      /\ evaluated \subseteq evaluated' /\ trades \subseteq trades'
  BY DEF Records
<1>2. CASE view = NoView
  BY <1>1, <1>2 DEF NoView, ViewOK, DecisionsAreTold
<1>3. CASE view # NoView
  <2>1. /\ view.list \in {"trades", "decisions"} /\ Shape(view) /\ Paged(view) /\ FirstOK(view)
        /\ TradesOK /\ DecisionsOK
    BY <1>3 DEF ViewOK
  <2>2. /\ Shape(view') /\ view'.list = view.list /\ view'.bots = view.bots /\ view'.pc = view.pc
        /\ view'.outcomes = view.outcomes /\ view'.asked = view.asked
        /\ view'.first = view.first /\ ~view'.calm
        /\ view'.shown = view.shown /\ view'.before = view.before /\ view'.again = view.again
    BY <1>1, <2>1 DEF Shape
  <2>3. Paged(view') /\ FirstOK(view')
    BY <2>1, <2>2 DEF Paged, FirstOK, Begun
  <2>4. Matching(trades) \subseteq Matching(trades)'
        /\ Matching(evaluated) \subseteq Matching(evaluated)'
    BY <1>1, <2>2 DEF Matching
  <2>5. TradesOK'
    BY <2>1, <2>2, <2>4 DEF TradesOK
  <2>6. DecisionsOK'
    BY <1>1, <2>1, <2>2, <2>4 DEF DecisionsOK
  <2> QED BY <2>1, <2>2, <2>3, <2>5, <2>6 DEF ViewOK, DecisionsAreTold
<1> QED BY <1>2, <1>3

LEMMA Opening ==
    ASSUME NEW list \in {"trades", "decisions"}, NEW bots, NEW outcomes,
           OpensList(list, bots, outcomes)
    PROVE  ViewOK' /\ DecisionsAreTold'
<1>1. /\ Shape(view') /\ view'.list = list /\ view'.pc = "page" /\ view'.before = <<>>
      /\ view'.shown = {} /\ view'.first = {} /\ view'.asked = {} /\ view'.again = FALSE
  BY DEF OpensList, Shape
<1>2. ~Begun(view')
  BY <1>1 DEF Begun
<1> QED BY <1>1, <1>2 DEF ViewOK, Paged, FirstOK, TradesOK, DecisionsOK, DecisionsAreTold

LEMMA ViewKept ==
    ASSUME JournalInv, [JournalNext]_journalVars
    PROVE  ViewOK' /\ DecisionsAreTold'
<1>1. CASE UNCHANGED <<evaluated, trades, view>>
  BY <1>1 DEF JournalInv, ViewOK, DecisionsAreTold, Shape, Paged, Begun, FirstOK, TradesOK, DecisionsOK,
              Matching, RealizedTotal
<1>2. CASE \E b \in Trader : Records(b)
  BY <1>2, RecordedMeanwhile DEF JournalInv
<1>3. CASE \E list \in {"trades", "decisions"} : \E bots, outcomes : OpensList(list, bots, outcomes)
  BY <1>3, Opening
<1>4. CASE ReadsTrades \/ ReadsCounts \/ ReadsRealized \/ ReadsClosings \/ ReadsSignals \/ TurnsPage
  BY <1>4, ReadingTrades, Totalling, ReadingClosings, ReadingSignals, Turning DEF JournalInv
<1>5. CASE \E b \in Trader : Evaluates(b) \/ Decides(b) \/ RollsBack(b)
  BY <1>1, <1>5 DEF Evaluates, Decides, RollsBack
<1>6. CASE Ticks \/ UNCHANGED journalVars
  BY <1>1, <1>6 DEF Ticks, journalVars
<1> QED BY <1>2, <1>3, <1>4, <1>5, <1>6 DEF JournalNext

(* Turned to the last page, the rows shown are those of the table.         *)
LEMMA LastPageIsTrue ==
    ASSUME JournalInv
    PROVE  JournalIsTrue
<1>1. CASE view = NoView
  BY <1>1 DEF NoView, JournalInv, JournalIsTrue, PagesAreExact, TotalsAddUp, LastPage
<1>2. CASE view # NoView
  <2>1. Paged(view) /\ FirstOK(view) /\ TradesOK
    BY <1>2 DEF JournalInv, ViewOK
  <2>2. LastPage => Begun(view) /\ view.before = <<>> /\ view.pc = "told"
    BY DEF LastPage, Begun
  <2>3. PagesAreExact
    BY <2>1, <2>2 DEF PagesAreExact, Paged, FirstOK
  <2>4. ASSUME LastPage, view.list = "trades", view.calm PROVE view.shown = Matching(trades)
    <3>1. /\ view.first = Matching(trades) /\ view.shown \subseteq Matching(trades)
          /\ \A r \in view.first : \E s \in view.shown : s.id = r.id
      BY <2>1, <2>2, <2>4 DEF TradesOK, FirstOK
    <3>2. Distinct(trades) /\ Matching(trades) \subseteq trades
      BY DEF JournalInv, TablesOK, OwnIds, Matching
    <3>3. ASSUME NEW r \in Matching(trades) PROVE r \in view.shown
      <4>1. PICK s \in view.shown : s.id = r.id
        BY <3>1
      <4>2. s \in trades /\ r \in trades
        BY <3>1, <3>2
      <4> QED BY <3>2, <4>1, <4>2 DEF Distinct
    <3> QED BY <3>1, <3>3
  <2>5. TotalsAddUp
    BY <2>1, <2>2, <2>4 DEF TotalsAddUp, TradesOK, RealizedTotal
  <2> QED BY <2>3, <2>5 DEF JournalInv, JournalIsTrue
<1> QED BY <1>1, <1>2

(* The trade history and the decision history are told page after page as  *)
(* they were recorded: every row there was, once, newest first, with the   *)
(* outcome there was, and with the totals of the rows (list_fills,         *)
(* _fill_totals, list_decisions, derive_outcome).                          *)
THEOREM JournalTold == JournalSpec => []JournalIsTrue
<1>1. JournalInit => JournalInv
  <2> SUFFICES ASSUME JournalInit PROVE JournalInv
    OBVIOUS
  <2>1. TablesOK
    BY FS_EmptySet DEF JournalInit, TablesOK, DraftOK, NoDraft, OwnIds, Distinct
  <2>2. ViewOK /\ DecisionsAreTold
    BY DEF JournalInit, ViewOK, DecisionsAreTold, NoView
  <2> QED BY <2>1, <2>2 DEF JournalInv
<1>2. JournalInv /\ [JournalNext]_journalVars => JournalInv'
  BY TablesKept, ViewKept DEF JournalInv
<1> QED BY <1>1, <1>2, LastPageIsTrue, PTL DEF JournalSpec
-----------------------------------------------------------------------------
(* Sums. A sum over a finite set is the value of a function on its subsets *)
(* that takes them apart by one element at a time; which, does not matter. *)
Pick(T) == CHOOSE x \in T : TRUE
IsSum(g, f, S) == g = [T \in SUBSET S |-> IF T = {} THEN 0 ELSE f[Pick(T)] + g[T \ {Pick(T)}]]

LEMMA Picks == ASSUME NEW T, T # {} PROVE Pick(T) \in T
BY DEF Pick

LEMMA TakenOut ==
    ASSUME NEW S, IsFiniteSet(S), NEW T \in SUBSET S
    PROVE  /\ IsFiniteSet(T) /\ Cardinality(T) \in Nat /\ (Cardinality(T) = 0 <=> T = {})
           /\ \A x \in T : /\ T \ {x} \in SUBSET S
                           /\ Cardinality(T \ {x}) = Cardinality(T) - 1
<1>1. IsFiniteSet(T) /\ Cardinality(T) \in Nat /\ (Cardinality(T) = 0 <=> T = {})
  BY FS_Subset, FS_CardinalityType, FS_EmptySet
<1>2. ASSUME NEW x \in T PROVE Cardinality(T \ {x}) = Cardinality(T) - 1
  BY <1>1, FS_RemoveElement
<1> QED BY <1>1, <1>2

(* A counterexample among finite sets has a smallest one.                  *)
LEMMA SmallestSet ==
    ASSUME NEW S, IsFiniteSet(S), NEW F \in SUBSET (SUBSET S), F # {}
    PROVE  \E T \in F : \A U \in SUBSET S : Cardinality(U) < Cardinality(T) => U \notin F
<1> DEFINE N == {Cardinality(T) : T \in F}
<1>1. N \in SUBSET Nat /\ N # {}
  BY TakenOut
<1>2. PICK m \in N : \A n \in N : m <= n
  BY <1>1, Least
<1>3. PICK T \in F : m = Cardinality(T)
  BY <1>2
<1>4. ASSUME NEW U \in SUBSET S, Cardinality(U) < Cardinality(T), U \in F PROVE FALSE
  BY <1>1, <1>2, <1>3, <1>4
<1> QED BY <1>3, <1>4

UpTo(S, n) == {T \in SUBSET S : Cardinality(T) <= n}
IsSumUpTo(g, f, S, n) ==
    g = [T \in UpTo(S, n) |-> IF T = {} THEN 0 ELSE f[Pick(T)] + g[T \ {Pick(T)}]]

LEMMA SumUpToExists ==
    ASSUME NEW S, IsFiniteSet(S), NEW f, NEW n \in Nat
    PROVE  \E g : IsSumUpTo(g, f, S, n)
<1> DEFINE Without == {k \in Nat : ~\E g : IsSumUpTo(g, f, S, k)}
<1>1. ASSUME Without # {} PROVE FALSE
  <2>1. PICK m \in Without : \A k \in Without : m <= k
    BY <1>1, Least
  <2>2. CASE m = 0
    <3> DEFINE g == [T \in UpTo(S, m) |-> 0]
    <3>1. \A T \in UpTo(S, m) : T = {}
      BY <2>2, TakenOut DEF UpTo
    <3>2. g = [T \in UpTo(S, m) |-> IF T = {} THEN 0 ELSE f[Pick(T)] + g[T \ {Pick(T)}]]
      BY <3>1
    <3> QED BY <2>1, <3>2 DEF IsSumUpTo
  <2>3. CASE m # 0
    <3>1. m - 1 \in Nat /\ ~(m <= m - 1)
      BY <2>1, <2>3
    <3>2. PICK h : IsSumUpTo(h, f, S, m - 1)
      BY <2>1, <3>1
    <3> DEFINE g == [T \in UpTo(S, m) |-> IF T = {} THEN 0 ELSE f[Pick(T)] + h[T \ {Pick(T)}]]
    <3>3. \A U \in UpTo(S, m - 1) : U \in UpTo(S, m) /\ g[U] = h[U]
      <4> SUFFICES ASSUME NEW U \in UpTo(S, m - 1) PROVE U \in UpTo(S, m) /\ g[U] = h[U]
        OBVIOUS
      <4>1. U \in UpTo(S, m)
        BY <2>1, TakenOut DEF UpTo
      <4>2. h[U] = IF U = {} THEN 0 ELSE f[Pick(U)] + h[U \ {Pick(U)}]
        BY <3>2 DEF IsSumUpTo
      <4> QED BY <4>1, <4>2
    <3>4. \A T \in UpTo(S, m) : T # {} => T \ {Pick(T)} \in UpTo(S, m - 1)
      <4> SUFFICES ASSUME NEW T \in UpTo(S, m), T # {} PROVE T \ {Pick(T)} \in UpTo(S, m - 1)
        OBVIOUS
      <4>1. Pick(T) \in T /\ T \in SUBSET S /\ Cardinality(T) <= m
        BY Picks DEF UpTo
      <4>2. /\ T \ {Pick(T)} \in SUBSET S /\ Cardinality(T \ {Pick(T)}) = Cardinality(T) - 1
            /\ Cardinality(T) \in Nat
        BY <4>1, TakenOut
      <4>3. Cardinality(T \ {Pick(T)}) <= m - 1
        BY <2>1, <4>1, <4>2
      <4> QED BY <4>2, <4>3 DEF UpTo
    <3>5. g = [T \in UpTo(S, m) |-> IF T = {} THEN 0 ELSE f[Pick(T)] + g[T \ {Pick(T)}]]
      BY <3>3, <3>4
    <3> HIDE DEF g
    <3> QED BY <2>1, <3>5 DEF IsSumUpTo
  <2> QED BY <2>2, <2>3
<1> QED BY <1>1

LEMMA SumExists == ASSUME NEW S, IsFiniteSet(S), NEW f PROVE \E g : IsSum(g, f, S)
<1>1. Cardinality(S) \in Nat
  BY FS_CardinalityType
<1>2. PICK g : IsSumUpTo(g, f, S, Cardinality(S))
  BY <1>1, SumUpToExists
<1>3. UpTo(S, Cardinality(S)) = SUBSET S
  BY FS_Subset DEF UpTo
<1> QED BY <1>2, <1>3 DEF IsSumUpTo, IsSum

LEMMA SumIs ==
    ASSUME NEW f, IsFiniteSet(DOMAIN f)
    PROVE  \E g : IsSum(g, f, DOMAIN f) /\ SumFunction(f) = g[DOMAIN f]
<1> DEFINE g == CHOOSE h : IsSum(h, f, DOMAIN f)
<1>1. IsSum(g, f, DOMAIN f)
  BY SumExists
<1>2. SumFunction(f) = g[DOMAIN f]
  BY Zenon DEF SumFunction, SumFunctionOnSet, FoldFunctionOnSet, MapThenFoldSet, IsSum, Pick
<1> QED BY <1>1, <1>2

LEMMA SumStep ==
    ASSUME NEW S, NEW f, NEW g, IsSum(g, f, S), NEW T \in SUBSET S
    PROVE  g[T] = IF T = {} THEN 0 ELSE f[Pick(T)] + g[T \ {Pick(T)}]
BY DEF IsSum

LEMMA SumIsInt ==
    ASSUME NEW S, IsFiniteSet(S), NEW f, \A x \in S : f[x] \in Int, NEW g, IsSum(g, f, S)
    PROVE  \A T \in SUBSET S : g[T] \in Int
<1>0. \A T \in SUBSET S : g[T] = IF T = {} THEN 0 ELSE f[Pick(T)] + g[T \ {Pick(T)}]
  BY SumStep
<1> DEFINE F == {T \in SUBSET S : g[T] \notin Int}
<1>1. ASSUME F # {} PROVE FALSE
  <2>1. PICK T \in F : \A U \in SUBSET S : Cardinality(U) < Cardinality(T) => U \notin F
    <3>1. F \in SUBSET (SUBSET S)
      OBVIOUS
    <3> QED BY <1>1, <3>1, SmallestSet
  <2>2. T # {} /\ Pick(T) \in T /\ T \in SUBSET S
    <3>1. T \in SUBSET S /\ g[T] \notin Int
      OBVIOUS
    <3>2. g[T] = IF T = {} THEN 0 ELSE f[Pick(T)] + g[T \ {Pick(T)}]
      BY <1>0, <3>1
    <3>3. T # {}
      BY <3>1, <3>2
    <3> QED BY <3>1, <3>3, Picks
  <2>3. T \ {Pick(T)} \in SUBSET S /\ Cardinality(T \ {Pick(T)}) < Cardinality(T)
    BY <2>2, TakenOut
  <2>4. g[T \ {Pick(T)}] \in Int /\ f[Pick(T)] \in Int
    BY <2>1, <2>2, <2>3
  <2>5. g[T] = IF T = {} THEN 0 ELSE f[Pick(T)] + g[T \ {Pick(T)}]
    BY <1>0, <2>2
  <2>6. g[T] \notin Int
    OBVIOUS
  <2> QED BY <2>2, <2>4, <2>5, <2>6
<1> QED BY <1>1

(* Whichever element is taken first.                                       *)
LEMMA SumTakes ==
    ASSUME NEW S, IsFiniteSet(S), NEW f, \A x \in S : f[x] \in Int, NEW g, IsSum(g, f, S)
    PROVE  \A T \in SUBSET S : \A x \in T : g[T] = f[x] + g[T \ {x}]
<1>0. \A T \in SUBSET S : g[T] = IF T = {} THEN 0 ELSE f[Pick(T)] + g[T \ {Pick(T)}]
  BY SumStep
<1> DEFINE F == {T \in SUBSET S : \E x \in T : g[T] # f[x] + g[T \ {x}]}
<1>1. ASSUME F # {} PROVE FALSE
  <2>1. PICK T \in F : \A U \in SUBSET S : Cardinality(U) < Cardinality(T) => U \notin F
    <3>1. F \in SUBSET (SUBSET S)
      OBVIOUS
    <3> QED BY <1>1, <3>1, SmallestSet
  <2>2. PICK x \in T : g[T] # f[x] + g[T \ {x}]
    OBVIOUS
  <2> DEFINE c == Pick(T)
             U == T \ {c}
             V == T \ {x}
  <2>3. c \in T /\ T \in SUBSET S /\ g[T] = f[c] + g[U]
    <3>1. T \in SUBSET S /\ T # {}
      BY <2>2
    <3>2. g[T] = IF T = {} THEN 0 ELSE f[Pick(T)] + g[T \ {Pick(T)}]
      BY <1>0, <3>1
    <3> QED BY <3>1, <3>2, Picks
  <2>4. /\ U \in SUBSET S /\ Cardinality(U) < Cardinality(T)
        /\ V \in SUBSET S /\ Cardinality(V) < Cardinality(T)
    BY <2>2, <2>3, TakenOut
  <2>5. U \notin F /\ V \notin F
    BY <2>1, <2>4
  <2> HIDE DEF c
  <2>6. c # x
    BY <2>2, <2>3
  <2>7. x \in U /\ c \in V /\ U \ {x} = V \ {c} /\ U \ {x} \in SUBSET S
    BY <2>2, <2>3, <2>6
  <2>8. g[U] = f[x] + g[U \ {x}] /\ g[V] = f[c] + g[V \ {c}]
    BY <2>4, <2>5, <2>7
  <2>9. f[x] \in Int /\ f[c] \in Int /\ g[U \ {x}] \in Int
    BY <2>2, <2>3, <2>7, SumIsInt
  <2> DEFINE rest == g[U \ {x}]
  <2>10. g[V \ {c}] = rest
    BY <2>7
  <2> HIDE DEF U, V, rest
  <2>11. g[T] = f[c] + (f[x] + rest) /\ g[V] = f[c] + rest /\ rest \in Int
    BY <2>3, <2>8, <2>9, <2>10 DEF rest
  <2>12. g[T] = f[x] + g[V]
    BY <2>9, <2>11
  <2> QED BY <2>2, <2>12 DEF V
<1> QED BY <1>1

LEMMA SumAgrees ==
    ASSUME NEW S, IsFiniteSet(S), NEW U \in SUBSET S, NEW f, NEW e, \A x \in U : f[x] = e[x],
           NEW g, IsSum(g, f, S), NEW h, IsSum(h, e, U)
    PROVE  \A T \in SUBSET U : g[T] = h[T]
<1> DEFINE F == {T \in SUBSET U : g[T] # h[T]}
<1>1. ASSUME F # {} PROVE FALSE
  <2>1. PICK T \in F : \A V \in SUBSET S : Cardinality(V) < Cardinality(T) => V \notin F
    <3>1. F \in SUBSET (SUBSET S)
      OBVIOUS
    <3> HIDE DEF F
    <3> QED BY <1>1, <3>1, SmallestSet
  <2>2. T \in SUBSET U /\ T \in SUBSET S /\ g[T] # h[T]
    OBVIOUS
  <2>3. /\ g[T] = IF T = {} THEN 0 ELSE f[Pick(T)] + g[T \ {Pick(T)}]
        /\ h[T] = IF T = {} THEN 0 ELSE e[Pick(T)] + h[T \ {Pick(T)}]
    BY <2>2, SumStep
  <2>4. T # {} /\ Pick(T) \in T
    BY <2>2, <2>3, Picks
  <2>5. T \ {Pick(T)} \in SUBSET U /\ Cardinality(T \ {Pick(T)}) < Cardinality(T)
    BY <2>2, <2>4, TakenOut
  <2>6. g[T \ {Pick(T)}] = h[T \ {Pick(T)}] /\ f[Pick(T)] = e[Pick(T)]
    BY <2>1, <2>2, <2>4, <2>5
  <2> QED BY <2>2, <2>3, <2>4, <2>6
<1> QED BY <1>1

LEMMA SumType ==
    ASSUME NEW S, IsFiniteSet(S), NEW f \in [S -> Int]
    PROVE  SumFunction(f) \in Int
<1>1. PICK g : IsSum(g, f, S) /\ SumFunction(f) = g[S]
  BY SumIs
<1> QED BY <1>1, SumIsInt

LEMMA SumOfNone == ASSUME NEW f, DOMAIN f = {} PROVE SumFunction(f) = 0
<1>1. IsFiniteSet(DOMAIN f)
  BY FS_EmptySet
<1>2. PICK g : IsSum(g, f, DOMAIN f) /\ SumFunction(f) = g[DOMAIN f]
  BY <1>1, SumIs
<1> QED BY <1>2, SumStep

LEMMA SumWith ==
    ASSUME NEW S, IsFiniteSet(S), NEW f \in [S -> Int], NEW x \in S,
           NEW e \in [S \ {x} -> Int], \A y \in S \ {x} : e[y] = f[y]
    PROVE  SumFunction(f) = f[x] + SumFunction(e)
<1> DEFINE U == S \ {x}
<1>1. IsFiniteSet(U)
  BY FS_Subset
<1>2. PICK g : IsSum(g, f, S) /\ SumFunction(f) = g[S]
  BY SumIs
<1>3. PICK h : IsSum(h, e, U) /\ SumFunction(e) = h[U]
  BY <1>1, SumIs
<1>4. g[S] = f[x] + g[U]
  BY <1>2, SumTakes
<1>5. g[U] = h[U]
  <2>1. U \in SUBSET S /\ U \in SUBSET U
    OBVIOUS
  <2> QED BY <1>2, <1>3, <2>1, SumAgrees
<1> QED BY <1>2, <1>3, <1>4, <1>5

LEMMA SumPlus ==
    ASSUME NEW S, IsFiniteSet(S), NEW x, x \notin S, NEW T, T = S \cup {x}, NEW f \in [T -> Int],
           NEW e \in [S -> Int], \A y \in S : e[y] = f[y]
    PROVE  SumFunction(f) = f[x] + SumFunction(e)
<1>1. x \in T /\ T \ {x} = S
  OBVIOUS
<1>2. IsFiniteSet(T)
  BY FS_AddElement
<1>3. e \in [T \ {x} -> Int] /\ \A y \in T \ {x} : e[y] = f[y]
  BY <1>1
<1> QED BY <1>1, <1>2, <1>3, SumWith

LEMMA SumOfOne == ASSUME NEW x, NEW f \in [{x} -> Int] PROVE SumFunction(f) = f[x]
<1> DEFINE e == [y \in {} |-> 0]
<1>1. IsFiniteSet({x}) /\ {x} \ {x} = {}
  BY FS_Singleton
<1>2. e \in [{} -> Int] /\ DOMAIN e = {}
  OBVIOUS
<1> HIDE DEF e
<1>3. SumFunction(f) = f[x] + SumFunction(e)
  <2>1. x \in {x} /\ e \in [{x} \ {x} -> Int] /\ \A y \in {x} \ {x} : e[y] = f[y]
    BY <1>1, <1>2
  <2> QED BY <1>1, <2>1, SumWith
<1>4. SumFunction(e) = 0
  BY <1>2, SumOfNone
<1> QED BY <1>3, <1>4

-----------------------------------------------------------------------------
(* LedgerCheck. The sums of a reconciliation, by name.                     *)
Known(b) == {f \in b.fills : \E o \in b.orders : o.id = f.order}
Net(b) == SumFunction([f \in Known(b) |-> Signed(b, f)])
Paid(b) == SumFunction([f \in Known(b) |-> -f.price * Signed(b, f)])
Gained(b) == SumFunction([f \in Known(b) |-> Amount(b.entries, f.id, "realized_pnl")])
CostOf(b) == SumFunction([p \in Opened(b) |-> p.cost])
BookedOf(b) == SumFunction([p \in b.positions |-> p.realized])

EntryTypes == {"cash", "fee", "realized_pnl"}
OrderRow == [id : Nat, quantity : Int \ {0}, filled : Nat, status : {"filled"}]
FillRow == [id : Nat, order : Nat, price : Nat \ {0}, fee : Nat, quantity : Nat \ {0}]
EntryRow == [fill : Nat, type : EntryTypes, amount : Int]
PositionRow == [id : Nat, quantity : Int, cost : Int, realized : Int, open : BOOLEAN]

(* The rows there are after n orders, whatever was lost of them.           *)
OrdersOK(b, n) ==
    /\ IsFiniteSet(b.orders)
    /\ \A o \in b.orders : o \in OrderRow /\ o.id \in 1 .. n /\ o.filled = SizeOf(o.quantity)
    /\ \A k \in 1 .. n : \E o \in b.orders : o.id = k
    /\ \A o, p \in b.orders : o.id = p.id => o = p
    /\ b.history = {<<k, s>> : k \in 1 .. n, s \in {"submitted", "filled"}}

FillsOK(b, n) ==
    /\ IsFiniteSet(b.fills)
    /\ \A f \in b.fills : /\ f \in FillRow /\ f.id = f.order /\ f.id \in 1 .. n
                          /\ f.quantity = SizeOf(SignOf(b, f.id))
    /\ \A f, g \in b.fills : f.id = g.id => f = g

EntriesOK(b, n) ==
    /\ IsFiniteSet(b.entries) /\ \A e \in b.entries : e \in EntryRow /\ e.fill \in 1 .. n
    /\ b.refs \subseteq 1 .. n

PositionsOK(b, n) ==
    /\ IsFiniteSet(b.positions)
    /\ \A p \in b.positions : p \in PositionRow /\ p.id \in 1 .. n /\ (p.open <=> p.quantity # 0)
    /\ \A p, q \in b.positions : (p.id = q.id => p = q) /\ (p.open /\ q.open => p = q)

RowsOK(b, n) == OrdersOK(b, n) /\ FillsOK(b, n) /\ EntriesOK(b, n) /\ PositionsOK(b, n)

(* No row is lost.                                                         *)
FillTold(b, f) ==
    /\ Amount(b.entries, f.id, "cash") = -f.price * Signed(b, f)
    /\ Amount(b.entries, f.id, "fee") = -f.fee

Whole(b, n) ==
    /\ b.refs = 1 .. n /\ \A k \in 1 .. n : \E f \in b.fills : f.id = k
    /\ \A f \in b.fills : FillTold(b, f)
    /\ \A e, d \in b.entries : e.fill = d.fill /\ e.type = d.type => e = d
    /\ \A e \in b.entries : e.amount # 0
    /\ NetPosition(b) = Net(b) /\ BookedOf(b) = Gained(b)
    /\ Paid(b) + CostOf(b) = Gained(b)

(* What stays wrong after a row of a table was lost.                       *)
Missing(b, table) ==
    \/ table = "refs" /\ \E f \in b.fills : f.id \notin b.refs
    \/ table = "fills" /\ \E n \in b.refs : \A f \in b.fills : f.id # n
    \/ table = "entries" /\ ((\E f \in b.fills : f.id \in b.refs /\ ~FillTold(b, f))
                             \/ BookedOf(b) # Gained(b))
    \/ table = "positions" /\ NetPosition(b) # Net(b)

-----------------------------------------------------------------------------
LEMMA Sizes ==
    ASSUME NEW q \in Int
    PROVE  /\ SizeOf(q) \in Nat /\ (q # 0 => SizeOf(q) \in Nat \ {0})
           /\ (q > 0 => SizeOf(q) = q) /\ (q <= 0 => SizeOf(q) = -q)
BY DEF SizeOf

LEMMA SignsAre ==
    ASSUME NEW b, NEW n, OrdersOK(b, n), NEW o \in b.orders
    PROVE  SignOf(b, o.id) = o.quantity
<1> DEFINE c == CHOOSE x \in b.orders : x.id = o.id
<1>1. c \in b.orders /\ c.id = o.id
  OBVIOUS
<1>2. c = o
  BY <1>1 DEF OrdersOK
<1> QED BY <1>2 DEF SignOf

LEMMA SignIs ==
    ASSUME NEW b, NEW n, OrdersOK(b, n), NEW k \in 1 .. n
    PROVE  SignOf(b, k) \in Int \ {0}
<1>1. PICK o \in b.orders : o.id = k
  BY DEF OrdersOK
<1>2. SignOf(b, k) = o.quantity /\ o \in OrderRow
  BY <1>1, SignsAre DEF OrdersOK
<1> QED BY <1>2 DEF OrderRow

LEMMA SignedIs ==
    ASSUME NEW b, NEW n, OrdersOK(b, n), FillsOK(b, n)
    PROVE  /\ Known(b) = b.fills
           /\ \A f \in b.fills : Signed(b, f) = SignOf(b, f.id) /\ Signed(b, f) \in Int \ {0}
<1>1. ASSUME NEW f \in b.fills PROVE f \in Known(b)
  BY <1>1 DEF Known, OrdersOK, FillsOK
<1>2. ASSUME NEW f \in b.fills
      PROVE  Signed(b, f) = SignOf(b, f.id) /\ Signed(b, f) \in Int \ {0}
  <2>1. f.id = f.order /\ f.id \in 1 .. n /\ f.quantity = SizeOf(SignOf(b, f.id))
    BY DEF FillsOK
  <2>2. SignOf(b, f.id) \in Int \ {0}
    BY <2>1, SignIs
  <2> QED BY <2>1, <2>2, Sizes DEF Signed
<1> QED BY <1>1, <1>2 DEF Known

(* What an order writes.                                                   *)
NewOrder(n, q) == [id |-> n, quantity |-> q, filled |-> SizeOf(q), status |-> "filled"]
NewFill(n, q, price) == [id |-> n, order |-> n, price |-> price, fee |-> FeeOf(q),
                         quantity |-> SizeOf(q)]
RealizedBy(b, q, price) == SumFunction([p \in Opened(b) |-> RealizedOf(p, q, price)])

LEMMA WrittenIs ==
    ASSUME NEW b, NEW n, NEW q, NEW price
    PROVE  LET w == Written(b, n, q, price) IN
           /\ w.orders = b.orders \cup {NewOrder(n, q)}
           /\ w.fills = b.fills \cup {NewFill(n, q, price)}
           /\ w.entries = b.entries \cup EntriesFor(b, n, q, price)
           /\ w.refs = b.refs \cup {n}
           /\ w.history = b.history \cup {<<n, "submitted">>, <<n, "filled">>}
           /\ w.positions = PositionsAfter(b, n, q, price)
BY DEF Written, NewOrder, NewFill

Orderly(b, n, q, price) ==
    /\ n \in Nat /\ q \in Int \ {0} /\ price \in Nat \ {0}
    /\ RowsOK(b, n)

LEMMA WritesOrder ==
    ASSUME NEW b, NEW n, NEW q, NEW price, Orderly(b, n, q, price),
           NEW w, w = Written(b, n + 1, q, price)
    PROVE  /\ OrdersOK(w, n + 1) /\ SignOf(w, n + 1) = q
           /\ NewOrder(n + 1, q) \notin b.orders
           /\ \A k \in 1 .. n : SignOf(w, k) = SignOf(b, k)
<1> DEFINE m == n + 1
           new == NewOrder(m, q)
<1>1. /\ w.orders = b.orders \cup {new}
      /\ w.history = b.history \cup {<<m, "submitted">>, <<m, "filled">>}
  BY WrittenIs
<1>2. /\ n \in Nat /\ q \in Int \ {0} /\ OrdersOK(b, n) /\ m \in Nat
      /\ 1 .. m = 1 .. n \cup {m} /\ m \notin 1 .. n
  BY DEF Orderly, RowsOK
<1> HIDE DEF m
<1>3. new \in OrderRow /\ new.id = m /\ new.quantity = q /\ new.filled = SizeOf(q)
  BY <1>2, Sizes DEF NewOrder, OrderRow
<1> HIDE DEF new
<1>4. OrdersOK(w, m)
  <2>1. IsFiniteSet(w.orders)
    BY <1>1, <1>2, FS_AddElement DEF OrdersOK
  <2>2. \A o \in w.orders : o \in OrderRow /\ o.id \in 1 .. m /\ o.filled = SizeOf(o.quantity)
    BY <1>1, <1>2, <1>3 DEF OrdersOK
  <2>3. \A k \in 1 .. m : \E o \in w.orders : o.id = k
    BY <1>1, <1>2, <1>3 DEF OrdersOK
  <2>4. \A o, p \in w.orders : o.id = p.id => o = p
    BY <1>1, <1>2, <1>3 DEF OrdersOK
  <2>5. w.history = {<<k, s>> : k \in 1 .. m, s \in {"submitted", "filled"}}
    BY <1>1, <1>2 DEF OrdersOK
  <2> QED BY <2>1, <2>2, <2>3, <2>4, <2>5 DEF OrdersOK
<1>5. SignOf(w, m) = q
  <2>1. new \in w.orders
    BY <1>1
  <2> QED BY <1>3, <1>4, <2>1, SignsAre
<1>6. ASSUME NEW k \in 1 .. n PROVE SignOf(w, k) = SignOf(b, k)
  <2>1. PICK o \in b.orders : o.id = k
    BY <1>2 DEF OrdersOK
  <2>2. o \in w.orders
    BY <1>1, <2>1
  <2>3. SignOf(b, k) = o.quantity
    BY <1>2, <2>1, SignsAre
  <2>4. SignOf(w, k) = o.quantity
    BY <1>4, <2>1, <2>2, SignsAre
  <2> QED BY <2>3, <2>4
<1>7. new \notin b.orders
  BY <1>2, <1>3 DEF OrdersOK
<1> QED BY <1>4, <1>5, <1>6, <1>7 DEF m, new

LEMMA WritesFill ==
    ASSUME NEW b, NEW n, NEW q, NEW price, Orderly(b, n, q, price),
           NEW w, w = Written(b, n + 1, q, price)
    PROVE  /\ FillsOK(w, n + 1)
           /\ w.fills = b.fills \cup {NewFill(n + 1, q, price)}
           /\ NewFill(n + 1, q, price) \notin b.fills
           /\ Signed(w, NewFill(n + 1, q, price)) = q
           /\ \A f \in b.fills : Signed(w, f) = Signed(b, f)
<1> DEFINE m == n + 1
           new == NewFill(m, q, price)
<1>1. w.fills = b.fills \cup {new}
  BY WrittenIs
<1>2. /\ n \in Nat /\ q \in Int \ {0} /\ price \in Nat \ {0} /\ OrdersOK(b, n) /\ FillsOK(b, n)
      /\ m \in Nat /\ 1 .. m = 1 .. n \cup {m} /\ m \notin 1 .. n
  BY DEF Orderly, RowsOK
<1>3. /\ OrdersOK(w, m) /\ SignOf(w, m) = q
      /\ \A k \in 1 .. n : SignOf(w, k) = SignOf(b, k)
  BY WritesOrder
<1> HIDE DEF m
<1>4. /\ new \in FillRow /\ new.id = m /\ new.order = m /\ new.quantity = SizeOf(q)
  <2>1. FeeOf(q) \in Nat /\ SizeOf(q) \in Nat \ {0}
    BY <1>2, Sizes DEF FeeOf
  <2> QED BY <1>2, <2>1 DEF NewFill, FillRow
<1> HIDE DEF new
<1>5. FillsOK(w, m)
  <2>1. IsFiniteSet(w.fills)
    BY <1>1, <1>2, FS_AddElement DEF FillsOK
  <2>2. ASSUME NEW f \in w.fills
        PROVE  /\ f \in FillRow /\ f.id = f.order /\ f.id \in 1 .. m
               /\ f.quantity = SizeOf(SignOf(w, f.id))
    <3>1. CASE f \in b.fills
      BY <1>2, <1>3, <3>1 DEF FillsOK
    <3>2. CASE f = new
      BY <1>2, <1>3, <1>4, <3>2
    <3> QED BY <1>1, <3>1, <3>2
  <2>3. \A f, g \in w.fills : f.id = g.id => f = g
    BY <1>1, <1>2, <1>4 DEF FillsOK
  <2> QED BY <2>1, <2>2, <2>3 DEF FillsOK
<1>6. new \notin b.fills
  BY <1>2, <1>4 DEF FillsOK
<1>7. Signed(w, new) = q
  <2>1. Signed(w, new) = SignOf(w, new.id)
    BY <1>1, <1>3, <1>5, SignedIs
  <2> QED BY <1>3, <1>4, <2>1
<1>8. ASSUME NEW f \in b.fills PROVE Signed(w, f) = Signed(b, f)
  <2>1. Signed(w, f) = SignOf(w, f.id) /\ Signed(b, f) = SignOf(b, f.id)
    BY <1>1, <1>2, <1>3, <1>5, SignedIs
  <2> QED BY <1>2, <1>3, <2>1 DEF FillsOK
<1> QED BY <1>1, <1>5, <1>6, <1>7, <1>8 DEF m, new

(* Products and quotients.                                                 *)
LEMMA Products ==
    ASSUME NEW x \in Int, NEW y \in Int
    PROVE  /\ x * y \in Int /\ (x * y > 0 <=> (x > 0 /\ y > 0) \/ (x < 0 /\ y < 0))
           /\ x * y >= 0 <=> ~((x > 0 /\ y < 0) \/ (x < 0 /\ y > 0))
<1>1. CASE x = 0 \/ y = 0
  BY <1>1
<1>2. CASE x > 0 /\ y > 0
  BY <1>2
<1>3. CASE x < 0 /\ y < 0
  BY <1>3
<1>4. CASE x > 0 /\ y < 0
  BY <1>4
<1>5. CASE x < 0 /\ y > 0
  BY <1>5
<1> QED BY <1>1, <1>2, <1>3, <1>4, <1>5

LEMMA Distributes ==
    ASSUME NEW x \in Int, NEW y \in Int, NEW z \in Int
    PROVE  x * (y - z) = x * y - x * z /\ x * y \in Int /\ x * z \in Int
OBVIOUS

LEMMA Quotients ==
    ASSUME NEW x \in Int, NEW k \in Int, NEW d \in Nat \ {0}
    PROVE  (k * d + x) \div d = k + x \div d /\ x \div d \in Int
<1> DEFINE y == x \div d
           z == (k * d + x) \div d
           e == k * d
<1>1. e \in Int /\ e + x \in Int
  OBVIOUS
<1>2. y \in Int /\ y * d <= x /\ x < y * d + d
  OBVIOUS
<1>3. z \in Int /\ z * d <= e + x /\ e + x < z * d + d
  <2> HIDE DEF e
  <2>1. ASSUME NEW a \in Int
        PROVE  a \div d \in Int /\ (a \div d) * d <= a /\ a < (a \div d) * d + d
    OBVIOUS
  <2> QED BY <1>1, <2>1 DEF e
<1> HIDE DEF y, z
<1>4. z = k + y
  <2> DEFINE u == z - k - y
  <2>1. u \in Int /\ z = k + y + u
    BY <1>2, <1>3
  <2> HIDE DEF u
  <2>2. z * d = e + y * d + u * d
    BY <1>2, <2>1
  <2> DEFINE a == y * d
             c == u * d
  <2>3. a \in Int /\ c \in Int
    BY <1>2, <2>1
  <2>4. z * d = e + a + c
    BY <2>2
  <2>5. a <= x /\ x < a + d
    BY <1>2
  <2> HIDE DEF a, c, e
  <2>6. c < d /\ -c < d
    BY <1>1, <1>3, <2>3, <2>4, <2>5
  <2>7. u = 0
    <3>1. CASE u >= 1
      <4>1. c >= d
        BY <2>1, <3>1 DEF c
      <4> QED BY <2>3, <2>6, <4>1
    <3>2. CASE u <= -1
      <4>1. -c >= d
        BY <2>1, <3>2 DEF c
      <4> QED BY <2>3, <2>6, <4>1
    <3> QED BY <2>1, <3>1, <3>2
  <2> QED BY <1>2, <2>1, <2>7
<1> QED BY <1>2, <1>4 DEF y, z

(* What an order makes of an open position: cost and what is realized add  *)
(* up to what was paid, rounding included.                                 *)
LEMMA Rebooking ==
    ASSUME NEW p \in PositionRow, p.open, p.quantity # 0, NEW q \in Int \ {0},
           NEW price \in Nat \ {0}
    PROVE  LET x == Rebooked(p, q, price)
               r == RealizedOf(p, q, price)
           IN /\ r \in Int /\ x \in PositionRow /\ x.id = p.id /\ x.quantity = p.quantity + q
              /\ (x.open <=> x.quantity # 0) /\ x.realized = p.realized + r
              /\ x.cost = p.cost + price * q + r
              /\ x.quantity = 0 => x.cost = 0
<1> DEFINE h == p.quantity
           c == p.cost
           after == h + q
           d == SizeOf(h)
           s == SizeOf(q)
           value == price * h - c
           r == RealizedOf(p, q, price)
           kept == IF h * q > 0 THEN c + price * q
                   ELSE IF h * after > 0 THEN (c * SizeOf(after)) \div d ELSE price * after
           x == Rebooked(p, q, price)
<1>1. h \in Int /\ c \in Int /\ p.realized \in Int /\ h # 0 /\ p.id \in Nat
  BY DEF PositionRow
<1>2. /\ d \in Nat \ {0} /\ (h > 0 => d = h) /\ (h < 0 => d = -h)
      /\ s \in Nat \ {0} /\ (q > 0 => s = q) /\ (q < 0 => s = -q)
  BY <1>1, Sizes
<1>3. r = IF h * q >= 0 THEN 0
          ELSE IF s >= d THEN value ELSE (s * value) \div d
  BY DEF RealizedOf
<1>4. x = [p EXCEPT !.quantity = after, !.cost = kept, !.open = after # 0,
                    !.realized = p.realized + r]
  BY Zenon DEF Rebooked
<1>5. after \in Int /\ price * after \in Int /\ price * q \in Int /\ price * h \in Int
      /\ value \in Int
  BY <1>1
<1>6. /\ (h * q > 0 <=> (h > 0 /\ q > 0) \/ (h < 0 /\ q < 0))
      /\ (h * q >= 0 <=> ~((h > 0 /\ q < 0) \/ (h < 0 /\ q > 0)))
      /\ (h * after > 0 <=> (h > 0 /\ after > 0) \/ (h < 0 /\ after < 0))
  BY <1>1, <1>5, Products
<1> HIDE DEF r, kept, x, value, d, s
<1>7. r \in Int /\ kept \in Int /\ kept = c + price * q + r /\ (after = 0 => kept = 0)
  <2>1. CASE h * q > 0
    <3>1. r = 0 /\ kept = c + price * q
      <4>1. h * q >= 0
        BY <1>1, <1>6, <2>1
      <4> QED BY <1>3, <2>1, <4>1 DEF kept
    <3>2. after # 0
      BY <1>1, <1>6, <2>1
    <3> QED BY <1>1, <1>5, <3>1, <3>2
  <2>2. CASE ~(h * q > 0) /\ ~(h * after > 0)
    <3>1. kept = price * after
      BY <2>2 DEF kept
    <3>2. r = price * h - c
      <4>1. s >= d
        BY <1>1, <1>2, <1>6, <2>2
      <4>2. ~(h * q >= 0)
        BY <1>1, <1>6, <2>2
      <4> QED BY <1>3, <4>1, <4>2 DEF value
    <3>3. price * after = price * h + price * q
      BY <1>1
    <3>4. after = 0 => price * after = 0
      OBVIOUS
    <3> QED BY <1>1, <1>5, <3>1, <3>2, <3>3, <3>4
  <2>3. CASE ~(h * q > 0) /\ h * after > 0
    <3> DEFINE left == SizeOf(after)
               k == price * (IF h > 0 THEN s ELSE -s)
               y == -(c * s)
    <3>1. kept = (c * left) \div d
      BY <2>3 DEF kept
    <3>2. ~(h * q >= 0) /\ s < d /\ left = d - s /\ after # 0
      <4>1. (h > 0 /\ q < 0 /\ after > 0) \/ (h < 0 /\ q > 0 /\ after < 0)
        BY <1>1, <1>5, <1>6, <2>3
      <4>2. (after > 0 => left = after) /\ (after <= 0 => left = -after)
        BY <1>5, Sizes
      <4> HIDE DEF left
      <4> QED BY <1>1, <1>2, <1>6, <4>1, <4>2
    <3>3. r = (s * value) \div d
      BY <1>3, <1>2, <3>2
    <3>4. k \in Int /\ y \in Int
      BY <1>1, <1>2
    <3>5. c * left = c * d + y
      <4>1. left = d - s
        BY <3>2
      <4> HIDE DEF left
      <4>2. c * (d - s) = c * d - c * s /\ c * s \in Int /\ c * d \in Int
        BY <1>1, <1>2, Distributes
      <4> QED BY <4>1, <4>2
    <3>6. s * value = k * d + y
      <4>1. CASE h > 0
        <5>1. value = price * d - c /\ k = price * s
          BY <1>2, <4>1 DEF value
        <5> QED BY <1>1, <1>2, <5>1
      <4>2. CASE h < 0
        <5>1. value = -(price * d) - c /\ k = price * (-s)
          BY <1>1, <1>2, <4>2 DEF value
        <5> QED BY <1>1, <1>2, <5>1
      <4> QED BY <1>1, <4>1, <4>2
    <3>7. price * q = -k
      <4>1. (h > 0 => q = -s) /\ (h < 0 => q = s)
        BY <1>1, <1>2, <1>6, <3>2
      <4> QED BY <1>1, <1>2, <4>1
    <3> HIDE DEF left, k, y
    <3>8. kept = c + y \div d /\ r = k + y \div d /\ y \div d \in Int
      <4>1. /\ (c * d + y) \div d = c + y \div d
            /\ (k * d + y) \div d = k + y \div d /\ y \div d \in Int
        BY <1>1, <1>2, <3>4, Quotients
      <4>2. kept = (c * d + y) \div d /\ r = (k * d + y) \div d
        BY <3>1, <3>3, <3>5, <3>6
      <4> QED BY <4>1, <4>2
    <3> QED BY <1>1, <3>2, <3>4, <3>7, <3>8
  <2> QED BY <2>1, <2>2, <2>3
<1>8. /\ x.id = p.id /\ x.quantity = after /\ x.cost = kept /\ (x.open <=> after # 0)
      /\ x.realized = p.realized + r
  BY <1>4 DEF PositionRow
<1>9. x \in PositionRow
  <2>1. p.realized + r \in Int /\ (after # 0) \in BOOLEAN
    BY <1>1, <1>7
  <2> HIDE DEF after
  <2> QED BY <1>4, <1>5, <1>7, <2>1 DEF PositionRow
<1> QED BY <1>7, <1>8, <1>9 DEF x, r

LEMMA NewIds == ASSUME NEW n \in Nat PROVE 1 .. n + 1 = 1 .. n \cup {n + 1} /\ n + 1 \notin 1 .. n
OBVIOUS

(* What an order does to the account's position.                           *)
Moved(b, w, q, price) ==
    /\ RealizedBy(b, q, price) \in Int
    /\ NetPosition(b) \in Int /\ NetPosition(w) = NetPosition(b) + q
    /\ CostOf(b) \in Int /\ CostOf(w) = CostOf(b) + price * q + RealizedBy(b, q, price)
    /\ BookedOf(b) \in Int /\ BookedOf(w) = BookedOf(b) + RealizedBy(b, q, price)

LEMMA WritesPosition ==
    ASSUME NEW b, NEW n, NEW q, NEW price, Orderly(b, n, q, price),
           NEW w, w = Written(b, n + 1, q, price)
    PROVE  PositionsOK(w, n + 1) /\ Moved(b, w, q, price)
<1> DEFINE m == n + 1
           P == b.positions
           r == RealizedBy(b, q, price)
<1>1. w.positions = PositionsAfter(b, m, q, price)
  BY WrittenIs
<1>2. /\ n \in Nat /\ q \in Int \ {0} /\ price \in Nat \ {0} /\ PositionsOK(b, n)
      /\ m \in Nat /\ 1 .. m = 1 .. n \cup {m} /\ m \notin 1 .. n /\ price * q \in Int
  BY NewIds DEF Orderly, RowsOK
<1>3. /\ IsFiniteSet(P) /\ \A p \in P : p \in PositionRow /\ p.id \in 1 .. n /\ (p.open <=> p.quantity # 0)
      /\ \A p, s \in P : (p.id = s.id => p = s) /\ (p.open /\ s.open => p = s)
  BY <1>2 DEF PositionsOK
<1> DEFINE gain == [p \in P |-> p.realized]
<1>4. gain \in [P -> Int] /\ BookedOf(b) = SumFunction(gain) /\ BookedOf(b) \in Int
  <2>1. gain \in [P -> Int]
    BY <1>3 DEF PositionRow
  <2>2. BookedOf(b) = SumFunction(gain)
    BY DEF BookedOf
  <2> HIDE DEF gain
  <2> QED BY <1>3, <2>1, <2>2, SumType
<1> HIDE DEF m, r
<1>5. CASE Opened(b) = {}
  <2> DEFINE x == [id |-> m, quantity |-> q, cost |-> price * q, realized |-> 0, open |-> TRUE]
  <2>1. w.positions = P \cup {x}
    BY <1>1, <1>5 DEF PositionsAfter
  <2>2. x \in PositionRow /\ x.id = m /\ x.open /\ x.quantity = q /\ x.cost = price * q /\ x.realized = 0
    BY <1>2 DEF PositionRow
  <2>3. \A p \in P : ~p.open /\ p.id # m
    BY <1>2, <1>3, <1>5 DEF Opened
  <2> HIDE DEF x
  <2>4. PositionsOK(w, m)
    <3>1. IsFiniteSet(w.positions)
      BY <1>3, <2>1, FS_AddElement
    <3>2. \A p \in w.positions : p \in PositionRow /\ p.id \in 1 .. m /\ (p.open <=> p.quantity # 0)
      BY <1>2, <1>3, <2>1, <2>2
    <3>3. \A p, s \in w.positions : (p.id = s.id => p = s) /\ (p.open /\ s.open => p = s)
      BY <1>3, <2>1, <2>2, <2>3
    <3> QED BY <3>1, <3>2, <3>3 DEF PositionsOK
  <2>5. Opened(w) = {x}
    BY <2>1, <2>2, <2>3 DEF Opened
  <2>6. r = 0 /\ NetPosition(b) = 0 /\ CostOf(b) = 0
    BY <1>5, SumOfNone DEF r, RealizedBy, NetPosition, CostOf
  <2>7. NetPosition(w) = q /\ CostOf(w) = price * q
    <3> DEFINE f == [p \in {x} |-> p.quantity]
               g == [p \in {x} |-> p.cost]
    <3>1. f \in [{x} -> Int] /\ g \in [{x} -> Int] /\ f[x] = q /\ g[x] = price * q
      BY <1>2, <2>2
    <3>2. NetPosition(w) = SumFunction(f) /\ CostOf(w) = SumFunction(g)
      BY <2>5 DEF NetPosition, CostOf
    <3> HIDE DEF f, g
    <3> QED BY <3>1, <3>2, SumOfOne
  <2>8. BookedOf(w) = BookedOf(b)
    <3> DEFINE all == [p \in w.positions |-> p.realized]
    <3>1. BookedOf(w) = SumFunction(all)
      BY DEF BookedOf
    <3>2. all \in [w.positions -> Int] /\ all[x] = 0
      BY <1>3, <2>1, <2>2 DEF PositionRow
    <3>3. x \notin P /\ \A p \in P : gain[p] = all[p]
      BY <2>1, <2>2, <2>3
    <3> HIDE DEF all, gain
    <3> DEFINE T == w.positions
    <3>4. /\ IsFiniteSet(P) /\ T = P \cup {x} /\ all \in [T -> Int] /\ gain \in [P -> Int]
          /\ x \notin P /\ \A p \in P : gain[p] = all[p]
      BY <1>3, <1>4, <2>1, <3>2, <3>3
    <3> HIDE DEF T, P
    <3>5. SumFunction(all) = all[x] + SumFunction(gain)
      BY <3>4, SumPlus
    <3> QED BY <1>4, <3>1, <3>2, <3>5
  <2> QED BY <1>2, <1>4, <2>4, <2>6, <2>7, <2>8 DEF Moved, r, m
<1>6. CASE Opened(b) # {}
  <2>1. PICK p \in P : p.open
    BY <1>6 DEF Opened
  <2>2. Opened(b) = {p} /\ p \in PositionRow /\ p.quantity # 0 /\ p.id \in 1 .. n
    BY <1>3, <2>1 DEF Opened
  <2> DEFINE x == Rebooked(p, q, price)
             t == RealizedOf(p, q, price)
             rest == P \ {p}
  <2>3. /\ t \in Int /\ x \in PositionRow /\ x.id = p.id /\ x.quantity = p.quantity + q
        /\ (x.open <=> x.quantity # 0) /\ x.realized = p.realized + t
        /\ x.cost = p.cost + price * q + t
        /\ (x.quantity = 0 => x.cost = 0)
    BY <1>2, <2>1, <2>2, Rebooking
  <2>4. r = t
    <3> DEFINE f == [y \in {p} |-> RealizedOf(y, q, price)]
    <3>1. r = SumFunction(f) /\ f[p] = t
      BY <2>2 DEF r, RealizedBy
    <3>2. f \in [{p} -> Int]
      BY <2>3
    <3> HIDE DEF f
    <3> QED BY <3>1, <3>2, SumOfOne
  <2>5. w.positions = rest \cup {x}
    <3>1. w.positions = {IF y.open THEN Rebooked(y, q, price) ELSE y : y \in P}
      BY <1>1, <1>6 DEF PositionsAfter
    <3>2. \A y \in P : y.open <=> y = p
      BY <1>3, <2>1
    <3> QED BY <2>1, <3>1, <3>2
  <2> HIDE DEF x, t
  <2>6. \A y \in rest : ~y.open /\ y.id # x.id /\ y # x /\ y \in P
    BY <1>3, <2>1, <2>3
  <2>7. PositionsOK(w, m)
    <3>1. IsFiniteSet(w.positions)
      <4>1. IsFiniteSet(rest)
        BY <1>3, FS_Subset
      <4> QED BY <2>5, <4>1, FS_AddElement
    <3>2. \A y \in w.positions : y \in PositionRow /\ y.id \in 1 .. m /\ (y.open <=> y.quantity # 0)
      BY <1>2, <1>3, <2>2, <2>3, <2>5
    <3>3. \A y, s \in w.positions : (y.id = s.id => y = s) /\ (y.open /\ s.open => y = s)
      BY <1>3, <2>5, <2>6
    <3> QED BY <3>1, <3>2, <3>3 DEF PositionsOK
  <2>8. /\ p.quantity \in Int /\ p.cost \in Int /\ p.realized \in Int
        /\ x.quantity \in Int /\ x.cost \in Int /\ x.realized \in Int
    BY <2>2, <2>3 DEF PositionRow
  <2>9. NetPosition(b) = p.quantity /\ CostOf(b) = p.cost
    <3> DEFINE f == [y \in {p} |-> y.quantity]
               g == [y \in {p} |-> y.cost]
    <3>1. f \in [{p} -> Int] /\ g \in [{p} -> Int] /\ f[p] = p.quantity /\ g[p] = p.cost
      BY <2>8
    <3>2. NetPosition(b) = SumFunction(f) /\ CostOf(b) = SumFunction(g)
      BY <2>2 DEF NetPosition, CostOf
    <3> HIDE DEF f, g
    <3> QED BY <3>1, <3>2, SumOfOne
  <2>10. NetPosition(w) = x.quantity /\ CostOf(w) = x.cost
    <3>1. CASE x.open
      <4> DEFINE f == [y \in {x} |-> y.quantity]
                 g == [y \in {x} |-> y.cost]
      <4>1. Opened(w) = {x}
        BY <2>5, <2>6, <3>1 DEF Opened
      <4>2. f \in [{x} -> Int] /\ g \in [{x} -> Int] /\ f[x] = x.quantity /\ g[x] = x.cost
        BY <2>8
      <4>3. NetPosition(w) = SumFunction(f) /\ CostOf(w) = SumFunction(g)
        BY <4>1 DEF NetPosition, CostOf
      <4> HIDE DEF f, g
      <4> QED BY <4>2, <4>3, SumOfOne
    <3>2. CASE ~x.open
      <4>1. Opened(w) = {}
        BY <2>5, <2>6, <3>2 DEF Opened
      <4>2. NetPosition(w) = 0 /\ CostOf(w) = 0
        BY <4>1, SumOfNone DEF NetPosition, CostOf
      <4> QED BY <2>3, <3>2, <4>2
    <3> QED BY <3>1, <3>2
  <2>11. BookedOf(w) = BookedOf(b) + t
    <3> DEFINE all == [y \in w.positions |-> y.realized]
               kept == [y \in rest |-> y.realized]
    <3>1. BookedOf(w) = SumFunction(all)
      BY DEF BookedOf
    <3>2. /\ all \in [w.positions -> Int] /\ all[x] = x.realized
          /\ kept \in [rest -> Int] /\ gain[p] = p.realized
      BY <1>3, <2>1, <2>5, <2>8 DEF PositionRow
    <3>3. /\ \A y \in rest : kept[y] = all[y] /\ kept[y] = gain[y]
          /\ x \notin rest /\ p \notin rest /\ P = rest \cup {p}
      BY <2>1, <2>5, <2>6
    <3>4. IsFiniteSet(rest)
      BY <1>3, FS_Subset
    <3> HIDE DEF all, kept, gain, rest
    <3> DEFINE T == w.positions
    <3>8. /\ IsFiniteSet(rest) /\ T = rest \cup {x} /\ all \in [T -> Int] /\ kept \in [rest -> Int]
          /\ x \notin rest /\ \A y \in rest : kept[y] = all[y]
      BY <2>5, <3>2, <3>3, <3>4
    <3> HIDE DEF T
    <3>5. SumFunction(all) = all[x] + SumFunction(kept)
      BY <3>8, SumPlus
    <3>6. SumFunction(gain) = gain[p] + SumFunction(kept)
      BY <1>4, <3>2, <3>3, <3>4, SumPlus
    <3>7. SumFunction(kept) \in Int
      BY <3>2, <3>4, SumType
    <3> QED BY <1>4, <2>3, <2>8, <3>1, <3>2, <3>5, <3>6, <3>7
  <2> QED BY <1>4, <2>3, <2>4, <2>7, <2>8, <2>9, <2>10, <2>11 DEF Moved, r, m
<1> QED BY <1>5, <1>6

-----------------------------------------------------------------------------
(* The entries of a fill, by type.                                         *)
LEMMA AmountOfOne ==
    ASSUME NEW entries, NEW e \in entries, e.amount \in Int,
           \A d \in entries : d.fill = e.fill /\ d.type = e.type => d = e
    PROVE  Amount(entries, e.fill, e.type) = e.amount
<1> DEFINE f == [d \in {e} |-> d.amount]
<1>1. {d \in entries : d.fill = e.fill /\ d.type = e.type} = {e}
  OBVIOUS
<1>2. Amount(entries, e.fill, e.type) = SumFunction(f)
  BY <1>1 DEF Amount
<1>3. f \in [{e} -> Int] /\ f[e] = e.amount
  OBVIOUS
<1> HIDE DEF f
<1> QED BY <1>2, <1>3, SumOfOne

LEMMA AmountOfNone ==
    ASSUME NEW entries, NEW fill, NEW type,
           \A d \in entries : ~(d.fill = fill /\ d.type = type)
    PROVE  Amount(entries, fill, type) = 0
<1>1. {d \in entries : d.fill = fill /\ d.type = type} = {}
  OBVIOUS
<1> QED BY <1>1, SumOfNone DEF Amount

LEMMA AmountSame ==
    ASSUME NEW entries, NEW others, NEW fill, NEW type,
           \A d : d.fill = fill /\ d.type = type => (d \in entries <=> d \in others)
    PROVE  Amount(entries, fill, type) = Amount(others, fill, type)
<1>1. {d \in entries : d.fill = fill /\ d.type = type} = {d \in others : d.fill = fill /\ d.type = type}
  OBVIOUS
<1> QED BY <1>1 DEF Amount

LEMMA AmountType ==
    ASSUME NEW entries, IsFiniteSet(entries), \A e \in entries : e.amount \in Int,
           NEW fill, NEW type
    PROVE  Amount(entries, fill, type) \in Int
<1> DEFINE D == {d \in entries : d.fill = fill /\ d.type = type}
           f == [d \in D |-> d.amount]
<1>1. IsFiniteSet(D)
  BY FS_Subset
<1>2. f \in [D -> Int] /\ Amount(entries, fill, type) = SumFunction(f)
  BY DEF Amount
<1> HIDE DEF D, f
<1> QED BY <1>1, <1>2, SumType

EntriesApart(entries) ==
    /\ \A e, d \in entries : e.fill = d.fill /\ e.type = d.type => e = d
    /\ \A e \in entries : e.amount # 0

LEMMA WritesEntries ==
    ASSUME NEW b, NEW n, NEW q, NEW price, Orderly(b, n, q, price),
           NEW w, w = Written(b, n + 1, q, price)
    PROVE  /\ EntriesOK(w, n + 1) /\ w.refs = b.refs \cup {n + 1}
           /\ \A k \in 1 .. n, type \in EntryTypes :
                 Amount(w.entries, k, type) = Amount(b.entries, k, type)
           /\ Amount(w.entries, n + 1, "cash") = -price * q
           /\ Amount(w.entries, n + 1, "fee") = -FeeOf(q)
           /\ Amount(w.entries, n + 1, "realized_pnl") = RealizedBy(b, q, price)
           /\ EntriesApart(b.entries) => EntriesApart(w.entries)
<1> DEFINE m == n + 1
           r == RealizedBy(b, q, price)
           cash == [fill |-> m, type |-> "cash", amount |-> -price * q]
           fee == [fill |-> m, type |-> "fee", amount |-> -FeeOf(q)]
           pnl == [fill |-> m, type |-> "realized_pnl", amount |-> r]
           new == {cash} \cup {e \in {fee, pnl} : e.amount # 0}
<1>1. w.entries = b.entries \cup EntriesFor(b, m, q, price) /\ w.refs = b.refs \cup {m}
  BY WrittenIs
<1>2. EntriesFor(b, m, q, price) = new
  BY Zenon DEF EntriesFor, RealizedBy
<1>3. /\ n \in Nat /\ q \in Int \ {0} /\ price \in Nat \ {0} /\ EntriesOK(b, n)
      /\ m \in Nat /\ 1 .. m = 1 .. n \cup {m} /\ m \notin 1 .. n
  BY NewIds DEF Orderly, RowsOK
<1>4. r \in Int /\ FeeOf(q) \in Nat /\ -price * q \in Int /\ -price * q # 0
  <2>1. r \in Int
    BY WritesPosition DEF Moved
  <2>2. FeeOf(q) \in Nat
    BY <1>3, Sizes DEF FeeOf
  <2>3. price * q \in Int /\ price * q # 0
    BY <1>3
  <2> QED BY <2>1, <2>2, <2>3
<1> HIDE DEF r, m
<1>5. /\ cash \in EntryRow /\ cash.fill = m /\ cash.type = "cash" /\ cash.amount = -price * q
      /\ fee \in EntryRow /\ fee.fill = m /\ fee.type = "fee" /\ fee.amount = -FeeOf(q)
      /\ pnl \in EntryRow /\ pnl.fill = m /\ pnl.type = "realized_pnl" /\ pnl.amount = r
  BY <1>3, <1>4 DEF EntryRow, EntryTypes
<1> HIDE DEF cash, fee, pnl
<1>6. /\ \A e \in new : e.fill = m /\ e \in EntryRow /\ e.amount # 0
      /\ \A e, d \in new : e.type = d.type => e = d
      /\ \A e \in new : e = cash \/ e = fee \/ e = pnl
      /\ cash \in new /\ (fee \in new <=> FeeOf(q) # 0) /\ (pnl \in new <=> r # 0)
  BY <1>4, <1>5
<1> HIDE DEF new
<1>7. w.entries = b.entries \cup new /\ IsFiniteSet(new)
  <2>1. IsFiniteSet({cash} \cup {fee})
    BY FS_AddElement, FS_Singleton
  <2>2. IsFiniteSet(({cash} \cup {fee}) \cup {pnl})
    BY <2>1, FS_AddElement
  <2>3. new \subseteq ({cash} \cup {fee}) \cup {pnl}
    BY <1>6
  <2> QED BY <1>1, <1>2, <2>2, <2>3, FS_Subset
<1>8. \A e \in b.entries : e \in EntryRow /\ e.fill \in 1 .. n /\ e.fill # m
  BY <1>3 DEF EntriesOK
<1>9. EntriesOK(w, m)
  <2>1. IsFiniteSet(w.entries)
    <3>1. IsFiniteSet(b.entries)
      BY <1>3 DEF EntriesOK
    <3> QED BY <1>7, <3>1, FS_Union
  <2>2. \A e \in w.entries : e \in EntryRow /\ e.fill \in 1 .. m
    BY <1>3, <1>6, <1>7, <1>8
  <2>3. w.refs \subseteq 1 .. m
    BY <1>1, <1>3 DEF EntriesOK
  <2> QED BY <2>1, <2>2, <2>3 DEF EntriesOK
<1>10. ASSUME NEW k \in 1 .. n, NEW type \in EntryTypes
       PROVE  Amount(w.entries, k, type) = Amount(b.entries, k, type)
  <2>1. \A d : d.fill = k /\ d.type = type => (d \in w.entries <=> d \in b.entries)
    BY <1>3, <1>6, <1>7
  <2> QED BY <2>1, AmountSame
<1>11. Amount(w.entries, m, "cash") = -price * q
  <2>1. cash \in w.entries /\ \A d \in w.entries : d.fill = cash.fill /\ d.type = cash.type => d = cash
    BY <1>5, <1>6, <1>7, <1>8
  <2>2. cash.amount \in Int
    BY <1>4, <1>5
  <2>3. Amount(w.entries, cash.fill, cash.type) = cash.amount
    BY <2>1, <2>2, AmountOfOne
  <2> QED BY <1>5, <2>3
<1>12. Amount(w.entries, m, "fee") = -FeeOf(q)
  <2>1. CASE FeeOf(q) # 0
    <3>1. fee \in w.entries /\ \A d \in w.entries : d.fill = fee.fill /\ d.type = fee.type => d = fee
      BY <1>5, <1>6, <1>7, <1>8, <2>1
    <3>2. fee.amount \in Int
      BY <1>4, <1>5
    <3>3. Amount(w.entries, fee.fill, fee.type) = fee.amount
      BY <3>1, <3>2, AmountOfOne
    <3> QED BY <1>5, <3>3
  <2>2. CASE FeeOf(q) = 0
    <3>1. \A d \in w.entries : ~(d.fill = m /\ d.type = "fee")
      BY <1>5, <1>6, <1>7, <1>8, <2>2
    <3> QED BY <2>2, <3>1, AmountOfNone
  <2> QED BY <2>1, <2>2
<1>13. Amount(w.entries, m, "realized_pnl") = r
  <2>1. CASE r # 0
    <3>1. pnl \in w.entries /\ \A d \in w.entries : d.fill = pnl.fill /\ d.type = pnl.type => d = pnl
      BY <1>5, <1>6, <1>7, <1>8, <2>1
    <3>2. pnl.amount \in Int
      BY <1>4, <1>5
    <3>3. Amount(w.entries, pnl.fill, pnl.type) = pnl.amount
      BY <3>1, <3>2, AmountOfOne
    <3> QED BY <1>5, <3>3
  <2>2. CASE r = 0
    <3>1. \A d \in w.entries : ~(d.fill = m /\ d.type = "realized_pnl")
      BY <1>5, <1>6, <1>7, <1>8, <2>2
    <3> QED BY <2>2, <3>1, AmountOfNone
  <2> QED BY <2>1, <2>2
<1>14. ASSUME EntriesApart(b.entries) PROVE EntriesApart(w.entries)
  BY <1>6, <1>7, <1>8, <1>14 DEF EntriesApart
<1> QED BY <1>1, <1>9, <1>10, <1>11, <1>12, <1>13, <1>14 DEF m, r

LEMMA SumsAre ==
    ASSUME NEW b, NEW n \in Nat, OrdersOK(b, n), FillsOK(b, n), EntriesOK(b, n)
    PROVE  /\ Net(b) = SumFunction([f \in b.fills |-> Signed(b, f)])
           /\ Paid(b) = SumFunction([f \in b.fills |-> -f.price * Signed(b, f)])
           /\ Gained(b) = SumFunction([f \in b.fills |-> Amount(b.entries, f.id, "realized_pnl")])
           /\ [f \in b.fills |-> Signed(b, f)] \in [b.fills -> Int]
           /\ [f \in b.fills |-> -f.price * Signed(b, f)] \in [b.fills -> Int]
           /\ [f \in b.fills |-> Amount(b.entries, f.id, "realized_pnl")] \in [b.fills -> Int]
           /\ Net(b) \in Int /\ Paid(b) \in Int /\ Gained(b) \in Int
<1> DEFINE s == [f \in b.fills |-> Signed(b, f)]
           c == [f \in b.fills |-> -f.price * Signed(b, f)]
           r == [f \in b.fills |-> Amount(b.entries, f.id, "realized_pnl")]
<1>1. Known(b) = b.fills /\ \A f \in b.fills : Signed(b, f) \in Int
  BY SignedIs
<1>2. Net(b) = SumFunction(s) /\ Paid(b) = SumFunction(c) /\ Gained(b) = SumFunction(r)
  BY <1>1 DEF Net, Paid, Gained
<1>3. s \in [b.fills -> Int]
  BY <1>1
<1>4. c \in [b.fills -> Int]
  <2>1. ASSUME NEW f \in b.fills PROVE -f.price * Signed(b, f) \in Int
    <3>1. f.price \in Int /\ Signed(b, f) \in Int
      BY <1>1 DEF FillsOK, FillRow
    <3> QED BY <3>1
  <2> QED BY <2>1
<1>5. r \in [b.fills -> Int]
  <2>1. IsFiniteSet(b.entries) /\ \A e \in b.entries : e.amount \in Int
    BY DEF EntriesOK, EntryRow
  <2>2. ASSUME NEW f \in b.fills PROVE Amount(b.entries, f.id, "realized_pnl") \in Int
    BY <2>1, AmountType
  <2> QED BY <2>2
<1>6. IsFiniteSet(b.fills)
  BY DEF FillsOK
<1> HIDE DEF s, c, r
<1>7. SumFunction(s) \in Int /\ SumFunction(c) \in Int /\ SumFunction(r) \in Int
  BY <1>3, <1>4, <1>5, <1>6, SumType
<1> QED BY <1>2, <1>3, <1>4, <1>5, <1>7 DEF s, c, r

LEMMA WritesSums ==
    ASSUME NEW b, NEW n, NEW q, NEW price, Orderly(b, n, q, price),
           NEW w, w = Written(b, n + 1, q, price)
    PROVE  /\ Net(b) \in Int /\ Net(w) = Net(b) + q
           /\ Paid(b) \in Int /\ Paid(w) = Paid(b) - price * q
           /\ Gained(b) \in Int /\ Gained(w) = Gained(b) + RealizedBy(b, q, price)
<1> DEFINE m == n + 1
           new == NewFill(m, q, price)
           F == b.fills
           G == w.fills
           s == [f \in F |-> Signed(b, f)]
           c == [f \in F |-> -f.price * Signed(b, f)]
           r == [f \in F |-> Amount(b.entries, f.id, "realized_pnl")]
           S == [f \in G |-> Signed(w, f)]
           C == [f \in G |-> -f.price * Signed(w, f)]
           R == [f \in G |-> Amount(w.entries, f.id, "realized_pnl")]
<1>1. /\ n \in Nat /\ m \in Nat /\ q \in Int /\ price \in Int
      /\ OrdersOK(b, n) /\ FillsOK(b, n) /\ EntriesOK(b, n)
  BY DEF Orderly, RowsOK
<1>2. /\ FillsOK(w, m) /\ G = F \cup {new} /\ new \notin F /\ Signed(w, new) = q
      /\ \A f \in F : Signed(w, f) = Signed(b, f)
  BY WritesFill
<1>3. /\ EntriesOK(w, m) /\ OrdersOK(w, m)
      /\ \A k \in 1 .. n : Amount(w.entries, k, "realized_pnl") = Amount(b.entries, k, "realized_pnl")
      /\ Amount(w.entries, m, "realized_pnl") = RealizedBy(b, q, price)
  BY WritesEntries, WritesOrder DEF EntryTypes
<1>4. new.id = m /\ new.price = price
  BY DEF NewFill
<1>5. /\ Net(b) = SumFunction(s) /\ Paid(b) = SumFunction(c) /\ Gained(b) = SumFunction(r)
      /\ s \in [F -> Int] /\ c \in [F -> Int] /\ r \in [F -> Int]
      /\ Net(b) \in Int /\ Paid(b) \in Int /\ Gained(b) \in Int
  BY <1>1, SumsAre
<1>6. /\ Net(w) = SumFunction(S) /\ Paid(w) = SumFunction(C) /\ Gained(w) = SumFunction(R)
      /\ S \in [G -> Int] /\ C \in [G -> Int] /\ R \in [G -> Int]
  <2> HIDE DEF m
  <2> QED BY <1>1, <1>2, <1>3, SumsAre
<1>7. /\ \A f \in F : s[f] = S[f] /\ c[f] = C[f] /\ r[f] = R[f]
      /\ S[new] = q /\ C[new] = -price * q /\ R[new] = RealizedBy(b, q, price)
  <2>1. \A f \in F : f \in G /\ f.id \in 1 .. n
    BY <1>1, <1>2 DEF FillsOK
  <2>2. new \in G
    BY <1>2
  <2> HIDE DEF m, new, F, G
  <2> QED BY <1>2, <1>3, <1>4, <2>1, <2>2
<1>8. IsFiniteSet(F)
  BY <1>1 DEF FillsOK
<1> HIDE DEF m, new, F, G, s, c, r, S, C, R
<1>9. SumFunction(S) = S[new] + SumFunction(s)
  <2>1. /\ IsFiniteSet(F) /\ G = F \cup {new} /\ new \notin F /\ S \in [G -> Int] /\ s \in [F -> Int]
        /\ \A f \in F : s[f] = S[f]
    BY <1>2, <1>5, <1>6, <1>7, <1>8
  <2> QED BY <2>1, SumPlus
<1>10. SumFunction(C) = C[new] + SumFunction(c)
  <2>1. /\ IsFiniteSet(F) /\ G = F \cup {new} /\ new \notin F /\ C \in [G -> Int] /\ c \in [F -> Int]
        /\ \A f \in F : c[f] = C[f]
    BY <1>2, <1>5, <1>6, <1>7, <1>8
  <2> QED BY <2>1, SumPlus
<1>11. SumFunction(R) = R[new] + SumFunction(r)
  <2>1. /\ IsFiniteSet(F) /\ G = F \cup {new} /\ new \notin F /\ R \in [G -> Int] /\ r \in [F -> Int]
        /\ \A f \in F : r[f] = R[f]
    BY <1>2, <1>5, <1>6, <1>7, <1>8
  <2> QED BY <2>1, SumPlus
<1>12. RealizedBy(b, q, price) \in Int
  BY WritesPosition DEF Moved
<1> QED BY <1>1, <1>5, <1>6, <1>7, <1>9, <1>10, <1>11, <1>12

-----------------------------------------------------------------------------
(* Every order leaves the books as whole, or as short, as it found them.   *)
LEMMA WritesRows ==
    ASSUME NEW b, NEW n, NEW q, NEW price, Orderly(b, n, q, price),
           NEW w, w = Written(b, n + 1, q, price)
    PROVE  RowsOK(w, n + 1)
BY WritesOrder, WritesFill, WritesEntries, WritesPosition DEF RowsOK

LEMMA FillsStayTold ==
    ASSUME NEW b, NEW n, NEW q, NEW price, Orderly(b, n, q, price),
           NEW w, w = Written(b, n + 1, q, price), NEW f \in b.fills
    PROVE  FillTold(w, f) <=> FillTold(b, f)
<1>1. f.id \in 1 .. n
  BY DEF Orderly, RowsOK, FillsOK
<1>2. Signed(w, f) = Signed(b, f)
  BY WritesFill
<1>3. \A type \in EntryTypes : Amount(w.entries, f.id, type) = Amount(b.entries, f.id, type)
  BY <1>1, WritesEntries
<1>4. /\ Amount(w.entries, f.id, "cash") = Amount(b.entries, f.id, "cash")
      /\ Amount(w.entries, f.id, "fee") = Amount(b.entries, f.id, "fee")
  BY <1>3 DEF EntryTypes
<1> QED BY Zenon, <1>2, <1>4 DEF FillTold

LEMMA WholeIsKept ==
    ASSUME NEW b, NEW n, NEW q, NEW price, Orderly(b, n, q, price),
           NEW w, w = Written(b, n + 1, q, price), Whole(b, n)
    PROVE  Whole(w, n + 1)
<1> DEFINE m == n + 1
           new == NewFill(m, q, price)
<1>1. /\ n \in Nat /\ q \in Int /\ price \in Int /\ price * q \in Int
      /\ 1 .. m = 1 .. n \cup {m} /\ m \notin 1 .. n
  BY NewIds DEF Orderly
<1>2. w.fills = b.fills \cup {new} /\ Signed(w, new) = q
  BY WritesFill
<1>3. new.id = m /\ new.price = price /\ new.fee = FeeOf(q)
  BY DEF NewFill
<1>4. /\ w.refs = b.refs \cup {m} /\ (EntriesApart(b.entries) => EntriesApart(w.entries))
      /\ Amount(w.entries, m, "cash") = -price * q /\ Amount(w.entries, m, "fee") = -FeeOf(q)
  BY WritesEntries
<1> HIDE DEF m, new
<1>5. w.refs = 1 .. m /\ \A k \in 1 .. m : \E f \in w.fills : f.id = k
  BY <1>1, <1>2, <1>3, <1>4 DEF Whole
<1>6. ASSUME NEW f \in w.fills PROVE FillTold(w, f)
  <2>1. CASE f \in b.fills
    BY <2>1, FillsStayTold DEF Whole
  <2>2. CASE f = new
    BY <1>2, <1>3, <1>4, <2>2 DEF FillTold
  <2> QED BY <1>2, <2>1, <2>2
<1>7. EntriesApart(w.entries)
  BY <1>4 DEF Whole, EntriesApart
<1>8. /\ NetPosition(w) = Net(w) /\ BookedOf(w) = Gained(w)
      /\ Paid(w) + CostOf(w) = Gained(w)
  <2>1. /\ NetPosition(b) = Net(b) /\ BookedOf(b) = Gained(b)
        /\ Paid(b) + CostOf(b) = Gained(b)
    BY DEF Whole
  <2>2. Moved(b, w, q, price)
    BY WritesPosition
  <2>3. /\ Net(b) \in Int /\ Net(w) = Net(b) + q
        /\ Paid(b) \in Int /\ Paid(w) = Paid(b) - price * q
        /\ Gained(b) \in Int /\ Gained(w) = Gained(b) + RealizedBy(b, q, price)
    BY WritesSums
  <2> DEFINE y == price * q
  <2>4. /\ y \in Int /\ Paid(w) = Paid(b) - y
        /\ CostOf(w) = CostOf(b) + y + RealizedBy(b, q, price)
    BY <1>1, <2>2, <2>3 DEF Moved
  <2> HIDE DEF y
  <2> QED BY <1>1, <2>1, <2>2, <2>3, <2>4 DEF Moved
<1> QED BY <1>5, <1>6, <1>7, <1>8 DEF Whole, EntriesApart, m

LEMMA MissingIsKept ==
    ASSUME NEW b, NEW n, NEW q, NEW price, Orderly(b, n, q, price),
           NEW w, w = Written(b, n + 1, q, price), NEW table, Missing(b, table)
    PROVE  Missing(w, table)
<1> DEFINE m == n + 1
           new == NewFill(m, q, price)
<1>1. /\ n \in Nat /\ m \notin 1 .. n /\ b.refs \subseteq 1 .. n
      /\ \A f \in b.fills : f.id \in 1 .. n
  BY NewIds DEF Orderly, RowsOK, FillsOK, EntriesOK
<1>2. w.fills = b.fills \cup {new} /\ w.refs = b.refs \cup {m}
  BY WritesFill, WritesEntries
<1>3. new.id = m
  BY DEF NewFill
<1> HIDE DEF m, new
<1>4. \A f \in b.fills : FillTold(w, f) <=> FillTold(b, f)
  BY FillsStayTold
<1>5. /\ BookedOf(b) \in Int /\ BookedOf(w) = BookedOf(b) + RealizedBy(b, q, price)
      /\ NetPosition(b) \in Int /\ NetPosition(w) = NetPosition(b) + q
      /\ RealizedBy(b, q, price) \in Int
  BY WritesPosition DEF Moved
<1>6. /\ Net(b) \in Int /\ Net(w) = Net(b) + q
      /\ Gained(b) \in Int /\ Gained(w) = Gained(b) + RealizedBy(b, q, price)
  BY WritesSums
<1>7. (BookedOf(w) = Gained(w) <=> BookedOf(b) = Gained(b)) /\ (NetPosition(w) = Net(w) <=> NetPosition(b) = Net(b))
  <2>1. q \in Int
    BY DEF Orderly
  <2> QED BY <1>5, <1>6, <2>1
<1>8. CASE table = "refs" /\ \E f \in b.fills : f.id \notin b.refs
  <2>1. PICK f \in b.fills : f.id \notin b.refs
    BY <1>8
  <2>2. f \in w.fills /\ f.id \notin w.refs
    BY <1>1, <1>2, <2>1
  <2> QED BY <1>8, <2>2 DEF Missing
<1>9. CASE table = "fills" /\ \E k \in b.refs : \A f \in b.fills : f.id # k
  <2>1. PICK k \in b.refs : \A f \in b.fills : f.id # k
    BY <1>9
  <2>2. k \in w.refs /\ \A f \in w.fills : f.id # k
    BY <1>1, <1>2, <1>3, <2>1
  <2> QED BY <1>9, <2>2 DEF Missing
<1>10. CASE table = "entries" /\ ((\E f \in b.fills : f.id \in b.refs /\ ~FillTold(b, f))
                                  \/ BookedOf(b) # Gained(b))
  BY <1>2, <1>4, <1>7, <1>10 DEF Missing
<1>11. CASE table = "positions" /\ NetPosition(b) # Net(b)
  BY <1>7, <1>11 DEF Missing
<1> QED BY <1>8, <1>9, <1>10, <1>11 DEF Missing

-----------------------------------------------------------------------------
(* A lost row: what the sums make of it.                                   *)
TableNames == {"orders", "fills", "entries", "refs", "history", "positions"}

LEMMA SameSums ==
    ASSUME NEW b, NEW w, w.orders = b.orders
    PROVE  /\ \A f : Signed(w, f) = Signed(b, f)
           /\ w.fills = b.fills => Known(w) = Known(b) /\ Net(w) = Net(b)
           /\ w.entries = b.entries => \A f : FillTold(w, f) <=> FillTold(b, f)
           /\ w.fills = b.fills /\ w.entries = b.entries => Gained(w) = Gained(b)
           /\ w.positions = b.positions => NetPosition(w) = NetPosition(b) /\ BookedOf(w) = BookedOf(b)
<1>1. \A k : SignOf(w, k) = SignOf(b, k)
  BY Zenon DEF SignOf
<1>2. \A f : Signed(w, f) = Signed(b, f)
  BY <1>1 DEF Signed
<1>3. ASSUME w.fills = b.fills PROVE Known(w) = Known(b) /\ Net(w) = Net(b)
  <2>1. Known(w) = Known(b)
    BY <1>3 DEF Known
  <2>2. [f \in Known(w) |-> Signed(w, f)] = [f \in Known(b) |-> Signed(b, f)]
    BY <1>2, <2>1
  <2> QED BY <2>1, <2>2 DEF Net
<1>4. ASSUME w.entries = b.entries PROVE \A f : FillTold(w, f) <=> FillTold(b, f)
  BY <1>2, <1>4 DEF FillTold
<1>5. ASSUME w.fills = b.fills, w.entries = b.entries PROVE Gained(w) = Gained(b)
  BY <1>3, <1>5 DEF Gained
<1>6. ASSUME w.positions = b.positions
      PROVE  NetPosition(w) = NetPosition(b) /\ BookedOf(w) = BookedOf(b)
  <2>1. Opened(w) = Opened(b)
    BY <1>6 DEF Opened
  <2> QED BY <1>6, <2>1 DEF NetPosition, BookedOf
<1> QED BY <1>2, <1>3, <1>4, <1>5, <1>6

LEMMA LosesEntry ==
    ASSUME NEW b, NEW n \in Nat, RowsOK(b, n), Whole(b, n), NEW e \in b.entries,
           NEW w, w.orders = b.orders, w.history = b.history, w.fills = b.fills, w.refs = b.refs,
           w.entries = b.entries \ {e}, w.positions = b.positions
    PROVE  RowsOK(w, n) /\ Missing(w, "entries")
<1>1. /\ e \in EntryRow /\ e.fill \in 1 .. n /\ e.amount # 0 /\ e.amount \in Int
      /\ \A d \in b.entries : d.fill = e.fill /\ d.type = e.type => d = e
      /\ IsFiniteSet(b.entries) /\ \A d \in b.entries : d \in EntryRow /\ d.fill \in 1 .. n
  BY DEF RowsOK, EntriesOK, Whole, EntryRow
<1>2. /\ \A f : Signed(w, f) = Signed(b, f)
      /\ BookedOf(w) = BookedOf(b)
  BY SameSums
<1>3. RowsOK(w, n)
  <2>1. OrdersOK(w, n)
    BY DEF RowsOK, OrdersOK
  <2>2. \A k : SignOf(w, k) = SignOf(b, k)
    BY Zenon DEF SignOf
  <2>3. FillsOK(w, n)
    BY <2>2 DEF RowsOK, FillsOK
  <2>4. EntriesOK(w, n)
    <3>1. IsFiniteSet(w.entries)
      BY <1>1, FS_Subset
    <3> QED BY <1>1, <3>1 DEF RowsOK, EntriesOK
  <2>5. PositionsOK(w, n)
    BY DEF RowsOK, PositionsOK
  <2> QED BY <2>1, <2>3, <2>4, <2>5 DEF RowsOK
<1>4. PICK f \in b.fills : f.id = e.fill
  BY <1>1 DEF Whole
<1>5. Amount(b.entries, f.id, e.type) = e.amount /\ Amount(w.entries, f.id, e.type) = 0
  <2>1. Amount(b.entries, e.fill, e.type) = e.amount
    BY <1>1, AmountOfOne
  <2>2. Amount(w.entries, e.fill, e.type) = 0
    <3>1. \A d \in w.entries : ~(d.fill = e.fill /\ d.type = e.type)
      BY <1>1
    <3> QED BY <3>1, AmountOfNone
  <2> QED BY <1>4, <2>1, <2>2
<1>6. FillTold(b, f) /\ f \in w.fills /\ f.id \in w.refs
  BY <1>1, <1>4 DEF Whole
<1>7. CASE e.type = "cash" \/ e.type = "fee"
  <2>1. ~FillTold(w, f)
    BY <1>1, <1>2, <1>5, <1>6, <1>7 DEF FillTold
  <2> QED BY <1>3, <1>6, <2>1 DEF Missing
<1>8. CASE e.type = "realized_pnl"
  <2> DEFINE F == b.fills
             R == [g \in F |-> Amount(b.entries, g.id, "realized_pnl")]
             Q == [g \in F |-> Amount(w.entries, g.id, "realized_pnl")]
             U == F \ {f}
             rest == [g \in U |-> Amount(b.entries, g.id, "realized_pnl")]
  <2>1. IsFiniteSet(F) /\ IsFiniteSet(U)
    BY FS_Subset DEF RowsOK, FillsOK
  <2>2. Gained(b) = SumFunction(R) /\ R \in [F -> Int]
    BY SumsAre DEF RowsOK
  <2>3. Gained(w) = SumFunction(Q) /\ Q \in [F -> Int]
    BY <1>3, SumsAre DEF RowsOK
  <2>4. R[f] = e.amount /\ Q[f] = 0
    BY <1>5, <1>8
  <2>5. \A g \in U : Q[g] = R[g]
    <3>1. ASSUME NEW g \in U PROVE Q[g] = R[g]
      <4>1. g.id # f.id
        BY DEF RowsOK, FillsOK
      <4>2. \A d : d.fill = g.id /\ d.type = "realized_pnl" => (d \in w.entries <=> d \in b.entries)
        BY <1>4, <4>1
      <4> QED BY <4>2, AmountSame
    <3> QED BY <3>1
  <2>6. rest \in [U -> Int] /\ \A g \in U : rest[g] = R[g]
    <3>1. \A g \in U : rest[g] = R[g]
      OBVIOUS
    <3> QED BY <2>2, <3>1
  <2>7. \A g \in U : rest[g] = Q[g]
    BY <2>5, <2>6
  <2>8. f \in F
    OBVIOUS
  <2> HIDE DEF R, Q, rest, F
  <2>9. SumFunction(R) = R[f] + SumFunction(rest)
    <3>1. /\ IsFiniteSet(U) /\ F = U \cup {f} /\ f \notin U
          /\ R \in [F -> Int] /\ rest \in [U -> Int]
          /\ \A g \in U : rest[g] = R[g]
      BY <2>1, <2>2, <2>6, <2>8
    <3> HIDE DEF U
    <3> QED BY <3>1, SumPlus
  <2>10. SumFunction(Q) = Q[f] + SumFunction(rest)
    <3>1. /\ IsFiniteSet(U) /\ F = U \cup {f} /\ f \notin U
          /\ Q \in [F -> Int] /\ rest \in [U -> Int]
          /\ \A g \in U : rest[g] = Q[g]
      BY <2>1, <2>3, <2>6, <2>7, <2>8
    <3> HIDE DEF U
    <3> QED BY <3>1, SumPlus
  <2>11. SumFunction(rest) \in Int
    BY <2>1, <2>6, SumType
  <2>12. Gained(w) # Gained(b) /\ BookedOf(b) = Gained(b)
    BY <1>1, <2>2, <2>3, <2>4, <2>9, <2>10, <2>11 DEF Whole
  <2> QED BY <1>2, <1>3, <2>12 DEF Missing
<1> QED BY <1>1, <1>7, <1>8 DEF EntryRow, EntryTypes

LEMMA LosesFill ==
    ASSUME NEW b, NEW n \in Nat, RowsOK(b, n), Whole(b, n), NEW f \in b.fills,
           NEW w, w.orders = b.orders, w.history = b.history, w.fills = b.fills \ {f},
           w.refs = b.refs, w.entries = b.entries, w.positions = b.positions
    PROVE  RowsOK(w, n) /\ Missing(w, "fills")
<1>1. \A k : SignOf(w, k) = SignOf(b, k)
  BY Zenon DEF SignOf
<1>2. FillsOK(w, n)
  <2>1. IsFiniteSet(w.fills)
    BY FS_Subset DEF RowsOK, FillsOK
  <2> QED BY <1>1, <2>1 DEF RowsOK, FillsOK
<1>3. OrdersOK(w, n) /\ EntriesOK(w, n) /\ PositionsOK(w, n)
  BY DEF RowsOK, OrdersOK, EntriesOK, PositionsOK
<1>4. f.id \in w.refs /\ \A g \in w.fills : g.id # f.id
  BY DEF RowsOK, FillsOK, Whole
<1> QED BY <1>2, <1>3, <1>4 DEF RowsOK, Missing

LEMMA LosesRef ==
    ASSUME NEW b, NEW n \in Nat, RowsOK(b, n), Whole(b, n), NEW k \in b.refs,
           NEW w, w.orders = b.orders, w.history = b.history, w.fills = b.fills,
           w.refs = b.refs \ {k}, w.entries = b.entries, w.positions = b.positions
    PROVE  RowsOK(w, n) /\ Missing(w, "refs")
<1>1. \A i : SignOf(w, i) = SignOf(b, i)
  BY Zenon DEF SignOf
<1>2. FillsOK(w, n)
  BY <1>1 DEF RowsOK, FillsOK
<1>3. OrdersOK(w, n) /\ EntriesOK(w, n) /\ PositionsOK(w, n)
  BY DEF RowsOK, OrdersOK, EntriesOK, PositionsOK
<1>4. \E f \in w.fills : f.id \notin w.refs
  BY DEF Whole
<1> QED BY <1>2, <1>3, <1>4 DEF RowsOK, Missing

LEMMA LosesPosition ==
    ASSUME NEW b, NEW n \in Nat, RowsOK(b, n), Whole(b, n), NEW p \in Opened(b),
           NEW w, w.orders = b.orders, w.history = b.history, w.fills = b.fills,
           w.refs = b.refs, w.entries = b.entries, w.positions = b.positions \ {p}
    PROVE  RowsOK(w, n) /\ Missing(w, "positions")
<1>1. \A i : SignOf(w, i) = SignOf(b, i)
  BY Zenon DEF SignOf
<1>2. FillsOK(w, n)
  BY <1>1 DEF RowsOK, FillsOK
<1>3. OrdersOK(w, n) /\ EntriesOK(w, n)
  BY DEF RowsOK, OrdersOK, EntriesOK
<1>4. PositionsOK(w, n)
  <2>1. IsFiniteSet(w.positions)
    BY FS_Subset DEF RowsOK, PositionsOK
  <2> QED BY <2>1 DEF RowsOK, PositionsOK
<1>5. Opened(b) = {p} /\ Opened(w) = {} /\ p.quantity \in Int /\ p.quantity # 0
  BY DEF RowsOK, PositionsOK, PositionRow, Opened
<1>6. NetPosition(b) = p.quantity
  <2> DEFINE f == [y \in {p} |-> y.quantity]
  <2>1. f \in [{p} -> Int] /\ f[p] = p.quantity
    BY <1>5
  <2>2. NetPosition(b) = SumFunction(f)
    BY <1>5 DEF NetPosition
  <2> HIDE DEF f
  <2> QED BY <2>1, <2>2, SumOfOne
<1>7. NetPosition(w) = 0
  BY <1>5, SumOfNone DEF NetPosition
<1>8. Net(w) = Net(b) /\ Net(b) = NetPosition(b)
  BY SameSums DEF Whole
<1>9. NetPosition(w) # Net(w)
  BY <1>5, <1>6, <1>7, <1>8
<1> QED BY <1>2, <1>3, <1>4, <1>9 DEF RowsOK, Missing

LEMMA LosesRow ==
    ASSUME NEW b, DOMAIN b = TableNames, b = [t \in TableNames |-> b[t]],
           NEW n \in Nat, RowsOK(b, n), Whole(b, n),
           NEW table \in {"fills", "entries", "refs", "positions"},
           NEW row, row \in b[table], table = "positions" => row \in Opened(b),
           NEW w, DOMAIN w = TableNames, w[table] = b[table] \ {row},
           \A t \in TableNames \ {table} : w[t] = b[t]
    PROVE  /\ w.orders = b.orders /\ RowsOK(w, n) /\ Missing(w, table)
<1>1. w[table] = b[table] \ {row} /\ \A t \in TableNames \ {table} : w[t] = b[t]
  OBVIOUS
<1>2. w.orders = b.orders /\ w.history = b.history
  BY <1>1 DEF TableNames
<1>3. CASE table = "fills"
  <2>1. /\ row \in b.fills /\ w.fills = b.fills \ {row}
        /\ w.refs = b.refs /\ w.entries = b.entries /\ w.positions = b.positions
    BY <1>1, <1>3 DEF TableNames
  <2>2. RowsOK(w, n) /\ Missing(w, "fills")
    BY <1>2, <2>1, LosesFill
  <2> QED BY <1>1, <1>2, <1>3, <2>2
<1>4. CASE table = "entries"
  <2>1. /\ row \in b.entries /\ w.entries = b.entries \ {row}
        /\ w.refs = b.refs /\ w.fills = b.fills /\ w.positions = b.positions
    BY <1>1, <1>4 DEF TableNames
  <2>2. RowsOK(w, n) /\ Missing(w, "entries")
    BY <1>2, <2>1, LosesEntry
  <2> QED BY <1>1, <1>2, <1>4, <2>2
<1>5. CASE table = "refs"
  <2>1. /\ row \in b.refs /\ w.refs = b.refs \ {row}
        /\ w.entries = b.entries /\ w.fills = b.fills /\ w.positions = b.positions
    BY <1>1, <1>5 DEF TableNames
  <2>2. RowsOK(w, n) /\ Missing(w, "refs")
    BY <1>2, <2>1, LosesRef
  <2> QED BY <1>1, <1>2, <1>5, <2>2
<1>6. CASE table = "positions"
  <2>1. /\ row \in Opened(b) /\ w.positions = b.positions \ {row}
        /\ w.entries = b.entries /\ w.fills = b.fills /\ w.refs = b.refs
    BY <1>1, <1>6 DEF TableNames
  <2>2. RowsOK(w, n) /\ Missing(w, "positions")
    BY <1>2, <2>1, LosesPosition
  <2> QED BY <1>1, <1>2, <1>6, <2>2
<1> QED BY <1>3, <1>4, <1>5, <1>6

-----------------------------------------------------------------------------
(* What the reconciliation says of the books.                              *)
LEMMA PositionFindingsAre ==
    ASSUME NEW b
    PROVE  PositionFindings(b) =
             IF Cardinality(Opened(b)) > 1 THEN {"multiple_open_positions"}
             ELSE {"closed_position_with_quantity" : p \in {q \in b.positions \ Opened(b) : q.quantity # 0}}
                  \cup (IF NetPosition(b) # Net(b) THEN {"position_quantity_mismatch"} ELSE {})
                  \cup (IF BookedOf(b) # Gained(b) THEN {"realized_pnl_mismatch"} ELSE {})
                  \cup (IF NetPosition(b) = Net(b) /\ Paid(b) + CostOf(b) # Gained(b)
                        THEN {"position_cost_basis_mismatch"} ELSE {})
BY Zenon DEF PositionFindings, Net, BookedOf, Gained, Paid, CostOf, Known

LEMMA OrdersFilled ==
    ASSUME NEW b, NEW n \in Nat, RowsOK(b, n), Whole(b, n), NEW o \in b.orders
    PROVE  SumFunction([f \in {g \in b.fills : g.order = o.id} |-> f.quantity]) = o.filled
<1>1. o.id \in 1 .. n /\ o.filled = SizeOf(o.quantity) /\ o.quantity \in Int
  BY DEF RowsOK, OrdersOK, OrderRow
<1>2. PICK f \in b.fills : f.id = o.id
  BY <1>1 DEF Whole
<1>3. {g \in b.fills : g.order = o.id} = {f}
  BY <1>2 DEF RowsOK, FillsOK
<1>4. f.quantity = SizeOf(SignOf(b, f.id))
  BY DEF RowsOK, FillsOK
<1>5. SignOf(b, o.id) = o.quantity
  BY SignsAre DEF RowsOK
<1>6. f.quantity = o.filled /\ f.quantity \in Int
  BY <1>1, <1>2, <1>4, <1>5, Sizes
<1> DEFINE h == [g \in {f} |-> g.quantity]
<1>7. h \in [{f} -> Int] /\ h[f] = o.filled
  BY <1>6
<1>8. SumFunction([g \in {f} |-> g.quantity]) = SumFunction(h)
  OBVIOUS
<1> HIDE DEF h
<1>9. SumFunction(h) = h[f]
  BY <1>7, SumOfOne
<1> QED BY <1>3, <1>7, <1>8, <1>9

LEMMA WholeIsClean ==
    ASSUME NEW b, NEW n \in Nat, RowsOK(b, n), Whole(b, n)
    PROVE  Reconcile(b) = {}
<1>1. FillFindings(b) = {}
  <2>1. \A f \in b.fills : f.id \in b.refs /\ FillTold(b, f)
    BY DEF RowsOK, FillsOK, Whole
  <2>2. b.refs \ {f.id : f \in b.fills} = {}
    BY DEF Whole
  <2> QED BY <2>1, <2>2 DEF FillFindings, FillTold
<1>2. OrderFindings(b) = {}
  <2> DEFINE FilledOf(o) == SumFunction([f \in {g \in b.fills : g.order = o.id} |-> f.quantity])
             Statuses(o) == {h[2] : h \in {g \in b.history : g[1] = o.id}}
  <2>1. \A o \in b.orders : o.filled = FilledOf(o)
    BY OrdersFilled
  <2>2. \A o \in b.orders : o.filled = SizeOf(o.quantity)
    BY DEF RowsOK, OrdersOK
  <2>3. ASSUME NEW o \in b.orders PROVE o.status \in Statuses(o)
    <3>1. o.status = "filled" /\ o.id \in 1 .. n
      BY DEF RowsOK, OrdersOK, OrderRow
    <3>2. <<o.id, "filled">> \in b.history
      BY <3>1 DEF RowsOK, OrdersOK
    <3>3. <<o.id, "filled">>[1] = o.id /\ <<o.id, "filled">>[2] = "filled"
      OBVIOUS
    <3> QED BY <3>1, <3>2, <3>3
  <2>4. OrderFindings(b) =
          {"order_filled_quantity_mismatch" : o \in {p \in b.orders : p.filled # FilledOf(p)}}
          \cup {"order_filled_incompletely" :
                  o \in {p \in b.orders : p.filled = FilledOf(p) /\ p.filled # SizeOf(p.quantity)}}
          \cup {"order_status_not_in_history" :
                  o \in {p \in b.orders : Statuses(p) # {} /\ p.status \notin Statuses(p)}}
    BY Zenon DEF OrderFindings
  <2> HIDE DEF FilledOf, Statuses
  <2> QED BY <2>1, <2>2, <2>3, <2>4
<1>3. PositionFindings(b) = {}
  <2>1. ~(Cardinality(Opened(b)) > 1)
    <3>1. CASE Opened(b) = {}
      BY <3>1, FS_EmptySet
    <3>2. ASSUME NEW p \in Opened(b) PROVE Cardinality(Opened(b)) = 1
      <4>1. Opened(b) = {p}
        BY DEF RowsOK, PositionsOK, Opened
      <4> QED BY <4>1, FS_Singleton
    <3> QED BY <3>1, <3>2
  <2>2. {q \in b.positions \ Opened(b) : q.quantity # 0} = {}
    BY DEF RowsOK, PositionsOK, Opened
  <2>3. /\ NetPosition(b) = Net(b) /\ BookedOf(b) = Gained(b) /\ Paid(b) + CostOf(b) = Gained(b)
    BY DEF Whole
  <2> QED BY <2>1, <2>2, <2>3, PositionFindingsAre
<1> QED BY <1>1, <1>2, <1>3 DEF Reconcile

LEMMA MissingIsFound ==
    ASSUME NEW b, NEW table, Missing(b, table)
    PROVE  Reconcile(b) # {}
<1>1. CASE \E f \in b.fills : f.id \notin b.refs
  <2>1. "fill_without_ledger" \in FillFindings(b)
    BY <1>1 DEF FillFindings
  <2> QED BY <2>1 DEF Reconcile
<1>2. CASE \E n \in b.refs : \A f \in b.fills : f.id # n
  <2>1. "ledger_transaction_without_fill" \in FillFindings(b)
    BY <1>2 DEF FillFindings
  <2> QED BY <2>1 DEF Reconcile
<1>3. CASE \E f \in b.fills : f.id \in b.refs /\ ~FillTold(b, f)
  <2>1. "ledger_cash_mismatch" \in FillFindings(b) \/ "ledger_fee_mismatch" \in FillFindings(b)
    BY <1>3 DEF FillFindings, FillTold
  <2> QED BY <2>1 DEF Reconcile
<1>4. CASE BookedOf(b) # Gained(b) \/ NetPosition(b) # Net(b)
  <2>1. PositionFindings(b) # {}
    BY <1>4, PositionFindingsAre
  <2> QED BY <2>1 DEF Reconcile
<1> QED BY <1>1, <1>2, <1>3, <1>4 DEF Missing

-----------------------------------------------------------------------------
(* The tables a reconciliation has read: either they are as they are now,  *)
(* or an order's fill came in whose order it does not know.                *)
Behind(orders, fills) == \E f \in fills : ~\E o \in orders : o.id = f.order

RowsRead(rows, b, n, moved) ==
    /\ DOMAIN rows \subseteq TableNames
    /\ DOMAIN rows # {} => rows = [t \in DOMAIN rows |-> rows[t]]
    /\ DOMAIN rows = {} \/ DOMAIN rows = {"orders"} \/ {"orders", "fills"} \subseteq DOMAIN rows
    /\ "orders" \in DOMAIN rows => \A o \in rows["orders"] : o.id \in 1 .. n
    /\ "orders" \in DOMAIN rows /\ ("fills" \in DOMAIN rows => ~moved) =>
         rows["orders"] = b.orders \/ Behind(rows["orders"], b.fills)
    /\ "fills" \in DOMAIN rows /\ ~moved => \A t \in DOMAIN rows \ {"orders"} : rows[t] = b[t]

LEMMA NothingRead ==
    ASSUME NEW rows, DOMAIN rows = {}, NEW b, NEW n, NEW moved
    PROVE  RowsRead(rows, b, n, moved)
BY DEF RowsRead

LEMMA TablesAre ==
    ASSUME NEW k \in DOMAIN Tables
    PROVE  LET D == {Tables[i] : i \in 1 .. k - 1} IN
           /\ D \subseteq TableNames /\ Tables[k] \in TableNames \ D
           /\ \/ D = {} /\ Tables[k] = "orders"
              \/ D = {"orders"} /\ Tables[k] = "fills"
              \/ {"orders", "fills"} \subseteq D
<1> DEFINE D == {Tables[i] : i \in 1 .. k - 1}
<1>1. /\ DOMAIN Tables = 1 .. 6
      /\ Tables[1] = "orders" /\ Tables[2] = "fills" /\ Tables[3] = "entries"
      /\ Tables[4] = "refs" /\ Tables[5] = "history" /\ Tables[6] = "positions"
  BY DEF Tables
<1>2. CASE k = 1
  <2>1. D = {}
    BY <1>2
  <2> QED BY <1>1, <1>2, <2>1 DEF TableNames
<1>3. CASE k = 2
  <2>1. 1 .. k - 1 = {1}
    BY <1>3
  <2>2. D = {"orders"}
    BY <1>1, <2>1
  <2> QED BY <1>1, <1>3, <2>2 DEF TableNames
<1>4. CASE k = 3
  <2>1. 1 .. k - 1 = {1, 2}
    BY <1>4
  <2>2. D = {"orders", "fills"}
    BY <1>1, <2>1
  <2> QED BY <1>1, <1>4, <2>2 DEF TableNames
<1>5. CASE k = 4
  <2>1. 1 .. k - 1 = {1, 2, 3}
    BY <1>5
  <2>2. D = {"orders", "fills", "entries"}
    BY <1>1, <2>1
  <2> QED BY <1>1, <1>5, <2>2 DEF TableNames
<1>6. CASE k = 5
  <2>1. 1 .. k - 1 = {1, 2, 3, 4}
    BY <1>6
  <2>2. D = {"orders", "fills", "entries", "refs"}
    BY <1>1, <2>1
  <2> QED BY <1>1, <1>6, <2>2 DEF TableNames
<1>7. CASE k = 6
  <2>1. 1 .. k - 1 = {1, 2, 3, 4, 5}
    BY <1>7
  <2>2. D = {"orders", "fills", "entries", "refs", "history"}
    BY <1>1, <2>1
  <2> QED BY <1>1, <1>7, <2>2 DEF TableNames
<1>8. k \in 1 .. 6
  BY <1>1
<1>9. k = 1 \/ k = 2 \/ k = 3 \/ k = 4 \/ k = 5 \/ k = 6
  BY <1>8
<1> QED BY Zenon, <1>2, <1>3, <1>4, <1>5, <1>6, <1>7, <1>9

LEMMA ReadsOneMore ==
    ASSUME NEW rows, NEW b, NEW n, NEW moved \in BOOLEAN, RowsRead(rows, b, n, moved), OrdersOK(b, n),
           NEW k \in DOMAIN Tables, DOMAIN rows = {Tables[i] : i \in 1 .. k - 1},
           NEW r,
           r = [t \in DOMAIN rows \cup {Tables[k]} |-> IF t = Tables[k] THEN b[t] ELSE rows[t]]
    PROVE  RowsRead(r, b, n, moved)
<1> DEFINE t == Tables[k]
           D == DOMAIN rows
<1>1. /\ D \subseteq TableNames /\ t \in TableNames \ D
      /\ \/ D = {} /\ t = "orders"
         \/ D = {"orders"} /\ t = "fills"
         \/ {"orders", "fills"} \subseteq D
  BY TablesAre
<1>2. r = [x \in D \cup {t} |-> IF x = t THEN b[t] ELSE rows[x]]
  OBVIOUS
<1> HIDE DEF t, D
<1>3. DOMAIN r = D \cup {t} /\ r[t] = b[t] /\ \A x \in D : r[x] = rows[x]
  BY <1>1, <1>2
<1>4. r = [x \in DOMAIN r |-> r[x]]
  BY <1>2
<1>5. DOMAIN r \subseteq TableNames
  BY <1>1, <1>3
<1>6. DOMAIN r = {"orders"} \/ {"orders", "fills"} \subseteq DOMAIN r
  BY <1>1, <1>3
<1>7. CASE D = {} /\ t = "orders"
  <2>1. DOMAIN r = {"orders"} /\ r["orders"] = b.orders
    BY <1>3, <1>7
  <2>2. \A o \in b.orders : o.id \in 1 .. n
    BY DEF OrdersOK
  <2> QED BY <1>4, <1>5, <2>1, <2>2 DEF RowsRead
<1>8. CASE "orders" \in D /\ (t = "fills" \/ "fills" \in D)
  <2>1. r["orders"] = rows["orders"]
    BY <1>3, <1>8
  <2>2. \A o \in r["orders"] : o.id \in 1 .. n
    BY <1>8, <2>1 DEF RowsRead, D
  <2>3. ~moved => r["orders"] = b.orders \/ Behind(r["orders"], b.fills)
    BY <1>8, <2>1 DEF RowsRead, D
  <2>4. ~moved => \A x \in DOMAIN r \ {"orders"} : r[x] = b[x]
    <3>1. CASE t = "fills"
      <4>1. D = {"orders"}
        BY <1>1, <1>8, <3>1
      <4> QED BY <1>3, <3>1, <4>1
    <3>2. CASE "fills" \in D
      <4>1. ~moved => \A x \in D \ {"orders"} : rows[x] = b[x]
        BY <3>2 DEF RowsRead, D
      <4> QED BY <1>3, <4>1
    <3> QED BY <1>8, <3>1, <3>2
  <2>5. "orders" \in DOMAIN r /\ "fills" \in DOMAIN r
    BY <1>3, <1>8
  <2> QED BY <1>4, <1>5, <1>6, <2>2, <2>3, <2>4, <2>5 DEF RowsRead
<1> QED BY <1>1, <1>7, <1>8

LEMMA ReadWhileWritten ==
    ASSUME NEW b, NEW n, NEW q, NEW price, Orderly(b, n, q, price),
           NEW w, w = Written(b, n + 1, q, price),
           NEW rows, NEW moved \in BOOLEAN, RowsRead(rows, b, n, moved),
           NEW now, now = (moved \/ {"orders", "fills"} \subseteq DOMAIN rows)
    PROVE  RowsRead(rows, w, n + 1, now)
<1> DEFINE D == DOMAIN rows
           m == n + 1
           new == NewFill(m, q, price)
<1>1. n \in Nat /\ 1 .. m = 1 .. n \cup {m} /\ m \notin 1 .. n
  BY NewIds DEF Orderly
<1>2. new \in w.fills /\ new.order = m
  BY WritesFill DEF NewFill
<1> HIDE DEF m, new
<1>3. "orders" \in D => \A o \in rows["orders"] : o.id \in 1 .. n
  BY DEF RowsRead
<1>4. "orders" \in D => Behind(rows["orders"], w.fills)
  BY <1>1, <1>2, <1>3 DEF Behind
<1>5. "fills" \in D => now
  <2>1. "fills" \in D => {"orders", "fills"} \subseteq D
    BY DEF RowsRead
  <2> QED BY <2>1
<1>6. "orders" \in D => \A o \in rows["orders"] : o.id \in 1 .. m
  BY <1>1, <1>3
<1>7. /\ D \subseteq TableNames
      /\ D # {} => rows = [t \in D |-> rows[t]]
      /\ D = {} \/ D = {"orders"} \/ {"orders", "fills"} \subseteq D
  BY Zenon DEF RowsRead
<1> QED BY <1>4, <1>5, <1>6, <1>7 DEF RowsRead, m

-----------------------------------------------------------------------------
(* The inductive invariant: the books hold the orders that were committed, *)
(* whole until a row is lost and short of it ever after.                   *)
Placed == Cardinality(books.orders)

BooksOK ==
    /\ DOMAIN books = TableNames /\ books = [t \in TableNames |-> books[t]]
    /\ Placed \in Nat /\ RowsOK(books, Placed)
    /\ broken = "none" => Whole(books, Placed)
    /\ broken # "none" => Missing(books, broken)

LedgerOK ==
    /\ stopped \in BOOLEAN /\ torn \in BOOLEAN
    /\ BooksOK
    /\ DOMAIN reading = {"for", "rows"} /\ RowsRead(reading.rows, books, Placed, torn)

LEMMA LedgerBegins == LedgerInit => LedgerOK
<1> SUFFICES ASSUME LedgerInit PROVE LedgerOK
  OBVIOUS
<1> DEFINE T == {Tables[i] : i \in DOMAIN Tables}
<1>1. T = TableNames
  BY DEF Tables, TableNames
<1>2. books = [t \in T |-> {}]
  BY DEF LedgerInit
<1> HIDE DEF T
<1>3. /\ books = [t \in TableNames |-> books[t]] /\ DOMAIN books = TableNames
      /\ books.orders = {} /\ books.fills = {} /\ books.entries = {} /\ books.refs = {}
      /\ books.history = {} /\ books.positions = {}
  BY <1>1, <1>2 DEF TableNames
<1>4. Placed = 0 /\ IsFiniteSet({}) /\ 1 .. 0 = {}
  BY <1>3, FS_EmptySet DEF Placed
<1>5. RowsOK(books, 0)
  BY <1>3, <1>4 DEF RowsOK, OrdersOK, FillsOK, EntriesOK, PositionsOK
<1>6. Whole(books, 0)
  <2>1. Known(books) = {} /\ Opened(books) = {}
    BY <1>3 DEF Known, Opened
  <2>2. /\ NetPosition(books) = 0 /\ Net(books) = 0 /\ Paid(books) = 0
        /\ Gained(books) = 0 /\ CostOf(books) = 0 /\ BookedOf(books) = 0
    BY <1>3, <2>1, SumOfNone DEF NetPosition, Net, Paid, Gained, CostOf, BookedOf
  <2> QED BY <1>3, <1>4, <2>2 DEF Whole
<1>7. reading = [for |-> "nothing", rows |-> <<>>] /\ broken = "none" /\ stopped = FALSE /\ torn = FALSE
  BY DEF LedgerInit, NoReading
<1>8. DOMAIN reading = {"for", "rows"} /\ DOMAIN reading.rows = {}
  BY <1>7
<1> QED BY <1>3, <1>4, <1>5, <1>6, <1>7, <1>8, NothingRead DEF LedgerOK, BooksOK

LEMMA OrderKeepsLedger ==
    ASSUME LedgerOK, NEW q \in Quantities, NEW price \in FillPrices, PlaceOrder(Placed + 1, q, price)
    PROVE  LedgerOK'
<1> DEFINE n == Placed
           w == Written(books, n + 1, q, price)
<1>1. /\ books' = w /\ UNCHANGED <<stopped, reading, broken>>
      /\ torn' = (torn \/ {"orders", "fills"} \subseteq DOMAIN reading.rows)
  BY Zenon DEF PlaceOrder
<1>2. Orderly(books, n, q, price) /\ n \in Nat
  BY LedgerAssumption DEF LedgerOK, BooksOK, Orderly
<1> HIDE DEF n, w
<1>3. RowsOK(w, n + 1)
  BY <1>2, WritesRows DEF w
<1>4. Placed' = n + 1
  <2> DEFINE new == NewOrder(n + 1, q)
  <2>1. w.orders = books.orders \cup {new}
    BY WrittenIs DEF w
  <2>2. new \notin books.orders
    BY <1>2, WritesOrder DEF w
  <2>3. IsFiniteSet(books.orders)
    BY <1>2 DEF Orderly, RowsOK, OrdersOK
  <2> HIDE DEF new
  <2>4. Cardinality(books.orders \cup {new}) = n + 1
    BY <2>2, <2>3, FS_AddElement DEF n, Placed
  <2> QED BY <1>1, <2>1, <2>4 DEF Placed
<1>5. DOMAIN w = TableNames /\ w = [t \in TableNames |-> w[t]]
  BY DEF w, Written, TableNames
<1>6. broken = "none" => Whole(w, n + 1)
  BY <1>2, WholeIsKept DEF w, n, LedgerOK, BooksOK
<1>7. broken # "none" => Missing(w, broken)
  BY <1>2, MissingIsKept DEF w, LedgerOK, BooksOK
<1>8. BooksOK'
  BY <1>1, <1>2, <1>3, <1>4, <1>5, <1>6, <1>7 DEF BooksOK
<1>9. torn' \in BOOLEAN /\ stopped' \in BOOLEAN /\ DOMAIN reading' = {"for", "rows"}
  BY <1>1 DEF LedgerOK
<1>10. RowsRead(reading.rows, w, n + 1, torn')
  BY <1>1, <1>2, ReadWhileWritten DEF w, n, LedgerOK
<1>11. RowsRead(reading.rows, books, Placed, torn)'
  BY <1>1, <1>4, <1>10
<1> QED BY <1>8, <1>9, <1>11 DEF LedgerOK

LEMMA LossKeepsLedger ==
    ASSUME LedgerOK, NEW table \in {"fills", "entries", "refs", "positions"}, RowLost(table)
    PROVE  LedgerOK'
<1> DEFINE n == Placed
<1>1. PICK row \in IF table = "positions" THEN Opened(books) ELSE books[table] :
        books' = [books EXCEPT ![table] = books[table] \ {row}]
  BY Zenon DEF RowLost
<1>2. /\ broken = "none" /\ reading.rows = <<>> /\ broken' = table
      /\ UNCHANGED <<stopped, reading, torn>>
  BY DEF RowLost
<1>3. /\ DOMAIN books = TableNames /\ books = [t \in TableNames |-> books[t]]
      /\ n \in Nat /\ RowsOK(books, n) /\ Whole(books, n)
  BY <1>2 DEF LedgerOK, BooksOK
<1> HIDE DEF n
<1>4. /\ DOMAIN books' = TableNames /\ books' = [t \in TableNames |-> books'[t]]
      /\ books'.orders = books.orders /\ RowsOK(books', n) /\ Missing(books', table)
  <2>1. /\ row \in books[table] /\ (table = "positions" => row \in Opened(books))
    BY DEF Opened
  <2>2. /\ DOMAIN books' = TableNames /\ books' = [t \in TableNames |-> books'[t]]
        /\ books'[table] = books[table] \ {row}
        /\ \A t \in TableNames \ {table} : books'[t] = books[t]
    BY <1>1, <1>3 DEF TableNames
  <2>3. books'.orders = books.orders /\ RowsOK(books', n) /\ Missing(books', table)
    BY <1>3, <2>1, <2>2, LosesRow
  <2> QED BY <2>2, <2>3
<1>5. Placed' = n
  BY <1>4 DEF Placed, n
<1>6. BooksOK'
  BY <1>2, <1>3, <1>4, <1>5 DEF BooksOK
<1>7. DOMAIN reading'.rows = {}
  BY <1>2
<1>8. RowsRead(reading.rows, books, Placed, torn)'
  BY <1>7, NothingRead
<1> QED BY <1>2, <1>6, <1>8 DEF LedgerOK

LEMMA ReadingKeepsLedger ==
    ASSUME LedgerOK,
           ReadingBegins \/ (\E k \in DOMAIN Tables : ReadsTable(k)) \/ Verdict \/ ReadingFails
    PROVE  LedgerOK'
<1>1. UNCHANGED <<books, broken>>
  BY DEF ReadingBegins, ReadsTable, Verdict, ReadingFails
<1>2. BooksOK' /\ Placed' = Placed
  BY <1>1 DEF LedgerOK, BooksOK, Placed
<1>3. CASE ReadingBegins
  <2>1. /\ reading' = [for |-> IF stopped THEN "release" ELSE "check", rows |-> <<>>]
        /\ torn' = FALSE /\ stopped' = stopped
    BY <1>3 DEF ReadingBegins
  <2>2. DOMAIN reading' = {"for", "rows"} /\ DOMAIN reading'.rows = {}
    BY <2>1
  <2>3. RowsRead(reading.rows, books, Placed, torn)'
    BY <2>2, NothingRead
  <2> QED BY <1>2, <2>1, <2>2, <2>3 DEF LedgerOK
<1>4. CASE Verdict \/ ReadingFails
  <2>1. /\ reading' = [for |-> "nothing", rows |-> <<>>] /\ torn' = FALSE
        /\ stopped' \in BOOLEAN
    BY <1>4 DEF Verdict, ReadingFails, NoReading, LedgerOK
  <2>2. DOMAIN reading' = {"for", "rows"} /\ DOMAIN reading'.rows = {}
    BY <2>1
  <2>3. RowsRead(reading.rows, books, Placed, torn)'
    BY <2>2, NothingRead
  <2> QED BY <1>2, <2>1, <2>2, <2>3 DEF LedgerOK
<1>5. ASSUME NEW k \in DOMAIN Tables, ReadsTable(k) PROVE LedgerOK'
  <2> DEFINE rows == reading.rows
             r == [t \in DOMAIN rows \cup {Tables[k]} |-> IF t = Tables[k] THEN books[t] ELSE rows[t]]
  <2>1. /\ DOMAIN rows = {Tables[i] : i \in 1 .. k - 1}
        /\ reading' = [reading EXCEPT !.rows = r] /\ UNCHANGED <<stopped, torn>>
    BY <1>5, Zenon DEF ReadsTable
  <2>2. /\ DOMAIN reading = {"for", "rows"} /\ RowsRead(rows, books, Placed, torn)
        /\ torn \in BOOLEAN /\ OrdersOK(books, Placed)
    BY DEF LedgerOK, BooksOK, RowsOK
  <2> HIDE DEF rows
  <2>3. RowsRead(r, books, Placed, torn)
    <3> DEFINE s == r
    <3>1. s = [t \in DOMAIN rows \cup {Tables[k]} |-> IF t = Tables[k] THEN books[t] ELSE rows[t]]
      OBVIOUS
    <3> HIDE DEF s
    <3>2. RowsRead(s, books, Placed, torn)
      BY <2>1, <2>2, <3>1, ReadsOneMore
    <3> QED BY <3>2 DEF s
  <2> HIDE DEF r
  <2>4. DOMAIN reading' = {"for", "rows"} /\ reading'.rows = r
    BY <2>1, <2>2
  <2>5. RowsRead(reading.rows, books, Placed, torn)'
    BY <1>1, <1>2, <2>1, <2>3, <2>4
  <2> QED BY <1>2, <2>1, <2>4, <2>5 DEF LedgerOK
<1> QED BY <1>3, <1>4, <1>5

LEMMA LedgerStays == LedgerOK /\ [LedgerNext]_ledgerVars => LedgerOK'
<1> SUFFICES ASSUME LedgerOK, [LedgerNext]_ledgerVars PROVE LedgerOK'
  OBVIOUS
<1>1. ASSUME NEW q \in Quantities, NEW price \in FillPrices,
             PlaceOrder(Cardinality(books.orders) + 1, q, price)
      PROVE  LedgerOK'
  BY <1>1, OrderKeepsLedger DEF Placed
<1>2. ASSUME NEW table \in {"fills", "entries", "refs", "positions"}, RowLost(table)
      PROVE  LedgerOK'
  BY <1>2, LossKeepsLedger
<1>3. CASE ReadingBegins \/ (\E k \in DOMAIN Tables : ReadsTable(k)) \/ Verdict \/ ReadingFails
  BY <1>3, ReadingKeepsLedger
<1>4. CASE UNCHANGED ledgerVars
  BY <1>4 DEF ledgerVars, LedgerOK, BooksOK, Placed
<1> QED BY Zenon, <1>1, <1>2, <1>3, <1>4 DEF LedgerNext

LEMMA LedgerHolds == LedgerSpec => []LedgerOK
BY LedgerBegins, LedgerStays, PTL DEF LedgerSpec

(* The reconciliation has nothing to say of what the orders wrote, rounding *)
(* of costs included, and a lost fill, entry, transaction or open position  *)
(* is found at any later time (reconcile, place_order): what orders add to  *)
(* the ledger's side they add to the account's, so a difference stays.      *)
THEOREM LossesAreFound == LedgerSpec => []LossIsFound
<1>1. LedgerOK => LossIsFound
  <2> SUFFICES ASSUME LedgerOK PROVE LossIsFound
    OBVIOUS
  <2>1. Placed \in Nat /\ RowsOK(books, Placed)
    BY DEF LedgerOK, BooksOK
  <2>2. CASE broken = "none"
    <3>1. Whole(books, Placed)
      BY <2>2 DEF LedgerOK, BooksOK
    <3>2. Reconcile(books) = {}
      BY <2>1, <3>1, WholeIsClean
    <3> QED BY <2>2, <3>2 DEF LossIsFound
  <2>3. CASE broken # "none"
    <3>1. Missing(books, broken)
      BY <2>3 DEF LedgerOK, BooksOK
    <3>2. Reconcile(books) # {}
      BY <3>1, MissingIsFound
    <3> QED BY <2>3, <3>2 DEF LossIsFound
  <2> QED BY <2>2, <2>3
<1> QED BY <1>1, LedgerHolds, PTL

(* A verdict of the ledger check goes against the books only if an order   *)
(* was committed after the SELECT of the fills (load_account_rows): what   *)
(* was read before that is either what the tables still hold, or has a     *)
(* fill of an order that it lacks, and the reconciliation raises.          *)
THEOREM VerdictsHaveCause == LedgerSpec => VerdictsNeedCause
<1>1. ASSUME LedgerOK, Verdict
      PROVE  /\ ~stopped /\ stopped' => broken # "none" \/ torn
             /\ stopped /\ ~stopped' => broken = "none" \/ torn
  <2> DEFINE rows == reading.rows
  <2>1. DOMAIN rows = TableNames
    BY <1>1 DEF Verdict, AllRead, Tables, TableNames
  <2>2. stopped \in BOOLEAN /\ torn \in BOOLEAN /\ books = [t \in TableNames |-> books[t]]
        /\ RowsRead(rows, books, Placed, torn)
        /\ (broken = "none" <=> Reconcile(books) = {})
    <3>1. Placed \in Nat /\ RowsOK(books, Placed)
      BY <1>1 DEF LedgerOK, BooksOK
    <3>2. CASE broken = "none"
      BY <1>1, <3>1, <3>2, WholeIsClean DEF LedgerOK, BooksOK
    <3>3. CASE broken # "none"
      BY <1>1, <3>3, MissingIsFound DEF LedgerOK, BooksOK
    <3> QED BY <3>2, <3>3, <1>1 DEF LedgerOK, BooksOK
  <2>3. CASE UnknownOrder \/ torn
    BY <1>1, <2>2, <2>3 DEF Verdict
  <2>4. CASE ~UnknownOrder /\ ~torn
    <3> HIDE DEF rows
    <3>1. /\ rows = [t \in TableNames |-> rows[t]]
          /\ \A t \in TableNames \ {"orders"} : rows[t] = books[t]
          /\ rows["orders"] = books.orders \/ Behind(rows["orders"], books.fills)
      BY <2>1, <2>2, <2>4 DEF RowsRead, TableNames
    <3>2. rows["fills"] = books.fills
      BY <3>1 DEF TableNames
    <3>3. ~Behind(rows["orders"], books.fills)
      BY <2>4, <3>2 DEF UnknownOrder, Behind, rows
    <3>4. \A t \in TableNames : rows[t] = books[t]
      BY <3>1, <3>3 DEF TableNames
    <3>5. [t \in TableNames |-> rows[t]] = [t \in TableNames |-> books[t]]
      BY <3>4
    <3>6. rows = books
      BY <2>2, <3>1, <3>5
    <3>7. stopped' = (Reconcile(rows) # {})
      BY <1>1, <2>4 DEF Verdict, rows
    <3>8. stopped' <=> broken # "none"
      BY <2>2, <3>6, <3>7
    <3> QED BY <3>8
  <2> QED BY <2>3, <2>4
<1> QED BY <1>1, LedgerHolds, PTL DEF LedgerSpec, VerdictsNeedCause
=============================================================================
