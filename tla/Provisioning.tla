----------------------------- MODULE Provisioning -----------------------------
(***************************************************************************)
(* Bots and backtests come into being. Both rest on one strategy version   *)
(* and one risk profile version, made by whoever needs them first and      *)
(* never changed; a backtest also on a snapshot of its data. A task is the *)
(* script that provisions a bot, a request that creates one on an account  *)
(* that exists, or a request that runs backtests, one transaction per      *)
(* instrument.                                                             *)
(*                                                                         *)
(* A SELECT sees what is committed and what its own transaction wrote. An  *)
(* INSERT waits while another open transaction holds the same unique key,  *)
(* and raises if it is committed. What a version says differs between      *)
(* releases of the program that run side by side.                          *)
(***************************************************************************)
EXTENDS FiniteSets

CONSTANTS
    Task,
    Name,      \* of bots
    Series,    \* instruments to run a backtest on
    Content    \* what a definition and its rules say

VARIABLES
    store,     \* the rows that are committed
    task

provisionVars == <<store, task>>

Ensured == {"strategy", "profile", "snapshot"}

Row(kind, key, content, t) == [kind |-> kind, key |-> key, content |-> content, by |-> t]
SameKey(r, s) == r.kind = s.kind /\ r.key = s.key

Taken(row) == \E r \in store : SameKey(r, row)

Jobs ==
    [what : {"provision", "create"}, keys : {{n} : n \in Name}, content : Content]
    \cup [what : {"backtests"}, keys : SUBSET Series \ {{}}, content : Content]

(* written: the rows of the open transaction. uses: what the versions say  *)
(* that it found or made. told: what the task has answered.                *)
NewTask(job) ==
    [job |-> job, todo |-> job.keys, stage |-> "idle", key |-> "none", adding |-> FALSE,
     written |-> {}, uses |-> {}, told |-> {}]

NoTask == NewTask([what |-> "none", keys |-> {}, content |-> "none"])

Backtests(t) == task[t].job.what = "backtests"

-----------------------------------------------------------------------------
NextStage(what, stage) ==
    CASE stage = "idle" -> "strategy"
      [] stage = "strategy" -> "profile"
      [] stage = "profile" -> IF what = "backtests" THEN "snapshot" ELSE "finish"
      [] stage = "snapshot" -> "finish"

Onward(t) == [task[t] EXCEPT !.stage = NextStage(task[t].job.what, @), !.adding = FALSE]

(* The transaction ends, and with it an item of the batch.                 *)
Ended(t, written, answer) ==
    [task[t] EXCEPT !.stage = "idle", !.adding = FALSE, !.key = "none", !.todo = @ \ {task[t].key},
                    !.written = written, !.uses = {},
                    !.told = @ \cup {<<task[t].key, answer>>}]

(* Faulty form for NothingIsLeftOver: no rollback when an item fails.      *)
FailsUndone(t) ==
    /\ task' = [task EXCEPT ![t] = Ended(t, task[t].written, "error")]
    /\ UNCHANGED store

(* Whatever is raised, the transaction is rolled back.                     *)
Fails(t) ==
    /\ task' = [task EXCEPT ![t] = Ended(t, {}, "error")]
    /\ UNCHANGED store

Asks(t) ==
    /\ task[t] = NoTask
    /\ \E job \in Jobs : task' = [task EXCEPT ![t] = NewTask(job)]
    /\ UNCHANGED store

(* Begins a transaction. Of a bot, its name is looked up: the script       *)
(* answers with the one it finds, the request with 409.                    *)
BeginsItem(t) ==
    /\ task[t].stage = "idle"
    /\ \E key \in task[t].todo :
          IF ~Backtests(t) /\ Taken(Row("bot", key, {}, t))
          THEN task' = [task EXCEPT ![t].todo = {}, ![t].told = {<<key, "exists">>}]
          ELSE task' = [task EXCEPT ![t].key = key,
                                    ![t].stage = NextStage(task[t].job.what, "idle")]
    /\ UNCHANGED store

-----------------------------------------------------------------------------
(* _ensure_strategy_version, _ensure_risk_profile_version,                 *)
(* ensure_dataset_snapshot: the SELECT, then the INSERT.                   *)

Wanted(t) ==
    IF task[t].stage = "snapshot" THEN Row("snapshot", task[t].key, {}, t)
    ELSE Row(task[t].stage, "approved", {task[t].job.content}, t)

Found(t) == {r \in store \cup task[t].written : SameKey(r, Wanted(t))}

(* strategy_definition_mismatch, risk_rules_mismatch                       *)
Differs(r, t) == r.content # Wanted(t).content

Finds(t) ==
    /\ task[t].stage \in Ensured /\ ~task[t].adding
    /\ \E r \in Found(t) :
          IF Differs(r, t) THEN Fails(t)
          ELSE /\ task' = [task EXCEPT ![t] = [Onward(t) EXCEPT !.uses = @ \cup r.content]]
               /\ UNCHANGED store

FindsNone(t) ==
    /\ task[t].stage \in Ensured /\ ~task[t].adding
    /\ Found(t) = {}
    /\ task' = [task EXCEPT ![t].adding = TRUE]
    /\ UNCHANGED store

Waits(t, u) ==
    /\ t # u /\ task[t].adding
    /\ \E r \in task[u].written : SameKey(r, Wanted(t))

Adds(t) ==
    /\ task[t].adding
    /\ \A u \in Task : ~Waits(t, u)
    /\ IF Taken(Wanted(t)) THEN Fails(t)
       ELSE /\ task' = [task EXCEPT ![t] =
                          [Onward(t) EXCEPT !.written = @ \cup {Wanted(t)},
                                            !.uses = @ \cup Wanted(t).content]]
            /\ UNCHANGED store

-----------------------------------------------------------------------------
(* The end of the transaction                                              *)

Bot(t) == Row("bot", task[t].key, task[t].uses, t)
Funded(t) == {Row("account", task[t].key, {}, t), Row("deposit", task[t].key, {}, t)}

(* A run with its trades, or the two of a walk-forward.                    *)
RunRow(t) == Row("run", task[t].key, task[t].uses, t)

(* An unsupported market; no candles, or a walk-forward with too few.      *)
Refuses(t) ==
    /\ \/ task[t].stage = "finish" /\ task[t].job.what # "provision"
       \/ task[t].stage = "strategy" /\ Backtests(t) /\ ~task[t].adding
    /\ Fails(t)

(* provision_paper_bot, create_approved_bot                                *)
CommitsBot(t) ==
    /\ task[t].stage = "finish" /\ ~Backtests(t)
    /\ IF Taken(Bot(t)) THEN Fails(t)
       ELSE /\ store' = store \cup task[t].written \cup {Bot(t)}
                        \cup (IF task[t].job.what = "create" THEN {} ELSE Funded(t))
            /\ task' = [task EXCEPT ![t] = Ended(t, {}, "ok")]

(* run_backtest_for_workspace                                              *)
CommitsRun(t) ==
    /\ task[t].stage = "finish" /\ Backtests(t)
    /\ store' = store \cup task[t].written \cup {RunRow(t)}
    /\ task' = [task EXCEPT ![t] = Ended(t, {}, "ok")]

Dies(t) ==
    /\ task[t].todo # {}
    /\ task' = [task EXCEPT ![t] = [NewTask(task[t].job) EXCEPT !.todo = {}, !.told = task[t].told]]
    /\ UNCHANGED store

ProvisionInit ==
    /\ store = {}
    /\ task = [t \in Task |-> NoTask]

ProvisionNext ==
    \E t \in Task :
        \/ Asks(t) \/ BeginsItem(t) \/ Finds(t) \/ FindsNone(t) \/ Adds(t) \/ Refuses(t)
        \/ CommitsBot(t) \/ CommitsRun(t) \/ Dies(t)

ProvisionSpec == ProvisionInit /\ [][ProvisionNext]_provisionVars

-----------------------------------------------------------------------------
Stages == Ensured \cup {"idle", "finish"}
Kinds == Ensured \cup {"account", "deposit", "bot", "run"}
Keys == Name \cup Series \cup {"approved", "none"}
Answers == {"ok", "error", "exists"}
Rows == [kind : Kinds, key : Keys, content : SUBSET Content, by : Task]

TaskState ==
    [job : Jobs \cup {NoTask.job}, todo : SUBSET Keys, stage : Stages, key : Keys,
     adding : BOOLEAN, written : SUBSET Rows, uses : SUBSET Content,
     told : SUBSET (Keys \X Answers)]

ProvisionTypeOK == store \subseteq Rows /\ task \in [Task -> TaskState]

(* "Nothing is stored if any check fails": a version that is stored is     *)
(* used by a bot or a run, a snapshot by a run, and a funded account by    *)
(* its bot (provision_paper_bot, run_backtest_batch).                      *)
NothingIsLeftOver ==
    \A r \in store :
      /\ r.kind \in {"strategy", "profile"} =>
            \E s \in store : s.kind \in {"bot", "run"} /\ s.by = r.by
      /\ r.kind = "snapshot" => \E s \in store : s.kind = "run" /\ s.key = r.key
      /\ r.kind \in {"account", "deposit"} =>
            \E s \in store : s.kind = "bot" /\ s.key = r.key /\ s.by = r.by

(* A bot trades, and a backtest evaluates, the content its task asked for, *)
(* whichever release stored it (_ensure_strategy_version: a version that   *)
(* is stored with a different definition is an error).                     *)
RunsWhatWasAsked ==
    \A r \in store :
      r.kind \in {"bot", "run"} => r.content = {task[r.by].job.content}

(* However many tasks come at once, there is one row of a name, with one   *)
(* account and one deposit behind a provisioned bot (the unique indexes of *)
(* models/strategy.py and models/backtest.py).                             *)
OneOfEach ==
    \A r, s \in store : SameKey(r, s) /\ r.kind # "run" => r = s

Made(t, key) == \E r \in store : r.kind \in {"bot", "run"} /\ r.key = key /\ r.by = t

(* A task is told of what became of each item: a run or a bot that is      *)
(* reported is stored, one that is reported to have failed is not          *)
(* (BatchItem).                                                            *)
AnswersAreTrue ==
    \A t \in Task, key \in Name \cup Series :
      /\ <<key, "ok">> \in task[t].told => Made(t, key)
      /\ <<key, "error">> \in task[t].told => ~Made(t, key)
      /\ <<key, "exists">> \in task[t].told => \E r \in store : r.kind = "bot" /\ r.key = key

(* Two transactions never wait for one another's rows: all insert them in  *)
(* one order (ensure_approved_versions).                                   *)
NoWaitCycle == \A t, u \in Task : ~(Waits(t, u) /\ Waits(u, t))

(* What concurrent tasks leave in the store and answer to their callers.   *)
ProvisioningIsSound ==
    /\ NothingIsLeftOver
    /\ RunsWhatWasAsked
    /\ OneOfEach
    /\ AnswersAreTrue
=============================================================================
