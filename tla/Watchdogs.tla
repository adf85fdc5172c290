----------------------------- MODULE Watchdogs -----------------------------
(***************************************************************************)
(* The two watchdogs of the notification worker (check_trading_worker,     *)
(* check_market_data_worker) and the status page that reads the same rows  *)
(* (monitoring/system_status), for one workspace. What they watch is an    *)
(* active bot, whose run the trading worker stamps in each pass, or an     *)
(* enabled subscription, whose next_run_at the market-data worker moves    *)
(* ahead: the two checks are one text, with another column.                *)
(*                                                                         *)
(* Any number of notification workers may run; each check is a transaction *)
(* of its own, so the database dates an alert by the moment of its check.  *)
(* How an alert reaches people is the matter of NotificationOutbox.        *)
(***************************************************************************)
EXTENDS Integers

CONSTANTS
    Item,         \* the bots, or the subscriptions, of the workspace
    Watcher,      \* notification workers
    Poll,         \* how far a subscription's next_run_at is moved ahead
    StaleAfter,   \* trading_worker_stale_seconds, market_data_worker_overdue_seconds
    MaxMinute     \* bound: the clock

ASSUME DogAssumption == {Poll, StaleAfter} \subseteq Nat

VARIABLES
    watched,    \* "bots" or "subscriptions"
    minute,
    item,       \* each item's state, and the time of its last sign of life
    lastAlert,  \* the latest occurred_at of an alert
    watch,      \* the check of each watcher
    told        \* history: the watchers that named the item since its last sign

dogVars == <<watched, minute, item, lastAlert, watch, told>>

Never == -1
Ahead == IF watched = "bots" THEN 0 ELSE Poll

(* find_stalled_bots, find_overdue_subscriptions.                          *)
Stalled == {i \in Item : item[i].state = "on" /\ item[i].seen < minute - StaleAfter}

NoWatch == [phase |-> "idle", at |-> 0, stale |-> <<>>]

-----------------------------------------------------------------------------
(* The worker and its items. A worker that is down, or that hangs at an    *)
(* item, attempts nothing: nothing obliges it to.                          *)

Stamped(i, state, at) ==
    /\ item' = [item EXCEPT ![i] = [state |-> state, seen |-> at]]
    /\ told' = [told EXCEPT ![i] = IF at = item[i].seen THEN @ ELSE {}]
    /\ UNCHANGED <<watched, minute, lastAlert, watch>>

(* _record_heartbeat, or a page of a subscription.                         *)
Attempted(i) ==
    item[i].state = "on" /\ Stamped(i, "on", minute + Ahead)

(* A bot is failed, a subscription blocked.                                *)
Broken(i) ==
    item[i].state = "on" /\ Stamped(i, "broken", minute + Ahead)

(* A bot that is started counts from now; a subscription that is enabled   *)
(* keeps its next_run_at.                                                  *)
TurnedOn(i) ==
    IF watched = "bots" THEN item[i].state # "on" /\ Stamped(i, "on", minute)
    ELSE item[i].state = "off" /\ Stamped(i, "on", item[i].seen)

TurnedOff(i) ==
    item[i].state # "off" /\ Stamped(i, "off", item[i].seen)

MinutePasses ==
    /\ minute < MaxMinute
    /\ minute' = minute + 1
    /\ UNCHANGED <<watched, item, lastAlert, watch, told>>

-----------------------------------------------------------------------------
(* The check: the stalled items, ...                                       *)
CheckReads(w) ==
    /\ watch[w].phase = "idle" /\ Stalled # {}
    /\ watch' = [watch EXCEPT ![w] = [phase |-> "read", at |-> minute,
                                      stale |-> [i \in Stalled |-> item[i].seen]]]
    /\ UNCHANGED <<watched, minute, item, lastAlert, told>>

(* Faulty form for StalledIsReported: one item of the last outage is enough. *)
SameOutageIfAny(stale) ==
    lastAlert # Never /\ \E i \in DOMAIN stale : stale[i] <= lastAlert

(* Faulty form for AlertsAreNews: every check is an alert.                 *)
SameOutageNever(stale) == FALSE

SameOutage(stale) ==
    lastAlert # Never /\ \A i \in DOMAIN stale : stale[i] <= lastAlert

(* ... the last alert, ...                                                 *)
CheckDecides(w) ==
    /\ watch[w].phase = "read"
    /\ watch' = [watch EXCEPT ![w] = IF SameOutage(watch[w].stale) THEN NoWatch
                                     ELSE [watch[w] EXCEPT !.phase = "raising"]]
    /\ UNCHANGED <<watched, minute, item, lastAlert, told>>

(* ... and the new one, with its outbox row, in one commit.                *)
AlertCommits(w) ==
    LET named == watch[w].stale
    IN /\ watch[w].phase = "raising"
       /\ lastAlert' = IF watch[w].at > lastAlert THEN watch[w].at ELSE lastAlert
       /\ told' = [i \in Item |-> IF i \in DOMAIN named /\ named[i] = item[i].seen
                                  THEN told[i] \cup {w} ELSE told[i]]
       /\ watch' = [watch EXCEPT ![w] = NoWatch]
       /\ UNCHANGED <<watched, minute, item>>

(* The database, or the watcher, fails: the check is made again later.     *)
CheckFails(w) ==
    /\ watch[w] # NoWatch
    /\ watch' = [watch EXCEPT ![w] = NoWatch]
    /\ UNCHANGED <<watched, minute, item, lastAlert, told>>

DogInit ==
    /\ watched \in {"bots", "subscriptions"}
    /\ minute = 0
    /\ item = [i \in Item |-> [state |-> "off", seen |-> 0]]
    /\ lastAlert = Never
    /\ watch = [w \in Watcher |-> NoWatch]
    /\ told = [i \in Item |-> {}]

DogUndisturbed ==
    \/ \E i \in Item : Attempted(i) \/ Broken(i) \/ TurnedOn(i) \/ TurnedOff(i)
    \/ MinutePasses
    \/ \E w \in Watcher : CheckReads(w) \/ CheckDecides(w) \/ AlertCommits(w)

DogNext == DogUndisturbed \/ \E w \in Watcher : CheckFails(w)

(* A notification worker checks every 30 seconds, and after some point no  *)
(* check fails: nothing is reported by one that fails every time.          *)
DogFairness ==
    /\ <>[][DogUndisturbed]_dogVars
    /\ \A w \in Watcher : WF_dogVars(CheckReads(w) \/ CheckDecides(w) \/ AlertCommits(w))

DogSpec == DogInit /\ [][DogNext]_dogVars /\ DogFairness

-----------------------------------------------------------------------------
(* _trading_worker, _market_data_worker.                                   *)
Status ==
    IF \A i \in Item : item[i].state # "on" THEN "idle"
    ELSE IF Stalled # {} THEN "stalled" ELSE "ok"

(* _problems, as far as it is about these items.                           *)
Attention == Status = "stalled" \/ \E i \in Item : item[i].state = "broken"

(* What the alert of a watcher names is stalled for the page, too, unless  *)
(* every item named has shown a sign of life since the check, or was       *)
(* turned off.                                                             *)
PageAgrees(w) ==
    \/ Attention
    \/ \A i \in DOMAIN watch[w].stale :
          item[i].state = "off" \/ item[i].seen # watch[w].stale[i]

(* One alert per outage, and one of each watcher at most, if two of them   *)
(* find it at once: an alert names an item that this watcher did not name  *)
(* since the item's last sign of life, and the page shows it.              *)
AlertsAreNews ==
    [][\A w \in Watcher : AlertCommits(w) =>
          /\ PageAgrees(w)
          /\ \E i \in DOMAIN watch[w].stale :
                item[i].seen = watch[w].stale[i] => w \notin told[i]]_dogVars

UnreportedStalls == {i \in Stalled : item[i].seen > lastAlert}

(* A stall does not stay unreported, whatever was reported before it and   *)
(* however the items of one outage differ in their last sign of life: an   *)
(* alert is dated after the last sign of every item that is stalled, or    *)
(* the item is no longer stalled.                                          *)
StalledIsReported == UnreportedStalls # {} ~> UnreportedStalls = {}
=============================================================================
