----------------------------- MODULE CandleFeed -----------------------------
(***************************************************************************)
(* One live feed of app/market_data: FeedHub, which shares an upstream     *)
(* connection among its subscribers, and the workers that feed it, a       *)
(* thread per OANDA stream (oanda_stream) and a task per Binance stream    *)
(* (binance_stream).                                                       *)
(*                                                                         *)
(* The hub keys its feeds and shares nothing between two keys, so the      *)
(* module has one key; its feeds, one after another, are numbered by their *)
(* started_at. The hub runs on one event loop: each of its methods is one  *)
(* step. A thread hands its updates to the loop, which takes them in turn. *)
(* An event is its sequence: what it says of the market is left out (the   *)
(* candles of a stream of ticks are an algorithm of TickCandles).          *)
(***************************************************************************)
EXTENDS Integers, Sequences

CONSTANTS
    Subscriber,      \* the subscriber ids of the hub
    RingSize,        \* ring_buffer_size
    QueueSize,       \* subscriber_queue_maxsize
    DelayedAttempts, \* DELAYED_ATTEMPT_THRESHOLD
    MaxFeeds,        \* bound: feeds started
    MaxSequence      \* bound: the last sequence of a feed

(* FeedHub.__init__ refuses other sizes.                                   *)
ASSUME SizeAssumption == {RingSize, QueueSize} \subseteq Nat \ {0}

VARIABLES
    exchange,   \* of the feed's key
    feed,       \* the registered _Feed, or NoFeed
    queue,      \* the delivery queue of each subscriber
    worker,     \* the workers ever started, the last for the latest feed
    posted      \* call_soon_threadsafe: updates the loop has not run yet

feedVars == <<exchange, feed, queue, worker, posted>>

Started == Len(worker)

NoFeed == [born |-> 0, state |-> "starting", sequence |-> -1, ring |-> <<>>,
           subscribers |-> {}, teardown |-> "none"]

(* SUBSCRIBER_OVERFLOW, in the place of an event.                          *)
Overflow == -1

-----------------------------------------------------------------------------
(* FeedHub.                                                                *)

(* deque(maxlen=ring_buffer_size).                                         *)
Latest(seq) == IF Len(seq) > RingSize THEN Tail(seq) ELSE seq

(* A full queue is emptied, and only says so.                              *)
Queued(q, sequence) == IF Len(q) < QueueSize THEN Append(q, sequence) ELSE <<Overflow>>

(* _publish_candle and _report_failure, with _append_and_fanout. The sink  *)
(* knows the key and not the feed: what was meant for an earlier feed of   *)
(* the key goes to the one that is registered.                             *)
Publish(state) ==
    IF feed.born = 0 THEN UNCHANGED <<feed, queue>>
    ELSE /\ feed.sequence < MaxSequence
         /\ feed' = [feed EXCEPT !.sequence = @ + 1, !.state = state,
                                 !.ring = Latest(Append(@, feed.sequence + 1))]
         /\ queue' = [s \in Subscriber |-> IF s \in feed.subscribers
                                           THEN Queued(queue[s], feed.sequence + 1) ELSE queue[s]]

NewWorker ==
    [state |-> IF exchange = "binance" THEN "connecting" ELSE "streaming",
     stopping |-> FALSE, received |-> FALSE, attempt |-> 0]

Ended == [state |-> "ended", stopping |-> FALSE, received |-> FALSE, attempt |-> 0]

(* Faulty form for UnwatchedFeedEnds: the cancelled teardown is not        *)
(* forgotten.                                                              *)
SubscribeOverTeardown(s) ==
    /\ queue' = [queue EXCEPT ![s] = <<>>]
    /\ \/ /\ feed.born = 0 /\ Started < MaxFeeds
          /\ feed' = [NoFeed EXCEPT !.born = Started + 1, !.subscribers = {s}]
          /\ worker' = Append(worker, NewWorker)
       \/ /\ feed.born # 0
          /\ feed' = [feed EXCEPT !.subscribers = @ \cup {s},
                                  !.teardown = IF @ = "none" THEN @ ELSE "over"]
          /\ UNCHANGED worker
    /\ UNCHANGED <<exchange, posted>>

(* subscribe, which starts a feed if there is none and calls off a         *)
(* teardown.                                                               *)
Subscribe(s) ==
    /\ queue' = [queue EXCEPT ![s] = <<>>]
    /\ \/ /\ feed.born = 0 /\ Started < MaxFeeds
          /\ feed' = [NoFeed EXCEPT !.born = Started + 1, !.subscribers = {s}]
          /\ worker' = Append(worker, NewWorker)
       \/ /\ feed.born # 0
          /\ feed' = [feed EXCEPT !.subscribers = @ \cup {s}, !.teardown = "none"]
          /\ UNCHANGED worker
    /\ UNCHANGED <<exchange, posted>>

(* _unsubscribe. The feed stays for the grace period.                      *)
Unsubscribe(s) ==
    /\ queue' = [queue EXCEPT ![s] = <<>>]
    /\ feed' = [feed EXCEPT
         !.subscribers = @ \ {s},
         !.teardown = IF feed.born # 0 /\ feed.subscribers \ {s} = {} /\ @ = "none"
                      THEN "sleeping" ELSE @]
    /\ UNCHANGED <<exchange, worker, posted>>

(* _teardown_after_grace, unless it was called off. A Binance task is      *)
(* cancelled at once, an OANDA thread finds out at its next line.          *)
GraceEnds ==
    /\ feed.teardown = "sleeping"
    /\ IF feed.subscribers # {}
       THEN /\ feed' = [feed EXCEPT !.teardown = "over"]
            /\ UNCHANGED worker
       ELSE /\ feed' = NoFeed
            /\ worker' = [worker EXCEPT
                 ![feed.born] = IF exchange = "binance" THEN Ended ELSE [@ EXCEPT !.stopping = TRUE]]
    /\ UNCHANGED <<exchange, queue, posted>>

-----------------------------------------------------------------------------
(* An OANDA thread.                                                        *)

(* A line of the stream with a price: add_tick makes one update or two,    *)
(* or none of a stale tick. The stop event is looked at after the tick was *)
(* reported. Bound: the updates of one tick are on their way to the loop.  *)
OandaTick(w) ==
    /\ exchange = "oanda" /\ worker[w].state = "streaming" /\ posted = <<>>
    /\ posted' \in {<<>>, <<"connected">>, <<"connected", "connected">>}
    /\ worker' = [worker EXCEPT ![w] = IF @.stopping THEN Ended ELSE @]
    /\ UNCHANGED <<exchange, feed, queue>>

(* The stream ends: on a line without a price when it is to stop, without  *)
(* a word when the response is over, or with an error, which is reported.  *)
OandaEnds(w) ==
    /\ exchange = "oanda" /\ worker[w].state = "streaming" /\ posted = <<>>
    /\ posted' \in {<<>>, <<"disconnected">>}
    /\ worker' = [worker EXCEPT ![w] = Ended]
    /\ UNCHANGED <<exchange, feed, queue>>

(* The loop runs the next callback.                                        *)
LoopRuns ==
    /\ posted # <<>>
    /\ Publish(Head(posted))
    /\ posted' = Tail(posted)
    /\ UNCHANGED <<exchange, worker>>

-----------------------------------------------------------------------------
(* A Binance task.                                                         *)

BinanceConnects(w) ==
    /\ exchange = "binance" /\ worker[w].state = "connecting"
    /\ worker' = [worker EXCEPT ![w].state = "streaming", ![w].received = FALSE]
    /\ UNCHANGED <<exchange, feed, queue, posted>>

(* A kline.                                                                *)
BinanceMessage(w) ==
    /\ exchange = "binance" /\ worker[w].state = "streaming"
    /\ Publish("connected")
    /\ worker' = [worker EXCEPT ![w].received = TRUE]
    /\ UNCHANGED <<exchange, posted>>

(* A message of any kind, a notice of the failure too, starts the count of *)
(* attempts again. The count stops at the threshold, which alone matters.  *)
Attempt(w, received) ==
    LET before == IF received THEN 0 ELSE worker[w].attempt
    IN IF before < DelayedAttempts THEN before + 1 ELSE before

(* Faulty form for FeedRetries: the task ends with the failure it reports. *)
BinanceFailsForGood(w, received) ==
    /\ exchange = "binance" /\ worker[w].state \in {"connecting", "streaming"}
    /\ received => worker[w].state = "streaming"
    /\ worker[w].received => received
    /\ Publish(IF Attempt(w, received) < DelayedAttempts THEN "delayed" ELSE "disconnected")
    /\ worker' = [worker EXCEPT ![w] = Ended]
    /\ UNCHANGED <<exchange, posted>>

(* It cannot connect, the stream says that it is closed or says nothing    *)
(* for too long: _StreamFailure, reported before the backoff.              *)
BinanceFails(w, received) ==
    /\ exchange = "binance" /\ worker[w].state \in {"connecting", "streaming"}
    /\ received => worker[w].state = "streaming"
    /\ worker[w].received => received
    /\ Publish(IF Attempt(w, received) < DelayedAttempts THEN "delayed" ELSE "disconnected")
    /\ worker' = [worker EXCEPT ![w].state = "backoff", ![w].attempt = Attempt(w, received),
                                ![w].received = FALSE]
    /\ UNCHANGED <<exchange, posted>>

BinanceRetries(w) ==
    /\ exchange = "binance" /\ worker[w].state = "backoff"
    /\ worker' = [worker EXCEPT ![w].state = "connecting"]
    /\ UNCHANGED <<exchange, feed, queue, posted>>

-----------------------------------------------------------------------------
FeedInit ==
    /\ exchange \in {"oanda", "binance"}
    /\ feed = NoFeed
    /\ queue = [s \in Subscriber |-> <<>>]
    /\ worker = <<>> /\ posted = <<>>

(* What the task of a Binance feed does next. It always does something: a  *)
(* socket that is silent is a failure too.                                 *)
BinanceRuns(w) ==
    /\ w \in DOMAIN worker
    /\ \/ BinanceConnects(w) \/ BinanceRetries(w) \/ BinanceMessage(w)
       \/ \E received \in BOOLEAN : BinanceFails(w, received)

UpstreamNext ==
    \/ \E w \in DOMAIN worker : OandaTick(w) \/ OandaEnds(w)
    \/ LoopRuns
    \/ \E w \in 1 .. MaxFeeds : BinanceRuns(w)
    \/ GraceEnds

FeedTypeOK ==
    /\ exchange \in {"oanda", "binance"}
    /\ feed.born \in {0, Started} /\ feed.sequence \in -1 .. MaxSequence
    /\ feed.state \in {"starting", "connected", "delayed", "disconnected"}
    /\ feed.subscribers \subseteq Subscriber
    /\ feed.teardown \in {"none", "sleeping", "over"}
    /\ Len(feed.ring) <= RingSize
    /\ \A s \in Subscriber : Len(queue[s]) <= QueueSize
    /\ Len(posted) <= 2
=============================================================================
