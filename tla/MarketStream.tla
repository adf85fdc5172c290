---------------------------- MODULE MarketStream ----------------------------
(***************************************************************************)
(* The candles on a chart: browsers (useMarketStream) that keep one        *)
(* WebSocket open to a feed, the sessions that serve them                  *)
(* (run_stream_session over the feed's hub) and the resume protocol        *)
(* (stream_protocol), with connections that break, subscribers that fall   *)
(* behind and an API process that starts again.                            *)
(*                                                                         *)
(* A session may be refused for any reason (ConnectionAccess has them).    *)
(* A browser reloads the stored candles over REST when it is told to fill  *)
(* a gap; the candles so loaded are left out.                              *)
(***************************************************************************)
EXTENDS CandleFeed, FiniteSets

CONSTANTS
    Client,   \* the charts that are open
    None      \* no session

ASSUME ClientAssumption == None \notin Client

VARIABLES
    session,   \* the WebSocket sessions of the API process
    client     \* the effect of each chart

marketVars == <<exchange, feed, queue, worker, posted, session, client>>

(* No sequence is remembered; a heartbeat of a fresh session says -1.      *)
Nothing == -2

(* `last` is the last sequence sent, `max` and `remembers` are what the    *)
(* client asked to resume from, `gone` that the client has left. What a    *)
(* session does not read any more is forgotten.                            *)
NoSession ==
    [phase |-> "none", client |-> None, gone |-> FALSE, born |-> 0, mode |-> "fresh",
     todo |-> <<>>, last |-> -1, max |-> Nothing, remembers |-> 0]

(* `max` and `remembers` are maxSequence and feedStartedAt. History:       *)
(* `heard` is the last sequence that reached the client since it was last  *)
(* told to fill a gap, `skipped` that another one followed than the next,  *)
(* and `mixed` that its maxSequence was another feed's.                    *)
NewClient ==
    [phase |-> "away", max |-> Nothing, remembers |-> 0,
     heard |-> Nothing, skipped |-> FALSE, mixed |-> FALSE]

-----------------------------------------------------------------------------
(* What is sent, and what the browser makes of it.                         *)

(* Faulty form for NothingIsSkipped: an evicted event is not missed.       *)
ResumeModeOfFeed(max, remembers, born, ring) ==
    CASE max = Nothing \/ remembers = 0 -> "fresh"
      [] max # Nothing /\ remembers # 0 /\ born > remembers -> "gap_fill_required"
      [] OTHER -> "replayed"

(* decide_resume: which mode a client is told, ...                         *)
ResumeMode(max, remembers, born, ring) ==
    CASE max = Nothing \/ remembers = 0 -> "fresh"
      [] max # Nothing /\ remembers # 0
           /\ (born > remembers \/ (ring # <<>> /\ ring[1] > max + 1)) ->
             "gap_fill_required"
      [] OTHER -> "replayed"

(* ... and what is replayed to it: of a ring in order, what follows `max`. *)
Replay(mode, max, ring) ==
    CASE mode = "fresh" -> ring
      [] mode = "replayed" ->
             SubSeq(ring, Cardinality({i \in DOMAIN ring : ring[i] <= max}) + 1, Len(ring))
      [] OTHER -> <<>>

(* onmessage of a stream_state.                                            *)
ToldState(c, born, mode) ==
    [client[c] EXCEPT
       !.phase = "open", !.remembers = born,
       !.heard = IF mode = "replayed" THEN @ ELSE Nothing,
       !.mixed = @ \/ (client[c].max # Nothing /\ client[c].remembers # born)]

(* onmessage of an event.                                                  *)
ToldEvent(c, sequence) ==
    [client[c] EXCEPT
       !.max = IF sequence > @ THEN sequence ELSE @,
       !.heard = sequence,
       !.skipped = @ \/ (client[c].heard # Nothing /\ sequence # client[c].heard + 1)]

ToldHeartbeat(c, sequence) == [client[c] EXCEPT !.max = IF sequence > @ THEN sequence ELSE @]

(* onclose: the retry timer, or the end for a ticket or an access refused. *)
Closed(c, retry) ==
    [client[c] EXCEPT !.phase = IF retry THEN "waiting" ELSE "stopped"]

-----------------------------------------------------------------------------
(* The session.                                                            *)

(* The ticket was good: connect takes what the client remembers along.     *)
Connect(c, s) ==
    /\ client[c].phase = "waiting" /\ session[s].phase = "none"
    /\ client' = [client EXCEPT ![c].phase = "connecting"]
    /\ session' = [session EXCEPT ![s] =
         [NoSession EXCEPT !.phase = "resolving", !.client = c, !.max = client[c].max,
                           !.remembers = client[c].remembers]]
    /\ UNCHANGED feedVars

(* The ticket has run out or was used (4401).                              *)
TicketRejected(c) ==
    /\ client[c].phase = "waiting"
    /\ client' = [client EXCEPT ![c] = Closed(c, FALSE)]
    /\ UNCHANGED <<exchange, feed, queue, worker, posted, session>>

(* Without access (4403) the client stops, when the feed cannot be started *)
(* (1011) it tries again.                                                  *)
Refuse(s, retry) ==
    /\ session[s].phase = "resolving"
    /\ retry => feed.born = 0
    /\ client' = IF session[s].gone THEN client
                 ELSE [client EXCEPT ![session[s].client] = Closed(session[s].client, retry)]
    /\ session' = [session EXCEPT ![s] = NoSession]
    /\ UNCHANGED feedVars

(* The hub's subscription, with the ring buffer as it is at that moment.   *)
Join(s) ==
    /\ session[s].phase = "resolving"
    /\ Subscribe(s)
    /\ LET mode == ResumeMode(session[s].max, session[s].remembers, feed'.born, feed'.ring)
           resumes == session[s].max # Nothing /\ session[s].remembers # 0
       IN session' = [session EXCEPT ![s] =
            IF @.gone THEN [@ EXCEPT !.phase = "accepted"]
            ELSE [NoSession EXCEPT
                    !.phase = "accepted", !.client = session[s].client, !.born = feed'.born, !.mode = mode,
                    !.todo = Replay(mode, session[s].max, feed'.ring),
                    !.last = IF resumes THEN session[s].max ELSE -1]]
    /\ UNCHANGED client

(* The session ends, however it does: `finally: subscription.close()`.     *)
End(s) == Unsubscribe(s) /\ session' = [session EXCEPT ![s] = NoSession]

SendState(s) ==
    /\ session[s].phase = "accepted" /\ ~session[s].gone
    /\ client' = [client EXCEPT ![session[s].client] =
                    ToldState(session[s].client, session[s].born, session[s].mode)]
    /\ session' = [session EXCEPT ![s].phase = "live", ![s].born = 0,
                                  ![s].mode = "fresh"]
    /\ UNCHANGED feedVars

(* An event that is replayed, or the next of the queue.                    *)
SendReplayed(s) ==
    /\ session[s].phase = "live" /\ ~session[s].gone /\ session[s].todo # <<>>
    /\ client' = [client EXCEPT ![session[s].client] =
                    ToldEvent(session[s].client, Head(session[s].todo))]
    /\ session' = [session EXCEPT ![s].todo = Tail(@), ![s].last = Head(session[s].todo)]
    /\ UNCHANGED feedVars

(* _pump takes the next event of the queue.                                *)
Pump(s) ==
    /\ session[s].phase = "live" /\ ~session[s].gone
    /\ session[s].todo = <<>> /\ queue[s] # <<>> /\ Head(queue[s]) # Overflow
    /\ client' = [client EXCEPT ![session[s].client] =
                    ToldEvent(session[s].client, Head(queue[s]))]
    /\ session' = [session EXCEPT ![s].last = Head(queue[s])]
    /\ queue' = [queue EXCEPT ![s] = Tail(@)]
    /\ UNCHANGED <<exchange, feed, worker, posted>>

(* It has fallen behind: close code 1013.                                  *)
PumpOverflow(s) ==
    /\ session[s].phase = "live" /\ ~session[s].gone
    /\ session[s].todo = <<>> /\ queue[s] # <<>> /\ Head(queue[s]) = Overflow
    /\ client' = [client EXCEPT ![session[s].client] = Closed(session[s].client, TRUE)]
    /\ End(s)

(* Nothing for one interval. The heartbeat repeats the last sequence.      *)
Heartbeat(s) ==
    /\ session[s].phase = "live" /\ ~session[s].gone
    /\ session[s].todo = <<>> /\ queue[s] = <<>>
    /\ client' = [client EXCEPT ![session[s].client] =
                    ToldHeartbeat(session[s].client, session[s].last)]
    /\ UNCHANGED <<exchange, feed, queue, worker, posted, session>>

(* The session finds that its client has gone, at its next send or within  *)
(* an interval. What it still had for it is lost.                          *)
Notice(s) ==
    /\ session[s].gone /\ session[s].phase \in {"accepted", "live"}
    /\ End(s)
    /\ UNCHANGED client

-----------------------------------------------------------------------------
(* The browser and the network.                                            *)

Left(c) ==
    [s \in Subscriber |->
       IF session[s].client # c THEN session[s]
       ELSE [NoSession EXCEPT !.phase = session[s].phase, !.client = c, !.gone = TRUE]]

(* The chart is opened, with nothing remembered, or closed.                *)
Visit(c) ==
    /\ client[c].phase = "away"
    /\ client' = [client EXCEPT ![c] = [NewClient EXCEPT !.phase = "waiting"]]
    /\ UNCHANGED <<exchange, feed, queue, worker, posted, session>>

Leave(c) ==
    /\ client[c].phase # "away"
    /\ client' = [client EXCEPT ![c] = NewClient]
    /\ session' = Left(c)
    /\ UNCHANGED feedVars

(* The connection breaks; what is on its way does not arrive.              *)
Drop(c) ==
    /\ client[c].phase \in {"connecting", "open"}
    /\ client' = [client EXCEPT ![c] = Closed(c, TRUE)]
    /\ session' = Left(c)
    /\ UNCHANGED feedVars

(* The API process starts again. Its hub is empty, its threads are gone.   *)
ApiRestarts ==
    /\ feed.born # 0
    /\ feed' = NoFeed
    /\ queue' = [s \in Subscriber |-> <<>>]
    /\ worker' = [w \in DOMAIN worker |-> Ended]
    /\ posted' = <<>>
    /\ session' = [s \in Subscriber |-> NoSession]
    /\ client' = [c \in Client |-> IF client[c].phase \in {"connecting", "open"}
                                   THEN Closed(c, TRUE) ELSE client[c]]
    /\ UNCHANGED exchange

MarketInit ==
    /\ FeedInit
    /\ session = [s \in Subscriber |-> NoSession]
    /\ client = [c \in Client |-> NewClient]

Serve(s) ==
    \/ \E retry \in BOOLEAN : Refuse(s, retry)
    \/ Join(s) \/ SendState(s) \/ SendReplayed(s) \/ Pump(s) \/ PumpOverflow(s)
    \/ Heartbeat(s) \/ Notice(s)

MarketNext ==
    \/ UpstreamNext /\ UNCHANGED <<session, client>>
    \/ \E s \in Subscriber : Serve(s)
    \/ \E c \in Client, s \in Subscriber : Connect(c, s)
    \/ \E c \in Client : TicketRejected(c) \/ Visit(c) \/ Leave(c) \/ Drop(c)
    \/ ApiRestarts

MarketSpec ==
    /\ MarketInit /\ [][MarketNext]_marketVars
    /\ WF_marketVars(GraceEnds /\ UNCHANGED <<session, client>>)
    /\ \A s \in Subscriber :
          WF_marketVars(Join(s) \/ \E retry \in BOOLEAN : Refuse(s, retry)) /\ WF_marketVars(Notice(s))
    /\ \A w \in 1 .. MaxFeeds : WF_marketVars(BinanceRuns(w) /\ UNCHANGED <<session, client>>)

-----------------------------------------------------------------------------
MarketTypeOK ==
    /\ FeedTypeOK
    /\ \A s \in Subscriber :
          /\ session[s].phase \in {"none", "resolving", "accepted", "live"}
          /\ session[s].phase = "none" <=> session[s].client = None
          /\ session[s].phase \in {"accepted", "live"} <=> s \in feed.subscribers
          /\ Len(session[s].todo) <= RingSize
    /\ \A c \in Client :
          /\ client[c].phase \in {"away", "waiting", "connecting", "open", "stopped"}
          /\ client[c].phase \in {"connecting", "open"}
               <=> \E s \in Subscriber : session[s].client = c /\ ~session[s].gone
          /\ client[c].max \in Nothing .. MaxSequence

(* A client never sees an event follow another that is not its predecessor *)
(* without having been told to fill a gap, or to connect again and be told *)
(* then: a full queue, an evicted event and a feed that was started again  *)
(* are all noticed. Not so a client whose maxSequence is another feed's:   *)
(* decide_resume compares numbers of two feeds and may answer "replayed".  *)
NothingIsSkipped == \A c \in Client : client[c].skipped => client[c].mixed

(* An upstream connection that nobody watches any more is closed, however  *)
(* the sessions ended and whoever came back during the grace period.       *)
UnwatchedFeedEnds ==
    <>[](\A c \in Client : client[c].phase \in {"away", "stopped"}) => <>[](feed.born = 0)

(* A Binance feed that has failed is tried again, until it works or fails  *)
(* another time, which takes the next sequence.                            *)
FeedRetries ==
    (exchange = "binance" /\ feed.state \in {"delayed", "disconnected"})
        ~> (feed.born = 0 \/ feed.state = "connected" \/ feed.sequence = MaxSequence)
=============================================================================
