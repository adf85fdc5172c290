-------------------------- MODULE MarketStreamProofs --------------------------
(***************************************************************************)
(* Proof that a chart misses no event unnoticed (NothingIsSkipped), for    *)
(* any number of charts and sessions, ring and queue sizes. What is on its *)
(* way to a client, of the replay and then of its queue, always continues  *)
(* what it heard last, and everything it remembers is of the feed that it  *)
(* names, or it is `mixed`.                                                *)
(***************************************************************************)
EXTENDS MarketStream, TLAPS, FiniteSetTheorems, SequenceTheorems

Feeds ==
    [born : Nat, state : {"starting", "connected", "delayed", "disconnected"}, sequence : Int,
     ring : Seq(Int), subscribers : SUBSET Subscriber, teardown : {"none", "sleeping", "over"}]

Workers ==
    [state : {"connecting", "streaming", "backoff", "ended"}, stopping : BOOLEAN,
     received : BOOLEAN, attempt : Nat]

Sessions ==
    [phase : {"none", "resolving", "accepted", "live"}, client : Client \cup {None}, gone : BOOLEAN,
     born : Nat, mode : {"fresh", "replayed", "gap_fill_required"}, todo : Seq(Int), last : Int,
     max : Int, remembers : Nat]

Clients ==
    [phase : {"away", "waiting", "connecting", "open", "stopped"}, max : Int, remembers : Nat,
     heard : Int, skipped : BOOLEAN, mixed : BOOLEAN]

StreamTypes ==
    /\ feed \in Feeds /\ queue \in [Subscriber -> Seq(Int)]
    /\ worker \in Seq(Workers) /\ posted \in Seq({"connected", "disconnected"})
    /\ session \in [Subscriber -> Sessions] /\ client \in [Client -> Clients]

(* Numbers that follow one another, up to `last`.                          *)
Run(q, last) == \A i \in 1 .. Len(q) : q[i] = last - Len(q) + i

(* A feed's ring holds its last events, all of them of that feed. `n` is   *)
(* how many feeds were started.                                            *)
Ordered(f, n) ==
    /\ f.born \in {0, n} /\ f.sequence >= -1
    /\ f.born = 0 => f.subscribers = {}
    /\ Len(f.ring) <= f.sequence + 1
    /\ f.ring = <<>> => f.sequence = -1
    /\ Run(f.ring, f.sequence)

(* What a client knows. What it remembers is of the feed that it names.    *)
Known(k, f, n) ==
    /\ k.max >= Nothing /\ k.remembers <= n
    /\ k.max # Nothing => k.remembers # 0
    /\ ~k.mixed => /\ ~k.skipped
                   /\ k.heard \in {Nothing, k.max}
                   /\ k.remembers = f.born => k.max <= f.sequence

Intact(q) == q = <<>> \/ Head(q) # Overflow

Final(todo) == todo[Len(todo)]

(* What a session still has for its client: the replay, and then the queue *)
(* up to the feed's last event, or until it overflowed.                    *)
Lined(todo, q, last) ==
    /\ todo # <<>> => Run(todo, Final(todo)) /\ Final(todo) <= last
    /\ Intact(q) => /\ Len(q) <= last + 1 /\ Run(q, last)
                    /\ todo # <<>> => Final(todo) = last - Len(q)

(* What comes next is new to a client that has `max`, and follows `heard`. *)
Ready(todo, q, last, max, heard) ==
    /\ todo # <<>> => todo[1] > max /\ (heard # Nothing => todo[1] = heard + 1)
    /\ todo = <<>> /\ Intact(q) =>
          /\ last - Len(q) >= max
          /\ heard # Nothing => heard = last - Len(q)

Serving(x, k, f, q) ==
    /\ Lined(x.todo, q, f.sequence)
    /\ x.last <= k.max \/ x.last = -1
    /\ x.phase = "accepted" =>
          /\ x.born = f.born
          /\ x.mode = "fresh" => k.max = Nothing
          /\ x.mode = "replayed" => k.max # Nothing
          /\ ~k.mixed /\ (k.max = Nothing \/ k.remembers = f.born) =>
                Ready(x.todo, q, f.sequence, k.max, IF x.mode = "replayed" THEN k.max ELSE Nothing)
    /\ x.phase = "live" =>
          /\ k.remembers = f.born
          /\ ~k.mixed => Ready(x.todo, q, f.sequence, k.max, k.heard)

(* A session that a client is connected to, and one the hub knows of.      *)
Serves(s) == session[s].phase # "none" /\ ~session[s].gone
Joined(s) == session[s].phase \in {"accepted", "live"}

SessionOK(s) ==
    /\ session[s].phase = "none" <=> session[s].client = None
    /\ Joined(s) => s \in feed.subscribers
    /\ Serves(s) => client[session[s].client].phase
                       = IF session[s].phase = "live" THEN "open" ELSE "connecting"
    /\ session[s].phase = "resolving" /\ ~session[s].gone =>
          /\ session[s].max = client[session[s].client].max
          /\ session[s].remembers = client[session[s].client].remembers
    /\ Joined(s) /\ ~session[s].gone =>
          Serving(session[s], client[session[s].client], feed, queue[s])

OneEach ==
    \A s, t \in Subscriber :
        Serves(s) /\ Serves(t) /\ session[s].client = session[t].client => s = t

StreamInv ==
    /\ StreamTypes
    /\ \A s \in Subscriber : SessionOK(s)
    /\ OneEach
    /\ Ordered(feed, Started)
    /\ \A c \in Client : Known(client[c], feed, Started)
-----------------------------------------------------------------------------
(* Sequences of numbers: the operations of the ring and of the queues.     *)

LEMMA Appended ==
    ASSUME NEW q \in Seq(Int), NEW x \in Int
    PROVE  /\ Append(q, x) \in Seq(Int) /\ Len(Append(q, x)) = Len(q) + 1 /\ Append(q, x) # <<>>
           /\ \A last \in Int : Run(q, last) /\ x = last + 1 => Run(Append(q, x), x)
           /\ Head(Append(q, x)) = IF q = <<>> THEN x ELSE Head(q)
<1> DEFINE p == Append(q, x)
<1>1. /\ p \in Seq(Int) /\ Len(p) = Len(q) + 1 /\ Len(q) \in Nat
      /\ p[Len(q) + 1] = x
      /\ \A i \in 1 .. Len(q) : p[i] = q[i]
  OBVIOUS
<1> HIDE DEF p
<1>2. p # <<>>
  <2>1. Len(<<>>) = 0
    OBVIOUS
  <2> QED BY <1>1, <2>1
<1>3. Head(p) = p[1]
  BY <1>1, <1>2
<1>4. Head(p) = IF q = <<>> THEN x ELSE Head(q)
  <2>1. CASE q = <<>>
    <3>1. Len(q) = 0
      BY <2>1
    <3> QED BY <1>1, <1>3, <2>1, <3>1
  <2>2. CASE q # <<>>
    <3>1. Head(q) = q[1] /\ 1 \in 1 .. Len(q)
      BY <2>2
    <3> QED BY <1>1, <1>3, <2>2, <3>1
  <2> QED BY <2>1, <2>2
<1>5. ASSUME NEW last \in Int, Run(q, last), x = last + 1
      PROVE  Run(p, x)
  <2> SUFFICES ASSUME NEW i \in 1 .. Len(p) PROVE p[i] = x - Len(p) + i
    BY DEF Run
  <2>1. CASE i = Len(q) + 1
    BY <1>1, <2>1
  <2>2. CASE i # Len(q) + 1
    <3>1. i \in 1 .. Len(q)
      BY <1>1, <2>2
    <3> QED BY <1>1, <1>5, <3>1 DEF Run
  <2> QED BY <2>1, <2>2
<1> QED BY <1>1, <1>2, <1>4, <1>5 DEF p

LEMMA Tailed ==
    ASSUME NEW q \in Seq(Int), q # <<>>
    PROVE  /\ Tail(q) \in Seq(Int) /\ Len(Tail(q)) = Len(q) - 1 /\ Len(q) >= 1 /\ Len(q) \in Nat
           /\ Head(q) = q[1] /\ q[1] \in Int
           /\ \A last \in Int : Run(q, last) =>
                 Run(Tail(q), last) /\ Head(q) = last - Len(q) + 1
           /\ Tail(q) # <<>> <=> Len(q) > 1
           /\ Tail(q) # <<>> => Head(Tail(q)) = q[2] /\ Tail(q)[1] = q[2]
                                  /\ Final(Tail(q)) = Final(q)
<1>1. Len(q) \in Nat /\ Len(q) >= 1
  OBVIOUS
<1>2. Head(q) = q[1] /\ q[1] \in Int
  OBVIOUS
<1> DEFINE p == Tail(q)
<1>3. p \in Seq(Int)
  OBVIOUS
<1>4. Len(p) = Len(q) - 1
  BY <1>1
<1>5. \A i \in 1 .. Len(q) - 1 : p[i] = q[i + 1]
  BY <1>1
<1> HIDE DEF p
<1>6. p # <<>> => Head(p) = p[1] /\ Len(p) >= 1
  BY <1>3
<1>7. p = <<>> => Len(p) = 0
  OBVIOUS
<1>8. p # <<>> => Len(q) > 1 /\ p[1] = q[2] /\ Final(p) = Final(q)
  BY <1>1, <1>4, <1>5, <1>6 DEF Final
<1>9. ASSUME NEW last \in Int, Run(q, last)
      PROVE  Run(p, last) /\ Head(q) = last - Len(q) + 1
  BY <1>1, <1>2, <1>4, <1>5, <1>9 DEF Run
<1> QED BY <1>1, <1>2, <1>3, <1>4, <1>6, <1>7, <1>8, <1>9 DEF p

LEMMA TheLatest ==
    ASSUME NEW q \in Seq(Int), NEW last \in Int, Run(q, last), q # <<>>
    PROVE  Latest(q) \in Seq(Int) /\ Latest(q) # <<>> /\ Len(Latest(q)) <= Len(q)
           /\ Run(Latest(q), last)
<1>1. RingSize \in Nat /\ RingSize >= 1 /\ Len(q) \in Nat
  BY SizeAssumption
<1>2. CASE Len(q) > RingSize
  <2>1. Latest(q) = Tail(q)
    BY <1>2 DEF Latest
  <2> QED BY <1>1, <1>2, <2>1, Tailed
<1>3. CASE ~(Len(q) > RingSize)
  <2>1. Latest(q) = q
    BY <1>3 DEF Latest
  <2> QED BY <1>1, <2>1
<1> QED BY <1>2, <1>3

(* The hub publishes the next event of a feed.                             *)
LEMMA Published ==
    ASSUME NEW f \in Feeds, NEW g \in Feeds, NEW n \in Nat, Ordered(f, n), f.born # 0,
           g.born = f.born, g.sequence = f.sequence + 1, g.subscribers = f.subscribers,
           g.ring = Latest(Append(f.ring, f.sequence + 1))
    PROVE  Ordered(g, n)
<1>1. f.ring \in Seq(Int) /\ f.sequence \in Int /\ Len(f.ring) \in Nat
  BY DEF Feeds
<1> DEFINE r == Append(f.ring, f.sequence + 1)
<1>2. /\ r \in Seq(Int) /\ Len(r) = Len(f.ring) + 1 /\ r # <<>> /\ Run(r, f.sequence + 1)
  BY <1>1, Appended DEF Ordered
<1> HIDE DEF r
<1>3. /\ g.ring # <<>> /\ Run(g.ring, f.sequence + 1) /\ Len(g.ring) <= Len(r)
      /\ Len(g.ring) \in Nat
  <2>1. g.ring = Latest(r)
    BY DEF r
  <2> QED BY <1>1, <1>2, <2>1, TheLatest
<1> QED BY <1>1, <1>2, <1>3 DEF Ordered

LEMMA QueuedType ==
    ASSUME NEW q \in Seq(Int), NEW x \in Int
    PROVE  Queued(q, x) \in Seq(Int)
BY DEF Queued, Overflow

(* What a session has goes on with the event that is published.            *)
LEMMA LinedUp ==
    ASSUME NEW todo \in Seq(Int), NEW q \in Seq(Int), NEW last \in Int, Lined(todo, q, last)
    PROVE  /\ Lined(todo, Queued(q, last + 1), last + 1)
           /\ Intact(Queued(q, last + 1)) =>
                 Intact(q) /\ Len(Queued(q, last + 1)) = Len(q) + 1
<1>1. Len(todo) \in Nat /\ Len(q) \in Nat /\ QueueSize \in Nat
  BY SizeAssumption
<1>2. todo # <<>> => Final(todo) \in Int
  BY DEF Final
<1>3. CASE Len(q) < QueueSize
  <2> DEFINE p == Append(q, last + 1)
  <2>1. Queued(q, last + 1) = p
    BY <1>3 DEF Queued
  <2>2. /\ Len(p) = Len(q) + 1 /\ p # <<>> /\ (Run(q, last) => Run(p, last + 1))
        /\ Head(p) = IF q = <<>> THEN last + 1 ELSE Head(q)
    BY <1>1, Appended
  <2> HIDE DEF p
  <2>3. Intact(p) => Intact(q)
    BY <2>2 DEF Intact
  <2>4. Lined(todo, p, last + 1)
    <3>1. todo # <<>> => Run(todo, Final(todo)) /\ Final(todo) <= last + 1
      BY <1>2 DEF Lined
    <3>2. Intact(p) => Run(p, last + 1) /\ Len(p) <= last + 1 + 1
      BY <1>1, <2>2, <2>3 DEF Lined
    <3>3. Intact(p) /\ todo # <<>> => Final(todo) = last + 1 - Len(p)
      BY <1>1, <1>2, <2>2, <2>3 DEF Lined
    <3> QED BY <3>1, <3>2, <3>3 DEF Lined
  <2> QED BY <2>1, <2>2, <2>3, <2>4
<1>4. CASE ~(Len(q) < QueueSize)
  <2>1. Queued(q, last + 1) = <<Overflow>>
    BY <1>4 DEF Queued
  <2>2. ~Intact(<<Overflow>>)
    BY DEF Intact, Overflow
  <2>3. todo # <<>> => Run(todo, Final(todo)) /\ Final(todo) <= last + 1
    BY <1>2 DEF Lined
  <2> QED BY <2>1, <2>2, <2>3 DEF Lined
<1> QED BY <1>3, <1>4

LEMMA StillReady ==
    ASSUME NEW todo \in Seq(Int), NEW q \in Seq(Int), NEW last \in Int, Lined(todo, q, last),
           NEW max \in Int, NEW heard \in Int, Ready(todo, q, last, max, heard)
    PROVE  Ready(todo, Queued(q, last + 1), last + 1, max, heard)
<1>1. Intact(Queued(q, last + 1)) =>
                 Intact(q) /\ Len(Queued(q, last + 1)) = Len(q) + 1 /\ Len(q) \in Nat
  BY LinedUp
<1> QED BY <1>1 DEF Ready

LEMMA ServesOn ==
    ASSUME NEW x \in Sessions, NEW k \in Clients, NEW q \in Seq(Int), NEW f \in Feeds, NEW g \in Feeds,
           g.sequence = f.sequence + 1, g.born = f.born, Serving(x, k, f, q)
    PROVE  Serving(x, k, g, Queued(q, g.sequence))
<1>1. x.todo \in Seq(Int) /\ f.sequence \in Int /\ k.max \in Int /\ k.heard \in Int
      /\ Nothing \in Int
  BY DEF Sessions, Feeds, Clients, Nothing
<1>2. Lined(x.todo, Queued(q, g.sequence), g.sequence)
  BY <1>1, LinedUp DEF Serving
<1>3. ASSUME NEW heard \in Int, Ready(x.todo, q, f.sequence, k.max, heard)
      PROVE  Ready(x.todo, Queued(q, g.sequence), g.sequence, k.max, heard)
  BY <1>1, <1>3, StillReady DEF Serving
<1>4. (IF x.mode = "replayed" THEN k.max ELSE Nothing) \in Int
  BY <1>1
<1> QED BY <1>1, <1>2, <1>3, <1>4 DEF Serving
(* A session that begins: what is replayed goes up to the feed's last      *)
(* event.                                                                  *)
LEMMA Counted ==
    ASSUME NEW ring \in Seq(Int), NEW max \in Int, NEW n \in Nat, n <= Len(ring),
           \A i \in 1 .. Len(ring) : i <= n => ring[i] <= max,
           \A i \in 1 .. Len(ring) : i > n => ~(ring[i] <= max)
    PROVE  Cardinality({i \in DOMAIN ring : ring[i] <= max}) = n
<1>1. Len(ring) \in Nat /\ DOMAIN ring = 1 .. Len(ring)
  OBVIOUS
<1> DEFINE upto == {i \in DOMAIN ring : ring[i] <= max}
<1>2. ASSUME NEW i \in upto PROVE i \in 1 .. n
  BY <1>1
<1>3. ASSUME NEW i \in 1 .. n PROVE i \in upto
  BY <1>1
<1>4. upto = 1 .. n
  BY <1>2, <1>3
<1>5. Cardinality(1 .. n) = IF 1 > n THEN 0 ELSE n - 1 + 1
  BY FS_Interval
<1>6. Cardinality(1 .. n) = n
  BY <1>5
<1> QED BY <1>4, <1>6

LEMMA TheRest ==
    ASSUME NEW ring \in Seq(Int), NEW last \in Int, Run(ring, last), NEW n \in Nat, n <= Len(ring)
    PROVE  /\ SubSeq(ring, n + 1, Len(ring)) \in Seq(Int)
           /\ Len(SubSeq(ring, n + 1, Len(ring))) = Len(ring) - n
           /\ Run(SubSeq(ring, n + 1, Len(ring)), last)
<1>1. Len(ring) \in Nat
  OBVIOUS
<1> DEFINE todo == SubSeq(ring, n + 1, Len(ring))
<1>2. n + 1 \in Int /\ Len(ring) \in Int /\ \A i \in n + 1 .. Len(ring) : ring[i] \in Int
  BY <1>1
<1>3. /\ todo \in Seq(Int)
      /\ Len(todo) = IF n + 1 <= Len(ring) THEN Len(ring) - (n + 1) + 1 ELSE 0
      /\ \A i \in 1 .. Len(ring) - (n + 1) + 1 : todo[i] = ring[n + 1 + i - 1]
  BY <1>2, SubSeqProperties
<1> HIDE DEF todo
<1>4. Len(todo) = Len(ring) - n
  BY <1>1, <1>3
<1>5. ASSUME NEW i \in 1 .. Len(todo) PROVE todo[i] = last - Len(todo) + i
  <2>1. todo[i] = ring[n + 1 + i - 1] /\ n + 1 + i - 1 = n + i
    BY <1>1, <1>3, <1>4
  <2>2. n + i \in 1 .. Len(ring)
    BY <1>1, <1>4
  <2>3. ring[n + i] = last - Len(ring) + (n + i)
    BY <2>2 DEF Run
  <2> QED BY <1>1, <1>4, <2>1, <2>3
<1> QED BY <1>3, <1>4, <1>5 DEF todo, Run

LEMMA Suffix ==
    ASSUME NEW ring \in Seq(Int), NEW last \in Int, Run(ring, last), NEW max \in Int,
           ring # <<>> => ring[1] <= max + 1
    PROVE  LET todo == Replay("replayed", max, ring)
           IN  /\ todo \in Seq(Int) /\ Run(todo, last)
               /\ max <= last /\ ring # <<>> => Len(todo) = last - max
               /\ ring = <<>> => todo = <<>>
<1>1. Len(ring) \in Nat /\ (ring # <<>> => Len(ring) >= 1) /\ (ring = <<>> => Len(ring) = 0)
  OBVIOUS
<1> DEFINE rest(n) == SubSeq(ring, n + 1, Len(ring))
           m == Cardinality({i \in DOMAIN ring : ring[i] <= max})
<1>2. Replay("replayed", max, ring) = rest(m)
  BY DEF Replay
<1>3. CASE ring = <<>>
  <2>0. 0 \in Nat /\ 0 <= Len(ring) /\ Len(ring) - 0 = 0
        /\ (\A i \in 1 .. Len(ring) : i <= 0 => ring[i] <= max)
        /\ (\A i \in 1 .. Len(ring) : i > 0 => ~(ring[i] <= max))
    BY <1>1, <1>3
  <2>1. m = 0
    BY <2>0, Counted
  <2>2. rest(0) \in Seq(Int) /\ Len(rest(0)) = Len(ring) - 0 /\ Run(rest(0), last)
    BY <2>0, TheRest
  <2> HIDE DEF rest, m
  <2>3. rest(0) = <<>>
    <3> DEFINE none == rest(0)
    <3>1. none \in Seq(Int) /\ Len(none) = 0
      BY <2>0, <2>2
    <3> HIDE DEF none
    <3>2. none = <<>>
      BY <3>1
    <3> QED BY <3>2 DEF none
  <2> QED BY <1>2, <1>3, <2>1, <2>2, <2>3
<1>4. CASE ring # <<>> /\ max <= last
  <2> DEFINE n == max - last + Len(ring)
  <2>1. ring[1] = last - Len(ring) + 1
    BY <1>1, <1>4 DEF Run
  <2>2. n \in Nat /\ n <= Len(ring)
    BY <1>1, <1>4, <2>1
  <2>3. \A i \in 1 .. Len(ring) : i <= n => ring[i] <= max
    BY <1>1 DEF Run
  <2>4. \A i \in 1 .. Len(ring) : i > n => ~(ring[i] <= max)
    BY <1>1 DEF Run
  <2> HIDE DEF n
  <2>5. m = n
    BY <2>2, <2>3, <2>4, Counted
  <2>6. rest(n) \in Seq(Int) /\ Len(rest(n)) = Len(ring) - n /\ Run(rest(n), last)
    BY <2>2, TheRest
  <2> HIDE DEF rest, m
  <2>7. Len(rest(n)) = last - max
    BY <1>1, <2>6 DEF n
  <2> QED BY <1>2, <1>4, <2>5, <2>6, <2>7
<1>5. CASE ~(max <= last)
  <2>1. \A i \in 1 .. Len(ring) : ring[i] <= max
    BY <1>1, <1>5 DEF Run
  <2>2. m = Len(ring)
    <3>1. \A i \in 1 .. Len(ring) : i > Len(ring) => ~(ring[i] <= max)
      BY <1>1
    <3>2. Len(ring) <= Len(ring)
      BY <1>1
    <3> QED BY <1>1, <2>1, <3>1, <3>2, Counted
  <2> DEFINE n == Len(ring)
  <2>3. rest(n) \in Seq(Int) /\ Len(rest(n)) = 0 /\ Run(rest(n), last)
    BY <1>1, TheRest
  <2> HIDE DEF rest, m
  <2>4. rest(n) = <<>>
    BY <2>3
  <2> QED BY <1>2, <1>5, <2>2, <2>3, <2>4
<1> QED BY <1>3, <1>4, <1>5
(* What a session sends next.                                              *)
LEMMA SentOfReplay ==
    ASSUME NEW todo \in Seq(Int), NEW q \in Seq(Int), NEW last \in Int, todo # <<>>,
           Lined(todo, q, last)
    PROVE  /\ Lined(Tail(todo), q, last) /\ Head(todo) = todo[1] /\ Head(todo) <= last
           /\ Ready(Tail(todo), q, last, Head(todo), Head(todo))
<1> DEFINE rest == Tail(todo)
<1>1. /\ rest \in Seq(Int) /\ Len(rest) = Len(todo) - 1 /\ Len(todo) >= 1 /\ Len(todo) \in Nat
      /\ Head(todo) = todo[1] /\ todo[1] \in Int
      /\ rest # <<>> <=> Len(todo) > 1
      /\ rest # <<>> => rest[1] = todo[2] /\ Final(rest) = Final(todo)
  BY Tailed
<1>2. Final(todo) \in Int /\ Len(q) \in Nat
  BY <1>1 DEF Final
<1>3. Run(todo, Final(todo)) /\ Final(todo) <= last
  BY DEF Lined
<1>4. Run(rest, Final(todo)) /\ Head(todo) = Final(todo) - Len(todo) + 1
  BY <1>2, <1>3, Tailed
<1>5. Len(todo) > 1 => todo[2] = Final(todo) - Len(todo) + 2
  BY <1>1, <1>3 DEF Run
<1> HIDE DEF rest
<1>6. Lined(rest, q, last)
  <2>1. rest # <<>> => Run(rest, Final(rest)) /\ Final(rest) <= last
    BY <1>1, <1>3, <1>4
  <2> QED BY <1>1, <2>1 DEF Lined
<1>7. Head(todo) <= last
  BY <1>1, <1>2, <1>3, <1>4
<1>8. Ready(rest, q, last, Head(todo), Head(todo))
  <2>1. rest # <<>> => rest[1] > Head(todo) /\ rest[1] = Head(todo) + 1
    BY <1>1, <1>2, <1>4, <1>5
  <2>2. rest = <<>> /\ Intact(q) => Head(todo) = last - Len(q)
    BY <1>1, <1>2, <1>4 DEF Lined
  <2> QED BY <1>1, <2>1, <2>2 DEF Ready
<1> QED BY <1>1, <1>6, <1>7, <1>8 DEF rest

LEMMA SentOfQueue ==
    ASSUME NEW q \in Seq(Int), NEW last \in Int, q # <<>>, Intact(q), Lined(<<>>, q, last)
    PROVE  /\ Lined(<<>>, Tail(q), last) /\ Head(q) = last - Len(q) + 1 /\ Head(q) <= last
           /\ Ready(<<>>, Tail(q), last, Head(q), Head(q))
<1> DEFINE rest == Tail(q)
<1>1. Run(q, last) /\ Len(q) <= last + 1
  BY DEF Lined
<1>2. /\ rest \in Seq(Int) /\ Len(rest) = Len(q) - 1 /\ Len(q) >= 1 /\ Len(q) \in Nat
      /\ Head(q) \in Int /\ Head(q) = last - Len(q) + 1 /\ Run(rest, last)
  BY <1>1, Tailed
<1> HIDE DEF rest
<1>3. Lined(<<>>, rest, last)
  BY <1>1, <1>2 DEF Lined
<1>4. Ready(<<>>, rest, last, Head(q), Head(q))
  BY <1>2 DEF Ready
<1> QED BY <1>2, <1>3, <1>4 DEF rest

(* What the client makes of an event that is new to it.                    *)
IsNext(k, e, f) ==
    ~k.mixed => e > k.max /\ (k.heard # Nothing => e = k.heard + 1) /\ e <= f.sequence

LEMMA EventHeard ==
    ASSUME NEW c \in Client, NEW k \in Clients, k = client[c],
           NEW e \in Int, NEW f \in Feeds, NEW n \in Nat, Known(k, f, n),
           k.remembers = f.born, f.born # 0, IsNext(k, e, f),
           NEW j, j = ToldEvent(c, e)
    PROVE  /\ j \in Clients /\ Known(j, f, n)
           /\ ~k.mixed => j.max = e /\ j.heard = e
<1>1. /\ k.max \in Int /\ k.heard \in Int /\ k.remembers \in Nat /\ f.sequence \in Int
      /\ k.mixed \in BOOLEAN /\ k.skipped \in BOOLEAN /\ Nothing \in Int
  BY DEF Clients, Feeds, Nothing
<1>2. /\ j.phase = k.phase /\ j.remembers = k.remembers /\ j.mixed = k.mixed
      /\ j.max = (IF e > k.max THEN e ELSE k.max) /\ j.heard = e
  BY DEF Clients, ToldEvent
<1>3. j.skipped = (k.skipped \/ (k.heard # Nothing /\ e # k.heard + 1))
  BY DEF Clients, ToldEvent
<1>4. j \in Clients
  BY <1>1 DEF Clients, ToldEvent
<1>5. e <= j.max /\ j.max >= k.max /\ j.max \in Int
  BY <1>1, <1>2
<1>6. ~k.mixed => j.max = e /\ j.heard = e
  BY <1>1, <1>2 DEF IsNext
<1>7. ~k.mixed => ~j.skipped
  BY <1>1, <1>3 DEF Known, IsNext
<1>8. Known(j, f, n)
  <2>1. j.max >= Nothing /\ j.remembers <= n /\ j.remembers # 0
    BY <1>1, <1>2, <1>5 DEF Known
  <2> QED BY <1>1, <1>2, <1>6, <1>7, <2>1 DEF Known, IsNext
<1> QED BY <1>2, <1>4, <1>5, <1>6, <1>8

(* ... and of what the session says first.                                 *)
Begun(x) == [x EXCEPT !.phase = "live", !.born = 0, !.mode = "fresh"]

LEMMA StateHeard ==
    ASSUME NEW c \in Client, NEW k \in Clients, k = client[c], NEW x \in Sessions, NEW q \in Seq(Int), NEW f \in Feeds, NEW n \in Nat,
           Ordered(f, n), Known(k, f, n), x.phase = "accepted", Serving(x, k, f, q), f.born # 0,
           NEW j, j = ToldState(c, x.born, x.mode), NEW y, y = Begun(x)
    PROVE  /\ j \in Clients /\ Known(j, f, n) /\ j.phase = "open"
           /\ y \in Sessions /\ Serving(y, j, f, q)
<1>1. /\ k.max \in Int /\ k.heard \in Int /\ k.remembers \in Nat /\ f.sequence \in Int /\ f.born \in Nat
      /\ k.mixed \in BOOLEAN /\ k.skipped \in BOOLEAN /\ Nothing \in Int /\ Nothing <= -1
      /\ x.todo \in Seq(Int) /\ Len(q) \in Nat /\ x.born = f.born /\ x.last \in Int
      /\ f.sequence >= -1 /\ f.born <= n
  <2>1. /\ k.max \in Int /\ k.heard \in Int /\ k.remembers \in Nat
        /\ k.mixed \in BOOLEAN /\ k.skipped \in BOOLEAN
    BY DEF Clients
  <2>2. /\ f.sequence \in Int /\ f.born \in Nat /\ x.todo \in Seq(Int) /\ x.last \in Int
        /\ Nothing \in Int /\ Nothing <= -1
    BY DEF Feeds, Sessions, Nothing
  <2>3. x.born = f.born
    BY DEF Serving
  <2>4. f.sequence >= -1 /\ f.born <= n
    BY <2>2 DEF Ordered
  <2> QED BY <2>1, <2>2, <2>3, <2>4
<1>2. /\ j.phase = "open" /\ j.remembers = f.born /\ j.max = k.max /\ j.skipped = k.skipped
      /\ j.heard = IF x.mode = "replayed" THEN k.heard ELSE Nothing
  BY <1>1 DEF Clients, ToldState
<1>3. j.mixed = (k.mixed \/ (k.max # Nothing /\ k.remembers # x.born))
  BY DEF Clients, ToldState
<1>4. j \in Clients
  BY <1>1 DEF Clients, ToldState
<1>5. ~j.mixed => ~k.mixed /\ (k.max = Nothing \/ k.remembers = f.born)
  BY <1>1, <1>3
<1>6. Known(j, f, n)
  <2>1. j.max >= Nothing /\ j.remembers <= n /\ j.remembers # 0
    BY <1>1, <1>2 DEF Known
  <2>2. ASSUME ~j.mixed PROVE ~j.skipped /\ j.heard \in {Nothing, j.max} /\ j.max <= f.sequence
    BY <1>1, <1>2, <1>5, <2>2 DEF Known
  <2> QED BY <2>1, <2>2 DEF Known
<1>7. /\ y.phase = "live" /\ y.todo = x.todo /\ y.last = x.last
      /\ y \in Sessions
  BY DEF Sessions, Begun
<1>8. ASSUME ~j.mixed PROVE Ready(x.todo, q, f.sequence, j.max, j.heard)
  <2> DEFINE before == IF x.mode = "replayed" THEN k.max ELSE Nothing
  <2>1. Ready(x.todo, q, f.sequence, k.max, before)
    BY <1>5, <1>8 DEF Serving
  <2>2. j.max = k.max /\ (j.heard = before \/ j.heard = Nothing)
    BY <1>2, <1>5, <1>8 DEF Known
  <2> HIDE DEF before
  <2> QED BY <2>1, <2>2 DEF Ready
<1>9. Serving(y, j, f, q)
  BY <1>2, <1>7, <1>8 DEF Serving
<1> QED BY <1>2, <1>4, <1>6, <1>7, <1>9
LEMMA BeatHeard ==
    ASSUME NEW k \in Clients, NEW x \in Sessions, NEW f \in Feeds, NEW n \in Nat,
           Ordered(f, n), Known(k, f, n), Serving(x, k, f, <<>>), x.phase = "live", x.todo = <<>>,
           f.born # 0, NEW c \in Client, k = client[c], NEW j, j = ToldHeartbeat(c, x.last)
    PROVE  j \in Clients /\ Known(j, f, n) /\ j.phase = k.phase /\ Serving(x, j, f, <<>>)
<1>1. /\ k.max \in Int /\ k.heard \in Int /\ k.remembers \in Nat /\ f.sequence \in Int
      /\ x.last \in Int /\ f.sequence >= -1 /\ Nothing = -2 /\ k.remembers = f.born
      /\ x.last <= k.max \/ x.last = -1
  BY DEF Clients, Feeds, Sessions, Nothing, Serving, Ordered
<1>2. /\ j.phase = k.phase /\ j.remembers = k.remembers /\ j.mixed = k.mixed /\ j.heard = k.heard
      /\ j.skipped = k.skipped /\ j.max = (IF x.last > k.max THEN x.last ELSE k.max)
  BY DEF Clients, ToldHeartbeat
<1>3. j \in Clients
  BY <1>1 DEF Clients, ToldHeartbeat
<1>4. k.max >= -2 /\ (~k.mixed => ~k.skipped /\ k.heard \in {-2, k.max} /\ k.max <= f.sequence)
  BY <1>1 DEF Known
<1>5. (j.max = k.max \/ (k.max = -2 /\ j.max = -1)) /\ j.max >= k.max
  BY <1>1, <1>2, <1>4
<1>6. Known(j, f, n)
  <2>1. j.max >= Nothing /\ j.remembers <= n /\ j.remembers # 0
    BY <1>1, <1>2, <1>4, <1>5 DEF Known
  <2>2. ASSUME ~j.mixed PROVE ~j.skipped /\ j.heard \in {Nothing, j.max} /\ j.max <= f.sequence
    BY <1>1, <1>2, <1>4, <1>5, <2>2
  <2> QED BY <2>1, <2>2 DEF Known
<1>7. ASSUME ~j.mixed PROVE Ready(x.todo, <<>>, f.sequence, j.max, j.heard)
  <2>1. Ready(x.todo, <<>>, f.sequence, k.max, k.heard)
    BY <1>2, <1>7 DEF Serving
  <2>2. Intact(<<>>) /\ Len(<<>>) = 0
    BY DEF Intact
  <2>3. f.sequence >= j.max /\ (j.heard # Nothing => j.heard = f.sequence)
    BY <1>1, <1>2, <1>4, <1>5, <1>7, <2>1, <2>2 DEF Ready
  <2> QED BY <1>1, <2>2, <2>3 DEF Ready
<1>8. Serving(x, j, f, <<>>)
  <2>1. x.last <= j.max \/ x.last = -1
    BY <1>1, <1>2, <1>5
  <2> QED BY <1>2, <1>7, <2>1 DEF Serving
<1> QED BY <1>2, <1>3, <1>6, <1>8

LEMMA Joins ==
    ASSUME NEW k \in Clients, NEW f \in Feeds, NEW n \in Nat, Ordered(f, n), Known(k, f, n),
           NEW mode, mode = ResumeMode(k.max, k.remembers, f.born, f.ring),
           NEW y, y.phase = "accepted", y.born = f.born, y.mode = mode,
           y.todo = Replay(mode, k.max, f.ring),
           y.last = IF k.max # Nothing /\ k.remembers # 0 THEN k.max ELSE -1
    PROVE  /\ Serving(y, k, f, <<>>) /\ y.todo \in Seq(Int) /\ y.last \in Int
           /\ mode \in {"fresh", "replayed", "gap_fill_required"}
<1>1. /\ k.max \in Int /\ k.heard \in Int /\ k.remembers \in Nat /\ f.sequence \in Int
      /\ f.born \in Nat /\ Nothing = -2 /\ k.max >= -2 /\ f.sequence >= -1
      /\ (k.max # Nothing => k.remembers # 0)
      /\ f.ring \in Seq(Int) /\ Run(f.ring, f.sequence) /\ Len(f.ring) <= f.sequence + 1
      /\ (f.ring = <<>> => f.sequence = -1)
  BY DEF Clients, Feeds, Nothing, Known, Ordered
<1>2. Intact(<<>>) /\ Len(<<>>) = 0 /\ Run(<<>>, f.sequence)
  BY DEF Intact, Run
<1>3. y.last \in Int /\ (y.last <= k.max \/ y.last = -1)
  BY <1>1
<1>4. ASSUME NEW todo \in Seq(Int), Run(todo, f.sequence)
      PROVE  /\ Lined(todo, <<>>, f.sequence)
             /\ todo # <<>> => todo[1] = f.sequence - Len(todo) + 1 /\ Len(todo) >= 1
  <2>1. Len(todo) \in Nat /\ (todo # <<>> => Len(todo) >= 1)
    OBVIOUS
  <2>2. ASSUME todo # <<>>
        PROVE  Final(todo) = f.sequence /\ todo[1] = f.sequence - Len(todo) + 1
    <3>1. 1 \in 1 .. Len(todo) /\ Len(todo) \in 1 .. Len(todo)
      BY <2>1, <2>2
    <3>2. todo[Len(todo)] = f.sequence - Len(todo) + Len(todo)
      BY <1>4, <3>1 DEF Run
    <3> QED BY <1>1, <1>4, <2>1, <3>1, <3>2 DEF Run, Final
  <2> QED BY <1>1, <1>2, <1>4, <2>1, <2>2 DEF Lined
<1> DEFINE before == IF y.mode = "replayed" THEN k.max ELSE Nothing
           Good == /\ y.todo \in Seq(Int) /\ mode \in {"fresh", "replayed", "gap_fill_required"}
                   /\ Lined(y.todo, <<>>, f.sequence)
                   /\ y.mode = "fresh" => k.max = Nothing
                   /\ y.mode = "replayed" => k.max # Nothing
                   /\ ~k.mixed /\ (k.max = Nothing \/ k.remembers = f.born) =>
                         Ready(y.todo, <<>>, f.sequence, k.max, before)
<1>5. ASSUME k.max = Nothing PROVE Good
  <2>1. mode = "fresh" /\ y.todo = f.ring
    BY <1>5 DEF ResumeMode, Replay
  <2>2. Ready(f.ring, <<>>, f.sequence, k.max, Nothing)
    <3>1. Len(f.ring) \in Nat
      BY <1>1
    <3> QED BY <1>1, <1>2, <1>4, <1>5, <3>1 DEF Ready
  <2> QED BY <1>1, <1>4, <1>5, <2>1, <2>2
<1>6. ASSUME k.max # Nothing, f.born > k.remembers \/ (f.ring # <<>> /\ f.ring[1] > k.max + 1)
      PROVE  Good
  <2>1. mode = "gap_fill_required" /\ y.todo = <<>>
    BY <1>1, <1>6 DEF ResumeMode, Replay
  <2>2. Lined(<<>>, <<>>, f.sequence)
    BY <1>1, <1>2 DEF Lined
  <2>3. ASSUME ~k.mixed, k.remembers = f.born
        PROVE  Ready(<<>>, <<>>, f.sequence, k.max, Nothing)
    <3>1. k.max <= f.sequence
      BY <2>3 DEF Known
    <3> QED BY <1>1, <1>2, <3>1 DEF Ready
  <2>4. y.mode # "fresh" /\ y.mode # "replayed"
    BY <2>1
  <2>5. ~k.mixed /\ (k.max = Nothing \/ k.remembers = f.born) =>
           Ready(y.todo, <<>>, f.sequence, k.max, before)
    BY <1>6, <2>1, <2>3, <2>4
  <2>6. <<>> \in Seq(Int)
    OBVIOUS
  <2>7. y.todo \in Seq(Int) /\ Lined(y.todo, <<>>, f.sequence)
    BY <2>1, <2>2, <2>6
  <2> HIDE DEF before
  <2> QED BY <1>6, <2>1, <2>4, <2>5, <2>7
<1>7. ASSUME k.max # Nothing, ~(f.born > k.remembers \/ (f.ring # <<>> /\ f.ring[1] > k.max + 1))
      PROVE  Good
  <2>1. mode = "replayed"
    BY <1>1, <1>7 DEF ResumeMode
  <2>2. f.ring # <<>> => f.ring[1] <= k.max + 1
    <3>1. f.ring # <<>> => f.ring[1] \in Int
      BY <1>1
    <3> QED BY <1>1, <1>7, <3>1
  <2> DEFINE todo == Replay("replayed", k.max, f.ring)
  <2>3. /\ todo \in Seq(Int) /\ Run(todo, f.sequence)
        /\ k.max <= f.sequence /\ f.ring # <<>> => Len(todo) = f.sequence - k.max
        /\ f.ring = <<>> => todo = <<>>
    BY <1>1, <2>2, Suffix
  <2>4. y.todo = todo
    BY <2>1
  <2> HIDE DEF todo
  <2>5. ASSUME ~k.mixed, k.remembers = f.born
        PROVE  Ready(todo, <<>>, f.sequence, k.max, k.max)
    <3>1. k.max <= f.sequence
      BY <2>5 DEF Known
    <3>2. todo # <<>> => todo[1] = k.max + 1
      BY <1>1, <1>4, <2>3, <3>1
    <3>3. todo = <<>> => k.max = f.sequence
      <4>1. todo = <<>> => Len(todo) = 0
        OBVIOUS
      <4> QED BY <1>1, <1>7, <2>3, <3>1, <4>1
    <3> QED BY <1>1, <1>2, <3>2, <3>3 DEF Ready
  <2>6. before = k.max
    BY <2>1
  <2> HIDE DEF before
  <2> QED BY <1>4, <1>7, <2>1, <2>3, <2>4, <2>5, <2>6
<1>8. Good
  BY <1>5, <1>6, <1>7
<1>9. y.phase # "live"
  OBVIOUS
<1> QED BY <1>3, <1>8, <1>9 DEF Serving
-----------------------------------------------------------------------------
(* The feed and its workers.                                               *)

LEMMA WorkerSet ==
    ASSUME NEW ws \in Seq(Workers), NEW w, NEW v, w \in DOMAIN ws => v \in Workers
    PROVE  [ws EXCEPT ![w] = v] \in Seq(Workers) /\ Len([ws EXCEPT ![w] = v]) = Len(ws)
<1>1. Len(ws) \in Nat /\ ws \in [1 .. Len(ws) -> Workers] /\ DOMAIN ws = 1 .. Len(ws)
  OBVIOUS
<1> DEFINE vs == [ws EXCEPT ![w] = v]
<1>2. vs \in [1 .. Len(ws) -> Workers]
  BY <1>1
<1> HIDE DEF vs
<1>3. vs \in Seq(Workers)
  BY <1>1, <1>2
<1>4. DOMAIN vs = 1 .. Len(ws) /\ DOMAIN vs = 1 .. Len(vs) /\ Len(vs) \in Nat
  BY <1>2, <1>3
<1>5. Len(vs) = Len(ws)
  BY <1>1, <1>4
<1> QED BY <1>3, <1>5 DEF vs

LEMMA WorkersMove ==
    ASSUME StreamInv, worker' \in Seq(Workers), Len(worker') = Len(worker),
           posted' \in Seq({"connected", "disconnected"}), UNCHANGED <<feed, queue, session, client>>
    PROVE  StreamInv'
<1>1. /\ UNCHANGED feed /\ UNCHANGED queue /\ UNCHANGED session /\ UNCHANGED client
      /\ Started' = Started
  BY DEF Started
<1>2. StreamTypes'
  BY <1>1 DEF StreamInv, StreamTypes
<1>3. ASSUME NEW s \in Subscriber PROVE SessionOK(s)'
  BY <1>1 DEF StreamInv, SessionOK, Serves, Joined
<1>4. OneEach'
  BY <1>1 DEF StreamInv, OneEach, Serves
<1>5. Ordered(feed, Started)' /\ \A c \in Client : Known(client[c], feed, Started)'
  BY <1>1 DEF StreamInv
<1> QED BY <1>2, <1>3, <1>4, <1>5 DEF StreamInv

LEMMA PublishKeeps ==
    ASSUME StreamInv, NEW state \in {"connected", "delayed", "disconnected"}, Publish(state),
           worker' \in Seq(Workers), Len(worker') = Len(worker),
           posted' \in Seq({"connected", "disconnected"}), UNCHANGED <<session, client>>
    PROVE  StreamInv'
<1>1. CASE feed.born = 0
  BY <1>1, WorkersMove DEF Publish
<1>2. CASE feed.born # 0
  <2>1. /\ feed' = [feed EXCEPT !.sequence = @ + 1, !.state = state,
                                !.ring = Latest(Append(@, feed.sequence + 1))]
        /\ queue' = [s \in Subscriber |-> IF s \in feed.subscribers
                                          THEN Queued(queue[s], feed.sequence + 1) ELSE queue[s]]
        /\ UNCHANGED session /\ UNCHANGED client /\ Started' = Started
    BY <1>2 DEF Publish, Started
  <2>2. /\ feed \in Feeds /\ feed.ring \in Seq(Int) /\ feed.sequence \in Int /\ feed.sequence + 1 \in Int
        /\ queue \in [Subscriber -> Seq(Int)] /\ Started \in Nat /\ Ordered(feed, Started)
        /\ session \in [Subscriber -> Sessions] /\ client \in [Client -> Clients]
    BY DEF StreamInv, StreamTypes, Feeds, Started
  <2>3. feed' \in Feeds
    <3>1. Append(feed.ring, feed.sequence + 1) \in Seq(Int)
          /\ Append(feed.ring, feed.sequence + 1) # <<>>
          /\ Run(Append(feed.ring, feed.sequence + 1), feed.sequence + 1)
      BY <2>2, Appended DEF Ordered
    <3>2. Latest(Append(feed.ring, feed.sequence + 1)) \in Seq(Int)
      BY <2>2, <3>1, TheLatest
    <3> QED BY <2>1, <2>2, <3>2 DEF Feeds
  <2>4. /\ feed'.born = feed.born /\ feed'.sequence = feed.sequence + 1
        /\ feed'.subscribers = feed.subscribers
        /\ feed'.ring = Latest(Append(feed.ring, feed.sequence + 1))
    BY <2>1, <2>2 DEF Feeds
  <2>5. queue' \in [Subscriber -> Seq(Int)]
    BY <2>1, <2>2, QueuedType
  <2>6. StreamTypes'
    BY <2>1, <2>3, <2>5 DEF StreamInv, StreamTypes
  <2>7. Ordered(feed, Started)'
    <3>1. Ordered(feed', Started)
      BY <1>2, <2>2, <2>3, <2>4, Published
    <3> QED BY <2>1, <3>1
  <2>8. ASSUME NEW c \in Client PROVE Known(client[c], feed, Started)'
    <3>1. Known(client[c], feed, Started) /\ client[c].max \in Int
      BY <2>2 DEF StreamInv, Clients
    <3> QED BY <2>1, <2>2, <2>4, <3>1 DEF Known
  <2>9. ASSUME NEW s \in Subscriber PROVE SessionOK(s)'
    <3>1. SessionOK(s)
      BY DEF StreamInv
    <3>2. ASSUME Joined(s), ~session[s].gone
          PROVE  Serving(session[s], client[session[s].client], feed', queue'[s])
      <4>1. s \in feed.subscribers /\ Serving(session[s], client[session[s].client], feed, queue[s])
        BY <3>1, <3>2 DEF SessionOK
      <4>2. queue'[s] = Queued(queue[s], feed'.sequence)
        BY <2>1, <2>4, <4>1
      <4>3. session[s] \in Sessions /\ queue[s] \in Seq(Int) /\ session[s].client \in Client
        BY <2>2, <3>1, <3>2 DEF SessionOK, Joined, Sessions
      <4> QED BY <2>2, <2>3, <2>4, <4>1, <4>2, <4>3, ServesOn
    <3> QED BY <2>1, <2>4, <3>1, <3>2 DEF SessionOK, Joined, Serves
  <2>10. OneEach'
    BY <2>1 DEF StreamInv, OneEach, Serves
  <2> QED BY <2>6, <2>7, <2>8, <2>9, <2>10 DEF StreamInv
<1> QED BY <1>1, <1>2
LEMMA NoFeedIsKnown ==
    ASSUME NEW n \in Nat
    PROVE  /\ NoFeed \in Feeds /\ Ordered(NoFeed, n)
           /\ NoFeed.born = 0 /\ NoFeed.subscribers = {} /\ NoFeed.sequence = -1
           /\ \A k \in Clients, f \in Feeds : Known(k, f, n) => Known(k, NoFeed, n)
<1>1. /\ NoFeed.born = 0 /\ NoFeed.subscribers = {} /\ NoFeed.sequence = -1 /\ NoFeed.ring = <<>>
      /\ NoFeed \in Feeds
  BY DEF NoFeed, Feeds
<1>2. Len(<<>>) = 0 /\ Run(<<>>, -1)
  BY DEF Run
<1>3. Ordered(NoFeed, n)
  BY <1>1, <1>2 DEF Ordered
<1>4. ASSUME NEW k \in Clients, NEW f \in Feeds, Known(k, f, n)
      PROVE  Known(k, NoFeed, n)
  BY <1>1, <1>4 DEF Known, Nothing
<1> QED BY <1>1, <1>3, <1>4

LEMMA GraceKeeps ==
    ASSUME StreamInv, GraceEnds, UNCHANGED <<session, client>>
    PROVE  StreamInv'
<1>1. /\ UNCHANGED queue /\ UNCHANGED posted /\ UNCHANGED session /\ UNCHANGED client
  BY DEF GraceEnds
<1>2. /\ feed \in Feeds /\ worker \in Seq(Workers) /\ Started \in Nat /\ Ordered(feed, Started)
      /\ session \in [Subscriber -> Sessions] /\ client \in [Client -> Clients]
  BY DEF StreamInv, StreamTypes, Started
<1>3. CASE feed.subscribers # {}
  <2>1. feed' = [feed EXCEPT !.teardown = "over"] /\ UNCHANGED worker /\ Started' = Started
    BY <1>3 DEF GraceEnds, Started
  <2>2. /\ feed'.born = feed.born /\ feed'.sequence = feed.sequence /\ feed'.ring = feed.ring
        /\ feed'.subscribers = feed.subscribers /\ feed' \in Feeds
    BY <1>2, <2>1 DEF Feeds
  <2>3. StreamTypes'
    BY <1>1, <2>1, <2>2 DEF StreamInv, StreamTypes
  <2>4. ASSUME NEW s \in Subscriber PROVE SessionOK(s)'
    BY <1>1, <2>2 DEF StreamInv, SessionOK, Serves, Joined, Serving
  <2>5. OneEach'
    BY <1>1 DEF StreamInv, OneEach, Serves
  <2>6. Ordered(feed, Started)'
    BY <1>2, <2>1, <2>2 DEF Ordered
  <2>7. ASSUME NEW c \in Client PROVE Known(client[c], feed, Started)'
    BY <1>1, <2>1, <2>2 DEF StreamInv, Known
  <2> QED BY <2>3, <2>4, <2>5, <2>6, <2>7 DEF StreamInv
<1>4. CASE feed.subscribers = {}
  <2> DEFINE w == feed.born
             v == IF exchange = "binance" THEN Ended ELSE [worker[feed.born] EXCEPT !.stopping = TRUE]
  <2>1. feed' = NoFeed /\ worker' = [worker EXCEPT ![w] = v]
    BY <1>4 DEF GraceEnds
  <2>2. w \in DOMAIN worker => v \in Workers
    <3>1. Ended \in Workers
      BY DEF Ended, Workers
    <3>2. ASSUME w \in DOMAIN worker PROVE [worker[w] EXCEPT !.stopping = TRUE] \in Workers
      <4>1. worker[w] \in Workers
        BY <1>2, <3>2
      <4> HIDE DEF w
      <4> QED BY <4>1 DEF Workers
    <3> QED BY <3>1, <3>2
  <2> HIDE DEF w, v
  <2>3. worker' \in Seq(Workers) /\ Started' = Started
    BY <1>2, <2>1, <2>2, WorkerSet DEF Started
  <2>4. /\ NoFeed \in Feeds /\ Ordered(NoFeed, Started)
        /\ \A k \in Clients, f \in Feeds : Known(k, f, Started) => Known(k, NoFeed, Started)
    BY <1>2, NoFeedIsKnown
  <2>5. StreamTypes'
    BY <1>1, <2>1, <2>3, <2>4 DEF StreamInv, StreamTypes
  <2>6. ASSUME NEW s \in Subscriber PROVE SessionOK(s)'
    BY <1>1, <1>4 DEF StreamInv, SessionOK, Serves, Joined
  <2>7. OneEach'
    BY <1>1 DEF StreamInv, OneEach, Serves
  <2>8. Ordered(feed, Started)'
    BY <2>1, <2>3, <2>4
  <2>9. ASSUME NEW c \in Client PROVE Known(client[c], feed, Started)'
    <3>1. Known(client[c], feed, Started) /\ client[c] \in Clients
      BY <1>2 DEF StreamInv
    <3> QED BY <1>1, <1>2, <2>1, <2>3, <2>4, <3>1
  <2> QED BY <2>5, <2>6, <2>7, <2>8, <2>9 DEF StreamInv
<1> QED BY <1>3, <1>4

LEMMA UpstreamKeeps ==
    ASSUME StreamInv, UpstreamNext, UNCHANGED <<session, client>>
    PROVE  StreamInv'
<1>1. /\ worker \in Seq(Workers) /\ posted \in Seq({"connected", "disconnected"})
  BY DEF StreamInv, StreamTypes
<1>2. ASSUME NEW w \in DOMAIN worker, OandaTick(w) \/ OandaEnds(w)
      PROVE  StreamInv'
  <2>1. posted' \in {<<>>, <<"connected">>, <<"connected", "connected">>, <<"disconnected">>}
    BY <1>2 DEF OandaTick, OandaEnds
  <2>2. posted' \in Seq({"connected", "disconnected"})
    <3> DEFINE T == {"connected", "disconnected"}
    <3>1. "connected" \in T /\ "disconnected" \in T
      OBVIOUS
    <3> HIDE DEF T
    <3>2. /\ <<>> \in Seq(T) /\ <<"connected">> \in Seq(T) /\ <<"disconnected">> \in Seq(T)
          /\ <<"connected", "connected">> \in Seq(T)
      BY <3>1
    <3>3. posted' \in Seq(T)
      BY <2>1, <3>2
    <3> QED BY <3>3 DEF T
  <2>3. PICK v \in Workers : worker' = [worker EXCEPT ![w] = v]
    <3>1. worker[w] \in Workers
      BY <1>1
    <3>2. Ended \in Workers
      BY DEF Ended, Workers
    <3> QED BY <1>2, <3>1, <3>2 DEF OandaTick, OandaEnds
  <2>4. worker' \in Seq(Workers) /\ Len(worker') = Len(worker)
    BY <1>1, <2>3, WorkerSet
  <2>5. UNCHANGED <<feed, queue, session, client>>
    BY <1>2 DEF OandaTick, OandaEnds
  <2> QED BY <2>2, <2>4, <2>5, WorkersMove
<1>3. ASSUME LoopRuns PROVE StreamInv'
  <2>1. Head(posted) \in {"connected", "disconnected"} /\ Tail(posted) \in Seq({"connected", "disconnected"})
    BY <1>1, <1>3 DEF LoopRuns
  <2>2. Publish(Head(posted)) /\ posted' = Tail(posted) /\ UNCHANGED worker
    BY <1>3 DEF LoopRuns
  <2>3. Head(posted) \in {"connected", "delayed", "disconnected"}
    BY <2>1
  <2> DEFINE state == Head(posted)
  <2>4. state \in {"connected", "delayed", "disconnected"} /\ Publish(state)
    BY <2>2, <2>3
  <2> HIDE DEF state
  <2> QED BY <1>1, <2>1, <2>2, <2>4, PublishKeeps
<1>4. ASSUME NEW w, BinanceRuns(w) PROVE StreamInv'
  <2>1. w \in DOMAIN worker /\ worker[w] \in Workers
    BY <1>1, <1>4 DEF BinanceRuns
  <2>2. ASSUME BinanceConnects(w) \/ BinanceRetries(w) PROVE StreamInv'
    <3>1. PICK v \in Workers : worker' = [worker EXCEPT ![w] = v]
      <4>1. CASE BinanceConnects(w)
        <5>1. [worker[w] EXCEPT !.state = "streaming", !.received = FALSE] \in Workers
          BY <2>1 DEF Workers
        <5> QED BY <4>1, <5>1 DEF BinanceConnects
      <4>2. CASE BinanceRetries(w)
        <5>1. [worker[w] EXCEPT !.state = "connecting"] \in Workers
          BY <2>1 DEF Workers
        <5> QED BY <4>2, <5>1 DEF BinanceRetries
      <4> QED BY <2>2, <4>1, <4>2
    <3>2. UNCHANGED posted /\ UNCHANGED <<feed, queue, session, client>>
      BY <2>2 DEF BinanceConnects, BinanceRetries
    <3> QED BY <1>1, <3>1, <3>2, WorkerSet, WorkersMove
  <2>3. ASSUME BinanceMessage(w) PROVE StreamInv'
    <3>1. [worker[w] EXCEPT !.received = TRUE] \in Workers
      BY <2>1 DEF Workers
    <3>2. /\ Publish("connected") /\ UNCHANGED posted
          /\ worker' = [worker EXCEPT ![w] = [worker[w] EXCEPT !.received = TRUE]]
      BY <2>3 DEF BinanceMessage
    <3>3. worker' \in Seq(Workers) /\ Len(worker') = Len(worker)
      BY <1>1, <3>1, <3>2, WorkerSet
    <3> QED BY <1>1, <3>2, <3>3, PublishKeeps
  <2>4. ASSUME NEW received \in BOOLEAN, BinanceFails(w, received) PROVE StreamInv'
    <3> DEFINE state == IF Attempt(w, received) < DelayedAttempts THEN "delayed" ELSE "disconnected"
               v == [worker[w] EXCEPT !.state = "backoff", !.attempt = Attempt(w, received),
                                      !.received = FALSE]
    <3>1. Attempt(w, received) \in Nat
      BY <2>1 DEF Workers, Attempt
    <3>2. v \in Workers
      BY <2>1, <3>1 DEF Workers
    <3>3. worker' = [worker EXCEPT ![w] = v] /\ Publish(state) /\ UNCHANGED posted
      BY <2>4 DEF BinanceFails
    <3>4. state \in {"connected", "delayed", "disconnected"}
      OBVIOUS
    <3> HIDE DEF v, state
    <3>5. worker' \in Seq(Workers) /\ Len(worker') = Len(worker)
      BY <1>1, <3>2, <3>3, WorkerSet
    <3> QED BY <1>1, <3>3, <3>4, <3>5, PublishKeeps
  <2> QED BY <1>4, <2>2, <2>3, <2>4 DEF BinanceRuns
<1> QED BY <1>2, <1>3, <1>4, GraceKeeps DEF UpstreamNext
-----------------------------------------------------------------------------
(* The turn of one session `s`: what every other session `t` is left with. *)
Apart(s, t) ==
    /\ session'[t] = session[t] /\ queue'[t] = queue[t]
    /\ Joined(t) => t \in feed'.subscribers /\ feed'.born = feed.born /\ feed'.sequence = feed.sequence
    /\ Serves(t) => /\ client'[session[t].client] = client[session[t].client]
                    /\ Serves(s)' => session'[s].client # session[t].client

LEMMA OneTurn ==
    ASSUME StreamInv, StreamTypes', NEW s \in Subscriber,
           \A t \in Subscriber \ {s} : Apart(s, t),
           SessionOK(s)', Ordered(feed, Started)',
           \A c \in Client : Known(client[c], feed, Started)'
    PROVE  StreamInv'
<1>1. ASSUME NEW t \in Subscriber, t # s PROVE SessionOK(t)'
  <2>1. SessionOK(t) /\ Apart(s, t)
    BY <1>1 DEF StreamInv
  <2>2. session'[t] = session[t] /\ queue'[t] = queue[t]
    BY <2>1 DEF Apart
  <2>3. (Serves(t)' <=> Serves(t)) /\ (Joined(t)' <=> Joined(t))
    BY <2>2 DEF Serves, Joined
  <2>4. Joined(t) => Serves(t) \/ session[t].gone
    BY DEF Joined, Serves
  <2>5. ASSUME Joined(t), ~session[t].gone
        PROVE  Serving(session[t], client'[session[t].client], feed', queue[t])
    <3>1. /\ feed'.born = feed.born /\ feed'.sequence = feed.sequence
          /\ client'[session[t].client] = client[session[t].client]
      BY <2>1, <2>4, <2>5 DEF Apart
    <3>2. Serving(session[t], client[session[t].client], feed, queue[t])
      BY <2>1, <2>5 DEF SessionOK
    <3> QED BY <3>1, <3>2 DEF Serving
  <2>6. Serves(t) => client'[session[t].client] = client[session[t].client]
    BY <2>1 DEF Apart
  <2>7. session[t].phase = "resolving" /\ ~session[t].gone => Serves(t)
    BY DEF Serves
  <2>8. Joined(t) => t \in feed'.subscribers
    BY <2>1 DEF Apart
  <2> QED BY <2>1, <2>2, <2>3, <2>5, <2>6, <2>7, <2>8 DEF SessionOK
<1>2. ASSUME NEW t \in Subscriber, NEW u \in Subscriber, t # s, Serves(t), t # u,
             Serves(u)', session'[u].client = session[t].client
      PROVE  FALSE
  <2>1. CASE u = s
    BY <1>2, <2>1 DEF Apart
  <2>2. CASE u # s
    <3>1. session'[u] = session[u]
      BY <2>2 DEF Apart
    <3> QED BY <1>2, <3>1 DEF StreamInv, OneEach, Serves
  <2> QED BY <2>1, <2>2
<1>3. \A t \in Subscriber : t # s => session'[t] = session[t] /\ (Serves(t)' <=> Serves(t))
  BY DEF Apart, Serves
<1>4. ASSUME NEW t \in Subscriber, NEW u \in Subscriber, Serves(t)', Serves(u)',
             session'[t].client = session'[u].client, t # u
      PROVE  FALSE
  <2>1. CASE t # s
    BY <1>2, <1>3, <1>4, <2>1
  <2>2. CASE u # s
    BY <1>2, <1>3, <1>4, <2>2
  <2> QED BY <1>4, <2>1, <2>2
<1>5. OneEach'
  BY <1>4 DEF OneEach, Serves
<1> QED BY <1>1, <1>5 DEF StreamInv

(* A client that a session serves is served by no other.                   *)
LEMMA Alone ==
    ASSUME StreamInv, NEW s \in Subscriber, NEW t \in Subscriber, s # t, Serves(t)
    PROVE  /\ session[t].client \in Client /\ client[session[t].client].phase \in {"open", "connecting"}
           /\ Serves(s) => session[s].client # session[t].client
<1>1. SessionOK(t) /\ session[t] \in Sessions
  BY DEF StreamInv, StreamTypes
<1>2. session[t].client \in Client
  BY <1>1 DEF SessionOK, Serves, Sessions
<1>3. client[session[t].client].phase \in {"open", "connecting"}
  BY <1>1 DEF SessionOK
<1>4. Serves(s) => session[s].client # session[t].client
  BY DEF StreamInv, OneEach
<1> QED BY <1>2, <1>3, <1>4

LEMMA NoSessionType ==
    /\ NoSession \in Sessions /\ NoSession.phase = "none" /\ NoSession.client = None /\ ~NoSession.gone
    /\ NoSession.last = -1 /\ NoSession.todo = <<>>
<1>1. <<>> \in Seq(Int) /\ -1 \in Int /\ Nothing \in Int
  BY DEF Nothing
<1> QED BY <1>1 DEF NoSession, Sessions

LEMMA ConnectKeeps ==
    ASSUME StreamInv, NEW c \in Client, NEW s \in Subscriber, Connect(c, s)
    PROVE  StreamInv'
<1> DEFINE x == [NoSession EXCEPT !.phase = "resolving", !.client = c, !.max = client[c].max,
                                  !.remembers = client[c].remembers]
           k == [client[c] EXCEPT !.phase = "connecting"]
<1>1. /\ client[c].phase = "waiting" /\ session[s].phase = "none"
      /\ client' = [client EXCEPT ![c] = k] /\ session' = [session EXCEPT ![s] = x]
      /\ UNCHANGED feed /\ UNCHANGED queue /\ UNCHANGED worker /\ UNCHANGED posted
      /\ Started' = Started
  BY DEF Connect, feedVars, Started
<1>2. /\ session \in [Subscriber -> Sessions] /\ client \in [Client -> Clients] /\ client[c] \in Clients
      /\ Ordered(feed, Started) /\ \A d \in Client : Known(client[d], feed, Started)
  BY DEF StreamInv, StreamTypes
<1>3. /\ x.phase = "resolving" /\ x.client = c /\ x.max = client[c].max /\ ~x.gone
      /\ x.remembers = client[c].remembers /\ x \in Sessions
  <2>1. client[c].max \in Int /\ client[c].remembers \in Nat
    BY <1>2 DEF Clients
  <2> QED BY <2>1, NoSessionType DEF Sessions
<1>4. /\ k \in Clients /\ k.phase = "connecting" /\ k.max = client[c].max
      /\ k.remembers = client[c].remembers /\ k.heard = client[c].heard
      /\ k.skipped = client[c].skipped /\ k.mixed = client[c].mixed
  BY <1>2 DEF Clients
<1> HIDE DEF x, k
<1>5. session'[s] = x /\ client'[c] = k
  BY <1>1, <1>2
<1>6. StreamTypes'
  BY <1>1, <1>2, <1>3, <1>4 DEF StreamInv, StreamTypes
<1>7. ASSUME NEW t \in Subscriber \ {s} PROVE Apart(s, t)
  <2>1. session'[t] = session[t] /\ queue'[t] = queue[t]
    BY <1>1, <1>2
  <2>2. Joined(t) => t \in feed'.subscribers
    BY <1>1 DEF StreamInv, SessionOK
  <2>3. ASSUME Serves(t) PROVE session[t].client # c /\ session[t].client \in Client
    BY <1>1, <2>3, Alone
  <2> QED BY <1>1, <1>2, <1>3, <1>5, <2>1, <2>2, <2>3 DEF Apart
<1>8. SessionOK(s)'
  BY <1>3, <1>4, <1>5, ClientAssumption DEF SessionOK, Serves, Joined
<1>9. ASSUME NEW d \in Client PROVE Known(client[d], feed, Started)'
  <2>1. CASE d = c
    BY <1>1, <1>2, <1>4, <1>5, <2>1 DEF Known
  <2>2. CASE d # c
    BY <1>1, <1>2, <2>2
  <2> QED BY <2>1, <2>2
<1> QED BY <1>1, <1>2, <1>6, <1>7, <1>8, <1>9, OneTurn
(* A session that goes on, and its client.                                 *)
LEMMA GoesOn ==
    ASSUME StreamInv, NEW s \in Subscriber, Joined(s), ~session[s].gone,
           NEW x \in Sessions, NEW k \in Clients,
           session' = [session EXCEPT ![s] = x],
           client' = [client EXCEPT ![session[s].client] = k],
           queue' \in [Subscriber -> Seq(Int)],
           \A t \in Subscriber \ {s} : queue'[t] = queue[t],
           UNCHANGED <<feed, worker, posted>>,
           x.phase = "live", x.client = session[s].client, ~x.gone, k.phase = "open",
           Known(k, feed, Started), Serving(x, k, feed, queue'[s])
    PROVE  StreamInv'
<1> DEFINE c == session[s].client
<1>1. /\ UNCHANGED feed /\ UNCHANGED worker /\ UNCHANGED posted /\ Started' = Started
  BY DEF Started
<1>2. /\ session \in [Subscriber -> Sessions] /\ client \in [Client -> Clients]
      /\ Ordered(feed, Started) /\ SessionOK(s) /\ \A d \in Client : Known(client[d], feed, Started)
  BY DEF StreamInv, StreamTypes
<1>3. c \in Client /\ s \in feed.subscribers
  BY <1>2 DEF SessionOK, Joined, Sessions
<1>4. session'[s] = x /\ client'[c] = k
  BY <1>2, <1>3
<1>5. StreamTypes'
  BY <1>1, <1>2 DEF StreamInv, StreamTypes
<1>6. Serves(s)
  BY DEF Serves, Joined
<1>7. ASSUME NEW t \in Subscriber \ {s} PROVE Apart(s, t)
  <2>1. session'[t] = session[t] /\ queue'[t] = queue[t]
    BY <1>2
  <2>2. Joined(t) => t \in feed'.subscribers
    BY <1>1 DEF StreamInv, SessionOK
  <2>3. ASSUME Serves(t) PROVE session[t].client # c /\ session[t].client \in Client
    BY <1>6, <2>3, Alone
  <2> QED BY <1>1, <1>2, <1>4, <2>1, <2>2, <2>3 DEF Apart
<1>8. SessionOK(s)'
  BY <1>1, <1>3, <1>4, ClientAssumption DEF SessionOK, Serves, Joined
<1>9. ASSUME NEW d \in Client PROVE Known(client[d], feed, Started)'
  <2>1. CASE d = c
    BY <1>1, <1>4, <2>1
  <2>2. CASE d # c
    BY <1>1, <1>2, <2>2
  <2> QED BY <2>1, <2>2
<1> QED BY <1>1, <1>2, <1>5, <1>7, <1>8, <1>9, OneTurn

(* What is known of a session that serves a client.                        *)
LEMMA Facts ==
    ASSUME StreamInv, NEW s \in Subscriber, Joined(s), ~session[s].gone
    PROVE  LET x == session[s]  k == client[x.client]
           IN  /\ x \in Sessions /\ x.client \in Client /\ k \in Clients /\ queue[s] \in Seq(Int)
               /\ feed \in Feeds /\ feed.born # 0 /\ Started \in Nat
               /\ Ordered(feed, Started) /\ Known(k, feed, Started) /\ Serving(x, k, feed, queue[s])
               /\ k.phase = IF x.phase = "live" THEN "open" ELSE "connecting"
<1>1. /\ session \in [Subscriber -> Sessions] /\ client \in [Client -> Clients]
      /\ queue \in [Subscriber -> Seq(Int)] /\ feed \in Feeds /\ Started \in Nat
      /\ Ordered(feed, Started) /\ SessionOK(s) /\ \A d \in Client : Known(client[d], feed, Started)
  BY DEF StreamInv, StreamTypes, Started
<1>2. session[s].client \in Client /\ s \in feed.subscribers /\ Serves(s)
  BY <1>1 DEF SessionOK, Joined, Sessions, Serves
<1> QED BY <1>1, <1>2 DEF SessionOK, Ordered

LEMMA SendStateKeeps ==
    ASSUME StreamInv, NEW s \in Subscriber, SendState(s)
    PROVE  StreamInv'
<1> DEFINE x == session[s]
           k == client[x.client]
           j == ToldState(x.client, x.born, x.mode)
           y == Begun(x)
<1>1. /\ Joined(s) /\ x.phase = "accepted" /\ ~x.gone
      /\ client' = [client EXCEPT ![x.client] = j] /\ session' = [session EXCEPT ![s] = y]
      /\ UNCHANGED queue /\ UNCHANGED <<feed, worker, posted>>
  BY DEF SendState, Joined, feedVars, Begun
<1>2. /\ x \in Sessions /\ x.client \in Client /\ k \in Clients /\ queue[s] \in Seq(Int)
      /\ feed \in Feeds /\ feed.born # 0 /\ Started \in Nat
      /\ Ordered(feed, Started) /\ Known(k, feed, Started) /\ Serving(x, k, feed, queue[s])
  BY <1>1, Facts
<1>3. y.client = x.client /\ ~y.gone /\ y.phase = "live"
  BY <1>1, <1>2 DEF Sessions, Begun
<1>4. /\ j \in Clients /\ Known(j, feed, Started) /\ j.phase = "open"
      /\ y \in Sessions /\ Serving(y, j, feed, queue[s])
  BY <1>1, <1>2, StateHeard
<1> HIDE DEF j, y
<1>5. queue' \in [Subscriber -> Seq(Int)] /\ (\A t \in Subscriber \ {s} : queue'[t] = queue[t]) /\ queue'[s] = queue[s]
  BY <1>1 DEF StreamInv, StreamTypes
<1> QED BY <1>1, <1>3, <1>4, <1>5, GoesOn
(* The session `x` after it has sent `e`, with `todo` left.                *)
After(x, todo, e) == [x EXCEPT !.todo = todo, !.last = e]

LEMMA EventSent ==
    ASSUME StreamInv, NEW s \in Subscriber, Joined(s), session[s].phase = "live", ~session[s].gone,
           NEW e \in Int, NEW todo \in Seq(Int), NEW q \in Seq(Int),
           e <= feed.sequence, Lined(todo, q, feed.sequence), Ready(todo, q, feed.sequence, e, e),
           IsNext(client[session[s].client], e, feed),
           session' = [session EXCEPT ![s] = After(session[s], todo, e)],
           client' = [client EXCEPT ![session[s].client] = ToldEvent(session[s].client, e)],
           queue' = [queue EXCEPT ![s] = q],
           UNCHANGED <<feed, worker, posted>>
    PROVE  StreamInv'
<1> DEFINE x == session[s]
           k == client[x.client]
           j == ToldEvent(x.client, e)
           y == After(x, todo, e)
<1>1. /\ x \in Sessions /\ x.client \in Client /\ k \in Clients
      /\ feed \in Feeds /\ feed.born # 0 /\ Started \in Nat
      /\ Known(k, feed, Started) /\ Serving(x, k, feed, queue[s]) /\ k.phase = "open"
  BY Facts
<1>2. k.remembers = feed.born
  BY <1>1 DEF Serving
<1>3. /\ j \in Clients /\ Known(j, feed, Started)
      /\ j.phase = k.phase /\ j.remembers = k.remembers /\ (j.mixed <=> k.mixed) /\ e <= j.max
      /\ ~k.mixed => j.max = e /\ j.heard = e
  <2>1. j = ToldEvent(x.client, e) /\ k = client[x.client] /\ IsNext(k, e, feed)
    OBVIOUS
  <2> HIDE DEF x, k, j
  <2>2. x.client \in Client /\ k \in Clients /\ feed \in Feeds /\ Started \in Nat
    BY <1>1
  <2>3. Known(k, feed, Started) /\ k.remembers = feed.born /\ feed.born # 0
    BY <1>1, <1>2
  <2>4. j \in Clients
    BY <2>1, <2>2, <2>3, EventHeard
  <2>5. Known(j, feed, Started)
    BY <2>1, <2>2, <2>3, EventHeard
  <2>6. j.phase = k.phase /\ j.remembers = k.remembers
    BY <2>1, <2>2 DEF ToldEvent, Clients
  <2>7. j.mixed <=> k.mixed
    BY <2>1, <2>2 DEF ToldEvent, Clients
  <2>8. e <= j.max
    <3>1. k.max \in Int /\ j.max = (IF e > k.max THEN e ELSE k.max)
      BY <2>1, <2>2 DEF ToldEvent, Clients
    <3> QED BY <3>1
  <2>9. ~k.mixed => j.max = e /\ j.heard = e
    BY <2>1, <2>2, <2>3, EventHeard
  <2> QED BY <2>4, <2>5, <2>6, <2>7, <2>8, <2>9
<1>4. /\ y \in Sessions /\ y.client = x.client /\ ~y.gone /\ y.phase = "live"
      /\ y.todo = todo /\ y.last = e
  BY <1>1 DEF Sessions, After
<1> HIDE DEF j, y
<1>5. Serving(y, j, feed, q)
  BY <1>2, <1>3, <1>4 DEF Serving
<1>6. queue' \in [Subscriber -> Seq(Int)] /\ (\A t \in Subscriber \ {s} : queue'[t] = queue[t]) /\ queue'[s] = q
  BY DEF StreamInv, StreamTypes
<1>7. /\ session' = [session EXCEPT ![s] = y] /\ client' = [client EXCEPT ![x.client] = j]
  BY DEF j, y
<1> QED BY <1>1, <1>3, <1>4, <1>5, <1>6, <1>7, GoesOn

LEMMA SendReplayedKeeps ==
    ASSUME StreamInv, NEW s \in Subscriber, SendReplayed(s)
    PROVE  StreamInv'
<1> DEFINE x == session[s]
           k == client[x.client]
           q == queue[s]
           e == Head(x.todo)
<1>1. /\ Joined(s) /\ x.phase = "live" /\ ~x.gone /\ x.todo # <<>>
      /\ client' = [client EXCEPT ![x.client] = ToldEvent(x.client, e)]
      /\ session' = [session EXCEPT ![s] = After(session[s], Tail(x.todo), e)]
      /\ UNCHANGED queue /\ UNCHANGED <<feed, worker, posted>>
  BY DEF SendReplayed, Joined, feedVars, After
<1>2. /\ x \in Sessions /\ q \in Seq(Int) /\ feed \in Feeds /\ Serving(x, k, feed, q)
  BY <1>1, Facts
<1>3. x.todo \in Seq(Int) /\ feed.sequence \in Int /\ Lined(x.todo, q, feed.sequence)
  BY <1>2 DEF Sessions, Feeds, Serving
<1>4. /\ Lined(Tail(x.todo), q, feed.sequence) /\ e = x.todo[1] /\ e <= feed.sequence
      /\ Ready(Tail(x.todo), q, feed.sequence, e, e)
  BY <1>1, <1>2, <1>3, SentOfReplay
<1>5. e \in Int /\ Tail(x.todo) \in Seq(Int)
  BY <1>1, <1>3
<1>6. IsNext(k, e, feed)
  BY <1>1, <1>2, <1>4 DEF Serving, Ready, IsNext
<1>7. queue' = [queue EXCEPT ![s] = q]
  BY <1>1 DEF StreamInv, StreamTypes
<1> DEFINE todo == Tail(x.todo)
<1> HIDE DEF e, q, todo
<1>8. todo \in Seq(Int) /\ Lined(todo, q, feed.sequence) /\ Ready(todo, q, feed.sequence, e, e)
      /\ session' = [session EXCEPT ![s] = After(session[s], todo, e)]
  BY <1>1, <1>4, <1>5 DEF todo
<1> QED BY <1>1, <1>2, <1>4, <1>5, <1>6, <1>7, <1>8, EventSent

LEMMA PumpKeeps ==
    ASSUME StreamInv, NEW s \in Subscriber, Pump(s)
    PROVE  StreamInv'
<1> DEFINE x == session[s]
           k == client[x.client]
           q == queue[s]
           e == Head(q)
           rest == Tail(q)
<1>1. /\ Joined(s) /\ x.phase = "live" /\ ~x.gone /\ x.todo = <<>> /\ q # <<>> /\ e # Overflow
      /\ client' = [client EXCEPT ![x.client] = ToldEvent(x.client, e)]
      /\ session' = [session EXCEPT ![s].last = e]
      /\ queue' = [queue EXCEPT ![s] = rest]
      /\ UNCHANGED <<feed, worker, posted>>
  BY DEF Pump, Joined
<1>2. /\ x \in Sessions /\ q \in Seq(Int) /\ feed \in Feeds /\ Serving(x, k, feed, q)
      /\ k \in Clients
  BY <1>1, Facts
<1>3. feed.sequence \in Int /\ Lined(<<>>, q, feed.sequence) /\ Intact(q)
  BY <1>1, <1>2 DEF Feeds, Serving, Intact
<1>4. /\ Lined(<<>>, rest, feed.sequence) /\ e = feed.sequence - Len(q) + 1 /\ e <= feed.sequence
      /\ Ready(<<>>, rest, feed.sequence, e, e)
  BY <1>1, <1>3, <1>2, SentOfQueue
<1>5. /\ e \in Int /\ rest \in Seq(Int) /\ <<>> \in Seq(Int) /\ Len(q) \in Nat
      /\ k.max \in Int /\ k.heard \in Int
  BY <1>1, <1>2 DEF Clients
<1>6. IsNext(k, e, feed)
  <2> SUFFICES ASSUME ~k.mixed PROVE e > k.max /\ (k.heard # Nothing => e = k.heard + 1)
    BY <1>4 DEF IsNext
  <2>1. Ready(<<>>, q, feed.sequence, k.max, k.heard)
    BY <1>1, <1>2 DEF Serving
  <2>2. feed.sequence - Len(q) >= k.max /\ (k.heard # Nothing => k.heard = feed.sequence - Len(q))
    BY <1>3, <2>1 DEF Ready
  <2> QED BY <1>3, <1>4, <1>5, <2>2
<1>7. session' = [session EXCEPT ![s] = After(session[s], <<>>, e)]
  <2>1. [x EXCEPT !.last = e] = After(x, <<>>, e)
    BY <1>1, <1>2 DEF After, Sessions
  <2> QED BY <1>1, <2>1
<1> HIDE DEF e, q, rest
<1> QED BY <1>1, <1>2, <1>4, <1>5, <1>6, <1>7, EventSent

LEMMA HeartbeatKeeps ==
    ASSUME StreamInv, NEW s \in Subscriber, Heartbeat(s)
    PROVE  StreamInv'
<1> DEFINE x == session[s]
           k == client[x.client]
           j == ToldHeartbeat(x.client, x.last)
<1>1. /\ Joined(s) /\ x.phase = "live" /\ ~x.gone /\ x.todo = <<>> /\ queue[s] = <<>>
      /\ client' = [client EXCEPT ![x.client] = j]
      /\ UNCHANGED session /\ UNCHANGED queue /\ UNCHANGED <<feed, worker, posted>>
  BY DEF Heartbeat, Joined
<1>2. /\ x \in Sessions /\ x.client \in Client /\ k \in Clients
      /\ feed \in Feeds /\ feed.born # 0 /\ Started \in Nat
      /\ Ordered(feed, Started) /\ Known(k, feed, Started) /\ Serving(x, k, feed, <<>>)
      /\ k.phase = "open"
  BY <1>1, Facts
<1>3. j \in Clients /\ Known(j, feed, Started) /\ j.phase = k.phase /\ Serving(x, j, feed, <<>>)
  BY <1>1, <1>2, BeatHeard
<1> HIDE DEF j
<1>4. /\ session' = [session EXCEPT ![s] = x] /\ queue' \in [Subscriber -> Seq(Int)]
      /\ (\A t \in Subscriber \ {s} : queue'[t] = queue[t]) /\ queue'[s] = <<>>
  BY <1>1 DEF StreamInv, StreamTypes
<1> QED BY <1>1, <1>2, <1>3, <1>4, GoesOn
LEMMA ClosedKnown ==
    ASSUME NEW c \in Client, NEW retry \in BOOLEAN, NEW f \in Feeds, NEW n \in Nat,
           client[c] \in Clients, Known(client[c], f, n)
    PROVE  Closed(c, retry) \in Clients /\ Known(Closed(c, retry), f, n)
<1> DEFINE k == client[c]
           j == Closed(c, retry)
<1>1. j = [k EXCEPT !.phase = IF retry THEN "waiting" ELSE "stopped"] /\ k \in Clients /\ Known(k, f, n)
  BY DEF Closed
<1> HIDE DEF k, j
<1>2. j \in Clients
  BY <1>1 DEF Clients
<1>3. /\ j.max = k.max /\ j.remembers = k.remembers /\ j.heard = k.heard
      /\ j.skipped = k.skipped /\ j.mixed = k.mixed
  BY <1>1 DEF Clients
<1>4. Known(j, f, n)
  BY <1>1, <1>3 DEF Known
<1> QED BY <1>2, <1>4 DEF j

(* A session ends. Its client, if it is still there, connects again or     *)
(* stops.                                                                  *)
LEMMA ItEnds ==
    ASSUME StreamInv, NEW s \in Subscriber, session' = [session EXCEPT ![s] = NoSession],
           feed' \in Feeds, feed'.born = feed.born, feed'.sequence = feed.sequence,
           feed'.ring = feed.ring, feed'.subscribers \in {feed.subscribers, feed.subscribers \ {s}},
           Joined(s) \/ UNCHANGED feed,
           queue' \in [Subscriber -> Seq(Int)], \A t \in Subscriber \ {s} : queue'[t] = queue[t],
           UNCHANGED <<worker, posted>>,
           \/ UNCHANGED client
           \/ /\ Serves(s)
              /\ \E retry \in BOOLEAN :
                    client' = [client EXCEPT ![session[s].client] = Closed(session[s].client, retry)]
    PROVE  StreamInv'
<1>1. /\ session \in [Subscriber -> Sessions] /\ client \in [Client -> Clients] /\ feed \in Feeds
      /\ Ordered(feed, Started) /\ \A d \in Client : Known(client[d], feed, Started)
      /\ UNCHANGED worker /\ UNCHANGED posted /\ Started \in Nat /\ Started' = Started
  BY DEF StreamInv, StreamTypes, Started
<1>2. session'[s] = NoSession
  BY <1>1
<1>3. Serves(s) => session[s].client \in Client
  BY DEF StreamInv, StreamTypes, SessionOK, Serves, Sessions
<1>4. /\ client' \in [Client -> Clients]
      /\ \A d \in Client : Known(client'[d], feed, Started)
      /\ \A d \in Client : d # session[s].client => client'[d] = client[d]
      /\ ~Serves(s) => UNCHANGED client
  <2>1. CASE UNCHANGED client
    BY <1>1, <2>1
  <2>2. CASE ~(UNCHANGED client)
    <3> DEFINE c == session[s].client
    <3>1. PICK retry \in BOOLEAN : client' = [client EXCEPT ![c] = Closed(c, retry)]
      BY <2>2
    <3>2. c \in Client /\ Serves(s)
      BY <1>3, <2>2
    <3> HIDE DEF c
    <3>3. Closed(c, retry) \in Clients /\ Known(Closed(c, retry), feed, Started)
      BY <1>1, <3>2, ClosedKnown
    <3> QED BY <1>1, <3>1, <3>2, <3>3 DEF c
  <2> QED BY <2>1, <2>2
<1>5. StreamTypes'
  <2>1. session' \in [Subscriber -> Sessions]
    BY <1>1, NoSessionType
  <2> QED BY <1>1, <1>4, <2>1 DEF StreamInv, StreamTypes
<1>6. ASSUME NEW t \in Subscriber \ {s} PROVE Apart(s, t)
  <2>1. session'[t] = session[t] /\ queue'[t] = queue[t]
    BY <1>1
  <2>2. Joined(t) => t \in feed'.subscribers
    BY DEF StreamInv, SessionOK
  <2>3. ASSUME Serves(t) PROVE client'[session[t].client] = client[session[t].client]
    <3>1. session[t].client \in Client /\ (Serves(s) => session[s].client # session[t].client)
      BY <2>3, Alone
    <3> QED BY <1>4, <3>1
  <2>4. ~Serves(s)'
    BY <1>2, NoSessionType DEF Serves
  <2> QED BY <2>1, <2>2, <2>3, <2>4 DEF Apart
<1>7. SessionOK(s)'
  BY <1>2, NoSessionType DEF SessionOK, Serves, Joined
<1>8. Ordered(feed, Started)'
  BY <1>1 DEF Ordered
<1>9. ASSUME NEW d \in Client PROVE Known(client[d], feed, Started)'
  BY <1>1, <1>4 DEF Known
<1> QED BY <1>5, <1>6, <1>7, <1>8, <1>9, OneTurn

LEMMA EndsKeep ==
    ASSUME StreamInv, NEW s \in Subscriber,
           \/ PumpOverflow(s) \/ Notice(s) \/ \E retry \in BOOLEAN : Refuse(s, retry)
    PROVE  StreamInv'
<1>1. /\ queue \in [Subscriber -> Seq(Int)] /\ feed \in Feeds /\ <<>> \in Seq(Int)
  BY DEF StreamInv, StreamTypes
<1>2. ASSUME Joined(s), End(s),
             UNCHANGED client \/ (Serves(s) /\ client' =
               [client EXCEPT ![session[s].client] = Closed(session[s].client, TRUE)])
      PROVE  StreamInv'
  <2>1. /\ session' = [session EXCEPT ![s] = NoSession] /\ queue' = [queue EXCEPT ![s] = <<>>]
        /\ UNCHANGED <<worker, posted>>
        /\ feed' = [feed EXCEPT !.subscribers = @ \ {s},
                   !.teardown = IF feed.born # 0 /\ feed.subscribers \ {s} = {} /\ @ = "none"
                                THEN "sleeping" ELSE @]
    BY <1>2 DEF End, Unsubscribe
  <2>2. /\ feed'.born = feed.born /\ feed'.sequence = feed.sequence /\ feed'.ring = feed.ring
        /\ feed'.subscribers = feed.subscribers \ {s}
    BY <1>1, <2>1 DEF Feeds
  <2>3. feed' \in Feeds
    BY <1>1, <2>1 DEF Feeds
  <2>4. /\ queue' \in [Subscriber -> Seq(Int)] /\ \A t \in Subscriber \ {s} : queue'[t] = queue[t]
    BY <1>1, <2>1
  <2> QED BY <1>2, <2>1, <2>2, <2>3, <2>4, ItEnds
<1>3. ASSUME PumpOverflow(s) PROVE StreamInv'
  BY <1>2, <1>3 DEF PumpOverflow, Joined, Serves
<1>4. ASSUME Notice(s) PROVE StreamInv'
  BY <1>2, <1>4 DEF Notice, Joined
<1>5. ASSUME NEW retry \in BOOLEAN, Refuse(s, retry) PROVE StreamInv'
  <2>1. /\ session' = [session EXCEPT ![s] = NoSession]
        /\ UNCHANGED feed /\ UNCHANGED queue /\ UNCHANGED <<worker, posted>>
    BY <1>5 DEF Refuse, feedVars
  <2>2. UNCHANGED client \/ (Serves(s) /\ client' =
          [client EXCEPT ![session[s].client] = Closed(session[s].client, retry)])
    BY <1>5 DEF Refuse, Serves
  <2>3. feed' \in Feeds /\ queue' \in [Subscriber -> Seq(Int)] /\ feed'.subscribers = feed.subscribers
        /\ \A t \in Subscriber \ {s} : queue'[t] = queue[t]
    BY <1>1, <2>1
  <2> QED BY <2>1, <2>2, <2>3, ItEnds
<1> QED BY <1>3, <1>4, <1>5
(* The hub takes a subscriber in, and starts the feed if there is none.    *)
LEMMA Subscribed ==
    ASSUME StreamInv, NEW s \in Subscriber, Subscribe(s)
    PROVE  /\ feed' \in Feeds /\ Ordered(feed', Started') /\ Started' \in Nat
           /\ worker' \in Seq(Workers) /\ UNCHANGED posted
           /\ queue' = [queue EXCEPT ![s] = <<>>] /\ s \in feed'.subscribers
           /\ \A c \in Client : Known(client[c], feed', Started')
           /\ \A t \in Subscriber : Joined(t) =>
                 t \in feed'.subscribers /\ feed'.born = feed.born /\ feed'.sequence = feed.sequence
<1>1. /\ feed \in Feeds /\ Ordered(feed, Started) /\ Started \in Nat /\ worker \in Seq(Workers)
      /\ client \in [Client -> Clients] /\ \A c \in Client : Known(client[c], feed, Started)
      /\ \A t \in Subscriber : Joined(t) => t \in feed.subscribers
  BY DEF StreamInv, StreamTypes, SessionOK, Started
<1>2. UNCHANGED posted /\ queue' = [queue EXCEPT ![s] = <<>>]
  BY DEF Subscribe
<1>3. CASE feed.born = 0
  <2>1. feed' = [NoFeed EXCEPT !.born = Started + 1, !.subscribers = {s}]
        /\ worker' = Append(worker, NewWorker)
    BY <1>3 DEF Subscribe
  <2>2. NewWorker \in Workers
    BY DEF NewWorker, Workers
  <2>3. worker' \in Seq(Workers) /\ Started' = Started + 1
    BY <1>1, <2>1, <2>2 DEF Started
  <2>4. /\ NoFeed \in Feeds /\ NoFeed.ring = <<>> /\ NoFeed.sequence = -1
    BY <1>1, NoFeedIsKnown DEF NoFeed
  <2>5. /\ feed'.born = Started + 1 /\ feed'.subscribers = {s} /\ feed'.ring = <<>>
        /\ feed'.sequence = -1
    BY <2>1 DEF NoFeed
  <2>10. feed' \in Feeds
    <3>1. Started + 1 \in Nat /\ {s} \in SUBSET Subscriber /\ <<>> \in Seq(Int) /\ -1 \in Int
      BY <1>1
    <3> QED BY <2>1, <3>1 DEF NoFeed, Feeds
  <2>6. Len(<<>>) = 0 /\ Run(<<>>, -1)
    BY DEF Run
  <2>7. Ordered(feed', Started')
    BY <1>1, <2>3, <2>5, <2>6 DEF Ordered
  <2>8. ASSUME NEW c \in Client PROVE Known(client[c], feed', Started')
    <3>1. Known(client[c], feed, Started) /\ client[c].remembers \in Nat
      BY <1>1 DEF Clients
    <3> QED BY <1>1, <2>3, <2>5, <3>1 DEF Known
  <2>9. \A t \in Subscriber : ~Joined(t)
    BY <1>1, <1>3 DEF Ordered
  <2> QED BY <1>1, <1>2, <2>3, <2>5, <2>7, <2>8, <2>9, <2>10
<1>4. CASE feed.born # 0
  <2>1. feed' = [feed EXCEPT !.subscribers = @ \cup {s}, !.teardown = "none"]
        /\ UNCHANGED worker /\ Started' = Started
    BY <1>4 DEF Subscribe, Started
  <2>2. /\ feed'.born = feed.born /\ feed'.subscribers = feed.subscribers \cup {s}
        /\ feed'.ring = feed.ring /\ feed'.sequence = feed.sequence
    BY <1>1, <2>1 DEF Feeds
  <2>3. feed' \in Feeds
    BY <1>1, <2>1 DEF Feeds
  <2>4. Ordered(feed', Started')
    BY <1>1, <1>4, <2>1, <2>2 DEF Ordered
  <2>5. ASSUME NEW c \in Client PROVE Known(client[c], feed', Started')
    BY <1>1, <2>1, <2>2 DEF Known
  <2> QED BY <1>1, <1>2, <2>1, <2>2, <2>3, <2>4, <2>5
<1> QED BY <1>3, <1>4

LEMMA JoinKeeps ==
    ASSUME StreamInv, NEW s \in Subscriber, Join(s)
    PROVE  StreamInv'
<1> DEFINE x == session[s]
           k == client[x.client]
           mode == ResumeMode(x.max, x.remembers, feed'.born, feed'.ring)
           y == [NoSession EXCEPT
                    !.phase = "accepted", !.client = session[s].client, !.born = feed'.born, !.mode = mode,
                    !.todo = Replay(mode, session[s].max, feed'.ring),
                    !.last = IF x.max # Nothing /\ x.remembers # 0 THEN x.max ELSE -1]
           z == IF x.gone THEN [x EXCEPT !.phase = "accepted"] ELSE y
<1>1. /\ Subscribe(s) /\ x.phase = "resolving" /\ UNCHANGED client
      /\ session' = [session EXCEPT ![s] = z]
  BY DEF Join
<1>2. /\ feed' \in Feeds /\ Ordered(feed', Started') /\ Started' \in Nat
      /\ worker' \in Seq(Workers) /\ UNCHANGED posted
      /\ queue' = [queue EXCEPT ![s] = <<>>] /\ s \in feed'.subscribers
      /\ \A c \in Client : Known(client[c], feed', Started')
      /\ \A t \in Subscriber : Joined(t) =>
            t \in feed'.subscribers /\ feed'.born = feed.born /\ feed'.sequence = feed.sequence
  BY <1>1, Subscribed
<1>3. /\ session \in [Subscriber -> Sessions] /\ x \in Sessions /\ queue \in [Subscriber -> Seq(Int)]
      /\ client \in [Client -> Clients] /\ SessionOK(s) /\ <<>> \in Seq(Int)
  BY DEF StreamInv, StreamTypes
<1>4. x.client \in Client /\ k \in Clients
  BY <1>1, <1>3 DEF SessionOK, Sessions
<1>5. y.phase = "accepted" /\ y.client = x.client /\ y.born = feed'.born /\ y.mode = mode /\ ~y.gone
      /\ y.todo = Replay(mode, x.max, feed'.ring)
      /\ y.last = IF x.max # Nothing /\ x.remembers # 0 THEN x.max ELSE -1
  BY NoSessionType DEF Sessions
<1>6. ASSUME ~x.gone PROVE y \in Sessions /\ Serving(y, k, feed', <<>>)
  <2>1. x.max = k.max /\ x.remembers = k.remembers
    BY <1>1, <1>3, <1>6 DEF SessionOK
  <2> DEFINE f == feed'
             n == Started'
             m == mode
             yy == y
  <2>2. /\ yy.phase = "accepted" /\ yy.born = f.born /\ yy.mode = m
        /\ yy.todo = Replay(m, k.max, f.ring)
        /\ yy.last = IF k.max # Nothing /\ k.remembers # 0 THEN k.max ELSE -1
        /\ m = ResumeMode(k.max, k.remembers, f.born, f.ring)
    BY <1>5, <2>1
  <2>3. k \in Clients /\ f \in Feeds /\ n \in Nat /\ Ordered(f, n) /\ Known(k, f, n)
    BY <1>2, <1>4
  <2> HIDE DEF f, n, m, yy, k
  <2>4. /\ Serving(yy, k, f, <<>>) /\ yy.todo \in Seq(Int) /\ yy.last \in Int
        /\ m \in {"fresh", "replayed", "gap_fill_required"}
    BY <2>2, <2>3, Joins
  <2>5. f.born \in Nat
    BY <2>3 DEF Feeds
  <2>6. y \in Sessions
    <3>1. /\ mode \in {"fresh", "replayed", "gap_fill_required"} /\ feed'.born \in Nat
          /\ Replay(mode, session[s].max, feed'.ring) \in Seq(Int)
          /\ (IF x.max # Nothing /\ x.remembers # 0 THEN x.max ELSE -1) \in Int
      BY <1>5, <2>4, <2>5 DEF f, m, yy
    <3> HIDE DEF mode
    <3> QED BY <1>4, <3>1, NoSessionType DEF Sessions
  <2> QED BY <2>4, <2>6 DEF f, yy
<1>7. z \in Sessions /\ z.phase = "accepted" /\ z.client = x.client /\ (z.gone <=> x.gone)
  <2>1. CASE x.gone
    BY <1>3, <2>1 DEF Sessions
  <2>2. CASE ~x.gone
    BY <1>5, <1>6, <2>2
  <2> QED BY <2>1, <2>2
<1>8. ASSUME ~x.gone PROVE Serving(z, k, feed', <<>>)
  BY <1>6, <1>8
<1> HIDE DEF y, z, mode
<1>9. session'[s] = z /\ queue'[s] = <<>>
  BY <1>1, <1>2, <1>3
<1>10. StreamTypes'
  BY <1>1, <1>2, <1>3, <1>7 DEF StreamInv, StreamTypes
<1>11. ASSUME NEW t \in Subscriber \ {s} PROVE Apart(s, t)
  <2>1. session'[t] = session[t] /\ queue'[t] = queue[t]
    BY <1>1, <1>2, <1>3
  <2>2. ASSUME Serves(t), Serves(s)' PROVE session'[s].client # session[t].client
    <3>1. Serves(s)
      BY <1>1, <1>7, <1>9, <2>2 DEF Serves
    <3> QED BY <1>7, <1>9, <2>2, <3>1, Alone
  <2> QED BY <1>1, <1>2, <2>1, <2>2 DEF Apart
<1>12. SessionOK(s)'
  <2>1. ~x.gone => k.phase = "connecting"
    BY <1>1, <1>3 DEF SessionOK, Serves
  <2> QED BY <1>1, <1>2, <1>4, <1>7, <1>8, <1>9, <2>1, ClientAssumption DEF SessionOK, Serves, Joined
<1>13. ASSUME NEW d \in Client PROVE Known(client[d], feed, Started)'
  BY <1>1, <1>2
<1> QED BY <1>2, <1>10, <1>11, <1>12, <1>13, OneTurn
(* A client `c` comes, leaves or loses its connection.                     *)
LEMMA ClientTurn ==
    ASSUME StreamInv, NEW c \in Client, NEW k \in Clients, Known(k, feed, Started),
           client' = [client EXCEPT ![c] = k],
           \/ UNCHANGED session /\ client[c].phase \notin {"open", "connecting"}
           \/ session' = Left(c),
           UNCHANGED <<feed, queue, worker, posted>>
    PROVE  StreamInv'
<1>1. /\ session \in [Subscriber -> Sessions] /\ client \in [Client -> Clients]
      /\ UNCHANGED feed /\ UNCHANGED queue /\ UNCHANGED worker /\ UNCHANGED posted
      /\ Started' = Started /\ Ordered(feed, Started)
      /\ \A d \in Client : Known(client[d], feed, Started)
  BY DEF StreamInv, StreamTypes, Started
<1>2. ASSUME NEW s \in Subscriber
      PROVE  /\ session'[s] \in Sessions
             /\ session'[s].phase = session[s].phase /\ session'[s].client = session[s].client
             /\ ~session'[s].gone => session'[s] = session[s] /\ (Serves(s) => session[s].client # c)
  <2>1. session[s] \in Sessions /\ SessionOK(s)
    BY <1>1 DEF StreamInv
  <2>2. CASE UNCHANGED session /\ client[c].phase \notin {"open", "connecting"}
    BY <2>1, <2>2 DEF SessionOK
  <2>3. CASE session' = Left(c) /\ session[s].client # c
    BY <2>1, <2>3 DEF Left
  <2>4. CASE session' = Left(c) /\ session[s].client = c
    <3>1. session'[s] = [NoSession EXCEPT !.phase = session[s].phase, !.client = c, !.gone = TRUE]
      BY <2>4 DEF Left
    <3>2. session[s].phase \in {"none", "resolving", "accepted", "live"}
      BY <2>1 DEF Sessions
    <3> QED BY <2>4, <3>1, <3>2, NoSessionType DEF Sessions
  <2> QED BY <2>2, <2>3, <2>4
<1>3. session' \in [Subscriber -> Sessions]
  <2>1. DOMAIN session' = Subscriber /\ session' = [s \in Subscriber |-> session'[s]]
    BY <1>1 DEF Left
  <2> QED BY <1>2, <2>1
<1>4. StreamTypes'
  BY <1>1, <1>3 DEF StreamInv, StreamTypes
<1>5. \A s \in Subscriber : (Serves(s)' => Serves(s)) /\ (Joined(s)' <=> Joined(s))
  BY <1>2 DEF Serves, Joined
<1>6. ASSUME NEW s \in Subscriber, ~session'[s].gone, session[s].phase # "none"
      PROVE  session'[s] = session[s] /\ Serves(s) /\ client'[session[s].client] = client[session[s].client]
  <2>1. session'[s] = session[s] /\ Serves(s) /\ session[s].client # c
    BY <1>2, <1>6 DEF Serves
  <2> QED BY <1>1, <2>1
<1>7. ASSUME NEW s \in Subscriber PROVE SessionOK(s)'
  <2>1. SessionOK(s)
    BY DEF StreamInv
  <2>2. session'[s].phase = session[s].phase /\ session'[s].client = session[s].client
    BY <1>2
  <2>3. CASE session'[s].gone \/ session[s].phase = "none"
    BY <1>1, <2>1, <2>2, <2>3 DEF SessionOK, Serves, Joined
  <2>4. CASE ~(session'[s].gone \/ session[s].phase = "none")
    <3>1. session'[s] = session[s] /\ client'[session[s].client] = client[session[s].client]
      BY <1>6, <2>4
    <3> QED BY <1>1, <2>1, <3>1 DEF SessionOK, Serves, Joined
  <2> QED BY <2>3, <2>4
<1>8. OneEach'
  BY <1>2, <1>5 DEF StreamInv, OneEach
<1>9. ASSUME NEW d \in Client PROVE Known(client[d], feed, Started)'
  <2>1. client'[d] = IF d = c THEN k ELSE client[d]
    BY <1>1
  <2> QED BY <1>1, <2>1
<1> QED BY <1>1, <1>4, <1>7, <1>8, <1>9 DEF StreamInv

LEMMA NewKnown ==
    ASSUME NEW n \in Nat, NEW f \in Feeds, Ordered(f, n),
           NEW k \in {NewClient, [NewClient EXCEPT !.phase = "waiting"]}
    PROVE  k \in Clients /\ Known(k, f, n)
<1>1. /\ k.max = -2 /\ k.remembers = 0 /\ k.heard = -2
      /\ k.skipped = FALSE /\ k.mixed = FALSE
  BY DEF NewClient, Nothing
<1>2. NewClient \in Clients
  <2>1. -2 \in Int /\ 0 \in Nat
    OBVIOUS
  <2> QED BY <2>1 DEF NewClient, Nothing, Clients
<1>3. k \in Clients
  <2>1. [NewClient EXCEPT !.phase = "waiting"] \in Clients
    <3> DEFINE new == NewClient
    <3>1. new \in Clients
      BY <1>2
    <3> HIDE DEF new
    <3>2. [new EXCEPT !.phase = "waiting"] \in Clients
      BY <3>1 DEF Clients
    <3> QED BY <3>2 DEF new
  <2> QED BY <1>2, <2>1
<1>4. f.sequence \in Int /\ f.sequence >= -1
  BY DEF Feeds, Ordered
<1>5. Known(k, f, n)
  BY <1>1, <1>4 DEF Known, Nothing
<1> QED BY <1>3, <1>5

LEMMA BrowserKeeps ==
    ASSUME StreamInv, NEW c \in Client, TicketRejected(c) \/ Visit(c) \/ Leave(c) \/ Drop(c)
    PROVE  StreamInv'
<1>1. /\ client \in [Client -> Clients] /\ client[c] \in Clients /\ Known(client[c], feed, Started)
      /\ feed \in Feeds /\ Started \in Nat /\ Ordered(feed, Started)
  BY DEF StreamInv, StreamTypes, Started
<1>2. \A retry \in BOOLEAN : Closed(c, retry) \in Clients /\ Known(Closed(c, retry), feed, Started)
  BY <1>1, ClosedKnown
<1>3. \A k \in {NewClient, [NewClient EXCEPT !.phase = "waiting"]} :
         k \in Clients /\ Known(k, feed, Started)
  BY <1>1, NewKnown
<1>4. CASE TicketRejected(c)
  BY <1>2, <1>4, ClientTurn DEF TicketRejected
<1>5. CASE Visit(c)
  <2> DEFINE k == [NewClient EXCEPT !.phase = "waiting"]
  <2>1. k \in Clients /\ Known(k, feed, Started)
    BY <1>3
  <2>2. client' = [client EXCEPT ![c] = k] /\ UNCHANGED session /\ UNCHANGED <<feed, queue, worker, posted>>
        /\ client[c].phase \notin {"open", "connecting"}
    BY <1>5 DEF Visit
  <2> HIDE DEF k
  <2> QED BY <2>1, <2>2, ClientTurn
<1>6. CASE Leave(c)
  <2>1. NewClient \in Clients /\ Known(NewClient, feed, Started)
    BY <1>3
  <2> QED BY <1>6, <2>1, ClientTurn DEF Leave, feedVars
<1>7. CASE Drop(c)
  BY <1>2, <1>7, ClientTurn DEF Drop, feedVars
<1> QED BY <1>4, <1>5, <1>6, <1>7

LEMMA RestartKeeps ==
    ASSUME StreamInv, ApiRestarts
    PROVE  StreamInv'
<1>1. /\ worker \in Seq(Workers) /\ client \in [Client -> Clients] /\ Started \in Nat
      /\ feed \in Feeds /\ \A d \in Client : Known(client[d], feed, Started)
  BY DEF StreamInv, StreamTypes, Started
<1>2. /\ feed' = NoFeed /\ queue' = [s \in Subscriber |-> <<>>]
      /\ worker' = [w \in DOMAIN worker |-> Ended] /\ posted' = <<>>
      /\ session' = [s \in Subscriber |-> NoSession]
      /\ client' = [c \in Client |-> IF client[c].phase \in {"connecting", "open"}
                                     THEN Closed(c, TRUE) ELSE client[c]]
  BY DEF ApiRestarts
<1>3. worker' \in Seq(Workers) /\ Len(worker') = Len(worker)
  <2>1. Ended \in Workers
    BY DEF Ended, Workers
  <2>2. DOMAIN worker = 1 .. Len(worker) /\ Len(worker) \in Nat
    BY <1>1
  <2> QED BY <1>2, <2>1, <2>2
<1>4. Started' = Started
  BY <1>3 DEF Started
<1>5. /\ NoFeed \in Feeds /\ Ordered(NoFeed, Started) /\ NoFeed.subscribers = {}
      /\ \A k \in Clients, f \in Feeds : Known(k, f, Started) => Known(k, NoFeed, Started)
  BY <1>1, NoFeedIsKnown
<1>6. \A c \in Client : Closed(c, TRUE) \in Clients /\ Known(Closed(c, TRUE), feed, Started)
  BY <1>1, ClosedKnown
<1>7. /\ client' \in [Client -> Clients]
      /\ \A c \in Client : Known(client'[c], feed, Started)
  BY <1>1, <1>2, <1>6
<1>8. StreamTypes'
  <2>1. <<>> \in Seq(Int) /\ <<>> \in Seq({"connected", "disconnected"})
    OBVIOUS
  <2> QED BY <1>2, <1>3, <1>5, <1>7, <2>1, NoSessionType DEF StreamTypes
<1>9. \A s \in Subscriber : session'[s].phase = "none" /\ session'[s].client = None /\ ~session'[s].gone
  BY <1>2, NoSessionType
<1>10. ASSUME NEW s \in Subscriber PROVE SessionOK(s)'
  BY <1>9 DEF SessionOK, Serves, Joined
<1>11. OneEach'
  BY <1>9 DEF OneEach, Serves
<1>12. Ordered(feed, Started)' /\ \A c \in Client : Known(client[c], feed, Started)'
  BY <1>1, <1>2, <1>4, <1>5, <1>7
<1> QED BY <1>8, <1>10, <1>11, <1>12 DEF StreamInv

LEMMA StreamInit == MarketInit => StreamInv
<1> SUFFICES ASSUME MarketInit PROVE StreamInv
  OBVIOUS
<1>1. /\ feed = NoFeed /\ queue = [s \in Subscriber |-> <<>>] /\ worker = <<>> /\ posted = <<>>
      /\ session = [s \in Subscriber |-> NoSession] /\ client = [c \in Client |-> NewClient]
  BY DEF MarketInit, FeedInit
<1>2. <<>> \in Seq(Int) /\ <<>> \in Seq({"connected", "disconnected"}) /\ <<>> \in Seq(Workers)
  OBVIOUS
<1>3. Started = 0 /\ Started \in Nat
  BY <1>1 DEF Started
<1>4. NoFeed \in Feeds /\ Ordered(NoFeed, Started)
  BY <1>3, NoFeedIsKnown
<1>5. NewClient \in Clients /\ Known(NewClient, NoFeed, Started)
  BY <1>3, <1>4, NewKnown
<1>6. StreamTypes
  BY <1>1, <1>2, <1>4, <1>5, NoSessionType DEF StreamTypes
<1>7. ASSUME NEW s \in Subscriber PROVE SessionOK(s) /\ ~Serves(s)
  BY <1>1, NoSessionType DEF SessionOK, Serves, Joined
<1> QED BY <1>1, <1>4, <1>5, <1>6, <1>7 DEF StreamInv, OneEach

LEMMA StreamNext == StreamInv /\ [MarketNext]_marketVars => StreamInv'
<1> SUFFICES ASSUME StreamInv, [MarketNext]_marketVars PROVE StreamInv'
  OBVIOUS
<1>1. ASSUME UpstreamNext, UNCHANGED <<session, client>> PROVE StreamInv'
  BY <1>1, UpstreamKeeps
<1>2. ASSUME NEW s \in Subscriber, Serve(s) PROVE StreamInv'
  BY <1>2, EndsKeep, JoinKeeps, SendStateKeeps, SendReplayedKeeps, PumpKeeps, HeartbeatKeeps DEF Serve
<1>3. ASSUME NEW c \in Client, NEW s \in Subscriber, Connect(c, s) PROVE StreamInv'
  BY <1>3, ConnectKeeps
<1>4. ASSUME NEW c \in Client, TicketRejected(c) \/ Visit(c) \/ Leave(c) \/ Drop(c) PROVE StreamInv'
  BY <1>4, BrowserKeeps
<1>5. ASSUME ApiRestarts PROVE StreamInv'
  BY <1>5, RestartKeeps
<1>6. ASSUME UNCHANGED marketVars PROVE StreamInv'
  <2>1. UNCHANGED <<feed, queue, session, client>> /\ UNCHANGED worker /\ UNCHANGED posted
    BY <1>6 DEF marketVars
  <2>2. worker \in Seq(Workers) /\ posted \in Seq({"connected", "disconnected"})
    BY DEF StreamInv, StreamTypes
  <2> QED BY <2>1, <2>2, WorkersMove
<1> QED BY <1>1, <1>2, <1>3, <1>4, <1>5, <1>6 DEF MarketNext

(* No chart misses an event without being told, whatever connections       *)
(* break, queues overflow, feeds start again and processes restart, for    *)
(* any number of charts, sessions and feeds and any sizes of the ring and  *)
(* the queues (decide_resume, FeedHub, run_stream_session,                 *)
(* useMarketStream), unless its maxSequence was another feed's.            *)
THEOREM SkipsAreNoticed == MarketSpec => []NothingIsSkipped
<1>1. StreamInv => NothingIsSkipped
  BY DEF StreamInv, NothingIsSkipped, Known
<1> QED BY <1>1, StreamInit, StreamNext, PTL DEF MarketSpec
=============================================================================
