--------------------------- MODULE OperationsProofs ---------------------------
(***************************************************************************)
(* Proofs about ConnectionAccess and CandleGaps, for any number of         *)
(* requests, streams, tickets and jobs, every calendar and every bound.    *)
(* The secret that a row names is kept, a ticket is used once, and a       *)
(* disabled connection gives no access: the first rests on what each       *)
(* request knows of the secrets that it is to name or to delete. No candle *)
(* is asked for twice, and a backfill that was asked for a gap settles it  *)
(* if and only if it filled it: they rest on the shape of internal gaps,   *)
(* which are maximal runs of missing candles and never overlap, and on the *)
(* advisory lock, under which the answer about the other jobs stays true   *)
(* until the job is inserted.                                              *)
(***************************************************************************)
EXTENDS ConnectionAccess, CandleGaps, FiniteSetTheorems, WellFoundedInduction, TLAPS

Statuses == {"none", "verifying", "verified", "invalid", "disabled", "deleted"}

(* The secrets that a row, a request or a session may name.                *)
Refs == 0 .. written

Connections ==
    [status : Statuses, outcome : {"not_verified", "success", "failed"}, ref : Refs]

Phases ==
    {"idle", "creating", "updating", "forgetting", "loading", "verifying", "disabling",
     "deleting", "destroying", "selecting"}

Calls == [phase : Phases, read : Connections, ref : Refs]

AccessTypes ==
    /\ written \in Nat /\ files \subseteq 1 .. written
    /\ row \in Connections
    /\ called \in [Caller -> Calls]
    /\ session \in [Session -> [phase : {"none", "resolving", "reading"}, ref : Refs]]
    /\ clock \in Nat /\ expiry \in [Ticket -> Nat]

(* A secret that was written and that no row names yet.                    *)
Pending(q) == called[q].phase \in {"creating", "updating"}

(* Requests that go on holding the event loop between two statements.      *)
Replaces(q) == called[q].phase \in {"updating", "forgetting"}

(* What a request is about to name is on the disk and is its own: neither  *)
(* the row nor another request names it. (Nothing is named any more once   *)
(* the row is deleted.)                                                    *)
PendingOK ==
    \A q \in Caller : Pending(q) =>
        /\ called[q].ref \in 1 .. written
        /\ row.status # "deleted" => called[q].ref \in files
        /\ Exists => called[q].ref # row.ref
        /\ \A p \in Caller \ {q} :
              Pending(p) \/ called[p].phase = "forgetting" => called[p].ref # called[q].ref

(* What a request is about to delete, the row does not name.               *)
DroppedOK ==
    \A q \in Caller :
        /\ called[q].phase = "updating" =>
              /\ row.status # "none" /\ called[q].read.ref # called[q].ref
              /\ Exists => called[q].read.ref = row.ref
        /\ called[q].phase = "forgetting" /\ Exists => called[q].ref # row.ref
        /\ called[q].phase = "destroying" => row.status = "deleted"

(* One request at a time replaces the secret.                              *)
OneReplaces == \A p, q \in Caller : Replaces(p) /\ Replaces(q) => p = q

(* A stream that reads has the row locked.                                 *)
ReadersOK == \A s \in Session : session[s].phase = "reading" => Exists /\ session[s].ref = row.ref

SecretsOK ==
    /\ Exists => row.ref \in files
    /\ PendingOK /\ DroppedOK /\ OneReplaces /\ ReadersOK

(* A ticket that was accepted is remembered until it has expired.          *)
TicketsOK ==
    /\ ~twice /\ redeemed \subseteq Ticket
    /\ \A t \in redeemed : expiry[t] > 0 /\ (expiry[t] > clock => t \in used)

ClosedOK == closed => ~selected

AInv == AccessTypes /\ SecretsOK /\ TicketsOK /\ ClosedOK
-----------------------------------------------------------------------------
(* What was typed stays typed when a secret is written.                    *)
LEMMA Grows ==
    ASSUME written \in Nat, written' = written \/ written' = written + 1
    PROVE  Refs \subseteq Refs' /\ Connections \subseteq Connections' /\ Calls \subseteq Calls'
<1>1. Refs \subseteq Refs'
  BY DEF Refs
<1>2. Connections \subseteq Connections'
  BY <1>1 DEF Connections
<1> QED BY <1>1, <1>2 DEF Calls

(* A request that becomes something it may be.                             *)
LEMMA CalledType ==
    ASSUME AccessTypes, written' = written \/ written' = written + 1,
           NEW q \in Caller, NEW phase \in Phases, NEW read \in Connections', NEW ref \in Refs',
           Becomes(q, phase, read, ref)
    PROVE  called' \in [Caller -> Calls']
<1>1. [phase |-> phase, read |-> read, ref |-> ref] \in Calls'
  BY DEF Calls
<1>2. called \in [Caller -> Calls']
  BY Grows DEF AccessTypes
<1> QED BY <1>1, <1>2 DEF Becomes

(* What a flush writes (the ORM).                                          *)
LEMMA FlushedType ==
    ASSUME row \in Connections, NEW read \in Connections, NEW new \in Connections
    PROVE  /\ Flushed(read, new) \in Connections
           /\ Flushed(read, new).status \in {row.status, new.status}
           /\ Flushed(read, new).ref = IF new.ref # read.ref THEN new.ref ELSE row.ref
BY DEF Flushed, Connections

LEMMA NoConnectionType ==
    ASSUME written \in Nat
    PROVE  NoConnection \in Connections /\ 0 \in Refs
BY DEF NoConnection, Connections, Statuses, Refs

LEMMA TypesPreserved == AccessTypes /\ [AccessNext]_accessVars => AccessTypes'
<1> SUFFICES ASSUME AccessTypes, [AccessNext]_accessVars PROVE AccessTypes'
  OBVIOUS
<1> USE DEF AccessTypes
<1>1. NoConnection \in Connections /\ 0 \in Refs
  BY NoConnectionType
<1>2. ASSUME NEW q \in Caller PROVE
        /\ called[q] \in Calls /\ called[q].read \in Connections /\ called[q].ref \in Refs
  BY DEF Calls
<1>3. ASSUME written' = written PROVE Refs' = Refs /\ Connections' = Connections /\ Calls' = Calls
  BY <1>3 DEF Refs, Connections, Calls
<1>4. ASSUME NEW q \in Caller, NEW phase \in Phases, NEW read \in Connections, NEW ref \in Refs,
             Becomes(q, phase, read, ref), UNCHANGED <<written, session, ticketVars>>,
             files' \subseteq files, row' \in Connections
      PROVE  AccessTypes'
  <2>1. called' \in [Caller -> Calls']
    BY <1>3, <1>4, CalledType
  <2> QED BY <1>3, <1>4, <2>1 DEF ticketVars
<1>5. ASSUME NEW q \in Caller, NEW phase \in Phases, NEW read \in Connections, Put,
             Becomes(q, phase, read, written + 1), UNCHANGED <<row, session, ticketVars>>
      PROVE  AccessTypes'
  <2>1. written' = written + 1 /\ files' = files \cup {written + 1}
    BY <1>5 DEF Put
  <2>2. Refs \subseteq Refs' /\ Connections \subseteq Connections'
    BY <2>1, Grows
  <2>3. written + 1 \in Refs'
    BY <2>1 DEF Refs
  <2>4. called' \in [Caller -> Calls']
    BY <1>5, <2>1, <2>2, <2>3, CalledType
  <2>5. session \in [Session -> [phase : {"none", "resolving", "reading"}, ref : Refs']]
    BY <2>2
  <2> QED BY <1>5, <2>1, <2>2, <2>4, <2>5 DEF ticketVars
<1>6. ASSUME NEW q \in Caller, CreatePuts(q) \/ UpdatePuts(q) PROVE AccessTypes'
  BY <1>1, <1>5, <1>6 DEF CreatePuts, UpdatePuts, rowVars, Phases
<1>7. ASSUME NEW q \in Caller, CreateCommits(q) PROVE AccessTypes'
  <2>1. row' \in Connections
    BY <1>1, <1>2, <1>7 DEF CreateCommits, Connections, Statuses, NoConnection
  <2> QED BY <1>1, <1>4, <1>7, <2>1 DEF CreateCommits, Phases
<1>8. ASSUME NEW q \in Caller, UpdateCommits(q) PROVE AccessTypes'
  <2> DEFINE new == [NoConnection EXCEPT !.status = "verifying", !.ref = called[q].ref]
  <2>1. new \in Connections
    BY <1>1, <1>2 DEF Connections, Statuses, NoConnection
  <2>2. row' = Flushed(called[q].read, new) /\ Becomes(q, "forgetting", new, called[q].read.ref)
    BY <1>8 DEF UpdateCommits
  <2>3. called[q].read.ref \in Refs
    BY <1>2 DEF Connections
  <2> HIDE DEF new
  <2>4. row' \in Connections
    BY <1>2, <2>1, <2>2, FlushedType
  <2> QED BY <1>4, <1>8, <2>1, <2>2, <2>3, <2>4 DEF UpdateCommits, Phases
<1>9. ASSUME NEW q \in Caller, PutFails(q) \/ DeleteForgets(q) PROVE AccessTypes'
  BY <1>1, <1>4, <1>9 DEF PutFails, DeleteForgets, rowVars, Phases
<1>10. ASSUME NEW q \in Caller, UpdateForgets(q) PROVE AccessTypes'
  BY <1>1, <1>2, <1>4, <1>10 DEF UpdateForgets, rowVars, Phases
<1>11. ASSUME NEW q \in Caller, VerifyReads(q) \/ DisableReads(q) \/ DeleteReads(q) PROVE AccessTypes'
  BY <1>1, <1>4, <1>11 DEF VerifyReads, DisableReads, DeleteReads, rowVars, Phases
<1>12. ASSUME NEW q \in Caller, VerifyLoads(q) PROVE AccessTypes'
  <2> DEFINE new == [called[q].read EXCEPT !.status = "verifying"]
  <2>1. new \in Connections
    BY <1>2 DEF Connections, Statuses
  <2>2. row' \in {row, Flushed(called[q].read, new)} /\ Becomes(q, "verifying", new, 0)
    BY <1>12 DEF VerifyLoads
  <2> HIDE DEF new
  <2>3. row' \in Connections
    BY <1>2, <2>1, <2>2, FlushedType
  <2> QED BY <1>1, <1>4, <1>12, <2>1, <2>2, <2>3 DEF VerifyLoads, Phases
<1>13. ASSUME NEW q \in Caller, NEW success \in BOOLEAN, VerifyEnds(q, success) PROVE AccessTypes'
  <2> DEFINE new == [called[q].read EXCEPT !.status = IF success THEN "verified" ELSE "invalid",
                                           !.outcome = IF success THEN "success" ELSE "failed"]
  <2>1. new \in Connections
    BY <1>2 DEF Connections, Statuses
  <2>2. row' = Flushed(called[q].read, new)
    BY <1>13 DEF VerifyEnds
  <2> HIDE DEF new
  <2>3. row' \in Connections
    BY <1>2, <2>1, <2>2, FlushedType
  <2> QED BY <1>1, <1>4, <1>13, <2>3 DEF VerifyEnds, Phases
<1>14. ASSUME NEW q \in Caller, DisableCommits(q) PROVE AccessTypes'
  <2> DEFINE new == [called[q].read EXCEPT !.status = "disabled"]
  <2>1. new \in Connections
    BY <1>2 DEF Connections, Statuses
  <2>2. row' = Flushed(called[q].read, new)
    BY <1>14 DEF DisableCommits
  <2> HIDE DEF new
  <2>3. row' \in Connections
    BY <1>2, <2>1, <2>2, FlushedType
  <2> QED BY <1>1, <1>4, <1>14, <2>3 DEF DisableCommits, Phases
<1>15. ASSUME NEW q \in Caller, DeleteCommits(q) PROVE AccessTypes'
  <2>1. row' \in Connections
    BY <1>1, <1>15 DEF DeleteCommits, Connections, Statuses, NoConnection
  <2>2. called[q].read.ref \in Refs
    BY <1>2 DEF Connections
  <2> QED BY <1>1, <1>4, <1>15, <2>1, <2>2 DEF DeleteCommits, Phases
<1>16. ASSUME NEW q \in Caller, SelectReads(q) \/ SelectCommits(q) \/ Abandoned(q) PROVE AccessTypes'
  BY <1>1, <1>4, <1>16 DEF SelectReads, SelectCommits, Abandoned, rowVars, Phases
<1>17. ASSUME NEW t \in Ticket, Issue(t) PROVE AccessTypes'
  <2>1. clock + Ttl \in Nat
    BY AccessAssumption
  <2> QED BY <1>3, <1>17, <2>1 DEF Issue, rowVars
<1>18. ASSUME NEW s \in Session, NEW t \in Ticket, NEW time \in 0 .. MaxClock, Redeem(s, t, time)
       PROVE  AccessTypes'
  <2>1. session' = session \/ session' = [session EXCEPT ![s].phase = "resolving"]
    BY <1>18 DEF Redeem
  <2>2. time \in Nat
    BY AccessAssumption
  <2> QED BY <1>3, <1>18, <2>1, <2>2 DEF Redeem, rowVars
<1>19. ASSUME NEW s \in Session, AccessReads(s) \/ AccessLoads(s) PROVE AccessTypes'
  <2>1. row.ref \in Refs
    BY DEF Connections
  <2>2. [phase |-> "reading", ref |-> row.ref]
          \in [phase : {"none", "resolving", "reading"}, ref : Refs]
        /\ NoSession \in [phase : {"none", "resolving", "reading"}, ref : Refs]
    BY <1>1, <2>1 DEF NoSession
  <2>3. session' \in [Session -> [phase : {"none", "resolving", "reading"}, ref : Refs]]
    BY <1>19, <2>2 DEF AccessReads, AccessLoads
  <2> QED BY <1>3, <1>19, <2>3 DEF AccessReads, AccessLoads, rowVars, ticketVars
<1>20. ASSUME ProcessEnds PROVE AccessTypes'
  <2>1. Idle \in Calls /\ NoSession \in [phase : {"none", "resolving", "reading"}, ref : Refs]
    BY <1>1 DEF Idle, NoSession, Calls, Phases
  <2> QED BY <1>3, <1>20, <2>1 DEF ProcessEnds, rowVars
<1>21. CASE SelectAnother \/ TimePasses \/ UNCHANGED accessVars
  <2>1. /\ UNCHANGED <<written, files, row, called, session, expiry>>
        /\ clock' = clock \/ clock' = clock + 1
    BY <1>21 DEF SelectAnother, TimePasses, accessVars, rowVars, ticketVars
  <2> QED BY <1>3, <2>1
<1> HIDE DEF AccessTypes
<1>22. ASSUME NEW q \in Caller, Handled(q) PROVE AccessTypes'
  BY <1>6, <1>7, <1>8, <1>9, <1>10, <1>11, <1>12, <1>13, <1>14, <1>15, <1>16, <1>22 DEF Handled
<1> QED
  BY <1>17, <1>18, <1>19, <1>20, <1>21, <1>22 DEF AccessNext
-----------------------------------------------------------------------------
(* The secrets that the other requests are to name stay theirs.             *)
LEMMA PendingKept ==
    ASSUME PendingOK, NEW q \in Caller, \A p \in Caller \ {q} : called'[p] = called[p],
           called'[q].phase \notin {"creating", "updating"}, written' = written,
           \A p \in Caller \ {q} : Pending(p) =>
              /\ row'.status # "deleted" => called[p].ref \in files'
              /\ Exists' => called[p].ref # row'.ref
              /\ called'[q].phase = "forgetting" => called'[q].ref # called[p].ref
    PROVE  PendingOK'
<1> SUFFICES ASSUME NEW p \in Caller, Pending(p)'
             PROVE  /\ called'[p].ref \in 1 .. written'
                    /\ row'.status # "deleted" => called'[p].ref \in files'
                    /\ Exists' => called'[p].ref # row'.ref
                    /\ \A r \in Caller \ {p} :
                          Pending(r)' \/ called'[r].phase = "forgetting"
                            => called'[r].ref # called'[p].ref
  BY DEF PendingOK
<1>1. p # q /\ Pending(p) /\ called'[p] = called[p]
  BY DEF Pending
<1>2. ASSUME NEW r \in Caller \ {p}, Pending(r)' \/ called'[r].phase = "forgetting"
      PROVE  called'[r].ref # called'[p].ref
  <2>1. CASE r = q
    BY <1>1, <1>2, <2>1 DEF Pending
  <2>2. CASE r # q
    BY <1>1, <1>2, <2>2 DEF Pending, PendingOK
  <2> QED BY <2>1, <2>2
<1> QED BY <1>1, <1>2 DEF PendingOK

(* A request that neither replaces nor deletes a secret, and leaves the    *)
(* row with the one it has.                                                *)
LEMMA SameSecret ==
    ASSUME AccessTypes, SecretsOK, NEW q \in Caller,
           NEW phase \in Phases \ {"creating", "updating", "forgetting", "destroying"},
           NEW read, NEW ref, Becomes(q, phase, read, ref), UNCHANGED <<files, written, session>>,
           row' = row \/ (Exists /\ row'.status \notin {"none", "deleted"} /\ row'.ref = row.ref)
    PROVE  SecretsOK'
<1>1. /\ called'[q].phase = phase
      /\ \A p \in Caller \ {q} : called'[p] = called[p]
  BY DEF AccessTypes, Becomes
<1>2. Exists' <=> Exists
  BY DEF Exists
<1>3. row'.ref = row.ref
  OBVIOUS
<1>4. row'.status = row.status \/ (Exists /\ row'.status \notin {"none", "deleted"})
  OBVIOUS
<1>5. row'.status # "deleted" => row.status # "deleted"
  BY <1>4 DEF Exists
<1>6. (Exists => row.ref \in files)'
  BY <1>2, <1>3 DEF SecretsOK
<1>7. PendingOK'
  BY <1>1, <1>2, <1>3, <1>5, PendingKept DEF SecretsOK, PendingOK
<1>8. DroppedOK'
  BY <1>1, <1>2, <1>3, <1>4 DEF SecretsOK, DroppedOK, Exists
<1>9. OneReplaces'
  BY <1>1 DEF SecretsOK, OneReplaces, Replaces
<1>10. ReadersOK'
  BY <1>2, <1>3 DEF SecretsOK, ReadersOK
<1> QED BY <1>6, <1>7, <1>8, <1>9, <1>10 DEF SecretsOK

(* A new secret is nobody's yet (create, update).                          *)
LEMMA SecretWritten ==
    ASSUME AccessTypes, SecretsOK, NEW q \in Caller, CreatePuts(q) \/ UpdatePuts(q)
    PROVE  SecretsOK'
<1>1. PICK phase \in {"creating", "updating"} :
        /\ Becomes(q, phase, IF phase = "updating" THEN row ELSE NoConnection, written + 1)
        /\ phase = "updating" => LoopFree /\ Exists
  BY DEF CreatePuts, UpdatePuts
<1>2. /\ called'[q].phase = phase /\ called'[q].ref = written + 1
      /\ phase = "updating" => called'[q].read = row
      /\ \A p \in Caller \ {q} : called'[p] = called[p]
  BY <1>1 DEF AccessTypes, Becomes
<1>3. /\ UNCHANGED <<row, session>> /\ written' = written + 1 /\ files' = files \cup {written + 1}
      /\ written \in Nat
  BY DEF CreatePuts, UpdatePuts, Put, rowVars, AccessTypes
<1>4. /\ row.ref \in 0 .. written
      /\ \A p \in Caller : called[p].ref \in 0 .. written
  BY DEF AccessTypes, Connections, Calls, Refs
<1>5. Exists' <=> Exists
  BY <1>3 DEF Exists
<1>6. PendingOK'
  BY <1>2, <1>3, <1>4, <1>5 DEF SecretsOK, PendingOK, Pending
<1>7. DroppedOK'
  BY <1>1, <1>2, <1>3, <1>4, <1>5 DEF SecretsOK, DroppedOK, Exists
<1>8. OneReplaces'
  BY <1>1, <1>2 DEF SecretsOK, OneReplaces, Replaces, LoopFree
<1>9. ReadersOK'
  BY <1>3, <1>5 DEF SecretsOK, ReadersOK
<1>10. (Exists => row.ref \in files)'
  BY <1>3, <1>5 DEF SecretsOK
<1> QED BY <1>6, <1>7, <1>8, <1>9, <1>10 DEF SecretsOK

(* The row names it (create), ...                                          *)
LEMMA SecretNamed ==
    ASSUME AccessTypes, SecretsOK, NEW q \in Caller, CreateCommits(q)
    PROVE  SecretsOK'
<1>1. /\ called[q].phase = "creating" /\ row.status = "none"
      /\ row'.status = "verifying" /\ row'.ref = called[q].ref
      /\ UNCHANGED <<files, written, session>>
  BY DEF CreateCommits, NoConnection
<1>2. called'[q].phase = "idle" /\ \A p \in Caller \ {q} : called'[p] = called[p]
  BY DEF CreateCommits, AccessTypes, Becomes
<1>3. ~Exists /\ Exists' /\ Pending(q)
  BY <1>1 DEF Exists, Pending
<1>4. \A p \in Caller \ {q} : Pending(p) => called[p].ref # called[q].ref
  BY <1>3 DEF SecretsOK, PendingOK
<1>5. PendingOK'
  BY <1>1, <1>2, <1>4, PendingKept DEF SecretsOK, PendingOK
<1>6. DroppedOK'
  <2>1. \A p \in Caller : called[p].phase \notin {"updating", "destroying"}
    BY <1>1 DEF SecretsOK, DroppedOK
  <2>2. \A p \in Caller \ {q} : called[p].phase = "forgetting" => called[p].ref # called[q].ref
    BY <1>3 DEF SecretsOK, PendingOK
  <2> QED BY <1>1, <1>2, <2>1, <2>2 DEF DroppedOK
<1>7. OneReplaces'
  BY <1>2 DEF SecretsOK, OneReplaces, Replaces
<1>8. ReadersOK'
  BY <1>1, <1>3 DEF SecretsOK, ReadersOK
<1>9. (Exists => row.ref \in files)'
  BY <1>1, <1>3 DEF SecretsOK, PendingOK
<1> QED BY <1>5, <1>6, <1>7, <1>8, <1>9 DEF SecretsOK

(* ... instead of the old one, which is to be deleted (update).            *)
LEMMA SecretReplaced ==
    ASSUME AccessTypes, SecretsOK, NEW q \in Caller, UpdateCommits(q)
    PROVE  SecretsOK'
<1> DEFINE new == [NoConnection EXCEPT !.status = "verifying", !.ref = called[q].ref]
<1>1. /\ called[q].phase = "updating" /\ Exists /\ Unlocked
      /\ row' = Flushed(called[q].read, new)
      /\ Becomes(q, "forgetting", new, called[q].read.ref)
      /\ UNCHANGED <<files, written, session>>
  BY DEF UpdateCommits
<1>2. new.status = "verifying" /\ new.ref = called[q].ref
  BY DEF NoConnection
<1> HIDE DEF new
<1>3. /\ called[q].read.ref # called[q].ref /\ called[q].read.ref = row.ref
      /\ Pending(q) /\ Replaces(q)
  BY <1>1 DEF SecretsOK, DroppedOK, Pending, Replaces
<1>4. row'.ref = called[q].ref /\ row'.status \notin {"none", "deleted"}
  BY <1>1, <1>2, <1>3 DEF Flushed, Exists
<1>5. /\ called'[q].phase = "forgetting" /\ called'[q].ref = row.ref
      /\ \A p \in Caller \ {q} : called'[p] = called[p]
  BY <1>1, <1>3 DEF AccessTypes, Becomes
<1>6. Exists' /\ row.status # "deleted"
  BY <1>1, <1>4 DEF Exists
<1>7. \A p \in Caller \ {q} : Pending(p) =>
         called[p].ref \in files /\ called[p].ref # called[q].ref /\ called[p].ref # row.ref
  BY <1>1, <1>3, <1>6 DEF SecretsOK, PendingOK
<1>8. PendingOK'
  BY <1>1, <1>4, <1>5, <1>7, PendingKept DEF SecretsOK
<1>9. DroppedOK'
  <2>1. \A p \in Caller \ {q} : ~Replaces(p)
    BY <1>3 DEF SecretsOK, OneReplaces
  <2>2. \A p \in Caller : called[p].phase # "destroying"
    BY <1>6 DEF SecretsOK, DroppedOK
  <2>3. called'[q].ref # row'.ref
    BY <1>3, <1>4, <1>5
  <2> QED BY <1>5, <2>1, <2>2, <2>3 DEF DroppedOK, Replaces
<1>10. OneReplaces'
  BY <1>3, <1>5 DEF SecretsOK, OneReplaces, Replaces
<1>11. ReadersOK'
  BY <1>1 DEF ReadersOK, Unlocked
<1>12. (Exists => row.ref \in files)'
  BY <1>1, <1>3, <1>4, <1>6 DEF SecretsOK, PendingOK
<1> QED BY <1>8, <1>9, <1>10, <1>11, <1>12 DEF SecretsOK

(* A secret is deleted that was not named (update, create), ...            *)
LEMMA SecretDropped ==
    ASSUME AccessTypes, SecretsOK, NEW q \in Caller, PutFails(q) \/ UpdateForgets(q)
    PROVE  SecretsOK'
<1>1. /\ called[q].phase \in {"creating", "updating", "forgetting"}
      /\ files' = files \ {called[q].ref} /\ UNCHANGED <<row, written, session>>
  BY DEF PutFails, UpdateForgets, rowVars
<1>2. PICK phase \in {"idle", "loading"} : \E read, ref : Becomes(q, phase, read, ref)
  BY DEF PutFails, UpdateForgets
<1>3. called'[q].phase = phase /\ \A p \in Caller \ {q} : called'[p] = called[p]
  BY <1>2 DEF AccessTypes, Becomes
<1>4. Exists => called[q].ref # row.ref
  BY <1>1 DEF SecretsOK, PendingOK, DroppedOK, Pending
<1>5. Exists' <=> Exists
  BY <1>1 DEF Exists
<1>6. \A p \in Caller \ {q} : Pending(p) => called[p].ref # called[q].ref
  BY <1>1 DEF SecretsOK, PendingOK, Pending
<1>7. \A p \in Caller \ {q} : Pending(p) =>
         /\ row'.status # "deleted" => called[p].ref \in files'
         /\ Exists' => called[p].ref # row'.ref
  BY <1>1, <1>5, <1>6 DEF SecretsOK, PendingOK
<1>8. PendingOK'
  BY <1>1, <1>3, <1>7, PendingKept DEF SecretsOK
<1>9. DroppedOK'
  BY <1>1, <1>3, <1>5 DEF SecretsOK, DroppedOK
<1>10. OneReplaces'
  BY <1>3 DEF SecretsOK, OneReplaces, Replaces
<1>11. ReadersOK' /\ (Exists => row.ref \in files)'
  BY <1>1, <1>4, <1>5 DEF SecretsOK, ReadersOK
<1> QED BY <1>8, <1>9, <1>10, <1>11 DEF SecretsOK

(* ... or whose row is gone (delete).                                      *)
LEMMA RowDeleted ==
    ASSUME AccessTypes, SecretsOK, NEW q \in Caller, DeleteCommits(q) \/ DeleteForgets(q)
    PROVE  SecretsOK'
<1>1. row'.status = "deleted" /\ UNCHANGED <<written, session>>
  BY DEF DeleteCommits, DeleteForgets, NoConnection, rowVars, SecretsOK, DroppedOK
<1>2. ~Exists'
  BY <1>1 DEF Exists
<1>3. PICK phase \in {"idle", "destroying"} : \E read, ref : Becomes(q, phase, read, ref)
  BY DEF DeleteCommits, DeleteForgets
<1>4. called'[q].phase = phase /\ \A p \in Caller \ {q} : called'[p] = called[p]
  BY <1>3 DEF AccessTypes, Becomes
<1>6. PendingOK'
  BY <1>1, <1>2, <1>4, PendingKept DEF SecretsOK
<1>7. DroppedOK'
  BY <1>1, <1>2, <1>4 DEF SecretsOK, DroppedOK
<1>8. OneReplaces'
  BY <1>4 DEF SecretsOK, OneReplaces, Replaces
<1>9. ReadersOK'
  <2>1. \A s \in Session : session[s].phase # "reading"
    <3>1. CASE DeleteCommits(q)
      BY <3>1 DEF DeleteCommits, Unlocked
    <3>2. CASE DeleteForgets(q)
      BY <3>2 DEF DeleteForgets, SecretsOK, DroppedOK, ReadersOK, Exists
    <3> QED BY <3>1, <3>2
  <2> QED BY <1>1, <2>1 DEF ReadersOK
<1> QED BY <1>2, <1>6, <1>7, <1>8, <1>9 DEF SecretsOK

(* A session that begins to read finds the secret of the row.              *)
LEMMA SecretRead ==
    ASSUME AccessTypes, SecretsOK, UNCHANGED <<row, files, written, called>>,
           \A s \in Session : session'[s].phase = "reading" =>
              session'[s] = session[s] \/ (Exists /\ session'[s].ref = row.ref)
    PROVE  SecretsOK'
<1>1. Exists' <=> Exists
  BY DEF Exists
<1>2. PendingOK'
  BY <1>1 DEF SecretsOK, PendingOK, Pending
<1>3. DroppedOK' /\ OneReplaces'
  BY <1>1 DEF SecretsOK, DroppedOK, OneReplaces, Replaces
<1>4. ReadersOK' /\ (Exists => row.ref \in files)'
  BY <1>1 DEF SecretsOK, ReadersOK
<1> QED BY <1>2, <1>3, <1>4 DEF SecretsOK

LEMMA SecretsPreserved == AccessTypes /\ SecretsOK /\ [AccessNext]_accessVars => SecretsOK'
<1> SUFFICES ASSUME AccessTypes, SecretsOK, [AccessNext]_accessVars PROVE SecretsOK'
  OBVIOUS
<1>1. row \in Connections /\ \A q \in Caller : called[q].read \in Connections
  BY DEF AccessTypes, Calls
<1>2. ASSUME NEW q \in Caller, NEW new, new.ref = called[q].read.ref, Exists,
             row' = Flushed(called[q].read, new), new.status \notin {"none", "deleted"}
      PROVE  Exists /\ row'.status \notin {"none", "deleted"} /\ row'.ref = row.ref
  BY <1>2 DEF Flushed, Exists
<1>3. ASSUME NEW q \in Caller,
             VerifyReads(q) \/ DisableReads(q) \/ DeleteReads(q) \/ SelectReads(q)
               \/ SelectCommits(q) \/ Abandoned(q)
      PROVE  SecretsOK'
  <2>1. PICK phase \in {"idle", "loading", "disabling", "deleting", "selecting"} : \E read, ref :
           Becomes(q, phase, read, ref)
    BY <1>3 DEF VerifyReads, DisableReads, DeleteReads, SelectReads, SelectCommits, Abandoned
  <2>2. UNCHANGED <<row, files, written, session>>
    BY <1>3 DEF VerifyReads, DisableReads, DeleteReads, SelectReads, SelectCommits, Abandoned, rowVars
  <2> QED BY <2>1, <2>2, SameSecret DEF Phases
<1>4. ASSUME NEW q \in Caller, VerifyLoads(q) PROVE SecretsOK'
  <2> DEFINE new == [called[q].read EXCEPT !.status = "verifying"]
  <2>1. /\ called[q].read # new => Exists
        /\ row' = IF called[q].read # new THEN Flushed(called[q].read, new) ELSE row
        /\ Becomes(q, "verifying", new, 0) /\ UNCHANGED <<files, written, session>>
    BY <1>4 DEF VerifyLoads
  <2>2. new.status = "verifying" /\ new.ref = called[q].read.ref
    BY <1>1 DEF Connections
  <2> HIDE DEF new
  <2>3. row' = row \/ (Exists /\ row'.status \notin {"none", "deleted"} /\ row'.ref = row.ref)
    BY <1>2, <2>1, <2>2
  <2> QED BY <2>1, <2>3, SameSecret DEF Phases
<1>5. ASSUME NEW q \in Caller, NEW success \in BOOLEAN, VerifyEnds(q, success) PROVE SecretsOK'
  <2> DEFINE new == [called[q].read EXCEPT !.status = IF success THEN "verified" ELSE "invalid",
                                           !.outcome = IF success THEN "success" ELSE "failed"]
  <2>1. /\ Exists /\ row' = Flushed(called[q].read, new)
        /\ Becomes(q, "idle", NoConnection, 0) /\ UNCHANGED <<files, written, session>>
    BY <1>5 DEF VerifyEnds
  <2>2. new.status \notin {"none", "deleted"} /\ new.ref = called[q].read.ref
    BY <1>1 DEF Connections
  <2> HIDE DEF new
  <2> QED BY <1>2, <2>1, <2>2, SameSecret DEF Phases
<1>6. ASSUME NEW q \in Caller, DisableCommits(q) PROVE SecretsOK'
  <2> DEFINE new == [called[q].read EXCEPT !.status = "disabled"]
  <2>1. /\ Exists /\ row' = Flushed(called[q].read, new)
        /\ Becomes(q, "idle", NoConnection, 0) /\ UNCHANGED <<files, written, session>>
    BY <1>6 DEF DisableCommits
  <2>2. new.status \notin {"none", "deleted"} /\ new.ref = called[q].read.ref
    BY <1>1 DEF Connections
  <2> HIDE DEF new
  <2> QED BY <1>2, <2>1, <2>2, SameSecret DEF Phases
<1>7. ASSUME NEW s \in Session, AccessReads(s) \/ AccessLoads(s) PROVE SecretsOK'
  <2>1. \A r \in Session : session'[r].phase = "reading" =>
              session'[r] = session[r] \/ (Exists /\ session'[r].ref = row.ref)
    BY <1>7 DEF AccessReads, AccessLoads, AccessTypes, NoSession, Open, Exists
  <2>2. UNCHANGED <<row, files, written, called>>
    BY <1>7 DEF AccessReads, AccessLoads, rowVars
  <2> QED BY <2>1, <2>2, SecretRead
<1>8. ASSUME NEW s \in Session, NEW t \in Ticket, NEW time \in 0 .. MaxClock, Redeem(s, t, time)
      PROVE  SecretsOK'
  <2>1. \A r \in Session : session'[r].phase = "reading" => session'[r] = session[r]
    BY <1>8 DEF Redeem, AccessTypes
  <2>2. UNCHANGED <<row, files, written, called>>
    BY <1>8 DEF Redeem, rowVars
  <2> QED BY <2>1, <2>2, SecretRead
<1>9. ASSUME ProcessEnds PROVE SecretsOK'
  <2>1. /\ \A q \in Caller : called'[q].phase = "idle"
        /\ \A s \in Session : session'[s].phase = "none" /\ UNCHANGED <<row, files>>
    BY <1>9 DEF ProcessEnds, Idle, NoSession, rowVars
  <2>2. (Exists => row.ref \in files)'
    BY <1>9 DEF ProcessEnds, rowVars, SecretsOK, Exists
  <2> QED BY <2>1, <2>2 DEF SecretsOK, PendingOK, DroppedOK, OneReplaces, ReadersOK, Pending, Replaces
<1>10. ASSUME UNCHANGED <<row, files, written, called, session>> PROVE SecretsOK'
  BY <1>10, SecretRead
<1>11. ASSUME NEW q \in Caller, Handled(q) PROVE SecretsOK'
  BY <1>3, <1>4, <1>5, <1>6, <1>11, SecretWritten, SecretNamed, SecretReplaced, SecretDropped,
     RowDeleted DEF Handled
<1>12. CASE SelectAnother \/ TimePasses \/ (\E t \in Ticket : Issue(t)) \/ UNCHANGED accessVars
  <2>1. UNCHANGED <<row, files, written, called, session>>
    BY <1>12 DEF SelectAnother, TimePasses, Issue, accessVars, rowVars
  <2> QED BY <1>10, <2>1
<1> QED BY <1>7, <1>8, <1>9, <1>11, <1>12 DEF AccessNext
-----------------------------------------------------------------------------
(* A ticket that is accepted was not remembered and had not expired: it    *)
(* had not been accepted.                                                  *)
LEMMA TicketConsumed ==
    ASSUME AccessTypes, TicketsOK, NEW s \in Session, NEW t \in Ticket, NEW time \in 0 .. MaxClock,
           Redeem(s, t, time)
    PROVE  TicketsOK'
<1>1. /\ clock \in Nat /\ time \in Nat /\ time >= clock /\ clock' = time
      /\ expiry' = expiry /\ expiry[t] > clock /\ \A u \in Ticket : expiry[u] \in Nat
  BY AccessAssumption DEF AccessTypes, Redeem
<1>2. \A u \in redeemed : expiry[u] > time => u \in Purged(time)
  BY <1>1 DEF TicketsOK, Purged
<1>3. CASE Consumed(t, time)
  <2>1. /\ used' = Purged(time) \cup {t} /\ redeemed' = redeemed \cup {t}
        /\ twice' = (twice \/ t \in redeemed)
    BY <1>3 DEF Redeem
  <2>2. t \notin redeemed
    BY <1>2, <1>3 DEF Consumed
  <2>3. ~twice'
    BY <2>1, <2>2, Zenon DEF TicketsOK
  <2>4. redeemed' \subseteq Ticket
    BY <2>1 DEF TicketsOK
  <2>5. ASSUME NEW u \in redeemed' PROVE expiry'[u] > 0 /\ (expiry'[u] > clock' => u \in used')
    BY <1>1, <1>2, <2>1 DEF TicketsOK
  <2> QED BY <2>3, <2>4, <2>5 DEF TicketsOK
<1>4. CASE ~Consumed(t, time)
  <2>1. used' = Purged(time) /\ redeemed' = redeemed /\ twice' = twice
    BY <1>4 DEF Redeem
  <2> QED BY <1>1, <1>2, <2>1 DEF TicketsOK
<1> QED BY <1>3, <1>4

LEMMA TicketsPreserved == AccessTypes /\ TicketsOK /\ [AccessNext]_accessVars => TicketsOK'
<1> SUFFICES ASSUME AccessTypes, TicketsOK, [AccessNext]_accessVars PROVE TicketsOK'
  OBVIOUS
<1>1. ASSUME UNCHANGED ticketVars PROVE TicketsOK'
  BY <1>1 DEF TicketsOK, ticketVars
<1>2. ASSUME NEW q \in Caller, Handled(q) PROVE UNCHANGED ticketVars
  BY <1>2 DEF Handled, CreatePuts, CreateCommits, PutFails, UpdatePuts, UpdateCommits, UpdateForgets,
     VerifyReads, VerifyLoads, VerifyEnds, DisableReads, DisableCommits, DeleteReads, DeleteCommits,
     DeleteForgets, SelectReads, SelectCommits, Abandoned
<1>3. ASSUME NEW s \in Session, AccessReads(s) \/ AccessLoads(s) PROVE UNCHANGED ticketVars
  BY <1>3 DEF AccessReads, AccessLoads
<1>4. CASE SelectAnother \/ UNCHANGED accessVars
  BY <1>1, <1>4 DEF SelectAnother, accessVars, ticketVars
<1>5. ASSUME NEW t \in Ticket, Issue(t) PROVE TicketsOK'
  <2>1. /\ expiry[t] = 0 /\ expiry' = [expiry EXCEPT ![t] = clock + Ttl]
        /\ UNCHANGED <<clock, used, redeemed, twice>>
    BY <1>5 DEF Issue
  <2>2. \A u \in redeemed : u \in Ticket /\ u # t /\ expiry'[u] = expiry[u]
    BY <2>1 DEF AccessTypes, TicketsOK
  <2> QED BY <2>1, <2>2 DEF TicketsOK
<1>6. ASSUME TimePasses PROVE TicketsOK'
  <2>1. /\ clock \in Nat /\ clock' = clock + 1 /\ UNCHANGED <<expiry, used, redeemed, twice>>
        /\ \A u \in Ticket : expiry[u] \in Nat
    BY <1>6 DEF TimePasses, AccessTypes
  <2> QED BY <2>1 DEF TicketsOK
<1>7. ASSUME ProcessEnds PROVE TicketsOK'
  BY <1>7 DEF ProcessEnds, TicketsOK
<1> QED BY <1>1, <1>2, <1>3, <1>4, <1>5, <1>6, <1>7, TicketConsumed DEF AccessNext

LEMMA ClosedPreserved == AccessTypes /\ ClosedOK /\ [AccessNext]_accessVars => ClosedOK'
<1> SUFFICES ASSUME ClosedOK, [AccessNext]_accessVars PROVE ClosedOK'
  OBVIOUS
<1>1. ASSUME NEW q \in Caller, Handled(q) PROVE (UNCHANGED <<selected, closed>>) \/ ClosedOK'
  BY <1>1 DEF Handled, CreatePuts, CreateCommits, PutFails, UpdatePuts, UpdateCommits, UpdateForgets,
     VerifyReads, VerifyLoads, VerifyEnds, DisableReads, DisableCommits, DeleteReads, DeleteCommits,
     DeleteForgets, SelectReads, SelectCommits, Abandoned, rowVars, ClosedOK
<1>2. ASSUME NEW s \in Session, AccessReads(s) \/ AccessLoads(s) PROVE UNCHANGED <<selected, closed>>
  BY <1>2 DEF AccessReads, AccessLoads, rowVars
<1>3. ASSUME NEW s \in Session, NEW t \in Ticket, NEW time \in 0 .. MaxClock, Redeem(s, t, time)
      PROVE  UNCHANGED <<selected, closed>>
  BY <1>3 DEF Redeem, rowVars
<1>4. CASE \/ SelectAnother \/ TimePasses \/ ProcessEnds \/ UNCHANGED accessVars
           \/ \E t \in Ticket : Issue(t)
  BY <1>4 DEF SelectAnother, TimePasses, ProcessEnds, Issue, accessVars, rowVars, ClosedOK
<1> QED BY <1>1, <1>2, <1>3, <1>4 DEF AccessNext, ClosedOK

LEMMA AccessInvariant == AccessSpec => []AInv
<1>1. AccessInit => AInv
  <2> SUFFICES ASSUME AccessInit PROVE AInv
    OBVIOUS
  <2>1. AccessTypes
    BY DEF AccessInit, AccessTypes, NoConnection, NoSession, Idle, Connections, Statuses, Refs, Calls,
       Phases
  <2>2. ~Exists /\ \A q \in Caller : called[q].phase = "idle"
    BY DEF AccessInit, Exists, NoConnection, Idle
  <2>3. SecretsOK
    BY <2>2 DEF AccessInit, SecretsOK, PendingOK, DroppedOK, OneReplaces, ReadersOK, Pending, Replaces,
       NoSession
  <2> QED BY <2>1, <2>3 DEF AInv, AccessInit, TicketsOK, ClosedOK
<1>2. AInv /\ [AccessNext]_accessVars => AInv'
  BY TypesPreserved, SecretsPreserved, TicketsPreserved, ClosedPreserved DEF AInv
<1> QED BY <1>1, <1>2, PTL DEF AccessSpec

(* SecretIsKept: whatever requests and streams are in flight, and after    *)
(* every crash of the API, the secret that the connection's row names is   *)
(* on the disk, and so is the one that a stream is about to load.          *)
THEOREM SecretKept == AccessSpec => []SecretIsKept
<1>1. AInv => SecretIsKept
  BY DEF AInv, SecretsOK, ReadersOK, SecretIsKept
<1> QED BY <1>1, AccessInvariant, PTL

(* AccessIsClosed: after a disable a verification that was under way may   *)
(* make the row "verified" again, but it serves nobody until an account is *)
(* selected; and an API process accepts a ticket once.                     *)
THEOREM AccessClosed == AccessSpec => []AccessIsClosed
<1>1. AInv => AccessIsClosed
  BY DEF AInv, ClosedOK, TicketsOK, AccessIsClosed, DisableClosesAccess, TicketsAreUsedOnce, Open
<1> QED BY <1>1, AccessInvariant, PTL
-----------------------------------------------------------------------------
GapRow == [from : Int, to : Int, status : {"open", "ignored", "resolved"}]
GapJob == [from : Int, to : Int, gap : Nat]
Ask == [phase : {"idle", "asked", "admitted"}, from : Int, to : Int, gap : Nat]

GapTypes ==
    /\ now \in 0 .. MaxNow /\ stored \subseteq 0 .. now - 1
    /\ rows \in Seq(GapRow) /\ jobs \in Seq(GapJob)
    /\ holder \subseteq Asker /\ asking \in [Asker -> Ask]
    /\ check \in [phase : {"idle", "asking"}, from : Int, to : Int, todo : SUBSET Int]

(* Who was admitted holds the lock, and no job overlaps what it asked for. *)
LockOK ==
    \A a \in Asker : asking[a].phase = "admitted" =>
        /\ holder = {a}
        /\ \A j \in DOMAIN jobs : ~Overlap(jobs[j], asking[a])

(* A row stands for candles that are all expected, the first of which has  *)
(* one before it.                                                          *)
RowOK(r) == 0 < r.from /\ r.from < r.to /\ \A t \in Span(r) : Expected(t)
RowsOK == \A i \in DOMAIN rows : RowOK(rows[i])

(* What is asked for a gap is its range and a candle on each side.         *)
Bracketed(x) ==
    x.gap # 0 => /\ x.gap \in DOMAIN rows
                 /\ x.from = rows[x.gap].from - 1 /\ x.to = rows[x.gap].to + 1
AskedOK ==
    /\ \A j \in DOMAIN jobs : Bracketed(jobs[j])
    /\ \A a \in Asker : Bracketed(asking[a])

GapInv == GapTypes /\ LockOK /\ RowsOK /\ AskedOK /\ NothingIsAskedTwice
-----------------------------------------------------------------------------
(* A set of natural numbers that is not empty has a least one.             *)
LEMMA Least ==
    ASSUME NEW S \in SUBSET Nat, S # {}
    PROVE  \E m \in S : \A n \in S : m <= n
<1> DEFINE R == {p \in Nat \X Nat : p[1] < p[2]}
<1>1. IsWellFoundedOn(R, Nat)
  BY NatLessThanWellFounded DEF OpToRel
<1>2. \A n, m \in Nat : n < m => <<n, m>> \in R
  OBVIOUS
<1> HIDE DEF R
<1>3. PICK m \in S : \A n \in S : ~(<<n, m>> \in R)
  BY <1>1, WFMin
<1>4. ASSUME NEW n \in S PROVE m <= n
  <2>1. n \in Nat /\ m \in Nat
    OBVIOUS
  <2>2. ~(n < m)
    BY <1>2, <1>3, <2>1
  <2> QED BY <2>1, <2>2
<1> QED BY <1>4

(* The first and the last of the candles stored (validate_public_series).  *)
LEMMA Ends ==
    ASSUME GapTypes, stored # {}
    PROVE  Min(stored) \in stored /\ Max(stored) \in stored
<1>1. stored \in SUBSET Nat /\ now \in Nat /\ \A s \in stored : s < now
  BY GapAssumption DEF GapTypes
<1>2. \E m \in stored : \A n \in stored : m <= n
  BY <1>1, Least
<1>3. \E m \in stored : \A n \in stored : m >= n
  <2> DEFINE Ahead == {now - s : s \in stored}
  <2>1. Ahead \in SUBSET Nat /\ Ahead # {}
    <3>1. ASSUME NEW s \in stored PROVE now - s \in Nat
      BY <1>1
    <3> QED BY <3>1
  <2>2. PICK a \in Ahead : \A b \in Ahead : a <= b
    BY <2>1, Least
  <2>3. PICK m \in stored : a = now - m
    BY <2>2
  <2>4. ASSUME NEW n \in stored PROVE m >= n
    <3>1. now - n \in Ahead
      OBVIOUS
    <3>2. now - m <= now - n /\ m \in Int /\ n \in Int /\ now \in Int
      BY <1>1, <2>2, <2>3, <3>1
    <3> QED BY <3>2
  <2> QED BY <2>4
<1> QED BY <1>2, <1>3 DEF Min, Max
-----------------------------------------------------------------------------
(* Internal gaps: find_internal_gaps.                                      *)
Missing(t, times) == Expected(t) /\ t \notin times

LEMMA GapShape ==
    ASSUME NEW times, NEW g \in InternalGaps(times)
    PROVE  /\ g.from \in 0 .. MaxNow /\ g.to \in 0 .. MaxNow /\ g.from < g.to
           /\ g \in [from : 0 .. MaxNow, to : 0 .. MaxNow]
           /\ \A t \in Span(g) : Missing(t, times)
           /\ ~Missing(g.from - 1, times) /\ ~Missing(g.to, times)
           /\ \E s \in times : s < g.from
           /\ \E s \in times : s >= g.to
BY GapAssumption DEF InternalGaps, Missing

LEMMA GapFound ==
    ASSUME NEW times, NEW g \in [from : 0 .. MaxNow, to : 0 .. MaxNow], g.from < g.to,
           \A t \in Span(g) : Missing(t, times),
           ~Missing(g.from - 1, times), ~Missing(g.to, times),
           \E s \in times : s < g.from, \E s \in times : s >= g.to
    PROVE  g \in InternalGaps(times)
BY DEF InternalGaps, Missing

(* They are maximal, so two of them do not overlap ...                     *)
LEMMA GapsApart ==
    ASSUME NEW times, NEW g \in InternalGaps(times), NEW h \in InternalGaps(times), Overlap(g, h)
    PROVE  g = h
<1>1. /\ g.from \in Int /\ g.to \in Int /\ h.from \in Int /\ h.to \in Int
      /\ g.from < g.to /\ h.from < h.to /\ g.from < h.to /\ g.to > h.from
  BY GapShape, GapAssumption DEF Overlap
<1>2. ASSUME NEW x \in InternalGaps(times), NEW y \in InternalGaps(times),
             x.from \in Int, x.to \in Int, y.from \in Int, y.to \in Int
      PROVE  /\ ~(x.from <= y.from - 1 /\ y.from - 1 < x.to)
             /\ ~(x.from <= y.to /\ y.to < x.to)
  <2>1. \A t \in Span(x) : Missing(t, times)
    BY GapShape
  <2>2. ~Missing(y.from - 1, times) /\ ~Missing(y.to, times)
    BY GapShape
  <2>3. \A t \in Int : x.from <= t /\ t < x.to => t \in Span(x)
    BY <1>2 DEF Span
  <2> QED BY <1>2, <2>1, <2>2, <2>3
<1>3. g.from = h.from
  BY <1>1, <1>2
<1>4. g.to = h.to
  BY <1>1, <1>2
<1>5. g = [from |-> g.from, to |-> g.to] /\ h = [from |-> h.from, to |-> h.to]
  BY GapShape
<1> QED BY <1>3, <1>4, <1>5

(* ... and they lie inside the range that was looked at.                   *)
LEMMA GapsInside ==
    ASSUME NEW w, w.from \in Int, w.to \in Int, NEW times \in SUBSET Span(w),
           NEW g \in InternalGaps(times)
    PROVE  w.from < g.from /\ g.to < w.to
<1>1. g.from \in Int /\ g.to \in Int
  BY GapShape, GapAssumption
<1>2. PICK s \in times, u \in times : s < g.from /\ u >= g.to
  BY GapShape
<1>3. s \in Int /\ u \in Int /\ w.from <= s /\ u < w.to
  BY DEF Span
<1> QED BY <1>1, <1>2, <1>3
-----------------------------------------------------------------------------
(* What a check leaves: persist_internal_gaps.                             *)
NewRows(w) == {[from |-> g.from, to |-> g.to, status |-> "open"] : g \in Unreported(w)}

LEMMA FewNewRows ==
    ASSUME NEW w
    PROVE  /\ IsFiniteSet(NewRows(w))
           /\ Len(SetToSeq(NewRows(w))) \in Nat /\ SetToSeq(NewRows(w)) \in Seq(NewRows(w))
           /\ \A i, k \in DOMAIN SetToSeq(NewRows(w)) :
                SetToSeq(NewRows(w))[i] = SetToSeq(NewRows(w))[k] => i = k
<1> DEFINE Grid == (0 .. MaxNow) \X (0 .. MaxNow)
           N == NewRows(w)
           ends == [r \in N |-> <<r.from, r.to>>]
<1>1. IsFiniteSet(Grid)
  <2>1. IsFiniteSet(0 .. MaxNow)
    BY FS_Interval, GapAssumption
  <2> QED BY <2>1, FS_Product
<1>2. ASSUME NEW r \in N
      PROVE  /\ r.from \in 0 .. MaxNow /\ r.to \in 0 .. MaxNow
             /\ r = [from |-> r.from, to |-> r.to, status |-> "open"]
  <2>1. PICK g \in Unreported(w) : r = [from |-> g.from, to |-> g.to, status |-> "open"]
    BY DEF NewRows
  <2>2. g.from \in 0 .. MaxNow /\ g.to \in 0 .. MaxNow
    BY GapShape DEF Unreported
  <2> QED BY <2>1, <2>2
<1> HIDE DEF N
<1>3. ends \in Injection(N, Grid)
  <2>1. ends \in [N -> Grid]
    BY <1>2
  <2>2. ASSUME NEW r \in N, NEW s \in N, ends[r] = ends[s] PROVE r = s
    <3>1. r.from = s.from /\ r.to = s.to
      BY <2>2
    <3> QED BY <1>2, <3>1
  <2> QED BY <2>1, <2>2 DEF Injection, IsInjective
<1> HIDE DEF ends, Grid
<1>4. IsFiniteSet(N)
  BY <1>1, <1>3, FS_Injection
<1>5. \E f \in [1 .. Cardinality(N) -> N] : IsInjective(f)
  BY <1>4, FS_CardinalityType DEF IsInjective, ExistsBijection, Bijection, Injection
<1>6. /\ SetToSeq(N) \in [1 .. Cardinality(N) -> N] /\ IsInjective(SetToSeq(N))
      /\ Cardinality(N) \in Nat
  BY <1>4, <1>5, FS_CardinalityType DEF SetToSeq
<1>7. SetToSeq(N) \in Seq(N) /\ Len(SetToSeq(N)) \in Nat
  BY <1>6
<1>8. \A i, k \in DOMAIN SetToSeq(N) : SetToSeq(N)[i] = SetToSeq(N)[k] => i = k
  BY <1>6 DEF IsInjective
<1> QED BY <1>4, <1>7, <1>8 DEF N

Settling(w, i) == IF Settled(rows[i], w) THEN [rows[i] EXCEPT !.status = "resolved"] ELSE rows[i]

LEMMA Joined ==
    ASSUME NEW S, NEW a \in Seq(S), NEW b \in Seq(S)
    PROVE  /\ a \o b \in Seq(S) /\ Len(a \o b) = Len(a) + Len(b)
           /\ DOMAIN (a \o b) = 1 .. Len(a) + Len(b)
           /\ \A i \in 1 .. Len(a) : (a \o b)[i] = a[i]
           /\ \A i \in 1 .. Len(a) + Len(b) : i > Len(a) => (a \o b)[i] = b[i - Len(a)]
OBVIOUS

(* The rows there were, settled or not, and then the new ones, each once.  *)
LEMMA PersistedRows ==
    ASSUME GapTypes, NEW w
    PROVE  /\ Persisted(w) \in Seq(GapRow)
           /\ DOMAIN rows \subseteq DOMAIN Persisted(w)
           /\ DOMAIN rows \subseteq Int /\ DOMAIN Persisted(w) \subseteq Int
           /\ \A i \in DOMAIN rows : Persisted(w)[i] = Settling(w, i)
           /\ \A i \in DOMAIN Persisted(w) \ DOMAIN rows : Persisted(w)[i] \in NewRows(w)
           /\ \A i, k \in DOMAIN Persisted(w) \ DOMAIN rows :
                Persisted(w)[i] = Persisted(w)[k] => i = k
<1> DEFINE old == [i \in DOMAIN rows |-> Settling(w, i)]
           new == SetToSeq(NewRows(w))
<1>1. rows \in Seq(GapRow) /\ DOMAIN rows = 1 .. Len(rows) /\ Len(rows) \in Nat
  BY DEF GapTypes
<1>2. ASSUME NEW i \in DOMAIN rows PROVE Settling(w, i) \in GapRow
  <2>1. rows[i] \in GapRow
    BY <1>1
  <2> QED BY <2>1 DEF Settling, GapRow
<1>3. old \in Seq(GapRow) /\ Len(old) = Len(rows)
  BY <1>1, <1>2
<1>4. NewRows(w) \subseteq GapRow
  <2>1. ASSUME NEW g \in Unreported(w) PROVE g.from \in Int /\ g.to \in Int
    BY GapShape, GapAssumption DEF Unreported
  <2> QED BY <2>1 DEF NewRows, GapRow
<1>5. new \in Seq(GapRow) /\ new \in Seq(NewRows(w)) /\ Len(new) \in Nat
  BY <1>4, FewNewRows
<1>6. Persisted(w) = old \o new
  BY DEF Persisted, NewRows, Settling
<1>7. \A i \in DOMAIN rows : old[i] = Settling(w, i)
  OBVIOUS
<1>8. \A i, k \in DOMAIN new : new[i] = new[k] => i = k
  BY FewNewRows
<1> HIDE DEF old, new
<1>9. /\ Persisted(w) \in Seq(GapRow) /\ Len(Persisted(w)) = Len(rows) + Len(new)
      /\ DOMAIN Persisted(w) = 1 .. Len(rows) + Len(new)
      /\ \A i \in 1 .. Len(rows) : Persisted(w)[i] = old[i]
      /\ \A i \in 1 .. Len(rows) + Len(new) : i > Len(rows) =>
            Persisted(w)[i] = new[i - Len(rows)]
  <2>1. /\ old \o new \in Seq(GapRow) /\ Len(old \o new) = Len(old) + Len(new)
        /\ DOMAIN (old \o new) = 1 .. Len(old) + Len(new)
        /\ \A i \in 1 .. Len(old) : (old \o new)[i] = old[i]
        /\ \A i \in 1 .. Len(old) + Len(new) : i > Len(old) => (old \o new)[i] = new[i - Len(old)]
    BY <1>3, <1>5, Joined
  <2> QED BY <1>3, <1>6, <2>1
<1>10. ASSUME NEW i \in DOMAIN Persisted(w) \ DOMAIN rows
       PROVE  /\ Persisted(w)[i] = new[i - Len(rows)] /\ i - Len(rows) \in DOMAIN new
              /\ i \in Int
  BY <1>1, <1>5, <1>9
<1>11. ASSUME NEW i \in DOMAIN Persisted(w) \ DOMAIN rows PROVE Persisted(w)[i] \in NewRows(w)
  BY <1>5, <1>10
<1>12. ASSUME NEW i \in DOMAIN Persisted(w) \ DOMAIN rows,
              NEW k \in DOMAIN Persisted(w) \ DOMAIN rows, Persisted(w)[i] = Persisted(w)[k]
       PROVE  i = k
  <2>1. i - Len(rows) = k - Len(rows)
    BY <1>8, <1>10, <1>12
  <2> QED BY <1>1, <1>10, <2>1
<1> QED BY <1>1, <1>7, <1>9, <1>11, <1>12

(* No row that is open stands for a candle of a new one: it is new itself, *)
(* or it was there and lies outside the range, or is one of the gaps that  *)
(* were found, or was settled for their sake.                              *)
LEMMA OldAndNewApart ==
    ASSUME GapTypes, NEW w, w.from \in Int, w.to \in Int, NEW i \in DOMAIN rows,
           Settling(w, i).status = "open", NEW g \in Unreported(w)
    PROVE  ~Overlap(rows[i], g) /\ ~Overlap(g, rows[i])
<1> DEFINE times == stored \cap Span(w)
           r == rows[i]
<1>1. r \in GapRow
  BY DEF GapTypes
<1>2. ~Settled(r, w) /\ r.status = "open"
  BY <1>1 DEF Settling, GapRow
<1>3. g \in InternalGaps(times)
  BY DEF Unreported
<1>4. g.from \in Int /\ g.to \in Int /\ w.from < g.from /\ g.to < w.to
  BY <1>3, GapShape, GapsInside, GapAssumption
<1>5. SUFFICES ASSUME Overlap(r, g) PROVE FALSE
  BY <1>1, <1>4 DEF Overlap, GapRow
<1>6. Standing(r, w)
  BY <1>1, <1>2, <1>4, <1>5 DEF Standing, Overlap, GapRow
<1>7. Key(r) # g
  <2>1. Key(r) \in {Key(rows[k]) : k \in {x \in DOMAIN rows : Standing(rows[x], w)}}
    BY <1>6
  <2> QED BY <2>1 DEF Unreported
<1>8. Overlap(g, Key(r)) /\ Overlap(g, r)
  BY <1>1, <1>4, <1>5 DEF Overlap, Key, GapRow
<1>9. CASE Key(r) \in InternalGaps(times)
  BY <1>3, <1>7, <1>8, <1>9, GapsApart
<1>10. CASE Key(r) \notin InternalGaps(times)
  BY <1>2, <1>3, <1>6, <1>8, <1>10 DEF Settled
<1> QED BY <1>9, <1>10

LEMMA PersistedApart ==
    ASSUME GapTypes, OpenGapsAreDisjoint, NEW w, w.from \in Int, w.to \in Int,
           NEW i \in DOMAIN Persisted(w), NEW k \in DOMAIN Persisted(w), i # k,
           Persisted(w)[i].status = "open", Persisted(w)[k].status = "open"
    PROVE  ~Overlap(Persisted(w)[i], Persisted(w)[k])
<1> DEFINE P == Persisted(w)
<1>1. ASSUME NEW n \in DOMAIN rows, P[n].status = "open"
      PROVE  P[n] = rows[n] /\ Settling(w, n).status = "open"
  <2>1. rows[n] \in GapRow /\ P[n] = Settling(w, n)
    BY PersistedRows DEF GapTypes
  <2> QED BY <1>1, <2>1 DEF Settling, GapRow
<1>2. ASSUME NEW n \in DOMAIN P \ DOMAIN rows
      PROVE  \E g \in Unreported(w) : /\ P[n] = [from |-> g.from, to |-> g.to, status |-> "open"]
                                      /\ g = [from |-> g.from, to |-> g.to]
  <2>1. P[n] \in NewRows(w)
    BY PersistedRows
  <2>2. \A g \in Unreported(w) : g \in [from : 0 .. MaxNow, to : 0 .. MaxNow]
    BY GapShape DEF Unreported
  <2> QED BY <2>1, <2>2 DEF NewRows
<1>3. CASE i \in DOMAIN rows /\ k \in DOMAIN rows
  <2>1. P[i] = rows[i] /\ P[k] = rows[k]
    BY <1>1, <1>3
  <2> QED BY <1>3, <2>1 DEF OpenGapsAreDisjoint
<1>4. CASE i \in DOMAIN rows /\ k \notin DOMAIN rows
  <2>1. PICK g \in Unreported(w) : P[k] = [from |-> g.from, to |-> g.to, status |-> "open"]
    BY <1>2, <1>4
  <2>2. ~Overlap(rows[i], g) /\ P[i] = rows[i]
    BY <1>1, <1>4, OldAndNewApart
  <2> QED BY <2>1, <2>2 DEF Overlap
<1>5. CASE i \notin DOMAIN rows /\ k \in DOMAIN rows
  <2>1. PICK g \in Unreported(w) : P[i] = [from |-> g.from, to |-> g.to, status |-> "open"]
    BY <1>2, <1>5
  <2>2. ~Overlap(g, rows[k]) /\ P[k] = rows[k]
    BY <1>1, <1>5, OldAndNewApart
  <2> QED BY <2>1, <2>2 DEF Overlap
<1>6. CASE i \notin DOMAIN rows /\ k \notin DOMAIN rows
  <2>1. PICK g \in Unreported(w) : /\ P[i] = [from |-> g.from, to |-> g.to, status |-> "open"]
                                   /\ g = [from |-> g.from, to |-> g.to]
    BY <1>2, <1>6
  <2>2. PICK h \in Unreported(w) : /\ P[k] = [from |-> h.from, to |-> h.to, status |-> "open"]
                                   /\ h = [from |-> h.from, to |-> h.to]
    BY <1>2, <1>6
  <2>3. P[i] # P[k]
    BY <1>6, PersistedRows
  <2>4. ~Overlap(g, h)
    BY <2>1, <2>2, <2>3, GapsApart DEF Unreported
  <2> QED BY <2>1, <2>2, <2>4 DEF Overlap
<1> QED BY <1>3, <1>4, <1>5, <1>6
-----------------------------------------------------------------------------
(* Steps that leave the rows, or the requests and jobs, alone.             *)
LEMMA CandlesOnly ==
    ASSUME GapInv, now' \in 0 .. MaxNow, stored' \subseteq 0 .. now' - 1, check' = check,
           UNCHANGED <<series, rows, jobs, holder, asking>>
    PROVE  GapInv'
BY DEF GapInv, GapTypes, LockOK, RowsOK, RowOK, Expected, AskedOK, Bracketed, NothingIsAskedTwice,
       OpenGapsAreDisjoint, NoOverlappingJobs

LEMMA AskingOnly ==
    ASSUME GapInv, holder' \subseteq Asker, asking' \in [Asker -> Ask], jobs' \in Seq(GapJob),
           LockOK', AskedOK', NoOverlappingJobs', UNCHANGED <<series, stored, now, rows, check>>
    PROVE  GapInv'
BY DEF GapInv, GapTypes, RowsOK, RowOK, Expected, NothingIsAskedTwice, OpenGapsAreDisjoint

(* Candles that are saved are closed.                                      *)
LEMMA CandlesSaved ==
    ASSUME GapInv,
           \/ Polled \/ Refreshed
           \/ \E j \in DOMAIN jobs : JobSaves(j)
           \/ CandleCloses
    PROVE  GapInv'
<1>1. now \in 0 .. MaxNow /\ stored \subseteq 0 .. now - 1 /\ MaxNow \in Nat
  BY GapAssumption DEF GapInv, GapTypes
<1>2. CASE Polled \/ Refreshed
  <2>1. now' = now /\ stored' \subseteq 0 .. now - 1
    BY <1>1, <1>2 DEF Polled, Refreshed, Later
  <2> QED BY <1>1, <1>2, <2>1, CandlesOnly DEF Polled, Refreshed
<1>3. CASE \E j \in DOMAIN jobs : JobSaves(j)
  <2>1. now' = now /\ stored' \subseteq 0 .. now - 1
    BY <1>1, <1>3 DEF JobSaves, Closing, Span
  <2> QED BY <1>1, <1>3, <2>1, CandlesOnly DEF JobSaves
<1>4. CASE CandleCloses
  <2>1. now' \in 0 .. MaxNow /\ stored' \subseteq 0 .. now' - 1
    BY <1>1, <1>4 DEF CandleCloses
  <2> QED BY <1>4, <2>1, CandlesOnly DEF CandleCloses
<1> QED BY <1>2, <1>3, <1>4
-----------------------------------------------------------------------------
(* The lock: ensure_no_overlapping_backfill.                               *)
LEMMA AskChanged ==
    ASSUME GapInv, NEW a \in Asker, NEW x \in Ask, asking' = [asking EXCEPT ![a] = x]
    PROVE  /\ asking' \in [Asker -> Ask] /\ asking'[a] = x
           /\ \A b \in Asker \ {a} : asking'[b] = asking[b]
BY DEF GapInv, GapTypes

LEMMA Asks ==
    ASSUME GapInv, NEW a \in Asker,
           \/ \E days \in Days : AskDays(a, days)
           \/ \E i \in DOMAIN rows : AskGap(a, i)
    PROVE  GapInv'
<1>1. UNCHANGED <<series, stored, now, rows, jobs, holder, check>>
  BY DEF AskDays, AskGap
<1>2. PICK x \in Ask : /\ asking' = [asking EXCEPT ![a] = x] /\ x.phase = "asked"
                       /\ Bracketed(x)
  <2>1. CASE \E days \in Days : AskDays(a, days)
    <3>1. PICK days \in Days : AskDays(a, days)
      BY <2>1
    <3>2. now \in Int /\ days \in Int
      BY GapAssumption DEF GapInv, GapTypes
    <3>3. [phase |-> "asked", from |-> now - days, to |-> now, gap |-> 0] \in Ask
      BY <3>2 DEF Ask
    <3> QED BY <3>1, <3>3 DEF AskDays, Bracketed
  <2>2. CASE \E i \in DOMAIN rows : AskGap(a, i)
    <3>1. PICK i \in DOMAIN rows : AskGap(a, i)
      BY <2>2
    <3>2. i \in Nat /\ rows[i].from \in Int /\ rows[i].to \in Int
      <4>1. rows \in Seq(GapRow)
        BY DEF GapInv, GapTypes
      <4>2. i \in Nat /\ rows[i] \in GapRow
        BY <4>1
      <4> QED BY <4>2 DEF GapRow
    <3>3. [phase |-> "asked", from |-> rows[i].from - 1, to |-> rows[i].to + 1, gap |-> i] \in Ask
      BY <3>2 DEF Ask
    <3> QED BY <3>1, <3>3 DEF AskGap, Bracketed
  <2> QED BY <2>1, <2>2
<1>3. /\ asking' \in [Asker -> Ask] /\ asking'[a] = x
      /\ \A b \in Asker \ {a} : asking'[b] = asking[b]
  BY <1>2, AskChanged
<1>4. LockOK'
  BY <1>1, <1>2, <1>3 DEF GapInv, LockOK
<1>5. AskedOK'
  BY <1>1, <1>2, <1>3 DEF GapInv, AskedOK, Bracketed
<1> QED BY <1>1, <1>3, <1>4, <1>5, AskingOnly
     DEF GapInv, GapTypes, NothingIsAskedTwice, NoOverlappingJobs

LEMMA NoAskType == NoAsk \in Ask /\ NoAsk.phase = "idle" /\ Bracketed(NoAsk)
BY DEF NoAsk, Ask, Bracketed

LEMMA AdmittedKeeps == ASSUME GapInv, NEW a \in Asker, Admitted(a) PROVE GapInv'
<1>1. /\ UNCHANGED <<series, stored, now, rows, jobs, check>>
      /\ asking[a].phase = "asked" /\ holder = {} /\ asking[a] \in Ask
  BY DEF Admitted, GapInv, GapTypes
<1>2. \A b \in Asker : asking[b].phase # "admitted"
  BY <1>1 DEF GapInv, LockOK
<1>3. CASE Duplicate(asking[a])
  <2>1. asking' = [asking EXCEPT ![a] = NoAsk] /\ holder' = holder
    BY <1>3 DEF Admitted
  <2>2. /\ asking' \in [Asker -> Ask] /\ asking'[a] = NoAsk
        /\ \A b \in Asker \ {a} : asking'[b] = asking[b]
    BY <2>1, NoAskType, AskChanged
  <2>3. LockOK'
    BY <1>2, <2>2, NoAskType DEF LockOK
  <2>4. AskedOK'
    BY <1>1, <2>2, NoAskType DEF GapInv, AskedOK, Bracketed
  <2> QED BY <1>1, <2>1, <2>2, <2>3, <2>4, AskingOnly
       DEF GapInv, GapTypes, NothingIsAskedTwice, NoOverlappingJobs
<1>4. CASE ~Duplicate(asking[a])
  <2> DEFINE x == [asking[a] EXCEPT !.phase = "admitted"]
  <2>1. asking' = [asking EXCEPT ![a] = x] /\ holder' = {a}
    BY <1>4 DEF Admitted
  <2>2. /\ x \in Ask /\ x.phase = "admitted"
        /\ x.from = asking[a].from /\ x.to = asking[a].to /\ x.gap = asking[a].gap
    BY <1>1 DEF Ask
  <2> HIDE DEF x
  <2>3. /\ asking' \in [Asker -> Ask] /\ asking'[a] = x
        /\ \A b \in Asker \ {a} : asking'[b] = asking[b]
    BY <2>1, <2>2, AskChanged
  <2>4. \A j \in DOMAIN jobs : ~Overlap(jobs[j], x)
    BY <1>4, <2>2 DEF Duplicate, Overlap
  <2>5. LockOK'
    BY <1>1, <1>2, <2>1, <2>3, <2>4 DEF LockOK
  <2>6. AskedOK'
    BY <1>1, <2>2, <2>3 DEF GapInv, AskedOK, Bracketed
  <2> QED BY <1>1, <2>1, <2>3, <2>5, <2>6, AskingOnly
       DEF GapInv, GapTypes, NothingIsAskedTwice, NoOverlappingJobs
<1> QED BY <1>3, <1>4

LEMMA AskFailsKeeps == ASSUME GapInv, NEW a \in Asker, AskFails(a) PROVE GapInv'
<1>1. /\ UNCHANGED <<series, stored, now, rows, jobs, check>> /\ holder' = holder \ {a}
      /\ asking' = [asking EXCEPT ![a] = NoAsk]
  BY DEF AskFails
<1>2. /\ asking' \in [Asker -> Ask] /\ asking'[a] = NoAsk
      /\ \A b \in Asker \ {a} : asking'[b] = asking[b]
  BY <1>1, NoAskType, AskChanged
<1>3. LockOK'
  BY <1>1, <1>2, NoAskType DEF GapInv, LockOK
<1>4. AskedOK'
  BY <1>1, <1>2, NoAskType DEF GapInv, AskedOK, Bracketed
<1> QED BY <1>1, <1>2, <1>3, <1>4, AskingOnly
     DEF GapInv, GapTypes, NothingIsAskedTwice, NoOverlappingJobs

(* The job that is inserted under the lock overlaps no other.              *)
LEMMA Added ==
    ASSUME NEW S, NEW s \in Seq(S), NEW x \in S
    PROVE  /\ Append(s, x) \in Seq(S) /\ DOMAIN Append(s, x) = DOMAIN s \cup {Len(s) + 1}
           /\ Len(s) + 1 \notin DOMAIN s /\ Append(s, x)[Len(s) + 1] = x
           /\ \A i \in DOMAIN s : Append(s, x)[i] = s[i]
OBVIOUS

LEMMA EnqueuedKeeps == ASSUME GapInv, NEW a \in Asker, Enqueued(a) PROVE GapInv'
<1> DEFINE x == [from |-> asking[a].from, to |-> asking[a].to, gap |-> asking[a].gap]
<1>1. /\ UNCHANGED <<series, stored, now, rows, check>> /\ holder' = holder \ {a}
      /\ asking' = [asking EXCEPT ![a] = NoAsk] /\ jobs' = Append(jobs, x)
      /\ asking[a].phase = "admitted" /\ asking[a] \in Ask /\ jobs \in Seq(GapJob)
  BY DEF Enqueued, GapInv, GapTypes
<1>2. x \in GapJob /\ Bracketed(x)
  BY <1>1 DEF GapInv, AskedOK, Bracketed, Ask, GapJob
<1>3. \A j \in DOMAIN jobs : ~Overlap(jobs[j], x) /\ ~Overlap(x, jobs[j])
  <2>1. ASSUME NEW j \in DOMAIN jobs PROVE ~Overlap(jobs[j], x) /\ ~Overlap(x, jobs[j])
    <3>1. ~Overlap(jobs[j], asking[a]) /\ jobs[j] \in GapJob
      BY <1>1 DEF GapInv, LockOK
    <3> QED BY <1>1, <3>1 DEF Overlap, GapJob, Ask
  <2> QED BY <2>1
<1> HIDE DEF x
<1>4. /\ jobs' \in Seq(GapJob) /\ DOMAIN jobs' = DOMAIN jobs \cup {Len(jobs) + 1}
      /\ Len(jobs) + 1 \notin DOMAIN jobs /\ jobs'[Len(jobs) + 1] = x
      /\ \A i \in DOMAIN jobs : jobs'[i] = jobs[i]
  BY <1>1, <1>2, Added
<1>5. /\ asking' \in [Asker -> Ask] /\ asking'[a] = NoAsk
      /\ \A b \in Asker \ {a} : asking'[b] = asking[b]
  BY <1>1, NoAskType, AskChanged
<1>6. LockOK'
  <2>1. \A b \in Asker : asking'[b].phase # "admitted"
    BY <1>1, <1>5, NoAskType DEF GapInv, LockOK
  <2> QED BY <2>1 DEF LockOK
<1>7. AskedOK'
  <2>1. \A j \in DOMAIN jobs' : Bracketed(jobs'[j])
    BY <1>2, <1>4 DEF GapInv, AskedOK
  <2>2. \A b \in Asker : Bracketed(asking'[b])
    BY <1>5, NoAskType DEF GapInv, AskedOK
  <2> QED BY <1>1, <2>1, <2>2 DEF AskedOK, Bracketed
<1>8. NoOverlappingJobs'
  BY <1>3, <1>4 DEF GapInv, NothingIsAskedTwice, NoOverlappingJobs
<1> QED BY <1>1, <1>4, <1>5, <1>6, <1>7, <1>8, AskingOnly DEF GapInv, GapTypes
-----------------------------------------------------------------------------
(* A job that ends leaves the others.                                      *)
LEMMA Removed ==
    ASSUME NEW S, NEW s \in Seq(S), NEW j \in DOMAIN s
    PROVE  /\ RemoveAt(s, j) \in Seq(S)
           /\ DOMAIN RemoveAt(s, j) = 1 .. Len(s) - 1 /\ Len(s) \in Nat
           /\ DOMAIN s = 1 .. Len(s)
           /\ \A i \in 1 .. Len(s) - 1 : RemoveAt(s, j)[i] = s[IF i < j THEN i ELSE i + 1]
<1> DEFINE a == SubSeq(s, 1, j - 1)
           b == SubSeq(s, j + 1, Len(s))
<1>1. j \in 1 .. Len(s) /\ Len(s) \in Nat /\ DOMAIN s = 1 .. Len(s)
  OBVIOUS
<1>2. /\ a \in Seq(S) /\ Len(a) = j - 1
      /\ \A i \in 1 .. j - 1 : a[i] = s[i]
  BY <1>1
<1>3. /\ b \in Seq(S) /\ Len(b) = Len(s) - j
      /\ \A i \in 1 .. Len(s) - j : b[i] = s[j + i]
  BY <1>1
<1>4. RemoveAt(s, j) = a \o b
  BY DEF RemoveAt
<1> HIDE DEF a, b
<1>5. /\ a \o b \in Seq(S) /\ DOMAIN (a \o b) = 1 .. Len(a) + Len(b)
      /\ \A i \in 1 .. Len(a) : (a \o b)[i] = a[i]
      /\ \A i \in 1 .. Len(a) + Len(b) : i > Len(a) => (a \o b)[i] = b[i - Len(a)]
  BY <1>2, <1>3, Joined
<1>6. ASSUME NEW i \in 1 .. Len(s) - 1
      PROVE  (a \o b)[i] = s[IF i < j THEN i ELSE i + 1]
  <2>1. CASE i < j
    BY <1>1, <1>2, <1>5, <2>1
  <2>2. CASE ~(i < j)
    <3>1. (a \o b)[i] = b[i - (j - 1)] /\ i - (j - 1) \in 1 .. Len(s) - j
      <4>1. i \in Int /\ j \in Int /\ i >= j /\ i <= Len(s) - 1 /\ Len(s) \in Int
        BY <1>1, <2>2
      <4>2. i > Len(a) /\ i \in 1 .. Len(a) + Len(b) /\ i - Len(a) = i - (j - 1)
        BY <1>2, <1>3, <4>1
      <4>3. (a \o b)[i] = b[i - Len(a)]
        BY <1>5, <4>2
      <4>4. i - (j - 1) \in 1 .. Len(s) - j
        BY <4>1
      <4> QED BY <4>2, <4>3, <4>4
    <3>2. j + (i - (j - 1)) = i + 1
      BY <1>1
    <3> QED BY <1>3, <2>2, <3>1, <3>2
  <2> QED BY <2>1, <2>2
<1> QED BY <1>1, <1>2, <1>3, <1>4, <1>5, <1>6

LEMMA JobEnds ==
    ASSUME GapInv, NEW j \in DOMAIN jobs, jobs' = RemoveAt(jobs, j),
           UNCHANGED <<series, now, holder, asking>>
    PROVE  /\ jobs' \in Seq(GapJob) /\ LockOK' /\ NoOverlappingJobs'
           /\ \A i \in DOMAIN jobs' : \E k \in DOMAIN jobs : jobs'[i] = jobs[k]
<1> DEFINE at(i) == IF i < j THEN i ELSE i + 1
<1>1. jobs \in Seq(GapJob)
  BY DEF GapInv, GapTypes
<1>2. /\ jobs' \in Seq(GapJob) /\ DOMAIN jobs' = 1 .. Len(jobs) - 1 /\ Len(jobs) \in Nat
      /\ DOMAIN jobs = 1 .. Len(jobs)
      /\ \A i \in DOMAIN jobs' : jobs'[i] = jobs[at(i)]
  BY <1>1, Removed
<1>3. ASSUME NEW i \in DOMAIN jobs' PROVE at(i) \in DOMAIN jobs
  BY <1>2
<1>4. ASSUME NEW i \in DOMAIN jobs', NEW k \in DOMAIN jobs', i # k PROVE at(i) # at(k)
  BY <1>2, <1>4
<1> HIDE DEF at
<1>5. LockOK'
  BY <1>2, <1>3 DEF GapInv, LockOK
<1>6. NoOverlappingJobs'
  BY <1>2, <1>3, <1>4 DEF GapInv, NothingIsAskedTwice, NoOverlappingJobs
<1> QED BY <1>2, <1>3, <1>5, <1>6

(* Rows that are written again stand for the candles they stood for.       *)
Extends(new) ==
    /\ DOMAIN rows \subseteq DOMAIN new
    /\ \A i \in DOMAIN rows : new[i].from = rows[i].from /\ new[i].to = rows[i].to

LEMMA SameRanges ==
    ASSUME GapInv, Extends(rows'), NEW x, Bracketed(x)
    PROVE  Bracketed(x)'
BY DEF Extends, Bracketed

LEMMA JobFailsKeeps == ASSUME GapInv, NEW j \in DOMAIN jobs, JobFails(j) PROVE GapInv'
<1>1. UNCHANGED <<series, stored, now, rows, holder, asking, check>>
  BY DEF JobFails
<1>2. /\ jobs' \in Seq(GapJob) /\ LockOK' /\ NoOverlappingJobs'
      /\ \A i \in DOMAIN jobs' : \E k \in DOMAIN jobs : jobs'[i] = jobs[k]
  BY <1>1, JobEnds DEF JobFails
<1>3. AskedOK'
  BY <1>1, <1>2 DEF GapInv, AskedOK, Bracketed
<1> QED BY <1>1, <1>2, <1>3, AskingOnly DEF GapInv, GapTypes
-----------------------------------------------------------------------------
(* What a check leaves is sound.                                           *)
LEMMA PersistedSound ==
    ASSUME GapInv, NEW w, w.from \in Int, w.to \in Int
    PROVE  /\ Persisted(w) \in Seq(GapRow) /\ Extends(Persisted(w))
           /\ \A i \in DOMAIN Persisted(w) : RowOK(Persisted(w)[i])
           /\ \A i, k \in DOMAIN Persisted(w) :
                i # k /\ Persisted(w)[i].status = "open" /\ Persisted(w)[k].status = "open"
                  => ~Overlap(Persisted(w)[i], Persisted(w)[k])
<1> DEFINE P == Persisted(w)
<1>1. GapTypes /\ OpenGapsAreDisjoint
  BY DEF GapInv, NothingIsAskedTwice
<1>2. P \in Seq(GapRow) /\ DOMAIN rows \subseteq DOMAIN P
  BY <1>1, PersistedRows
<1>3. ASSUME NEW i \in DOMAIN rows PROVE P[i].from = rows[i].from /\ P[i].to = rows[i].to
  <2>1. rows[i] \in GapRow /\ P[i] = Settling(w, i)
    BY <1>1, PersistedRows DEF GapTypes
  <2> QED BY <2>1 DEF Settling, GapRow
<1>4. ASSUME NEW i \in DOMAIN P PROVE RowOK(P[i])
  <2>1. CASE i \in DOMAIN rows
    BY <1>3, <2>1 DEF GapInv, RowsOK, RowOK, Span
  <2>2. CASE i \notin DOMAIN rows
    <3>1. P[i] \in NewRows(w)
      BY <1>1, <2>2, PersistedRows
    <3>2. PICK g \in Unreported(w) : P[i].from = g.from /\ P[i].to = g.to
      BY <3>1 DEF NewRows
    <3>3. /\ g.from \in Int /\ g.to \in Int /\ g.from < g.to
          /\ \A t \in Span(g) : Expected(t)
          /\ \E s \in stored \cap Span(w) : s < g.from
      BY GapAssumption, GapShape DEF Unreported, Missing
    <3>4. 0 < g.from
      BY <1>1, <3>3, GapAssumption DEF GapTypes
    <3> QED BY <3>2, <3>3, <3>4 DEF RowOK, Span
  <2> QED BY <2>1, <2>2
<1>5. \A i, k \in DOMAIN P : i # k /\ P[i].status = "open" /\ P[k].status = "open"
                               => ~Overlap(P[i], P[k])
  BY <1>1, PersistedApart
<1> QED BY <1>2, <1>3, <1>4, <1>5 DEF Extends

LEMMA RowsWritten ==
    ASSUME GapInv, rows' \in Seq(GapRow), Extends(rows'), OpenGapsAreDisjoint',
           \A i \in DOMAIN rows' : RowOK(rows'[i]),
           jobs' \in Seq(GapJob), LockOK', NoOverlappingJobs',
           \A i \in DOMAIN jobs' : \E k \in DOMAIN jobs : jobs'[i] = jobs[k],
           check' \in [phase : {"idle", "asking"}, from : Int, to : Int, todo : SUBSET Int],
           UNCHANGED <<series, stored, now, holder, asking>>
    PROVE  GapInv'
<1>1. AskedOK'
  <2>1. ASSUME NEW j \in DOMAIN jobs' PROVE Bracketed(jobs[j])'
    <3>1. PICK k \in DOMAIN jobs : jobs'[j] = jobs[k]
      OBVIOUS
    <3>2. Bracketed(jobs[k])
      BY DEF GapInv, AskedOK
    <3> QED BY <3>1, <3>2 DEF Bracketed, Extends
  <2>2. ASSUME NEW a \in Asker PROVE Bracketed(asking[a])'
    <3>1. Bracketed(asking[a])
      BY DEF GapInv, AskedOK
    <3> QED BY <3>1 DEF Bracketed, Extends
  <2> QED BY <2>1, <2>2 DEF AskedOK, Bracketed
<1>2. RowsOK'
  BY DEF RowsOK, RowOK, Expected
<1> QED BY <1>1, <1>2 DEF GapInv, GapTypes, NothingIsAskedTwice

LEMMA JobCompletesKeeps == ASSUME GapInv, NEW j \in DOMAIN jobs, JobCompletes(j) PROVE GapInv'
<1>1. /\ UNCHANGED <<series, stored, now, holder, asking, check>>
      /\ rows' = Persisted(jobs[j]) /\ jobs' = RemoveAt(jobs, j)
  BY DEF JobCompletes
<1>2. jobs[j].from \in Int /\ jobs[j].to \in Int
  <2>1. jobs[j] \in GapJob
    BY DEF GapInv, GapTypes
  <2> QED BY <2>1 DEF GapJob
<1>3. /\ rows' \in Seq(GapRow) /\ Extends(rows') /\ OpenGapsAreDisjoint'
      /\ \A i \in DOMAIN rows' : RowOK(rows'[i])
  BY <1>1, <1>2, PersistedSound DEF OpenGapsAreDisjoint
<1>4. /\ jobs' \in Seq(GapJob) /\ LockOK' /\ NoOverlappingJobs'
      /\ \A i \in DOMAIN jobs' : \E k \in DOMAIN jobs : jobs'[i] = jobs[k]
  BY <1>1, JobEnds
<1> QED BY <1>1, <1>3, <1>4, RowsWritten DEF GapInv, GapTypes

LEMMA Validates ==
    ASSUME GapInv, ValidateStarts \/ ValidateEnds \/ ValidateDies
                     \/ \E i \in check.todo : ValidateAsks(i)
    PROVE  GapInv'
<1> DEFINE Checks == [phase : {"idle", "asking"}, from : Int, to : Int, todo : SUBSET Int]
<1>1. check \in Checks /\ GapTypes
  BY DEF GapInv, GapTypes
<1>2. ASSUME UNCHANGED <<series, now, jobs, holder, asking>>
      PROVE  /\ jobs' \in Seq(GapJob) /\ LockOK' /\ NoOverlappingJobs'
             /\ \A i \in DOMAIN jobs' : \E k \in DOMAIN jobs : jobs'[i] = jobs[k]
  BY <1>2 DEF GapInv, GapTypes, LockOK, NothingIsAskedTwice, NoOverlappingJobs
<1>3. NoCheck \in Checks
  BY DEF NoCheck
<1>4. CASE ValidateStarts
  <2> DEFINE w == [from |-> Min(stored), to |-> Max(stored) + 1]
  <2>1. /\ stored # {} /\ UNCHANGED <<series, stored, now, jobs, holder, asking>>
        /\ rows' = Persisted(w)
        /\ check' = [phase |-> "asking", from |-> w.from, to |-> w.to,
                     todo |-> {i \in DOMAIN rows' : rows'[i].status = "open"}]
    BY <1>4 DEF ValidateStarts
  <2>2. w.from \in Int /\ w.to \in Int
    <3>1. Min(stored) \in stored /\ Max(stored) \in stored /\ stored \subseteq Int
      BY <1>1, <2>1, Ends DEF GapTypes
    <3> QED BY <3>1
  <2> HIDE DEF w
  <2>3. /\ rows' \in Seq(GapRow) /\ Extends(rows') /\ OpenGapsAreDisjoint'
        /\ \A i \in DOMAIN rows' : RowOK(rows'[i])
    BY <2>1, <2>2, PersistedSound DEF OpenGapsAreDisjoint
  <2>4. check' \in Checks
    <3>1. {i \in DOMAIN rows' : rows'[i].status = "open"} \subseteq Int
      BY <2>3
    <3> QED BY <2>1, <2>2, <3>1
  <2> QED BY <1>2, <2>1, <2>3, <2>4, RowsWritten
<1>5. CASE ValidateEnds
  <2> DEFINE P == Persisted(check)
             ends(i) == IF i \in DOMAIN rows /\ rows[i].status = "open"
                        THEN [rows[i] EXCEPT !.status = "ignored"] ELSE P[i]
  <2>1. /\ UNCHANGED <<series, stored, now, jobs, holder, asking>> /\ check' = NoCheck
        /\ rows' = [i \in DOMAIN P |-> ends(i)]
    BY <1>5 DEF ValidateEnds
  <2>2. check.from \in Int /\ check.to \in Int
    BY <1>1
  <2>3. /\ P \in Seq(GapRow) /\ Extends(P) /\ \A i \in DOMAIN P : RowOK(P[i])
        /\ \A i, k \in DOMAIN P : i # k /\ P[i].status = "open" /\ P[k].status = "open"
                                    => ~Overlap(P[i], P[k])
    BY <2>2, PersistedSound
  <2>4. ASSUME NEW i \in DOMAIN P
        PROVE  /\ ends(i) \in GapRow /\ ends(i).from = P[i].from /\ ends(i).to = P[i].to
               /\ ends(i).status = "open" => ends(i) = P[i]
    <3>1. i \in DOMAIN rows => rows[i] \in GapRow
      BY <1>1 DEF GapTypes
    <3>2. P[i] \in GapRow
      BY <2>3
    <3> QED BY <2>3, <3>1, <3>2 DEF Extends, GapRow
  <2> HIDE DEF P, ends
  <2>5. /\ rows' \in Seq(GapRow) /\ DOMAIN rows' = DOMAIN P
        /\ \A i \in DOMAIN P : rows'[i] = ends(i)
    <3>1. DOMAIN P = 1 .. Len(P) /\ Len(P) \in Nat
      BY <2>3
    <3> QED BY <2>1, <2>4, <3>1
  <2>6. Extends(rows')
    BY <2>3, <2>4, <2>5 DEF Extends
  <2>7. \A i \in DOMAIN rows' : RowOK(rows'[i])
    BY <2>3, <2>4, <2>5 DEF RowOK, Span
  <2>8. OpenGapsAreDisjoint'
    BY <2>3, <2>4, <2>5 DEF OpenGapsAreDisjoint
  <2> QED BY <1>2, <1>3, <2>1, <2>5, <2>6, <2>7, <2>8, RowsWritten
<1>6. CASE ValidateDies \/ \E i \in check.todo : ValidateAsks(i)
  <2>1. /\ UNCHANGED <<series, now, rows, jobs, holder, asking>> /\ check' \in Checks
        /\ stored' \subseteq 0 .. now - 1
    <3>1. CASE ValidateDies
      BY <1>1, <1>3, <3>1 DEF ValidateDies, GapTypes
    <3>2. CASE \E i \in check.todo : ValidateAsks(i)
      <4>1. PICK i \in check.todo : ValidateAsks(i)
        BY <3>2
      <4>2. check' \in Checks
        BY <1>1, <4>1 DEF ValidateAsks
      <4>3. stored' \subseteq 0 .. now - 1
        BY <1>1, <4>1 DEF ValidateAsks, Closing, Span, GapTypes
      <4> QED BY <4>1, <4>2, <4>3 DEF ValidateAsks
    <3> QED BY <1>6, <3>1, <3>2
  <2> QED BY <2>1 DEF GapInv, GapTypes, LockOK, RowsOK, RowOK, Expected, AskedOK, Bracketed,
          NothingIsAskedTwice, OpenGapsAreDisjoint, NoOverlappingJobs
<1> QED BY <1>4, <1>5, <1>6
-----------------------------------------------------------------------------
LEMMA GapsInitially == GapInit => GapInv
<1> SUFFICES ASSUME GapInit PROVE GapInv
  OBVIOUS
<1>1. GapTypes
  BY GapAssumption, NoAskType DEF GapInit, GapTypes, NoCheck
<1>2. LockOK /\ AskedOK
  BY NoAskType DEF GapInit, LockOK, AskedOK
<1>3. RowsOK /\ NothingIsAskedTwice
  BY DEF GapInit, RowsOK, NothingIsAskedTwice, OpenGapsAreDisjoint, NoOverlappingJobs
<1> QED BY <1>1, <1>2, <1>3 DEF GapInv

LEMMA GapsPreserved == GapInv /\ [GapNext]_gapVars => GapInv'
<1> SUFFICES ASSUME GapInv, [GapNext]_gapVars PROVE GapInv'
  OBVIOUS
<1>1. CASE \E a \in Asker : \/ \E days \in Days : AskDays(a, days)
                            \/ \E i \in DOMAIN rows : AskGap(a, i)
                            \/ Admitted(a) \/ Enqueued(a) \/ AskFails(a)
  BY <1>1, Asks, AdmittedKeeps, EnqueuedKeeps, AskFailsKeeps
<1>2. CASE \E j \in DOMAIN jobs : JobSaves(j) \/ JobCompletes(j) \/ JobFails(j)
  BY <1>2, CandlesSaved, JobCompletesKeeps, JobFailsKeeps
<1>3. CASE Polled \/ Refreshed \/ CandleCloses
  BY <1>3, CandlesSaved
<1>4. CASE ValidateStarts \/ ValidateEnds \/ ValidateDies
             \/ \E i \in check.todo : ValidateAsks(i)
  BY <1>4, Validates
<1>5. CASE UNCHANGED gapVars
  BY <1>5 DEF gapVars, GapInv, GapTypes, LockOK, RowsOK, RowOK, Expected, AskedOK, Bracketed,
          NothingIsAskedTwice, OpenGapsAreDisjoint, NoOverlappingJobs
<1> QED BY <1>1, <1>2, <1>3, <1>4, <1>5 DEF GapNext

LEMMA GapInvariant == GapSpec => []GapInv
BY GapsInitially, GapsPreserved, PTL DEF GapSpec

(* Whatever ranges are checked and asked for, by any number of requests,   *)
(* no candle is missing twice in the summary of a series and none is       *)
(* fetched by two jobs (persist_internal_gaps,                             *)
(* ensure_no_overlapping_backfill).                                        *)
THEOREM AskedOnce == GapSpec => []NothingIsAskedTwice
<1>1. GapInv => NothingIsAskedTwice
  BY DEF GapInv
<1> QED BY <1>1, GapInvariant, PTL
-----------------------------------------------------------------------------
(* A job that was asked for a gap looks at the candles of the gap and at   *)
(* one on each side.                                                       *)
Around(w, r) ==
    /\ r.from \in Int /\ r.to \in Int /\ 0 < r.from /\ r.from < r.to
    /\ \A t \in Span(r) : Expected(t)
    /\ w.from = r.from - 1 /\ w.to = r.to + 1

LEMMA JobAround ==
    ASSUME GapInv, NEW j \in DOMAIN jobs, jobs[j].gap # 0
    PROVE  jobs[j].gap \in DOMAIN rows /\ Around(jobs[j], rows[jobs[j].gap])
<1>1. Bracketed(jobs[j]) /\ jobs[j].gap \in DOMAIN rows
  BY DEF GapInv, AskedOK, Bracketed
<1>2. rows[jobs[j].gap] \in GapRow /\ RowOK(rows[jobs[j].gap])
  BY <1>1 DEF GapInv, GapTypes, RowsOK
<1> QED BY <1>1, <1>2 DEF Bracketed, Around, RowOK, GapRow

(* A gap that was filled leaves none, and its first and last candle are    *)
(* near enough to the ends of the range: classify_candle_coverage.         *)
LEMMA FilledIsComplete ==
    ASSUME NEW w, NEW r, Around(w, r), Whole(r)
    PROVE  /\ InternalGaps(stored \cap Span(w)) = {} /\ Coverage(w) = "complete"
           /\ Filled(r, stored \cap Span(w))
<1> DEFINE times == stored \cap Span(w)
<1>1. /\ r.from \in Int /\ r.to \in Int /\ r.from < r.to
      /\ w.from = r.from - 1 /\ w.to = r.to + 1
  BY DEF Around
<1>2. \A t \in Int : r.from <= t /\ t < r.to => t \in times /\ t \in Span(r) /\ Expected(t)
  BY <1>1 DEF Around, Whole, Span
<1>3. times \in SUBSET Span(w)
  OBVIOUS
<1> HIDE DEF times
<1>4. InternalGaps(times) = {}
  <2>1. ASSUME NEW g \in InternalGaps(times) PROVE FALSE
    <3>1. g.from \in Int /\ g.to \in Int /\ g.from < g.to /\ w.from < g.from /\ g.to < w.to
      BY <1>1, <1>3, GapShape, GapsInside, GapAssumption
    <3>2. g.from \in Span(g)
      BY <3>1 DEF Span
    <3>3. g.from \notin times
      BY <3>2, GapShape DEF Missing
    <3> QED BY <1>1, <1>2, <3>1, <3>3
  <2> QED BY <2>1
<1>5. r.from \in times /\ r.to - 1 \in times /\ r.from \in Span(r) /\ Expected(r.from)
  BY <1>1, <1>2
<1>6. /\ \E s \in times : s <= w.from + 1
      /\ \E s \in times : s + 1 >= w.to - 1
  <2>1. r.from <= w.from + 1 /\ (r.to - 1) + 1 >= w.to - 1
    BY <1>1
  <2> QED BY <1>5, <2>1
<1>7. Coverage(w) = "complete"
  BY <1>4, <1>5, <1>6 DEF Coverage, times
<1>8. Filled(r, times)
  <2>1. \A t \in Span(r) : t \in times
    BY <1>1, <1>2 DEF Span
  <2> QED BY <1>5, <2>1 DEF Filled
<1> QED BY <1>4, <1>7, <1>8 DEF times

(* A candle that is missing between two that are there is part of an       *)
(* internal gap, which reaches back to the last and forth to the first     *)
(* candle that is not missing.                                             *)
LEMMA HoleIsFound ==
    ASSUME NEW times \in SUBSET Nat, \A s \in times : s <= MaxNow,
           NEW t \in Int, Missing(t, times),
           NEW a \in times, a <= t, NEW z \in times, z >= t
    PROVE  InternalGaps(times) # {}
<1>1. a < t /\ t < z /\ a \in Nat /\ z \in Nat /\ z <= MaxNow /\ MaxNow \in Nat
  BY GapAssumption DEF Missing
<1> DEFINE Back == {d \in Nat \ {0} : ~Missing(t - d, times)}
           Forth == {d \in Nat \ {0} : ~Missing(t + d, times)}
<1>2. t - a \in Back /\ z - t \in Forth
  <2>1. t - (t - a) = a /\ t + (z - t) = z /\ t - a \in Nat \ {0} /\ z - t \in Nat \ {0}
    BY <1>1
  <2> QED BY <2>1 DEF Missing
<1>3. PICK m \in Back : \A d \in Back : m <= d
  BY <1>2, Least
<1>4. PICK n \in Forth : \A d \in Forth : n <= d
  BY <1>2, Least
<1>5. m \in Nat \ {0} /\ n \in Nat \ {0} /\ m <= t - a /\ n <= z - t
  BY <1>2, <1>3, <1>4
<1> DEFINE g == [from |-> t - m + 1, to |-> t + n]
<1>6. g.from \in 0 .. MaxNow /\ g.to \in 0 .. MaxNow /\ g.from < g.to /\ a < g.from /\ z >= g.to
  BY <1>1, <1>5
<1>7. ~Missing(g.from - 1, times) /\ ~Missing(g.to, times)
  <2>1. ~Missing(t - m, times) /\ ~Missing(t + n, times)
    OBVIOUS
  <2>2. g.from - 1 = t - m /\ g.to = t + n
    BY <1>5
  <2> QED BY <2>1, <2>2
<1>8. ASSUME NEW u \in Span(g) PROVE Missing(u, times)
  <2>1. u \in Int /\ t - m + 1 <= u /\ u < t + n
    BY <1>1, <1>5 DEF Span
  <2>2. CASE u = t
    BY <2>2
  <2>3. CASE u < t
    <3>1. t - u \in Nat \ {0} /\ t - (t - u) = u /\ t - u < m
      BY <1>5, <2>1, <2>3
    <3>2. t - u \notin Back
      BY <1>3, <1>5, <3>1
    <3> QED BY <3>1, <3>2
  <2>4. CASE u > t
    <3>1. u - t \in Nat \ {0} /\ t + (u - t) = u /\ u - t < n
      BY <1>5, <2>1, <2>4
    <3>2. u - t \notin Forth
      BY <1>4, <1>5, <3>1
    <3> QED BY <3>1, <3>2
  <2> QED BY <2>1, <2>2, <2>3, <2>4
<1>9. g \in [from : 0 .. MaxNow, to : 0 .. MaxNow]
  BY <1>6
<1> HIDE DEF g, Back, Forth
<1>10. g \in InternalGaps(times)
  BY <1>6, <1>7, <1>8, <1>9, GapFound
<1> QED BY <1>10

LEMMA CompleteIsFilled ==
    ASSUME GapTypes, NEW w, NEW r, Around(w, r), Coverage(w) = "complete"
    PROVE  Whole(r)
<1> DEFINE times == stored \cap Span(w)
<1>1. /\ r.from \in Int /\ r.to \in Int /\ r.from < r.to
      /\ w.from = r.from - 1 /\ w.to = r.to + 1
  BY DEF Around
<1>2. times \in SUBSET Nat /\ \A s \in times : s <= MaxNow
  <2>1. now \in Int /\ now <= MaxNow /\ MaxNow \in Int
    BY GapAssumption DEF GapTypes
  <2>2. ASSUME NEW s \in times PROVE s \in Nat /\ s <= MaxNow
    <3>1. s \in 0 .. now - 1
      BY DEF GapTypes
    <3> QED BY <2>1, <3>1
  <2> QED BY <2>2
<1>3. /\ InternalGaps(times) = {}
      /\ \E s \in times : s <= w.from + 1
      /\ \E s \in times : s + 1 >= w.to - 1
  BY DEF Coverage
<1>4. PICK a \in times, z \in times : a <= w.from + 1 /\ z + 1 >= w.to - 1
  BY <1>3
<1>5. SUFFICES ASSUME NEW t \in Span(r), t \notin stored PROVE FALSE
  BY DEF Whole
<1>6. t \in Int /\ r.from <= t /\ t < r.to /\ Expected(t)
  BY <1>1 DEF Span, Around
<1>7. a \in Nat /\ z \in Nat /\ a <= t /\ z >= t
  BY <1>1, <1>2, <1>4, <1>6
<1>8. Missing(t, times)
  BY <1>5, <1>6 DEF Missing
<1> HIDE DEF times
<1> QED BY <1>2, <1>3, <1>6, <1>7, <1>8, HoleIsFound

(* A backfill that was asked for a gap settles the row of the gap when it  *)
(* ends with all of its candles stored, and calls its range complete in    *)
(* that case only (PageStore.complete, classify_candle_coverage).          *)
THEOREM GapSettled == GapSpec => JobSettlesItsGap
<1> DEFINE Settles ==
      \A j \in DOMAIN jobs : jobs[j].gap # 0 /\ JobCompletes(j) =>
         LET filled == Whole(rows[jobs[j].gap])
         IN /\ filled => rows'[jobs[j].gap].status # "open"
            /\ filled = (Coverage(jobs[j]) = "complete")
<1>1. GapInv => Settles
  <2> SUFFICES ASSUME GapInv, NEW j \in DOMAIN jobs, jobs[j].gap # 0, JobCompletes(j)
               PROVE  /\ Whole(rows[jobs[j].gap]) => rows'[jobs[j].gap].status # "open"
                      /\ Whole(rows[jobs[j].gap]) = (Coverage(jobs[j]) = "complete")
    OBVIOUS
  <2> DEFINE i == jobs[j].gap
             w == jobs[j]
             r == rows[i]
  <2>1. /\ i \in DOMAIN rows /\ Around(w, r) /\ GapTypes /\ r \in GapRow
        /\ rows' = Persisted(w)
    BY JobAround DEF GapInv, GapTypes, JobCompletes
  <2>2. Whole(r) <=> Coverage(w) = "complete"
    BY <2>1, FilledIsComplete, CompleteIsFilled
  <2>3. ASSUME Whole(r) PROVE rows'[i].status # "open"
    <3>1. rows'[i] = Settling(w, i)
      BY <2>1, PersistedRows
    <3>2. CASE r.status = "open"
      <4>1. Standing(r, w)
        BY <2>1, <3>2 DEF Standing, Overlap, Around
      <4>2. Settled(r, w)
        BY <2>1, <2>3, <4>1, FilledIsComplete DEF Settled
      <4> QED BY <2>1, <3>1, <4>2 DEF Settling, GapRow
    <3>3. CASE r.status # "open"
      BY <2>1, <3>1, <3>3 DEF Settling, GapRow
    <3> QED BY <3>2, <3>3
  <2>4. Whole(r) = (Coverage(w) = "complete")
    BY <2>2 DEF Whole
  <2> QED BY <2>3, <2>4
<1>2. GapInv => [Settles]_gapVars
  BY <1>1
<1> QED BY <1>2, GapInvariant, PTL DEF JobSettlesItsGap
=============================================================================
