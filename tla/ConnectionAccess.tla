-------------------------- MODULE ConnectionAccess --------------------------
(***************************************************************************)
(* One exchange connection of a workspace: its row, the encrypted files of *)
(* its credentials (LocalEncryptedSecretStore), the account selected for   *)
(* market data, and the one-time tickets with which a browser opens a      *)
(* stream (api/routes/connections, VerifyConnectionUseCase, access,        *)
(* stream_connection_access, stream_tickets).                              *)
(*                                                                         *)
(* Handlers that are coroutines run on the event loop and leave it only    *)
(* while they wait for the exchange; the others run in threads between any *)
(* of their statements. The ORM writes the attributes that a handler       *)
(* changed from what it had read, and nothing else. A reader's FOR SHARE   *)
(* lock keeps writers of the row waiting.                                  *)
(***************************************************************************)
EXTENDS Integers, FiniteSets

CONSTANTS
    Caller,     \* requests to the API that are in flight at once
    Session,    \* stream sessions that resolve their access at once
    Ticket,     \* bound: tickets issued
    Ttl,        \* market_stream_ticket_ttl_seconds
    MaxSecrets, \* bound: credentials ever saved
    MaxClock    \* bound: the clock

ASSUME AccessAssumption == {Ttl, MaxSecrets, MaxClock} \subseteq Nat

VARIABLES
    row,       \* the ExchangeConnection
    files,     \* the secrets on the disk, by number
    written,   \* how many were ever written
    account,   \* it has an ExternalAccount, found by a verification
    selected,  \* which is the workspace's selection
    called,    \* the requests in flight, with what they have read
    session,   \* the stream sessions
    clock,
    expiry,    \* of each ticket, 0 if it was not issued
    used,      \* UsedTicketStore
    closed,    \* history: disabled, and no account selected since
    redeemed,  \* history: tickets accepted by this API process ...
    twice      \* history: ... and one that was accepted again

accessVars == <<row, files, written, account, selected, called, session, clock,
                expiry, used, closed, redeemed, twice>>

ticketVars == <<clock, expiry, used, redeemed, twice>>
rowVars == <<row, account, selected, closed>>

NoConnection == [status |-> "none", outcome |-> "not_verified", ref |-> 0]
Exists == row.status \notin {"none", "deleted"}

(* The account conditions of every access decision.                        *)
Open == row.status = "verified" /\ account /\ selected

(* `read` is the row as the request's session knows it, `ref` the secret   *)
(* it is to delete: the new one if it fails, or the old one.               *)
Idle == [phase |-> "idle", read |-> NoConnection, ref |-> 0]

LoopFree == \A q \in Caller : called[q].phase \notin {"updating", "forgetting", "loading"}
Unlocked == \A s \in Session : session[s].phase # "reading"

(* Faulty form for SecretIsKept: the whole row is written back.            *)
FlushedWhole(read, new) == new

(* UPDATE of the attributes that differ from what was read.                *)
Flushed(read, new) ==
    [status |-> IF new.status # read.status THEN new.status ELSE row.status,
     outcome |-> IF new.outcome # read.outcome THEN new.outcome ELSE row.outcome,
     ref |-> IF new.ref # read.ref THEN new.ref ELSE row.ref]

Becomes(q, phase, read, ref) ==
    called' = [called EXCEPT ![q] = [phase |-> phase, read |-> read, ref |-> ref]]

Put == /\ written < MaxSecrets
       /\ written' = written + 1
       /\ files' = files \cup {written + 1}

-----------------------------------------------------------------------------
(* create_exchange_connection: the file, and then the row. The label may   *)
(* be taken: the file is deleted again.                                    *)
CreatePuts(q) ==
    /\ called[q] = Idle /\ row.status = "none"
    /\ Put /\ Becomes(q, "creating", NoConnection, written + 1)
    /\ UNCHANGED <<rowVars, session, ticketVars>>

CreateCommits(q) ==
    /\ called[q].phase = "creating" /\ row.status = "none"
    /\ row' = [NoConnection EXCEPT !.status = "verifying", !.ref = called[q].ref]
    /\ Becomes(q, "idle", NoConnection, 0)
    /\ UNCHANGED <<files, written, account, selected, closed, session, ticketVars>>

(* update_connection_credentials_and_verify: the new file, the row, the    *)
(* old file, and the verification, in one session.                         *)
UpdatePuts(q) ==
    /\ called[q] = Idle /\ LoopFree /\ Exists
    /\ Put /\ Becomes(q, "updating", row, written + 1)
    /\ UNCHANGED <<rowVars, session, ticketVars>>

UpdateCommits(q) ==
    /\ called[q].phase = "updating" /\ Exists /\ Unlocked
    /\ LET new == [NoConnection EXCEPT !.status = "verifying", !.ref = called[q].ref]
       IN /\ row' = Flushed(called[q].read, new)
          /\ Becomes(q, "forgetting", new, called[q].read.ref)
    /\ UNCHANGED <<files, written, account, selected, closed, session, ticketVars>>

(* The row is gone, or the commit fails.                                   *)
PutFails(q) ==
    /\ called[q].phase \in {"creating", "updating"}
    /\ files' = files \ {called[q].ref}
    /\ Becomes(q, "idle", NoConnection, 0)
    /\ UNCHANGED <<rowVars, written, session, ticketVars>>

UpdateForgets(q) ==
    /\ called[q].phase = "forgetting"
    /\ files' = files \ {called[q].ref}
    /\ IF Exists THEN Becomes(q, "loading", called[q].read, 0) ELSE Becomes(q, "idle", NoConnection, 0)
    /\ UNCHANGED <<rowVars, written, session, ticketVars>>

-----------------------------------------------------------------------------
(* VerifyConnectionUseCase.                                                *)

VerifyReads(q) ==
    /\ called[q] = Idle /\ LoopFree /\ Exists
    /\ Becomes(q, "loading", row, 0)
    /\ UNCHANGED <<rowVars, files, written, session, ticketVars>>

(* The credentials are loaded and the row says that it is being verified.  *)
VerifyLoads(q) ==
    LET new == [called[q].read EXCEPT !.status = "verifying"]
    IN /\ called[q].phase = "loading" /\ called[q].read.ref \in files
       /\ called[q].read # new => Exists /\ Unlocked
       /\ row' = IF called[q].read # new THEN Flushed(called[q].read, new) ELSE row
       /\ Becomes(q, "verifying", new, 0)
       /\ UNCHANGED <<files, written, account, selected, closed, session, ticketVars>>

(* The exchange has answered, or has not.                                  *)
VerifyEnds(q, success) ==
    /\ called[q].phase = "verifying" /\ LoopFree /\ Exists /\ Unlocked
    /\ row' = Flushed(called[q].read,
                      [called[q].read EXCEPT !.status = IF success THEN "verified" ELSE "invalid",
                                              !.outcome = IF success THEN "success" ELSE "failed"])
    /\ account' = (account \/ success)
    /\ Becomes(q, "idle", NoConnection, 0)
    /\ UNCHANGED <<files, written, selected, closed, session, ticketVars>>

-----------------------------------------------------------------------------
DisableReads(q) ==
    /\ called[q] = Idle /\ Exists
    /\ Becomes(q, "disabling", row, 0)
    /\ UNCHANGED <<rowVars, files, written, session, ticketVars>>

(* Faulty form for DisableClosesAccess: only the status is changed.        *)
DisableKeepsSelection(q) ==
    /\ called[q].phase = "disabling" /\ Exists /\ Unlocked
    /\ row' = Flushed(called[q].read, [called[q].read EXCEPT !.status = "disabled"])
    /\ closed' = (closed \/ \A p \in Caller : called[p].phase # "selecting")
    /\ Becomes(q, "idle", NoConnection, 0)
    /\ UNCHANGED <<files, written, account, selected, session, ticketVars>>

(* disable_exchange_connection: the status, and the selections of its      *)
(* accounts.                                                               *)
DisableCommits(q) ==
    /\ called[q].phase = "disabling" /\ Exists /\ Unlocked
    /\ row' = Flushed(called[q].read, [called[q].read EXCEPT !.status = "disabled"])
    /\ selected' = FALSE
    /\ closed' = (closed \/ \A p \in Caller : called[p].phase # "selecting")
    /\ Becomes(q, "idle", NoConnection, 0)
    /\ UNCHANGED <<files, written, account, session, ticketVars>>

DeleteReads(q) ==
    /\ called[q] = Idle /\ row.status \in {"disabled", "invalid"}
    /\ Becomes(q, "deleting", row, 0)
    /\ UNCHANGED <<rowVars, files, written, session, ticketVars>>

(* The mapper detaches the accounts from the row that it deletes, which    *)
(* the database does not allow: only a row without accounts goes.          *)
DeleteCommits(q) ==
    /\ called[q].phase = "deleting" /\ Unlocked /\ ~account
    /\ row' = [NoConnection EXCEPT !.status = "deleted"]
    /\ Becomes(q, "destroying", NoConnection, called[q].read.ref)
    /\ UNCHANGED <<files, written, account, selected, closed, session, ticketVars>>

DeleteForgets(q) ==
    /\ called[q].phase = "destroying"
    /\ files' = files \ {called[q].ref}
    /\ Becomes(q, "idle", NoConnection, 0)
    /\ UNCHANGED <<rowVars, written, session, ticketVars>>

(* select_workspace_account, for this connection or for another one of the *)
(* exchange.                                                               *)
SelectReads(q) ==
    /\ called[q] = Idle /\ row.status = "verified" /\ account
    /\ Becomes(q, "selecting", NoConnection, 0)
    /\ UNCHANGED <<rowVars, files, written, session, ticketVars>>

SelectCommits(q) ==
    /\ called[q].phase = "selecting"
    /\ selected' = TRUE /\ closed' = FALSE
    /\ Becomes(q, "idle", NoConnection, 0)
    /\ UNCHANGED <<row, account, files, written, session, ticketVars>>

SelectAnother ==
    /\ selected /\ Unlocked
    /\ selected' = FALSE
    /\ UNCHANGED <<row, account, closed, files, written, called, session, ticketVars>>

(* A request ends with an error: the database fails, the row or the file   *)
(* is gone, the exchange does not answer and neither can this be saved.    *)
Abandoned(q) ==
    /\ called[q].phase \in {"loading", "verifying", "disabling", "deleting", "selecting"}
    /\ Becomes(q, "idle", NoConnection, 0)
    /\ UNCHANGED <<rowVars, files, written, session, ticketVars>>

-----------------------------------------------------------------------------
(* Streams.                                                                *)

NoSession == [phase |-> "none", ref |-> 0]

(* issue_stream_ticket.                                                    *)
Issue(t) ==
    /\ Open /\ expiry[t] = 0
    /\ expiry' = [expiry EXCEPT ![t] = clock + Ttl]
    /\ UNCHANGED <<rowVars, files, written, called, session, clock, used, redeemed, twice>>

(* _purge_expired.                                                         *)
Purged(now) == {t \in used : expiry[t] > now}

(* UsedTicketStore.consume.                                                *)
Consumed(t, now) == t \notin Purged(now) /\ expiry[t] > now

(* verify_and_consume_ticket reads the clock twice: when the token is      *)
(* decoded, and when it is consumed.                                       *)
Redeem(s, t, now) ==
    /\ session[s].phase = "none" /\ LoopFree
    /\ expiry[t] > clock /\ now >= clock
    /\ clock' = now
    /\ IF Consumed(t, now)
       THEN /\ used' = Purged(now) \cup {t}
            /\ session' = [session EXCEPT ![s].phase = "resolving"]
            /\ redeemed' = redeemed \cup {t}
            /\ twice' = (twice \/ t \in redeemed)
       ELSE /\ used' = Purged(now)
            /\ UNCHANGED <<session, redeemed, twice>>
    /\ UNCHANGED <<rowVars, files, written, called, expiry>>

(* resolve_stream_connection_credentials: the row under its lock, ...      *)
AccessReads(s) ==
    /\ session[s].phase = "resolving"
    /\ session' = [session EXCEPT ![s] = IF Open THEN [phase |-> "reading", ref |-> row.ref]
                                         ELSE NoSession]
    /\ UNCHANGED <<rowVars, files, written, called, ticketVars>>

(* ... and the secret it names.                                            *)
AccessLoads(s) ==
    /\ session[s].phase = "reading"
    /\ session' = [session EXCEPT ![s] = NoSession]
    /\ UNCHANGED <<rowVars, files, written, called, ticketVars>>

TimePasses ==
    /\ clock < MaxClock
    /\ clock' = clock + 1
    /\ UNCHANGED <<rowVars, files, written, called, session, expiry, used, redeemed, twice>>

ProcessEnds ==
    /\ called' = [q \in Caller |-> Idle]
    /\ session' = [s \in Session |-> NoSession]
    /\ used' = {} /\ redeemed' = {}
    /\ UNCHANGED <<rowVars, files, written, clock, expiry, twice>>

AccessInit ==
    /\ row = NoConnection /\ files = {} /\ written = 0
    /\ account = FALSE /\ selected = FALSE /\ closed = FALSE
    /\ called = [q \in Caller |-> Idle]
    /\ session = [s \in Session |-> NoSession]
    /\ clock = 0 /\ expiry = [t \in Ticket |-> 0]
    /\ used = {} /\ redeemed = {} /\ twice = FALSE

Handled(q) ==
    \/ CreatePuts(q) \/ CreateCommits(q) \/ PutFails(q)
    \/ UpdatePuts(q) \/ UpdateCommits(q) \/ UpdateForgets(q)
    \/ VerifyReads(q) \/ VerifyLoads(q) \/ \E success \in BOOLEAN : VerifyEnds(q, success)
    \/ DisableReads(q) \/ DisableCommits(q)
    \/ DeleteReads(q) \/ DeleteCommits(q) \/ DeleteForgets(q)
    \/ SelectReads(q) \/ SelectCommits(q)
    \/ Abandoned(q)

AccessNext ==
    \/ \E q \in Caller : Handled(q)
    \/ SelectAnother
    \/ \E t \in Ticket : Issue(t)
    \/ \E s \in Session, t \in Ticket, now \in 0 .. MaxClock : Redeem(s, t, now)
    \/ \E s \in Session : AccessReads(s) \/ AccessLoads(s)
    \/ TimePasses
    \/ ProcessEnds

AccessSpec == AccessInit /\ [][AccessNext]_accessVars

-----------------------------------------------------------------------------
(* The secret that the row names is on the disk, at every moment and after *)
(* every crash of the API: a new one is written before the row names it,   *)
(* an old one is deleted when the row does not name it any more. Nor does  *)
(* it vanish under a stream that reads it, which has the row locked.       *)
SecretIsKept ==
    /\ Exists => row.ref \in files
    /\ \A s \in Session : session[s].phase = "reading" => session[s].ref \in files

(* RT-03: an API process accepts a ticket at most once, whatever the clock *)
(* says between the two times it is looked at and whatever was purged.     *)
TicketsAreUsedOnce == ~twice

(* A connection that was disabled gives no access until an account of it   *)
(* is selected again, even if a verification that was under way makes it   *)
(* "verified" again. (A selection that was under way is an exception.)     *)
DisableClosesAccess == closed => ~Open

(* Access ends when it is meant to: a disabled connection serves nobody,   *)
(* and a ticket opens one stream.                                          *)
AccessIsClosed == DisableClosesAccess /\ TicketsAreUsedOnce
=============================================================================
