----------------------------- MODULE FencedFeed -----------------------------
(***************************************************************************)
(* What the lease protocol of a market-data feed promises. Clients believe *)
(* they hold the feed by the token they were given; the feed has at most   *)
(* one holder. Only the holder moves the progress of the target it was     *)
(* given, forward, and it gives the feed back in the same step. A client   *)
(* whose token is no longer the holder's can do nothing but give up.       *)
(***************************************************************************)
EXTENDS Naturals

CONSTANTS Subject, Target, Token, Nobody, Last   \* Target \subseteq Subject

VARIABLES holder, subject, clients, progress, finished

feedVars == <<holder, subject, clients, progress, finished>>

FeedInit ==
    /\ holder = Nobody /\ subject = Nobody
    /\ clients = {}
    /\ progress = [t \in Target |-> 0]
    /\ finished = {}

(* A token nobody uses is given out, possibly over an expired holder.      *)
Take(token, s) ==
    /\ token \notin clients \cup {holder}
    /\ holder' = token /\ subject' = s /\ clients' = clients \cup {token}
    /\ UNCHANGED <<progress, finished>>

Expire ==
    /\ holder # Nobody
    /\ holder' = Nobody /\ subject' = Nobody
    /\ UNCHANGED <<clients, progress, finished>>

GiveUp(token) ==
    /\ token \in clients
    /\ clients' = clients \ {token}
    /\ \/ UNCHANGED <<holder, subject>>
       \/ holder = token /\ holder' = Nobody /\ subject' = Nobody
    /\ UNCHANGED <<progress, finished>>

(* The holder returns the feed, with or without a result.                  *)
Return ==
    /\ holder \in clients
    /\ clients' = clients \ {holder}
    /\ holder' = Nobody /\ subject' = Nobody

Advance ==
    /\ Return
    /\ subject \in Target \ finished
    /\ \E p \in progress[subject] + 1 .. Last : progress' = [progress EXCEPT ![subject] = p]
    /\ UNCHANGED finished

Finish ==
    /\ Return
    /\ subject \in Target \ finished /\ progress[subject] = Last
    /\ finished' = finished \cup {subject}
    /\ UNCHANGED progress

(* A new request takes the place of a target nobody works on.              *)
Restart(t) ==
    /\ subject # t
    /\ progress' = [progress EXCEPT ![t] = 0]
    /\ finished' = finished \ {t}
    /\ UNCHANGED <<holder, subject, clients>>

FeedNext ==
    \/ \E token \in Token : GiveUp(token) \/ \E s \in Subject : Take(token, s)
    \/ Expire \/ Advance \/ Finish
    \/ \E t \in Target : Restart(t)

FeedSpec == FeedInit /\ [][FeedNext]_feedVars
=============================================================================
