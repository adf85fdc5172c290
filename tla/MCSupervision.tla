---------------------------- MODULE MCSupervision ----------------------------
(* The watchdogs and the halts, each by itself: a behaviour is one of the  *)
(* part that its first state names, and leaves the variables of the other  *)
(* alone.                                                                  *)
EXTENDS Watchdogs, TradingHalt

VARIABLE part

(* Of the part that stands still no fair step is enabled: an item that is  *)
(* off does not stall, a lock that is not broken is not judged.            *)
Init ==
    /\ part \in {"watchdogs", "halts"}
    /\ DogInit /\ (part = "watchdogs" \/ watched = "bots")
    /\ HaltInit /\ (part = "halts" \/ cause = "lock")

Next ==
    /\ UNCHANGED part
    /\ \/ part = "watchdogs" /\ DogNext /\ UNCHANGED haltVars
       \/ part = "halts" /\ HaltNext /\ UNCHANGED dogVars

Spec == Init /\ [][Next]_<<part, dogVars, haltVars>> /\ DogFairness /\ HaltFairness
=============================================================================
