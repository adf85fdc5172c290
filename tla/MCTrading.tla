----------------------------- MODULE MCTrading -----------------------------
(* The bots that trade, how they come into being and what the screens tell *)
(* of them, each by itself: a behaviour is one of the part that its first  *)
(* state names, and leaves the variables of the others alone.              *)
EXTENDS BotTrading, Journal, Provisioning, TLC

VARIABLE part

MCGains == {-1}
MCAsked == {{"hold", "ordered", "closed", "denied", "halted", "paused"}, {"closed"}}

Symmetry == Permutations(Worker) \cup Permutations(Trader)

TradingInit ==
    part \in {"bots", "journal", "provisioning"} /\ Init /\ JournalInit /\ ProvisionInit

TradingNext ==
    /\ UNCHANGED part
    /\ \/ part = "bots" /\ Next /\ UNCHANGED <<journalVars, provisionVars>>
       \/ part = "journal" /\ JournalNext /\ UNCHANGED <<vars, provisionVars>>
       \/ part = "provisioning" /\ ProvisionNext /\ UNCHANGED <<vars, journalVars>>

Trading == TradingInit /\ [][TradingNext]_<<part, vars, journalVars, provisionVars>>
=============================================================================
