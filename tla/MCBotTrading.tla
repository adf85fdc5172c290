---------------------------- MODULE MCBotTrading ----------------------------
(* Instances of BotTrading for TLC.                                        *)
EXTENDS BotTrading, TLC

Symmetry == Permutations(Worker) \cup Permutations(Request)
=============================================================================
