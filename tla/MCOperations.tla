---------------------------- MODULE MCOperations ----------------------------
(* Parts of the system that do not act on one another, each by itself: a   *)
(* behaviour is one of the part that its first state names, and leaves the *)
(* variables of the others alone.                                          *)
EXTENDS BotTrading, ConnectionAccess, CandleGaps, BarAlgorithms,
        TickCandles, WalkForward, LedgerCheck, TLC

VARIABLE part

MCCloses == {9408, 9792, 9984}
MCMoves == {-2, 0, 1}
MCQuantities == {-2, -1, 1}

Symmetry == Permutations(Request)

AllVars == <<part, vars, accessVars, gapVars, barVars, tickVars, moves, ledgerVars>>

OperationsInit ==
    /\ part \in {"bot", "access", "gaps", "bars", "ticks", "walk", "ledger"}
    /\ Init
    /\ AccessInit
    /\ GapInit /\ (part = "gaps" \/ series = "collected")
    /\ BarInit
    /\ TickInit
    /\ WalkInit
    /\ LedgerInit /\ (part = "ledger" \/ exchange = "oanda")

BotsMove == UNCHANGED <<accessVars, gapVars, barVars, tickVars, moves, ledgerVars>>
AccessMoves == UNCHANGED <<vars, gapVars, barVars, tickVars, moves, ledgerVars>>
GapsMove == UNCHANGED <<vars, accessVars, barVars, tickVars, moves, ledgerVars>>
BarsMove == UNCHANGED <<vars, accessVars, gapVars, tickVars, moves, ledgerVars>>
TicksMove == UNCHANGED <<vars, accessVars, gapVars, barVars, moves, ledgerVars>>
WalkMoves == UNCHANGED <<vars, accessVars, gapVars, barVars, tickVars, ledgerVars>>
LedgerMoves == UNCHANGED <<vars, accessVars, gapVars, barVars, tickVars, moves>>

OperationsNext ==
    /\ UNCHANGED part
    /\ \/ part = "bot" /\ Next /\ BotsMove
       \/ part = "access" /\ AccessNext /\ AccessMoves
       \/ part = "gaps" /\ GapNext /\ GapsMove
       \/ part = "bars" /\ BarNext /\ BarsMove
       \/ part = "ticks" /\ TickNext /\ TicksMove
       \/ part = "walk" /\ WalkNext /\ WalkMoves
       \/ part = "ledger" /\ LedgerNext /\ LedgerMoves

Operations == OperationsInit /\ [][OperationsNext]_AllVars
=============================================================================
