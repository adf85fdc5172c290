---------------------------- MODULE MCPaperDesk ----------------------------
(* An instance of PaperDesk for TLC: prices around 100, an account of 2000, *)
(* and the limits of conservative-v1, but with two losses too many at two.  *)
EXTENDS PaperDesk

MCRules ==
    [initial |-> [perTrade |-> 10, allOpen |-> 15, daily |-> 20, weekly |-> 40, drawdown |-> 20,
                  losses |-> 1, minutes |-> 15, delay |-> 0],
     hard |-> [perTrade |-> 20, allOpen |-> 50, daily |-> 50, weekly |-> 80, drawdown |-> 40,
               losses |-> 2, minutes |-> 1, delay |-> 0],
     leverage |-> 3, orderShare |-> 100, holdingShare |-> 250, rewardRisk |-> 2]

Bar(open, high, low, close) ==
    [open |-> open, high |-> high, low |-> low, close |-> close,
     probes |-> <<[open |-> open, high |-> high, low |-> low]>>]

(* Up and down again inside one bar, seen through two finer ones.          *)
Spike == [open |-> 100, high |-> 116, low |-> 98, close |-> 100,
          probes |-> <<[open |-> 100, high |-> 116, low |-> 100],
                       [open |-> 106, high |-> 106, low |-> 98]>>]

MCShape == {Bar(100, 101, 99, 100), Bar(100, 103, 90, 95), Bar(60, 70, 40, 60), Spike}

MCSetup ==
    {[exchange |-> "oanda", policy |-> "stop_loss", slip |-> 0, release |-> None],
     [exchange |-> "binance", policy |-> "stop_loss", slip |-> 0, release |-> None],
     [exchange |-> "oanda", policy |-> "trailing_stop", slip |-> 50, release |-> 1],
     [exchange |-> "binance", policy |-> "stop_and_target", slip |-> 50, release |-> 1]}
=============================================================================
