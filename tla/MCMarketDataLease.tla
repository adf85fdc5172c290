------------------------- MODULE MCMarketDataLease -------------------------
(* Instances of MarketDataLease for TLC.                                   *)
EXTENDS MarketDataLease, TLC

MCFailure == {[code |-> "communication_failed", retryable |-> TRUE, retryAfter |-> 0],
              [code |-> "authentication_failed", retryable |-> FALSE, retryAfter |-> 0]}

MCRetryable == {f \in MCFailure : f.retryable}

MCOneAccess == {[version |-> 0, usable |-> TRUE]}

MCNewCredentials == MCOneAccess \cup {[version |-> 1, usable |-> TRUE]}

MCLosesAccess == MCOneAccess \cup {[version |-> 0, usable |-> FALSE]}

Symmetry == Permutations(Worker) \cup Permutations(Token)
=============================================================================
