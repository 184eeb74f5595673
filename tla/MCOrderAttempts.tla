--------------------------- MODULE MCOrderAttempts ---------------------------
(* Small instances of OrderAttempts for TLC, its invariant included.       *)
EXTENDS OrderInvariant, TLC

\* Attempts, orders, markets and passes are interchangeable.
Symmetry == Permutations(Attempts) \cup Permutations(Orders)
            \cup Permutations(Workers) \cup Permutations(Markets)
=============================================================================
