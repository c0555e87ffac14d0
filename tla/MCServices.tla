----------------------------- MODULE MCServices -----------------------------
(***************************************************************************)
(* The instance of Services that TLC checks.                               *)
(***************************************************************************)
EXTENDS Services, TLC

CONSTANTS a1, a2, c1, c2, p1, p2, v1, v2

Interchangeable ==
    Permutations({a1, a2}) \cup Permutations({c1, c2})
    \cup Permutations({p1, p2}) \cup Permutations({v1, v2})

MCAttempts == {a1, a2}
MCCallers == {c1, c2}
MCProcesses == {p1, p2}
MCVisitors == {v1, v2}

MCEstimates == {[call |-> 7, verification |-> 2, pvg |-> 10]}

\* Below the floor.
MCPrices == {[max |-> 3, priority |-> 2, base |-> 2]}

Text(low, numbers, before) == [low |-> low, numbers |-> numbers, before |-> before]

\* Another error, a text without numbers, one whose last number is what was
\* sent, and one with a minimum.
MCRejections ==
    { Text(FALSE, <<>>, 0), Text(TRUE, <<>>, 0), Text(TRUE, <<20, 10>>, 2),
      Text(TRUE, <<10, 20>>, 1) }
=============================================================================
