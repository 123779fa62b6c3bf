---------------------------- MODULE MCQueryClient ----------------------------
(***************************************************************************)
(* Small calls for TLC: waits of up to three poll intervals, deadlines     *)
(* long enough for a wait to reach its cap, knobs above and below the caps.*)
(***************************************************************************)
EXTENDS QueryClient

SomeCaps == [memoryMb |-> 2, executionTimeoutSeconds |-> 4]

SomeCalls ==
    {[kind |-> "query", timeout |-> 2,
      request |-> [memoryMb |-> m, executionTimeoutSeconds |-> 3]] : m \in {1, 3}}
    \cup
    {[kind |-> k, timeout |-> t, request |-> NoResources] :
        k \in {"saved", "execution", "run"}, t \in {1}}

SomeRetryAfters == {1, 2}
=============================================================================
