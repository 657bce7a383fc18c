--------------------------- MODULE MCHttpClient ---------------------------
(* Instances of HttpClient for TLC.                                        *)
EXTENDS HttpClient, TLC

MCPolicies ==
    {[max_retries |-> 2, backoff |-> "exponential",
      base_delay |-> 1, max_delay |-> 2],
     [max_retries |-> 1, backoff |-> "none",
      base_delay |-> 1, max_delay |-> 2]}

MCSymmetry == Permutations(Threads)

=============================================================================
