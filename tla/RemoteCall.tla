---------------------------- MODULE RemoteCall ----------------------------
(***************************************************************************)
(* What a caller of ResilientHttpClient.call may rely on, whatever becomes *)
(* of the requests: how often the provider can have applied the call when  *)
(* it is over, and what its outcome says about that.                       *)
(***************************************************************************)
EXTENDS Naturals

CONSTANTS
    Callers,     \* whoever makes calls, each one call at a time
    MaxRequests  \* the requests any call may send, at least one

VARIABLES
    phase,    \* no call yet, one under way, how the last one ended
    once,     \* whether the caller forbids to repeat it
    budget,   \* requests it may still send
    effects   \* how often the provider applied it

callVars == <<phase, once, budget, effects>>

Phases == {"none", "open", "returned", "unchecked", "raised"}

CallInit ==
    /\ phase = [c \in Callers |-> "none"]
    /\ once = [c \in Callers |-> FALSE]
    /\ budget = [c \in Callers |-> 0]
    /\ effects = [c \in Callers |-> 0]

Open(c) ==
    /\ phase[c] # "open"
    /\ phase' = [phase EXCEPT ![c] = "open"]
    /\ \E forbidden \in BOOLEAN, n \in 1..MaxRequests :
         /\ forbidden => n = 1
         /\ once' = [once EXCEPT ![c] = forbidden]
         /\ budget' = [budget EXCEPT ![c] = n]
    /\ effects' = [effects EXCEPT ![c] = 0]

\* A call that is over is forgotten but for the way it ended.
End(c, way) ==
    /\ phase' = [phase EXCEPT ![c] = way]
    /\ once' = [once EXCEPT ![c] = FALSE]
    /\ budget' = [budget EXCEPT ![c] = 0]
    /\ effects' = [effects EXCEPT ![c] = 0]

\* One request: the provider applies it or not.  A call returns a value only
\* when the provider has applied it; the caller of direct_response gets the
\* answer unchecked; any other end is an exception, which says nothing.
Request(c) ==
    /\ phase[c] = "open"
    /\ budget[c] > 0
    /\ \E hit \in {0, 1} :
         \/ /\ budget[c] > 1
            /\ budget' = [budget EXCEPT ![c] = @ - 1]
            /\ effects' = [effects EXCEPT ![c] = @ + hit]
            /\ UNCHANGED <<phase, once>>
         \/ \E way \in {"returned", "unchecked", "raised"} :
              /\ way = "returned" => effects[c] + hit > 0
              /\ End(c, way)

CallNext == \E c \in Callers : Open(c) \/ Request(c)

CallSpec == CallInit /\ [][CallNext]_callVars

=============================================================================
