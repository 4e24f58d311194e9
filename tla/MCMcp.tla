------------------------------- MODULE MCMcp --------------------------------
(***************************************************************************)
(* Mcp for TLC: server `a` on stdio, server `b` on SSE.                    *)
(***************************************************************************)
EXTENDS Mcp, FiniteSets, TLC

CONSTANTS a, b

Reqs == a :> 2 @@ b :> 1
Noise == a :> 1 @@ b :> 0

\* The calls of a server that have an id, or are to get one.
Made(s) == next_id[s] - 1
             + Cardinality({i \in Sessions : call[i] = [server |-> s, id |-> 0]})

\* Two calls of `a`, or one of each server.
TwoCalls == Made(a) + Made(b) <= 2
=============================================================================
