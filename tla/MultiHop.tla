------------------------------ MODULE MultiHop ------------------------------
(***************************************************************************)
(* execute_multi_hop_swap (src/lib.rs, trading.rs): the hops of a route    *)
(* are applied to one copy of a pool registry, which is saved when all of  *)
(* them succeeded.  The copy is loaded from the key "pools" of             *)
(* src/storage.rs, while register_pool and the other pool_* entry points   *)
(* keep theirs under the key "lpreg" of src/lib.rs.                        *)
(***************************************************************************)
EXTENDS LiquidityPool

VARIABLE hopRegistry   \* under the key "pools"; << >> when the key is absent

multiHopVars == << poolVars, hopRegistry >>

MultiHopInit == PoolInit /\ hopRegistry = << >>

\* What the next hop has to pay at least: the caller's minimum on the last hop,
\* before that a share of the amount that goes in.
MinHopOut(route, n, amount, min_amount_out) ==
  LET remaining == Len(route.pools) - n + 1 IN
  IF remaining = 1 THEN min_amount_out
  ELSE (amount * (10000 - 10000 \div remaining)) \div 10000

\* The registry and the amount in hand after the first n hops, or failure.
HopsOn(registry, route, amount, min_amount_out) ==
  LET hop[k \in 0 .. Len(route.pools)] ==
        IF k = 0 THEN [ok |-> TRUE, reg |-> registry, amount |-> amount]
        ELSE LET before == hop[k - 1]
                 id == route.pools[k]
                 token == route.tokens[k]
             IN  IF before.ok /\ SwapAllowed(before.reg, id, token, before.amount,
                                   MinHopOut(route, k, before.amount, min_amount_out))
                 THEN [ok |-> TRUE, reg |-> Swapped(before.reg, id, token, before.amount),
                       amount |-> AmountOut(before.reg[id], token, before.amount)]
                 ELSE [before EXCEPT !.ok = FALSE]
  IN hop[Len(route.pools)]

\* The conditions of execute_multihop_swap: a registry is stored, the route and
\* the amount are not empty and every hop goes through.
RouteRuns(route, amount, min_amount_out) ==
  /\ route.pools # << >>
  /\ amount > 0
  /\ hopRegistry # << >>
  /\ HopsOn(hopRegistry, route, amount, min_amount_out).ok

ExecuteMultiHopSwap(route, amount, min_amount_out) ==
  /\ RouteRuns(route, amount, min_amount_out)
  /\ hopRegistry' = HopsOn(hopRegistry, route, amount, min_amount_out).reg
  /\ UNCHANGED poolVars

MultiHopNext ==
  \/ PoolNext /\ UNCHANGED hopRegistry
  \/ \E x, y \in Tokens, amount, min_out \in Amounts :
       \E route \in BestRoutes(x, y, amount) : ExecuteMultiHopSwap(route, amount, min_out)

MultiHopSpec == MultiHopInit /\ [][MultiHopNext]_multiHopVars

-----------------------------------------------------------------------------
\* "Execute a multi-hop swap along a discovered route" (src/lib.rs): a route
\* over a single pool that find_best_route has just returned can be executed
\* when no minimum is asked for.
DiscoveredRouteRuns ==
  \A x, y \in Tokens, amount \in Amounts :
    \A route \in BestRoutes(x, y, amount) :
      Len(route.pools) = 1 => RouteRuns(route, amount, 0)
=============================================================================
