------------------------- MODULE RouterLoadBalancer -------------------------
(***************************************************************************)
(* asyncx/lb.py: the load balancer that every operation of AsyncClient     *)
(* asks for a router.  It keeps one operation counter per router, hands    *)
(* out the first router whose counter is minimal, and counts the call.     *)
(* The dictionaries of the code are ordered by insertion, so a router is   *)
(* named by its position in the list the constructor was given.            *)
(***************************************************************************)
EXTENDS Naturals

CONSTANTS N,      \* number of routers of the client's URI
          MaxOps  \* bound on every counter, for TLC

ASSUME BalancerAssumption == N \in Nat \ {0} /\ MaxOps \in Nat

Routers == 1..N

VARIABLES operation_counter,  \* self.operation_counter
          chosen,             \* the router handed out last, 0 at first
          pinned              \* history: calls that named their router

vars == <<operation_counter, chosen, pinned>>

Init == /\ operation_counter = [r \in Routers |-> 0]
        /\ chosen = 0
        /\ pinned = [r \in Routers |-> 0]

Count(r) == /\ operation_counter[r] < MaxOps
            /\ operation_counter' = [operation_counter EXCEPT ![r] = @ + 1]
            /\ chosen' = r

(* (variant) Some router below the maximum.                                *)
IsBelowMaximum(count, r) == \/ \E s \in Routers : count[r] < count[s]
                            \/ \A s \in Routers : count[r] = count[s]

(* min(items, key = counter) returns the first of the minimal entries.     *)
IsFirstMinimal(count, r) ==
  /\ \A s \in Routers : count[r] <= count[s]
  /\ \A s \in 1..(r - 1) : count[r] < count[s]

(* get_router() with the default router_id, which is no key of the         *)
(* dictionary: how every operation of AsyncClient calls it.                *)
GetRouter == /\ \E r \in Routers :
                  IsFirstMinimal(operation_counter, r) /\ Count(r)
             /\ UNCHANGED pinned

(* get_router(router_id) with the id of a router of the client.            *)
GetNamedRouter(r) == /\ Count(r)
                     /\ pinned' = [pinned EXCEPT ![r] = @ + 1]

Next == GetRouter \/ (\E r \in Routers : GetNamedRouter(r))

Spec == Init /\ [][Next]_vars

(* AsyncClient never names a router.                                       *)
ClientSpec == Init /\ [][GetRouter]_vars

-----------------------------------------------------------------------------
TypeOK == /\ operation_counter \in [Routers -> Nat]
          /\ chosen \in 0..N
          /\ pinned \in [Routers -> Nat]

(***************************************************************************)
(* Calls are spread evenly: a router is ahead of another by at most one    *)
(* call, plus the calls that asked for it by name.                         *)
(***************************************************************************)
Balanced == \A r, s \in Routers :
              operation_counter[r] <= operation_counter[s] + 1 + pinned[r]

(***************************************************************************)
(* Without named calls the counters descend along the list and differ by   *)
(* at most one, so the first minimal router is the next one in turn.       *)
(***************************************************************************)
Turn == CHOOSE r \in Routers : IsFirstMinimal(operation_counter, r)

RR == INSTANCE RoundRobin WITH turn <- Turn

(* The client's choice of routers is the round robin of module RoundRobin. *)
IsRoundRobin == RR!RRSpec
=============================================================================
