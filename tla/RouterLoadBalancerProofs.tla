---------------------- MODULE RouterLoadBalancerProofs ----------------------
(***************************************************************************)
(* For every number of routers: types, the even spread of calls, and the   *)
(* refinement of RoundRobin.  None of the results depends on MaxOps.       *)
(***************************************************************************)
EXTENDS RouterLoadBalancer, TLAPS

(* Every state of the load balancer is well typed: counters are naturals   *)
(* and the router handed out is one of the client's.                       *)
THEOREM TypeCorrect == Spec => []TypeOK
<1> USE BalancerAssumption DEF Routers
<1>1. Init => TypeOK
  BY DEF Init, TypeOK
<1>2. TypeOK /\ [Next]_vars => TypeOK'
  <2> SUFFICES ASSUME TypeOK, [Next]_vars
               PROVE  TypeOK'
    OBVIOUS
  <2> USE DEF TypeOK
  <2>1. CASE GetRouter
    <3>1. PICK m \in Routers : Count(m) /\ UNCHANGED pinned
      BY <2>1 DEF GetRouter
    <3>2. operation_counter' \in [Routers -> Nat]
      BY <3>1 DEF Count
    <3>3. chosen' \in 0..N /\ pinned' \in [Routers -> Nat]
      BY <3>1 DEF Count
    <3> QED
      BY <3>2, <3>3
  <2>2. ASSUME NEW r \in Routers, GetNamedRouter(r)
        PROVE  TypeOK'
    <3>1. operation_counter' \in [Routers -> Nat] /\ chosen' \in 0..N
      BY <2>2 DEF GetNamedRouter, Count
    <3>2. pinned' = [pinned EXCEPT ![r] = @ + 1]
      BY <2>2 DEF GetNamedRouter
    <3>3. pinned' \in [Routers -> Nat]
      BY <3>2
    <3> QED
      BY <3>1, <3>3
  <2>3. CASE UNCHANGED vars
    BY <2>3 DEF vars
  <2> QED
    BY <2>1, <2>2, <2>3 DEF Next
<1> QED
  BY <1>1, <1>2, PTL DEF Spec

(* However many routers there are, none gets more than one call ahead of   *)
(* another except by calls that name it: the balance of get_router().      *)
THEOREM BalancedAlways == Spec => []Balanced
<1> USE BalancerAssumption DEF Routers
<1>1. Init => Balanced
  BY DEF Init, Balanced
<1>2. TypeOK /\ Balanced /\ [Next]_vars => Balanced'
  <2> SUFFICES ASSUME TypeOK, Balanced, [Next]_vars,
                      NEW r \in Routers, NEW s \in Routers
               PROVE  (operation_counter[r]
                         <= operation_counter[s] + 1 + pinned[r])'
    BY DEF Balanced
  <2>0. /\ operation_counter[r] \in Nat /\ operation_counter[s] \in Nat
        /\ pinned[r] \in Nat
        /\ operation_counter[r] <= operation_counter[s] + 1 + pinned[r]
    BY DEF TypeOK, Balanced
  <2>1. CASE GetRouter
    <3>1. PICK m \in Routers : IsFirstMinimal(operation_counter, m) /\ Count(m)
      BY <2>1 DEF GetRouter
    <3>2. /\ operation_counter[m] <= operation_counter[s]
          /\ operation_counter'[r]
               = IF r = m THEN operation_counter[r] + 1
                          ELSE operation_counter[r]
          /\ operation_counter'[s]
               = IF s = m THEN operation_counter[s] + 1
                          ELSE operation_counter[s]
          /\ pinned' = pinned
      BY <2>1, <3>1 DEF GetRouter, IsFirstMinimal, Count, TypeOK
    <3> QED
      BY <2>0, <3>2
  <2>2. ASSUME NEW n \in Routers, GetNamedRouter(n)
        PROVE  (operation_counter[r]
                  <= operation_counter[s] + 1 + pinned[r])'
    <3>1. /\ operation_counter'[r]
               = IF r = n THEN operation_counter[r] + 1
                          ELSE operation_counter[r]
          /\ operation_counter'[s]
               = IF s = n THEN operation_counter[s] + 1
                          ELSE operation_counter[s]
          /\ pinned'[r] = IF r = n THEN pinned[r] + 1 ELSE pinned[r]
      BY <2>2 DEF GetNamedRouter, Count, TypeOK
    <3> QED
      BY <2>0, <3>1
  <2>3. CASE UNCHANGED vars
    BY <2>0, <2>3 DEF vars
  <2> QED
    BY <2>1, <2>2, <2>3 DEF Next
<1> QED
  BY <1>1, <1>2, TypeCorrect, PTL DEF Spec

-----------------------------------------------------------------------------
(***************************************************************************)
(* The refinement.  The counters form a staircase: t is the router whose   *)
(* turn it is, those before it have been counted once more.                *)
(***************************************************************************)
Staircase(count, t, b) ==
  \A r \in Routers : count[r] = IF r < t THEN b + 1 ELSE b

StairInv == /\ operation_counter \in [Routers -> Nat]
            /\ \E t \in Routers, b \in Nat : Staircase(operation_counter, t, b)

(* In a staircase the first minimal router is the one at the step.         *)
LEMMA TurnOfStaircase ==
  ASSUME NEW count, NEW t \in Routers, NEW b \in Nat, Staircase(count, t, b)
  PROVE  /\ \A r \in Routers : IsFirstMinimal(count, r) <=> r = t
         /\ (CHOOSE r \in Routers : IsFirstMinimal(count, r)) = t
<1> USE BalancerAssumption DEF Routers
<1>1. IsFirstMinimal(count, t)
  BY DEF Staircase, IsFirstMinimal
<1>2. ASSUME NEW r \in Routers, IsFirstMinimal(count, r)
      PROVE  r = t
  BY <1>2 DEF Staircase, IsFirstMinimal
<1>3. \A r \in Routers : IsFirstMinimal(count, r) <=> r = t
  BY <1>1, <1>2
<1> QED
  BY <1>3

(* A call moves the step of the staircase to the next router in turn.      *)
LEMMA CallMovesStep ==
  ASSUME StairInv, GetRouter
  PROVE  StairInv' /\ RR!HandOut
<1> USE BalancerAssumption DEF Routers
<1>1. PICK t \in Routers, b \in Nat : Staircase(operation_counter, t, b)
  BY DEF StairInv
<1>2. PICK m \in Routers : IsFirstMinimal(operation_counter, m) /\ Count(m)
  BY DEF GetRouter
<1>3. m = t /\ Turn = t
  BY <1>1, <1>2, TurnOfStaircase DEF Turn
<1>4. /\ operation_counter' = [operation_counter EXCEPT ![t] = @ + 1]
      /\ operation_counter' \in [Routers -> Nat]
      /\ chosen' = t
  BY <1>2, <1>3 DEF Count, StairInv
<1>5. CASE t = N
  <2>1. Staircase(operation_counter', 1, b + 1)
    BY <1>1, <1>4, <1>5 DEF Staircase, StairInv
  <2>2. Turn' = 1
    BY <2>1, TurnOfStaircase DEF Turn
  <2> QED
    BY <1>3, <1>4, <1>5, <2>1, <2>2 DEF StairInv, RR!HandOut
<1>6. CASE t # N
  <2>1. Staircase(operation_counter', t + 1, b)
    BY <1>1, <1>4, <1>6 DEF Staircase, StairInv
  <2>2. Turn' = t + 1
    BY <1>6, <2>1, TurnOfStaircase DEF Turn
  <2> QED
    BY <1>3, <1>4, <1>6, <2>1, <2>2 DEF StairInv, RR!HandOut
<1> QED
  BY <1>5, <1>6

(* AsyncClient's sequence of get_router() calls implements round robin     *)
(* over any number of routers, in the order of the URI.                    *)
THEOREM ImplementsRoundRobin == ClientSpec => IsRoundRobin
<1> USE BalancerAssumption DEF Routers
<1>1. Init => StairInv /\ RR!RRInit
  <2> SUFFICES ASSUME Init PROVE StairInv /\ RR!RRInit
    OBVIOUS
  <2>1. Staircase(operation_counter, 1, 0) /\ 1 \in Routers
    BY DEF Init, Staircase
  <2>2. Turn = 1
    BY <2>1, TurnOfStaircase DEF Turn
  <2> QED
    BY <2>1, <2>2 DEF Init, StairInv, RR!RRInit
<1>2. StairInv /\ [GetRouter]_vars
        => StairInv' /\ [RR!HandOut]_(RR!rrVars)
  <2> SUFFICES ASSUME StairInv, [GetRouter]_vars
               PROVE  StairInv' /\ [RR!HandOut]_(RR!rrVars)
    OBVIOUS
  <2>1. CASE GetRouter
    BY <2>1, CallMovesStep
  <2>2. CASE UNCHANGED <<operation_counter, chosen>>
    BY <2>2 DEF StairInv, Staircase, Turn, IsFirstMinimal, RR!rrVars
  <2> QED
    BY <2>1, <2>2 DEF vars
<1> QED
  BY <1>1, <1>2, PTL DEF ClientSpec, IsRoundRobin, RR!RRSpec
=============================================================================
