----------------------------- MODULE RoundRobin -----------------------------
(***************************************************************************)
(* What a caller of the client's router selection may rely on when nobody  *)
(* asks for a router by name: the N routers are handed out in turn, in the *)
(* order in which the client was given them.                               *)
(***************************************************************************)
EXTENDS Naturals

CONSTANT N

VARIABLES turn,   \* the router that will be handed out next
          chosen  \* the router handed out last, 0 before the first call

rrVars == <<turn, chosen>>

RRInit == turn = 1 /\ chosen = 0

HandOut == /\ chosen' = turn
           /\ turn' = IF turn = N THEN 1 ELSE turn + 1

RRSpec == RRInit /\ [][HandOut]_rrVars
=============================================================================
