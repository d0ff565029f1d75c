------------------------ MODULE MCServiceLifecycle ------------------------
(***************************************************************************)
(* A service of two containers, as most roles deploy an init and a main    *)
(* container, and a service of one.                                        *)
(***************************************************************************)
EXTENDS ServiceLifecycle, TLC

CONSTANTS s1, s2, c1, c2, c3, p1

MCProgram == (s1 :> <<c1, c2>>) @@ (s2 :> <<c3>>)
AllKeeps == SUBSET Services
=============================================================================
