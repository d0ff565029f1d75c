------------------------- MODULE MCContainerManage -------------------------
(***************************************************************************)
(* A service a with a healthcheck mount, a service b that systemd starts,  *)
(* a command d executed in a by the same group, and one, e, by the next.   *)
(***************************************************************************)
EXTENDS ContainerManage, TLC

CONSTANTS a, b, d, e

MCContainers == {a, b, d, e}
MCOrder == (a :> 0) @@ (b :> 0) @@ (d :> 0) @@ (e :> 1)
MCTarget == (d :> a) @@ (e :> a)
OneRetry == (a :> 1) @@ (b :> 0) @@ (d :> 0) @@ (e :> 1)
=============================================================================
