------------------------- MODULE MCContainerSystemd -------------------------
(* ContainerSystemd for TLC.                                                *)
EXTENDS ContainerSystemd

=============================================================================
