------------------------ MODULE MCStatedirOwnership ------------------------
(* A disk in an instance directory, which may be an NFS mount, and two files *)
(* beside it, one of them excluded.                                         *)
EXTENDS StatedirOwnership, TLC

CONSTANTS top, instance, disk, other, skipped, nova, host, qemu

MCPaths == {top, instance, disk, other, skipped}
MCDirs == {top, instance}
MCParent == instance :> top @@ skipped :> top @@ disk :> instance @@ other :> top
MCTarget == [uid |-> nova, gid |-> nova]
MCPrevious == [uid |-> host, gid |-> nova]
=============================================================================
