----------------------------- MODULE MCNftables -----------------------------
(* The firewall of one node: INPUT and a chain of another role.  The plays  *)
(* are run as often as one likes; the events around them are counted.       *)
EXTENDS Nftables

CONSTANT MaxEvents
ASSUME EventsAssumption == MaxEvents \in Nat

VARIABLE events

MCInit == Init /\ events = 0
MCNext ==
  \/ Play /\ UNCHANGED events
  \/ events < MaxEvents /\ Event /\ events' = events + 1
MCSpec == MCInit /\ [][MCNext]_<<vars, events>>
=============================================================================
