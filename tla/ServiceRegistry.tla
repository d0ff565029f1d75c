-------------------------- MODULE ServiceRegistry --------------------------
(***************************************************************************)
(* What the state file of deployed services stands for: which containers   *)
(* belong to which service.  A play asks for a change, and the change      *)
(* takes effect in one step on the registry as it is at that step, or the  *)
(* play gives it up and nothing changes.                                   *)
(*                                                                         *)
(* A run may remember what its own changes left in the registry, and a     *)
(* later removal of the same run may put a service it empties back as it   *)
(* is remembered.  When the run ends, it forgets.                          *)
(***************************************************************************)
EXTENDS RegistryOps

CONSTANT Plays

VARIABLES
  registry,   \* the containers of each service; {} for a service not in it
  request,    \* the change each play has under way
  memory      \* the services each run remembers

Init ==
  /\ registry = [s \in Services |-> {}]
  /\ request = [p \in Plays |-> NoRequest]
  /\ memory = [p \in Plays |-> {}]

\* What a change leaves may be remembered, and may replace what was.
Learn(p, q) ==
  \E M \in SUBSET (memory[p] \cup Left(q, registry)) : memory' = [memory EXCEPT ![p] = M]

Ask(p) ==
  /\ request[p] = NoRequest
  /\ \E q \in Requests \ {NoRequest} :
       /\ request' = [request EXCEPT ![p] = q]
       /\ Learn(p, q)
  /\ UNCHANGED registry

Commit(p) ==
  /\ request[p] # NoRequest
  /\ registry' \in Outcomes(request[p], registry, memory[p])
  /\ request' = [request EXCEPT ![p] = NoRequest]
  /\ Learn(p, request[p])

\* The run ends, with a change under way or without.
Forget(p) ==
  /\ request' = [request EXCEPT ![p] = NoRequest]
  /\ memory' = [memory EXCEPT ![p] = {}]
  /\ UNCHANGED registry

Next == \E p \in Plays : Ask(p) \/ Commit(p) \/ Forget(p)

Spec == Init /\ [][Next]_<<registry, request, memory>>
=============================================================================
