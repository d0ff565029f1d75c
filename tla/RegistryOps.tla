--------------------------- MODULE RegistryOps ----------------------------
(***************************************************************************)
(* The changes that can be asked of the registry of deployed services, and *)
(* what each makes of it.                                                  *)
(***************************************************************************)
CONSTANTS Services, Containers

\* Changes: register containers for a service (in place of those it has, or
\* beside them), take one container from a service, keep some services only.
NoRequest == [kind |-> "none"]
Register(s, cs, append) == [kind |-> "register", service |-> s, containers |-> cs, append |-> append]
Remove(s, c) == [kind |-> "remove", service |-> s, container |-> c]
Keep(K) == [kind |-> "keep", services |-> K]

Requests ==
  {NoRequest}
    \cup {Register(s, cs, a) : s \in Services, cs \in SUBSET Containers, a \in BOOLEAN}
    \cup {Remove(s, c) : s \in Services, c \in Containers}
    \cup {Keep(K) : K \in SUBSET Services}

\* What a change makes of a registry.
Effect(q, r) ==
  CASE q.kind = "register" ->
         [r EXCEPT ![q.service] = IF q.append THEN @ \cup q.containers ELSE q.containers]
    [] q.kind = "remove" -> [r EXCEPT ![q.service] = @ \ {q.container}]
    [] q.kind = "keep" -> [s \in DOMAIN r |-> IF s \in q.services THEN r[s] ELSE {}]
    [] OTHER -> r

\* A run remembers services with the containers they had: those a change of
\* its own leaves in the registry.
Left(q, r) == {<<s, Effect(q, r)[s]>> : s \in {t \in Services : Effect(q, r)[t] # {}}}

\* What a change may make of a registry: a service that it takes out comes back
\* as the run remembers it, or it does not.
Returns(q, M, s, e) == q.kind # "register" /\ <<s, e>> \in M
Outcomes(q, r, M) ==
  {e \in [Services -> SUBSET Containers] : \A s \in Services :
     \/ e[s] = Effect(q, r)[s]
     \/ Effect(q, r)[s] = {} /\ Returns(q, M, s, e[s])}
=============================================================================
