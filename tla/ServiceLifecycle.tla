-------------------------- MODULE ServiceLifecycle --------------------------
(***************************************************************************)
(* The life of services on one compute node: ansible-playbook runs deploy  *)
(* services container by container and register them in the state file     *)
(* (edpm_container_standalone), take single containers out of it, and      *)
(* clean up the services that are no longer wanted (edpm_cleanup,          *)
(* edpm_container_rm).                                                     *)
(*                                                                         *)
(* The state file is read in one task and written in a later one, with     *)
(* nothing to keep other plays away in between.  Facts set with set_fact   *)
(* live until the end of the ansible-playbook run, over all its operations.*)
(***************************************************************************)
EXTENDS Naturals, Sequences, RegistryOps

CONSTANTS
  Plays,       \* ansible-playbook runs at work on the node at the same time
  Program,     \* the containers a service's role deploys, in its order
  Quadlets,    \* the containers deployed as Quadlet units
  Appending,   \* the role sets edpm_container_state_append after its first container
  Keeps        \* values of edpm_service_types, the services to keep

ContainersOf(s) == {Program[s][i] : i \in DOMAIN Program[s]}

ASSUME ConstantsAssumption ==
  /\ Program \in [Services -> Seq(Containers)]
  /\ \A s \in Services : Program[s] # <<>>
  /\ \A s, t \in Services : s # t => ContainersOf(s) \cap ContainersOf(t) = {}
  /\ \A s \in Services : \A i, j \in DOMAIN Program[s] :
       Program[s][i] = Program[s][j] => i = j
  /\ Quadlets \subseteq Containers
  /\ Appending \in BOOLEAN
  /\ Keeps \subseteq SUBSET Services

\* The contents of a state file; a service it does not name has no containers.
Registries == [Services -> SUBSET Containers]
Empty == [s \in Services |-> {}]
Named(r) == {s \in Services : r[s] # {}}
Tracked(r) == UNION {r[s] : s \in Services}

NoOp == [kind |-> "none"]
Ops ==
  {NoOp}
    \cup [kind : {"deploy"}, service : Services, step : Nat \ {0}]
    \cup [kind : {"remove"}, service : Services, container : Containers]
    \cup [kind : {"clean"}, keep : SUBSET Services, orphans : BOOLEAN]

VARIABLES
  exists,     \* there is a state file
  file,       \* what it says
  present,    \* the containers podman has
  unit,       \* the systemd unit of each container
  pc,         \* the task each play is at
  op,         \* the operation it performs
  data,       \* fact: the state file as it read it
  todo,       \* the containers its cleanup loop has still to remove
  filtered,   \* fact: _edpm_filtered_services
  kept,       \* fact: _edpm_cleanup_services_filtered
  seen        \* fact: _edpm_all_managed_containers is set

node == <<exists, file, present, unit>>
facts == <<filtered, kept, seen>>
play == <<pc, op, data, todo, facts>>

\* History, read by the properties only.
VARIABLES
  complete,   \* services deployed to the end and not touched since
  target,     \* the containers the cleanup of a play is to remove
  gone,       \* containers a finished cleanup removed and nobody deployed since
  outcome     \* how the last operation of each play ended

hist == <<complete, target, gone, outcome>>
vars == <<node, play, hist>>

Steps == {"idle", "run", "read", "write", "clean", "find", "orphans"}

TypeOK ==
  /\ exists \in BOOLEAN
  /\ file \in Registries
  /\ present \subseteq Containers
  /\ unit \in [Containers -> {"none", "legacy", "quadlet"}]
  /\ pc \in [Plays -> Steps]
  /\ op \in [Plays -> Ops]
  /\ data \in [Plays -> Registries]
  /\ todo \in [Plays -> SUBSET Containers]
  /\ filtered \in [Plays -> Registries]
  /\ kept \in [Plays -> Registries]
  /\ seen \in [Plays -> BOOLEAN]
  /\ complete \subseteq Services
  /\ target \in [Plays -> SUBSET Containers]
  /\ gone \subseteq Containers
  /\ outcome \in [Plays -> {"none", "ok", "fault", "undefined"}]

Init ==
  /\ exists = FALSE
  /\ file = Empty
  /\ present = {}
  /\ unit = [c \in Containers |-> "none"]
  /\ pc = [p \in Plays |-> "idle"]
  /\ op = [p \in Plays |-> NoOp]
  /\ data = [p \in Plays |-> Empty]
  /\ todo = [p \in Plays |-> {}]
  /\ filtered = [p \in Plays |-> Empty]
  /\ kept = [p \in Plays |-> Empty]
  /\ seen = [p \in Plays |-> FALSE]
  /\ complete = {}
  /\ target = [p \in Plays |-> {}]
  /\ gone = {}
  /\ outcome = [p \in Plays |-> "none"]

-----------------------------------------------------------------------------
(* How a play ends.                                                        *)

NewFacts(p) ==
  /\ filtered' = [filtered EXCEPT ![p] = Empty]
  /\ kept' = [kept EXCEPT ![p] = Empty]
  /\ seen' = [seen EXCEPT ![p] = FALSE]

PlayFails(p, how) ==
  /\ pc' = [pc EXCEPT ![p] = "idle"]
  /\ op' = [op EXCEPT ![p] = NoOp]
  /\ data' = [data EXCEPT ![p] = Empty]
  /\ todo' = [todo EXCEPT ![p] = {}]
  /\ NewFacts(p)
  /\ target' = [target EXCEPT ![p] = {}]
  /\ outcome' = [outcome EXCEPT ![p] = how]

-----------------------------------------------------------------------------
(* The state file.                                                         *)

\* The first container of a role replaces the service's list, the others are
\* appended, if the role sets edpm_container_state_append for them.
\* Mutant: every registration replaces.
Appends_Never(o) == FALSE
Appends(o) == Appending /\ o.step > 1

\* Mutant: the service's own name is registered, whatever its containers are.
Registered_ByName(o, r) ==
  [r EXCEPT ![o.service] = (IF Appends(o) THEN @ ELSE {}) \cup {o.service}]
Registered(o, r) ==
  [r EXCEPT ![o.service] = (IF Appends(o) THEN @ ELSE {}) \cup {Program[o.service][o.step]}]

\* An item of one dict in place of the same item of another (combine).
Combined(low, high) == [s \in Services |-> IF high[s] # {} THEN high[s] ELSE low[s]]
Without(r, S) == [s \in Services |-> IF s \in S THEN {} ELSE r[s]]

\* A service that loses its last container is left out of the dict that the
\* loop builds, item by item, on what the fact held before.
Last(o, r) == r[o.service] # {} /\ r[o.service] \subseteq {o.container}
\* Mutant: the item of the service is not left out.
FilteredBy_All(o, r, old) == Combined(old, r)
FilteredBy(o, r, old) == Combined(old, Without(r, {o.service}))

Removed(o, r, old) ==
  IF Last(o, r) THEN FilteredBy(o, r, old)
  ELSE [r EXCEPT ![o.service] = @ \ {o.container}]

Updated(p, r) ==
  IF op[p].kind = "deploy" THEN Registered(op[p], r) ELSE Removed(op[p], r, filtered[p])

\* Read, parse and update: tasks that only change facts of this play.
ReadState(p) ==
  /\ pc[p] = "read"
  /\ data' = [data EXCEPT ![p] = Updated(p, file)]
  /\ filtered' = IF op[p].kind = "remove" /\ Last(op[p], file)
                 THEN [filtered EXCEPT ![p] = FilteredBy(op[p], file, @)] ELSE filtered
  /\ pc' = [pc EXCEPT ![p] = "write"]
  /\ UNCHANGED <<node, op, todo, kept, seen, hist>>

WriteState(p) ==
  LET o == op[p]
      more == o.kind = "deploy" /\ o.step < Len(Program[o.service])
  IN
  /\ pc[p] = "write"
  /\ exists' = TRUE
  /\ file' = data[p]
  /\ pc' = [pc EXCEPT ![p] = IF more THEN "run" ELSE "idle"]
  /\ op' = [op EXCEPT ![p] = IF more THEN [o EXCEPT !.step = @ + 1] ELSE NoOp]
  /\ data' = [data EXCEPT ![p] = Empty]
  /\ complete' = IF o.kind = "deploy" /\ ~more THEN complete \cup {o.service} ELSE complete
  /\ outcome' = [outcome EXCEPT ![p] = "ok"]
  /\ UNCHANGED <<present, unit, todo, facts, target, gone>>

-----------------------------------------------------------------------------
(* Deployment and removal of a registration.                               *)

StartDeploy(p, s) ==
  /\ pc[p] = "idle"
  /\ pc' = [pc EXCEPT ![p] = "run"]
  /\ op' = [op EXCEPT ![p] = [kind |-> "deploy", service |-> s, step |-> 1]]
  /\ complete' = complete \ {s}
  /\ UNCHANGED <<node, data, todo, facts, target, gone, outcome>>

\* quadlet.yml or edpm_container_manage brings the container up.
RunContainer(p) ==
  LET c == Program[op[p].service][op[p].step] IN
  /\ pc[p] = "run"
  /\ present' = present \cup {c}
  /\ unit' = [unit EXCEPT ![c] = IF c \in Quadlets THEN "quadlet" ELSE "legacy"]
  /\ gone' = gone \ {c}
  /\ pc' = [pc EXCEPT ![p] = "read"]
  /\ UNCHANGED <<exists, file, op, data, todo, facts, complete, target, outcome>>

StartRemove(p, s, c) ==
  /\ pc[p] = "idle"
  /\ pc' = [pc EXCEPT ![p] = "read"]
  /\ op' = [op EXCEPT ![p] = [kind |-> "remove", service |-> s, container |-> c]]
  /\ complete' = complete \ {s}
  /\ UNCHANGED <<node, data, todo, facts, target, gone, outcome>>

-----------------------------------------------------------------------------
(* Cleanup.                                                                *)

Unwanted(o, r) == Named(r) \ o.keep

\* The containers to remove for the services that are not kept.
\* Mutant: those of all services.
Doomed_All(o, r) == Tracked(r)
Doomed(o, r) == UNION {r[s] : s \in Unwanted(o, r)}

\* What the state file says once the services are gone: built on what the
\* fact held before, and not built at all if no service is left.
Remaining(p) == Combined(kept[p], Without(data[p], Unwanted(op[p], data[p])))
Undefined(p) == Named(Remaining(p)) = {}

\* Without a state file the role fails at once.
StartClean(p, K, orphans) ==
  LET o == [kind |-> "clean", keep |-> K, orphans |-> orphans] IN
  /\ pc[p] = "idle"
  /\ exists
  /\ pc' = [pc EXCEPT ![p] = "clean"]
  /\ op' = [op EXCEPT ![p] = o]
  /\ data' = [data EXCEPT ![p] = file]
  /\ todo' = [todo EXCEPT ![p] = Doomed(o, file)]
  /\ complete' = complete \ Unwanted(o, file)
  /\ target' = [target EXCEPT ![p] = Doomed(o, file)]
  /\ UNCHANGED <<node, facts, gone, outcome>>

\* edpm_container_rm: stop, disable and remove the unit it finds in
\* /etc/systemd/system, then remove the container.  A Quadlet unit is elsewhere.
\* Mutant: the container is removed only if it had a unit in /etc/systemd/system.
Surviving_Unit(c) == IF unit[c] = "legacy" THEN present \ {c} ELSE present
Surviving(c) == present \ {c}

RemoveContainer(p, c) ==
  /\ pc[p] \in {"clean", "orphans"}
  /\ c \in todo[p]
  /\ present' = Surviving(c)
  /\ unit' = [unit EXCEPT ![c] = IF c \in present /\ @ = "legacy" THEN "none" ELSE @]
  /\ todo' = [todo EXCEPT ![p] = @ \ {c}]
  /\ UNCHANGED <<exists, file, pc, op, data, facts, hist>>

\* Taking the unit down may have worked when the removal of the container fails.
RemovalFails(p, c) ==
  /\ pc[p] \in {"clean", "orphans"}
  /\ c \in todo[p] \cap present
  /\ unit[c] = "legacy"
  /\ unit' = [unit EXCEPT ![c] = "none"]
  /\ PlayFails(p, "fault")
  /\ UNCHANGED <<exists, file, present, complete, gone>>

EndClean(p) ==
  /\ pc' = [pc EXCEPT ![p] = "idle"]
  /\ op' = [op EXCEPT ![p] = NoOp]
  /\ data' = [data EXCEPT ![p] = Empty]
  /\ target' = [target EXCEPT ![p] = {}]
  /\ outcome' = [outcome EXCEPT ![p] = "ok"]
  /\ gone' = gone \cup target[p]

\* The services are dropped from the state file, if there are any to drop.
ForgetServices(p) ==
  LET drop == Unwanted(op[p], data[p]) # {} IN
  /\ pc[p] = "clean"
  /\ todo[p] = {}
  /\ drop => ~Undefined(p)
  /\ file' = IF drop THEN Remaining(p) ELSE file
  /\ kept' = IF drop THEN [kept EXCEPT ![p] = Remaining(p)] ELSE kept
  /\ IF op[p].orphans
     THEN /\ pc' = [pc EXCEPT ![p] = "find"]
          /\ data' = IF drop THEN [data EXCEPT ![p] = Remaining(p)] ELSE data
          /\ UNCHANGED <<op, target, outcome, gone>>
     ELSE EndClean(p)
  /\ UNCHANGED <<exists, present, unit, todo, filtered, seen, complete>>

\* The containers of the node that no service of the state file names.  The
\* fact with the names of all containers is not set if there are none.
FindOrphans(p) ==
  LET orphans == present \ Tracked(data[p]) IN
  /\ pc[p] = "find"
  /\ present # {} \/ seen[p]
  /\ pc' = [pc EXCEPT ![p] = "orphans"]
  /\ todo' = [todo EXCEPT ![p] = orphans]
  /\ seen' = [seen EXCEPT ![p] = TRUE]
  /\ target' = [target EXCEPT ![p] = @ \cup orphans]
  /\ UNCHANGED <<node, op, data, filtered, kept, outcome, complete, gone>>

OrphansRemoved(p) ==
  /\ pc[p] = "orphans"
  /\ todo[p] = {}
  /\ EndClean(p)
  /\ UNCHANGED <<node, todo, facts, complete>>

\* A fact that no task has set ends the play.
UndefinedFact(p) ==
  /\ \/ pc[p] = "clean" /\ todo[p] = {} /\ Unwanted(op[p], data[p]) # {} /\ Undefined(p)
     \/ pc[p] = "find" /\ present = {} /\ ~seen[p]
  /\ PlayFails(p, "undefined")
  /\ UNCHANGED <<node, complete, gone>>

-----------------------------------------------------------------------------
\* A task fails, or the play is cut off.
Fail(p) ==
  /\ pc[p] # "idle"
  /\ PlayFails(p, "fault")
  /\ UNCHANGED <<node, complete, gone>>

\* The next ansible-playbook run starts without facts.
NewRun(p) ==
  /\ pc[p] = "idle"
  /\ NewFacts(p)
  /\ outcome' = [outcome EXCEPT ![p] = "none"]
  /\ UNCHANGED <<node, pc, op, data, todo, target, complete, gone>>

\* systemd starts a container again whose Quadlet unit says Restart=always,
\* now or at the next boot.
Respawn(c) ==
  /\ unit[c] = "quadlet"
  /\ c \notin present
  /\ present' = present \cup {c}
  /\ UNCHANGED <<exists, file, unit, play, hist>>

Next ==
  \/ \E p \in Plays :
       \/ \E s \in Services : StartDeploy(p, s)
       \/ \E s \in Services, c \in Containers : StartRemove(p, s, c)
       \/ \E K \in Keeps, o \in BOOLEAN : StartClean(p, K, o)
       \/ RunContainer(p) \/ ReadState(p) \/ WriteState(p)
       \/ \E c \in Containers : RemoveContainer(p, c) \/ RemovalFails(p, c)
       \/ ForgetServices(p) \/ FindOrphans(p) \/ OrphansRemoved(p)
       \/ UndefinedFact(p) \/ Fail(p) \/ NewRun(p)
  \/ \E c \in Containers : Respawn(c)

Spec == Init /\ [][Next]_vars

-----------------------------------------------------------------------------
(* Properties.                                                             *)

\* The change a play has under way, as the state file should see it: from the
\* read to the write of one registration, removal or cleanup.
Request(p) ==
  CASE pc[p] = "write" /\ op[p].kind = "deploy" ->
         Register(op[p].service, {Program[op[p].service][op[p].step]}, op[p].step > 1)
    [] pc[p] = "write" /\ op[p].kind = "remove" -> Remove(op[p].service, op[p].container)
    [] pc[p] = "clean" -> Keep(op[p].keep)
    [] OTHER -> NoRequest

\* The services, with their containers, that the dicts built so far by a run
\* name: the loop of the next removal or cleanup builds on them.
Items(r) == {<<s, r[s]>> : s \in Named(r)}
Memory(p) == Items(filtered[p]) \cup Items(kept[p])

Registry == INSTANCE ServiceRegistry WITH
              registry <- file,
              request <- [p \in Plays |-> Request(p)],
              memory <- [p \in Plays |-> Memory(p)]

\* With one play at a time the state file implements the registry: every
\* update takes effect in one step, as if it had read the file at that step.
\* What a removal or a cleanup takes out is out, unless an earlier removal or
\* cleanup of the same run left that very service, with the containers it then
\* had, in the dict it built: no other service and no other list comes back.
ImplementsRegistry == Registry!Spec

\* A service whose role ran to its end is in the state file with all its
\* containers, until it is deployed again, cleaned up or taken out.
CompleteRegistered ==
  \A s \in complete : file[s] = ContainersOf(s)

\* A cleanup removes no container of a service to be kept, unless the last
\* deployment of that service has not come to its end.
KeptSurvive ==
  [][\A p \in Plays, c \in Containers :
       /\ pc[p] \in {"clean", "orphans"}
       /\ c \in todo[p] \ todo'[p] /\ c \in present \ present'
       => \A s \in op[p].keep \cap complete : c \notin ContainersOf(s)]_vars

\* A container removed by a cleanup that came to its end is not there again
\* before somebody deploys it, unless systemd starts it from a Quadlet file:
\* the cleanup removes a unit of /etc/systemd/system and no other.
OnlyQuadletsReturn == \A c \in gone \cap present : unit[c] = "quadlet"

\* A cleanup that has removed the containers of the unwanted services also
\* drops the services from the state file.
CleanedAreForgotten ==
  [][\A p \in Plays :
       /\ pc[p] = "clean" /\ todo[p] = {} /\ pc'[p] # "clean"
       /\ outcome'[p] # "fault"
       => Named(file') \cap Unwanted(op[p], data[p]) = {}]_vars
=============================================================================
