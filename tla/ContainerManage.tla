-------------------------- MODULE ContainerManage --------------------------
(***************************************************************************)
(* The module edpm_container_manage: it reads the container definitions,   *)
(* groups them by start_order and runs the groups one after the other, the *)
(* containers of a group on a pool of worker threads, each with its        *)
(* retries.  A container is created with podman, or is a command executed  *)
(* in another container once that one is seen running.  Failures are       *)
(* collected and reported when the last group has ended.                   *)
(***************************************************************************)
EXTENDS Integers, FiniteSets

CONSTANTS
  Containers,
  StartOrder,    \* start_order of each container (default 0)
  Execs,         \* the containers with action: exec
  Target,        \* the container an exec runs its command in
  Unstarted,     \* the containers with a restart policy: created, started by systemd
  Mounting,      \* the containers whose healthcheck has a mount
  Retries,       \* the retries of each container (default 0)
  Concurrency,   \* worker threads
  Probes,        \* how often a target is looked at (10 in the code)
  Revisions      \* contents of a container's definition

ASSUME ConstantsAssumption ==
  /\ IsFiniteSet(Containers) /\ Containers # {}
  /\ StartOrder \in [Containers -> Nat]
  /\ Execs \subseteq Containers
  /\ Target \in [Execs -> Containers \ Execs]
  /\ Unstarted \subseteq Containers \ Execs
  /\ Mounting \subseteq Containers \ Execs
  /\ Retries \in [Containers -> Nat]
  /\ Concurrency \in Nat \ {0}
  /\ Probes \in Nat \ {0}

Created == Containers \ Execs
Orders == {StartOrder[c] : c \in Containers}
NoOrder == -1     \* start_order is a natural number
Absent == [none |-> TRUE]

\* The config_data label of a container: the definition, with the healthcheck
\* mount appended to its volumes by every attempt of the run.
Labels == [rev : Revisions, mounts : Nat]

VARIABLES
  definition,  \* the definition files
  order,       \* the group being run, or NoOrder between two runs
  work,        \* what the worker of each container is at
  left,        \* retries left
  probes,      \* looks at the target of an exec without success
  appended,    \* how often the healthcheck mount was appended in this run
  failed,      \* the failed containers of the groups that have ended
  result,      \* how the last run ended
  label,       \* the label of each existing container
  up,          \* the containers that run
  exited       \* history: containers that exited since the run began

vars == <<definition, order, work, left, probes, appended, failed, result, label, up, exited>>
node == <<definition, label, up, exited>>

Idle == order = NoOrder
Ended == {"ok", "failed", "raised"}
Busy == {"creating", "probing", "executing", "sleeping"}
Group(o) == {c \in Containers : StartOrder[c] = o}
Active == {c \in Containers : work[c] \in Busy}

TypeOK ==
  /\ definition \in [Created -> Revisions]
  /\ order \in Orders \cup {NoOrder}
  /\ work \in [Containers -> Ended \cup Busy \cup {"waiting"}]
  /\ \A c \in Containers : left[c] \in 0..Retries[c]
  /\ probes \in [Containers -> 0..(Probes - 1)]
  /\ \A c \in Containers : appended[c] \in 0..(Retries[c] + 1)
  /\ failed \subseteq Containers
  /\ result \in {"none", "ok", "failed", "raised"}
  /\ \A c \in Created : label[c] \in Labels \cup {Absent}
  /\ up \subseteq Created
  /\ exited \subseteq Created

-----------------------------------------------------------------------------
Fresh == [c \in Containers |-> 0]

Init ==
  /\ definition \in [Created -> Revisions]
  /\ order = NoOrder
  /\ work = [c \in Containers |-> "waiting"]
  /\ left = Retries
  /\ probes = Fresh
  /\ appended = Fresh
  /\ failed = {}
  /\ result = "none"
  /\ label = [c \in Created |-> Absent]
  /\ up = {}
  /\ exited = {}

\* The operator changes a definition between two runs.
EditDefinition(c, r) ==
  /\ Idle
  /\ definition[c] # r
  /\ definition' = [definition EXCEPT ![c] = r]
  /\ UNCHANGED <<order, work, left, probes, appended, failed, result, label, up, exited>>

\* systemd starts the containers with a restart policy, after the module.
SystemdStart(c) ==
  /\ Idle
  /\ c \in Unstarted
  /\ label[c] # Absent
  /\ up' = up \cup {c}
  /\ UNCHANGED <<definition, order, work, left, probes, appended, failed, result, label, exited>>

\* A container exits, at any time.
Exit(c) ==
  /\ c \in up
  /\ up' = up \ {c}
  /\ exited' = exited \cup {c}
  /\ UNCHANGED <<definition, order, work, left, probes, appended, failed, result, label>>

-----------------------------------------------------------------------------
\* The definitions are read again by every run, before anything is appended.
StartRun ==
  /\ Idle
  /\ order' = CHOOSE o \in Orders : \A p \in Orders : o <= p
  /\ work' = [c \in Containers |-> "waiting"]
  /\ left' = Retries
  /\ probes' = Fresh
  /\ appended' = Fresh
  /\ failed' = {}
  /\ result' = "none"
  /\ exited' = {}
  /\ UNCHANGED <<definition, label, up>>

\* Mutant: the pool takes any group's.
InPool_AnyGroup(c) == Cardinality(Active) < Concurrency
InPool(c) == StartOrder[c] = order /\ Cardinality(Active) < Concurrency

\* An attempt begins: in create's, the healthcheck mount is appended to the
\* list the label refers to.
Attempt(c) ==
  /\ work' = [work EXCEPT ![c] = IF c \in Execs THEN "probing" ELSE "creating"]
  /\ probes' = [probes EXCEPT ![c] = 0]
  /\ appended' = [appended EXCEPT ![c] = IF c \in Mounting THEN @ + 1 ELSE 0]

\* A free worker takes a container of the group; the order inside a group is
\* that of the directory listing.
Pick(c) ==
  /\ ~Idle
  /\ work[c] = "waiting"
  /\ InPool(c)
  /\ Attempt(c)
  /\ UNCHANGED <<order, left, failed, result, node>>

\* The retry after retry_sleep; the worker slept and was not free meanwhile.
Retry(c) ==
  /\ work[c] = "sleeping"
  /\ Attempt(c)
  /\ UNCHANGED <<order, left, failed, result, node>>

Finish(c, r) == work' = [work EXCEPT ![c] = r]

\* Mutants: the retries are not counted down, for all or for an exec.
RetriesAfter_Same(c) == left[c]
RetriesAfter_SameForExec(c) == IF c \in Execs THEN left[c] ELSE left[c] - 1
RetriesAfter(c) == left[c] - 1

AttemptFails(c) ==
  IF left[c] > 0
    THEN Finish(c, "sleeping") /\ left' = [left EXCEPT ![c] = RetriesAfter(c)]
    ELSE Finish(c, "failed") /\ UNCHANGED left

\* podman creates the container again when its label differs, and starts it
\* unless it has a restart policy.
Wanted(c) == [rev |-> definition[c], mounts |-> appended[c]]

CreateSucceeds(c) ==
  /\ work[c] = "creating"
  /\ Finish(c, "ok")
  /\ label' = [label EXCEPT ![c] = Wanted(c)]
  /\ up' = IF c \notin Unstarted THEN up \cup {c}
           ELSE IF label[c] = Wanted(c) THEN up ELSE up \ {c}
  /\ UNCHANGED <<definition, order, left, probes, appended, failed, result, exited>>

\* fail_json was replaced by an ExecFailure, which manage_container turns
\* into False; the old container may be gone by then.
CreateFails(c) ==
  /\ work[c] = "creating"
  /\ AttemptFails(c)
  /\ \/ UNCHANGED <<label, up>>
     \/ label' = [label EXCEPT ![c] = Absent] /\ up' = up \ {c}
  /\ UNCHANGED <<definition, order, probes, appended, failed, result, exited>>

\* Any other exception ends the worker: an option of the wrong type, an exec
\* without a command, an answer of podman inspect that is not one.
WorkerRaises(c) ==
  /\ work[c] \in {"creating", "probing", "executing"}
  /\ Finish(c, "raised")
  /\ UNCHANGED <<order, left, probes, appended, failed, result, node>>

\* check_running_container
Probe(c) ==
  /\ work[c] = "probing"
  /\ \/ /\ Target[c] \in up
        /\ Finish(c, "executing")
        /\ UNCHANGED <<left, probes>>
     \/ /\ Target[c] \notin up
        /\ probes[c] + 1 < Probes
        /\ probes' = [probes EXCEPT ![c] = @ + 1]
        /\ UNCHANGED <<work, left>>
     \/ /\ Target[c] \notin up
        /\ probes[c] + 1 = Probes
        /\ AttemptFails(c)
        /\ UNCHANGED probes
  /\ UNCHANGED <<order, appended, failed, result, node>>

\* podman exec; it fails if the target is gone since it was seen.
ExecSucceeds(c) ==
  /\ work[c] = "executing"
  /\ Target[c] \in up
  /\ Finish(c, "ok")
  /\ UNCHANGED <<order, left, probes, appended, failed, result, node>>

ExecFails(c) ==
  /\ work[c] = "executing"
  /\ AttemptFails(c)
  /\ UNCHANGED <<order, probes, appended, failed, result, node>>

\* Mutants: a group's failures are forgotten; only one of them is kept.
FailedOf_None(o) == {}
FailedOf_One(o) ==
  LET F == {c \in Group(o) : work[c] = "failed"} IN {c \in F : c = CHOOSE d \in F : TRUE}
FailedOf(o) == {c \in Group(o) : work[c] = "failed"}

\* Mutant: the group does not wait for its sleeping workers.
GroupEnded_Early == \A c \in Group(order) : work[c] \in Ended \cup {"sleeping"}
GroupEnded == \A c \in Group(order) : work[c] \in Ended
Later == {o \in Orders : o > order}

\* The pool is drained and the results are looked at; an exception of a
\* worker is raised again here and ends the run.
GroupRaises ==
  /\ ~Idle
  /\ GroupEnded
  /\ \E c \in Group(order) : work[c] = "raised"
  /\ order' = NoOrder
  /\ result' = "raised"
  /\ UNCHANGED <<work, left, probes, appended, failed, node>>

GroupCollected ==
  /\ ~Idle
  /\ GroupEnded
  /\ \A c \in Group(order) : work[c] # "raised"
  /\ failed' = failed \cup FailedOf(order)
  /\ IF Later # {}
       THEN /\ order' = CHOOSE o \in Later : \A p \in Later : o <= p
            /\ UNCHANGED result
       ELSE /\ order' = NoOrder
            /\ result' = IF failed' = {} THEN "ok" ELSE "failed"
  /\ UNCHANGED <<work, left, probes, appended, node>>

Worker(c) ==
  \/ Pick(c) \/ Retry(c)
  \/ CreateSucceeds(c) \/ CreateFails(c) \/ WorkerRaises(c)
  \/ Probe(c) \/ ExecSucceeds(c) \/ ExecFails(c)

Main == GroupRaises \/ GroupCollected

Next ==
  \/ \E c \in Created, r \in Revisions : EditDefinition(c, r)
  \/ \E c \in Created : SystemdStart(c) \/ Exit(c)
  \/ StartRun
  \/ \E c \in Containers : Worker(c)
  \/ Main

Spec == Init /\ [][Next]_vars

\* Every thread of the module goes on with what it has begun.
FairSpec ==
  /\ Spec
  /\ \A c \in Containers : WF_vars(Worker(c))
  /\ WF_vars(Main)

-----------------------------------------------------------------------------
(* Properties.                                                             *)

\* A container is not touched before every container of the groups before
\* it has ended, and none of them by an exception.
GroupsInOrder ==
  \A c, d \in Containers :
    work[c] # "waiting" /\ StartOrder[d] < StartOrder[c] => work[d] \in {"ok", "failed"}

\* A run that reports success left every container created from the
\* definition of that run.
OkMeansCreated ==
  [][result' = "ok" /\ result # "ok" =>
       \A c \in Created : label[c] # Absent /\ label[c].rev = definition[c]]_vars

\* The report of a failed run names every container that failed and no other.
EveryFailureReported ==
  result = "failed" => failed = {c \in Containers : work[c] = "failed"}

\* An exec whose target the module starts in an earlier group gives up
\* waiting for it only if the target failed or has exited since.
ExecFindsTarget ==
  [][\A e \in Execs :
       LET t == Target[e] IN
       /\ work[e] = "probing" /\ work'[e] \in {"sleeping", "failed"}
       /\ t \notin Unstarted /\ StartOrder[t] < StartOrder[e]
       => work[t] = "failed" \/ t \in exited]_vars

\* A run ends, with every container tried unless a worker raised.
RunEnds == ~Idle ~> Idle /\ (result = "raised" \/ \A c \in Containers : work[c] # "waiting")

\* How far a container is from its end: the retries left, the step of this
\* attempt, the looks at the target left.
Phase == [waiting |-> 4, sleeping |-> 3, probing |-> 2, creating |-> 1, executing |-> 1,
          ok |-> 0, failed |-> 0, raised |-> 0]
Ahead(c) == <<left[c], Phase[work[c]], Probes - probes[c]>>
Lower(r, s) == \E i \in 1..3 : r[i] < s[i] /\ \A j \in 1..(i - 1) : r[j] = s[j]

\* Each step of a worker brings its container nearer to its end and leaves the
\* others where they are, each step of the main thread ends the run or goes on
\* to a later group, and no exit of a container takes anything back.
StepsDescend ==
  [][~Idle =>
       \/ \E c \in Containers : /\ Lower(Ahead(c)', Ahead(c)) /\ UNCHANGED order
                               /\ \A d \in Containers \ {c} : Ahead(d)' = Ahead(d)
       \/ (Idle' \/ order' \in Later) /\ UNCHANGED <<work, left, probes>>
       \/ UNCHANGED <<order, work, left, probes>> /\ ~Main /\ \A c \in Containers : ~Worker(c)]_vars

\* A container is created again only if its definition has changed.
RecreatedOnlyIfChanged ==
  [][\A c \in Created :
       label[c] # Absent /\ label'[c] # label[c] /\ label'[c] # Absent
         => label'[c].rev # label[c].rev]_vars

=============================================================================
