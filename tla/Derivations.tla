----------------------------- MODULE Derivations -----------------------------
(* What the collection computes from its inputs without touching a node:    *)
(* the device_spec of nova, the plan of a container run, the hash of a      *)
(* container's configuration, the summary of a run.  Each is a question     *)
(* picked at the start and answered once.                                   *)
EXTENDS PciPassthrough, ContainerConfig, RunnerSummary

CONSTANTS
  PciQuestions, PlanQuestions, HashQuestions, RunQuestions,
  Open     \* no answer yet

\* sriov_config.yaml names functions of the node; a devname and
\* a physical network name a physical function.
ASSUME PciQuestionsAssumption ==
  \A q \in PciQuestions :
    /\ q.listed \subseteq Pfs /\ q.host \subseteq Vfs
    /\ \A user \in q.users : /\ DOMAIN user = {"address", "product", "devname", "network"}
                            /\ user.devname \in Pfs \cup {Unset}
                            /\ user.network \in Pfs \cup {Unset}

\* The definitions are of containers.
ASSUME PlanQuestionsAssumption ==
  \A q \in PlanQuestions :
    q.configs = Restricted(q.configs, Names) /\ Len(q.overrides) \in Nat

\* One file is edited, at most, between two runs.
ASSUME HashQuestionsAssumption ==
  \A q \in HashQuestions :
    /\ DOMAIN q.startup = {"volumes", "exclusions", "hash"}
    /\ q.startup.volumes \subseteq Seq(STRING) \cup {NotBelow}
    /\ q.path \in Present
    /\ \A p \in Present : q.files[p] \in Seq(Nat) /\ q.edited[p] \in Seq(Nat)
    /\ \A p \in Present : p # q.path => q.files[p] = q.edited[p]
    /\ q.differs <=> q.files[q.path] # q.edited[q.path]

\* A run has one event of statistics at most, the last thing it writes.
ASSUME RunQuestionsAssumption ==
  \A q \in RunQuestions :
    /\ IsFiniteSet(q)
    /\ \A dir \in q :
         LET at == Readable(dir.events)
         IN /\ dir # Absent /\ dir.mtime \in Int /\ Len(dir.events) \in Nat
            /\ \A i \in at : dir.events[i].counter \in Nat \cup {Bad}
            /\ \A i, j \in at : /\ dir.events[i].event = "playbook_on_stats"
                               /\ dir.events[j].event = "playbook_on_stats" => i = j
            /\ \A i \in at : LET hosts == dir.events[i].hosts
                            IN /\ IsFiniteSet(hosts.processed) /\ IsFiniteSet(hosts.failures)
                               /\ IsFiniteSet(hosts.dark)

VARIABLES kind, question, answer

vars == <<kind, question, answer>>

Init ==
  /\ \/ kind = "pci" /\ question \in PciQuestions
     \/ kind = "plan" /\ question \in PlanQuestions
     \/ kind = "hash" /\ question \in HashQuestions
     \/ kind = "run" /\ question \in RunQuestions
  /\ answer = Open

Answer(k, a) ==
  /\ kind = k /\ answer = Open
  /\ answer' = a
  /\ UNCHANGED <<kind, question>>

DerivePci == Answer("pci", DeviceSpec(question.users, question.listed, question.host))

PlanRun ==
  Answer("plan", Plan(question.configs, question.overrides, question.containers,
                      question.installed, question.config_id))

\* The hashes of two runs, with an edit of a file in between.
TwoHashes(q) ==
  IF BadVolumes(q.startup.volumes) THEN Rejected
  ELSE LET first == UpdateHashes(q.startup, q.files)
       IN [first |-> first, second |-> UpdateHashes(first, q.edited)]

HashTwice == Answer("hash", TwoHashes(question))

Summarise == Answer("run", Report(question))

Next == DerivePci \/ PlanRun \/ HashTwice \/ Summarise

Spec == Init /\ [][Next]_vars

Answered(k) == kind = k /\ answer \notin {Open, Rejected}

-----------------------------------------------------------------------------
(* Properties.                                                              *)

SomeLeft(host) == \A pf \in NicPartitionPfs(host) : AvailableVfs(pf, host) # {}

\* Nova is given no virtual function the host uses, and no physical function
\* one of them belongs to, by any entry that was derived; and by none at all
\* as long as each partitioned physical function has a virtual one to spare.
\* (When it has none an entry that names its virtual functions is kept.)
\* generate_combined_configuration: "Derived configuration = user_config -
\* system_configs".
HostDevicesSpared ==
  Answered("pci") =>
    \A entry \in answer :
      entry.kind = "derived" \/ SomeLeft(question.host) =>
        Reached(entry) \cap HostDevices(question.host) = {}

\* Every device the user's entries reach and the host does not use is still
\* reached, when os-net-config knows all physical functions: what replaces an
\* entry covers what the entry meant beyond the partitioned functions.
AskedDevicesKept ==
  Answered("pci") /\ question.listed = Pfs =>
    \A user \in question.users :
      Reached(Kept(user)) \ HostDevices(question.host) \subseteq UNION {Reached(e) : e \in answer}

-----------------------------------------------------------------------------
\* The role and the module read the overrides alike: one at most applies, and
\* it matches one container of those at hand, the one it names.
ReadAlike(q) ==
  LET names == DOMAIN q.configs
      hit == {i \in 1..Len(q.overrides) : MatchedBy[q.overrides[i].key] \cap names # {}}
  IN \A i \in hit :
       /\ hit = {i}
       /\ MatchedBy[q.overrides[i].key] \cap names = {q.overrides[i].key}

\* The role has a unit start exactly the containers podman does not, as long
\* as both read the overrides alike and a restart policy is one of those that
\* get a unit; it deletes nothing of another config_id, of another tool or of
\* ceph; and of its own config_id only the selected containers are left, or
\* nothing was done because nothing was selected.
PlanFollowsConfig ==
  Answered("plan") =>
    LET q == question
        own == {n \in DOMAIN q.installed : /\ Managed(q.installed[n])
                                           /\ q.installed[n].config_id = q.config_id
                                           /\ ~q.installed[n].ceph}
        effective == GetConfigs(q.configs, q.overrides, q.containers)
    IN /\ ReadAlike(q) /\ (\A n \in DOMAIN effective : effective[n].restart \in Policies \cup {NoKey})
          => answer.units = answer.created \ answer.started
       /\ answer.deleted \subseteq own
       /\ answer.created # {} => (own \ answer.deleted) \subseteq answer.created

-----------------------------------------------------------------------------
Mounts(volumes, path) == \E v \in volumes : IsPrefix(v, path)

\* A file the hash can see: in a directory of a service, visible, not excluded.
Plain(path, exclusions) ==
  /\ Len(path) > (IF path[1] \in Shared THEN 2 ELSE 1)
  /\ \A i \in 1..Len(path) : path[i] \notin Dot
  /\ \A i \in 1..Len(path) : SubSeq(path, i, Len(path)) \notin exclusions

SameService(path, volume) ==
  /\ path[1] = volume[1]
  /\ path[1] \in Shared /\ Len(volume) > 1 => path[2] = volume[2]

\* An edit of a file the container reads through one of its mounts changes
\* the hash, so that the container is created again; and the hash changes
\* only for an edit in the directories of a service the container mounts:
\* what another service has in a shared namespace restarts nobody else.
HashFollowsContent ==
  Answered("hash") =>
    LET changed == answer.first.hash # answer.second.hash
        startup == question.startup
    IN /\ (/\ question.differs
           /\ Mounts(startup.volumes, question.path)
           /\ Plain(question.path, startup.exclusions)) => changed
       /\ changed => \E v \in startup.volumes : SameService(question.path, v)

-----------------------------------------------------------------------------
EventsOf(report) == {e \in {report.events[i] : i \in 1..Len(report.events)} : e # Absent}

\* In whatever order the directory lists the events, a failed run is reported
\* with the readable event that came last, with every host its statistics
\* name, and with the percentage of impacted hosts to the nearest integer.
SummaryFaithful ==
  Answered("run") /\ question # {} =>
    LET dir == CHOOSE d \in question : \A e \in question : e.mtime <= d.mtime
        s == answer.summary
    IN /\ dir.status # "successful" =>
            \A e \in EventsOf(dir) :
              e.counter # Bad => answer.named # Absent /\ answer.named.counter >= e.counter
       /\ \A e \in EventsOf(dir) : e.event = "playbook_on_stats" =>
            LET impacted == Cardinality(e.hosts.failures \cup e.hosts.dark)
                total == Cardinality(e.hosts.processed)
            IN /\ s.failed = e.hosts.failures /\ s.unreachable = e.hosts.dark
               /\ total > 0 => /\ 200 * impacted - 2 * total * s.failurePercent <= total
                               /\ 2 * total * s.failurePercent - 200 * impacted <= total

=============================================================================
