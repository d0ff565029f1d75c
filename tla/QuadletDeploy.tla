--------------------------- MODULE QuadletDeploy ---------------------------
(***************************************************************************)
(* Deployment of a service's containers as Podman Quadlet units, as the    *)
(* role edpm_container_standalone does it on one compute node              *)
(* (tasks/quadlet.yml): render every template to a staging directory,      *)
(* inject the hash of the mounted configuration, copy what differs to      *)
(* /etc/containers/systemd, reload systemd if anything was copied, restart *)
(* what was copied, start what is not running.                             *)
(*                                                                         *)
(* A run of the role is a sequence of Ansible tasks.  A loop task visits   *)
(* all of its items even after one has failed; the run ends at the first   *)
(* task that failed, and the next run starts again from the first task     *)
(* with no memory but the files and units on the node.                     *)
(***************************************************************************)
EXTENDS Naturals, FiniteSets

CONSTANTS
  N,          \* the number of containers of the service, in the order of the dict
  Bodies,     \* what a template may render to, the hash line left out
  Confs,      \* contents of the configuration below /var/lib/openstack
  Attempts    \* how often one restart is tried (retries: 5 in the code)

ASSUME ContainersAssumption == N \in Nat \ {0}
ASSUME AttemptsAssumption == Attempts \in Nat \ {0}

Containers == 1..N
NoHash  == "no hash"     \* the placeholder as the template renders it
NoUnit  == [kind |-> "none"]
Legacy  == [kind |-> "container_manage"]
Stopped == [kind |-> "stopped"]

\* A .container file: its body and the configuration whose hash was injected.
Quadlet(b, h) == [kind |-> "quadlet", body |-> b, hash |-> h]
Staged == {NoUnit} \cup {Quadlet(b, h) : b \in Bodies, h \in Confs \cup {NoHash}}
OnDisk == {NoUnit} \cup {Quadlet(b, h) : b \in Bodies, h \in Confs}
Loaded == OnDisk \cup {Legacy}

\* A running container: the unit it was started from, and the configuration
\* its process read when it started.
Process(u, k) == [kind |-> "running", unit |-> u, conf |-> k]
Processes == {Stopped} \cup {Process(u, k) : u \in Loaded \ {NoUnit}, k \in Confs}

VARIABLES
  template,   \* what each container's template renders to now
  config,     \* the configuration files each container mounts
  staged,     \* the files in the staging directory
  unit,       \* the files in /etc/containers/systemd
  legacy,     \* containers with a container_manage unit in /etc/systemd/system
  loaded,     \* the unit systemd has loaded for each container
  running,    \* what each container runs
  pc,         \* the task the role is at
  todo,       \* the items the current loop has still to visit
  tries,      \* failed attempts at the current item
  failed,     \* an item of the current loop has failed
  changed     \* the items whose copy reported a change in this run

node == <<template, config, staged, unit, legacy, loaded, running>>
task == <<pc, todo, tries, failed, changed>>

\* History, read by the properties and never by an action's guard.
VARIABLES
  lost,       \* containers copied by a run that ended before restarting them
  touched,    \* something was edited since the current (or last) run began
  settled     \* the last successful run saw no edit, and there was none since

hist == <<lost, touched, settled>>
vars == <<node, task, hist>>

Loops == {"render", "hash", "deploy", "restart", "ensure"}
Tasks == Loops \cup {"reload"}

TypeOK ==
  /\ template \in [Containers -> Bodies]
  /\ config \in [Containers -> Confs]
  /\ staged \in [Containers -> Staged]
  /\ unit \in [Containers -> OnDisk]
  /\ legacy \in SUBSET Containers
  /\ loaded \in [Containers -> Loaded]
  /\ running \in [Containers -> Processes]
  /\ pc \in Tasks \cup {"idle"}
  /\ todo \in SUBSET Containers
  /\ tries \in 0..(Attempts - 1)
  /\ failed \in BOOLEAN
  /\ changed \in SUBSET Containers
  /\ lost \in SUBSET Containers
  /\ touched \in BOOLEAN
  /\ settled \in BOOLEAN

-----------------------------------------------------------------------------
(* systemd and podman, as the role uses them.                              *)

\* The unit a reload or a boot loads: /etc/systemd/system wins over what the
\* Quadlet generator makes of /etc/containers/systemd.
Generated(c) == IF c \in legacy THEN Legacy ELSE unit[c]

\* A start of the unit u for container c reads the configuration of now.
Launch(c, u) == IF u = NoUnit THEN Stopped ELSE Process(u, config[c])

\* A start of c makes up for a lost restart if systemd knows the unit on disk.
Caught(c) == IF loaded[c] = Generated(c) THEN lost \ {c} ELSE lost

-----------------------------------------------------------------------------
(* A node before its first Quadlet run: new, or with container_manage      *)
(* units enabled and running for some of the containers.                   *)
Init ==
  /\ template \in [Containers -> Bodies]
  /\ config \in [Containers -> Confs]
  /\ staged = [c \in Containers |-> NoUnit]
  /\ unit = [c \in Containers |-> NoUnit]
  /\ legacy \in SUBSET Containers
  /\ loaded = [c \in Containers |-> Generated(c)]
  /\ running = [c \in Containers |-> Launch(c, Generated(c))]
  /\ pc = "idle"
  /\ todo = {}
  /\ tries = 0
  /\ failed = FALSE
  /\ changed = {}
  /\ lost = {}
  /\ touched = TRUE
  /\ settled = FALSE

-----------------------------------------------------------------------------
(* The operator and the node, beside the role.                             *)

\* New variables or a new release of the role, between two runs.
EditTemplate(c, b) ==
  /\ pc = "idle"
  /\ template[c] # b
  /\ template' = [template EXCEPT ![c] = b]
  /\ touched' = TRUE
  /\ settled' = FALSE
  /\ UNCHANGED <<config, staged, unit, legacy, loaded, running, task, lost>>

\* A role that writes configuration, this one's configure tasks or another
\* service's play, at any time.
EditConfig(c, k) ==
  /\ config[c] # k
  /\ config' = [config EXCEPT ![c] = k]
  /\ touched' = TRUE
  /\ settled' = FALSE
  /\ UNCHANGED <<template, staged, unit, legacy, loaded, running, task, lost>>

\* A service's update tasks remove the container_manage unit and leave the
\* reload to quadlet.yml.
RemoveLegacy(c) ==
  /\ pc = "idle"
  /\ c \in legacy
  /\ legacy' = legacy \ {c}
  /\ touched' = TRUE
  /\ settled' = FALSE
  /\ UNCHANGED <<template, config, staged, unit, loaded, running, task, lost>>

\* A container stops: it exits, or an operator stops it.
Exit(c) ==
  /\ running[c] # Stopped
  /\ running' = [running EXCEPT ![c] = Stopped]
  /\ UNCHANGED <<template, config, staged, unit, legacy, loaded, task, hist>>

\* Restart=always: systemd starts it again, from the unit it has loaded.
AutoRestart(c) ==
  /\ running[c] = Stopped
  /\ loaded[c] # NoUnit
  /\ running' = [running EXCEPT ![c] = Launch(c, loaded[c])]
  /\ lost' = Caught(c)
  /\ UNCHANGED <<template, config, staged, unit, legacy, loaded, task, touched, settled>>

\* Something else on the node reloads systemd: another role, a package.
OtherReload ==
  /\ loaded' = [c \in Containers |-> Generated(c)]
  /\ UNCHANGED <<template, config, staged, unit, legacy, running, task, hist>>

\* The task state between two runs: nothing survives the ansible process.
NoTask ==
  /\ pc' = "idle"
  /\ todo' = {}
  /\ tries' = 0
  /\ failed' = FALSE
  /\ changed' = {}

\* The node reboots, whatever the role is doing.
Reboot ==
  /\ loaded' = [c \in Containers |-> Generated(c)]
  /\ running' = [c \in Containers |-> Launch(c, Generated(c))]
  /\ NoTask
  /\ lost' = {}
  /\ UNCHANGED <<template, config, staged, unit, legacy, touched, settled>>

-----------------------------------------------------------------------------
(* The role.                                                               *)

\* The containers the run has copied and not restarted yet.
Owed == IF pc = "restart" THEN changed \cap todo
        ELSE IF pc = "ensure" THEN {} ELSE changed

\* The run ends without success.
Abort ==
  /\ NoTask
  /\ lost' = lost \cup Owed
  /\ UNCHANGED <<node, touched, settled>>

Enter(t, items) ==
  /\ pc' = t
  /\ todo' = items
  /\ tries' = 0
  /\ failed' = FALSE

StartRun ==
  /\ pc = "idle"
  /\ Enter("render", Containers)
  /\ changed' = {}
  /\ touched' = FALSE
  /\ UNCHANGED <<node, lost, settled>>

\* The item a loop visits now.
Item(c) == c \in todo /\ \A d \in todo : c <= d

ItemDone(c) ==
  /\ todo' = todo \ {c}
  /\ tries' = 0
  /\ UNCHANGED <<pc, failed>>

\* Mutant: a failed item is visited again.
ItemFails_Again(c) ==
  /\ tries' = 0
  /\ failed' = TRUE
  /\ UNCHANGED <<pc, todo>>
\* A task fails for an item (an undefined variable, a missing volume, a full
\* disk, a unit that does not start): the loop goes on.
ItemFails(c) ==
  /\ todo' = todo \ {c}
  /\ tries' = 0
  /\ failed' = TRUE
  /\ UNCHANGED pc

Render(c) ==
  /\ pc = "render"
  /\ Item(c)
  /\ ItemDone(c)
  /\ staged' = [staged EXCEPT ![c] = Quadlet(template[c], NoHash)]
  /\ UNCHANGED <<template, config, unit, legacy, loaded, running, changed, hist>>

\* Mutant: a file that is deployed keeps its hash.
HashFor_Kept(c) == IF unit[c] = NoUnit THEN config[c] ELSE unit[c].hash
HashFor(c) == config[c]

\* container_config_hash writes the hash of the volumes' configuration into
\* the staged file.
InjectHash(c) ==
  /\ pc = "hash"
  /\ Item(c)
  /\ ItemDone(c)
  /\ staged' = [staged EXCEPT ![c] = Quadlet(staged[c].body, HashFor(c))]
  /\ UNCHANGED <<template, config, unit, legacy, loaded, running, changed, hist>>

\* Mutants: the copy's result is not registered; it is always a change.
ChangedWith_Nothing(c) == changed
ChangedWith_Always(c) == changed \cup {c}
ChangedWith(c) == IF unit[c] = staged[c] THEN changed ELSE changed \cup {c}

\* copy writes the unit file, and reports a change, only when it differs.
Deploy(c) ==
  /\ pc = "deploy"
  /\ Item(c)
  /\ ItemDone(c)
  /\ unit' = [unit EXCEPT ![c] = staged[c]]
  /\ changed' = ChangedWith(c)
  /\ UNCHANGED <<template, config, staged, legacy, loaded, running, hist>>

\* daemon_reload, skipped when nothing was copied.
Reload ==
  /\ pc = "reload"
  /\ Enter("restart", changed)
  /\ loaded' = IF changed # {} THEN [c \in Containers |-> Generated(c)] ELSE loaded
  /\ UNCHANGED <<template, config, staged, unit, legacy, running, changed, hist>>

Restart(c) ==
  /\ pc = "restart"
  /\ Item(c)
  /\ loaded[c] # NoUnit
  /\ ItemDone(c)
  /\ running' = [running EXCEPT ![c] = Launch(c, loaded[c])]
  /\ lost' = lost \ {c}
  /\ UNCHANGED <<template, config, staged, unit, legacy, loaded, changed, touched, settled>>

\* Mutants: a failed attempt is not counted; there is one attempt too many.
MoreTries_Endless == tries' = tries
MoreTries_OneTooMany == tries < Attempts /\ tries' = tries + 1
MoreTries == tries + 1 < Attempts /\ tries' = tries + 1

\* An attempt fails, before or after the old container was stopped.  The
\* last one fails the item; a container it left running has lost its restart.
RestartAttemptFails(c) ==
  /\ pc = "restart"
  /\ Item(c)
  /\ running' \in {running, [running EXCEPT ![c] = Stopped]}
  /\ \/ /\ MoreTries
        /\ UNCHANGED <<pc, todo, failed, lost>>
     \/ /\ tries + 1 = Attempts
        /\ ItemFails(c)
        /\ lost' = IF running'[c] = Stopped THEN lost ELSE lost \cup {c}
  /\ UNCHANGED <<template, config, staged, unit, legacy, loaded, changed, touched, settled>>

EnsureStarted(c) ==
  /\ pc = "ensure"
  /\ Item(c)
  /\ running[c] = Stopped => loaded[c] # NoUnit
  /\ ItemDone(c)
  /\ running' = IF running[c] = Stopped
                THEN [running EXCEPT ![c] = Launch(c, loaded[c])] ELSE running
  /\ lost' = IF running[c] = Stopped THEN Caught(c) ELSE lost
  /\ UNCHANGED <<template, config, staged, unit, legacy, loaded, changed, touched, settled>>

\* An item of a loop without retries fails and leaves the node as it was.
StepFails(c) ==
  /\ pc \in Loops \ {"restart"}
  /\ Item(c)
  /\ ItemFails(c)
  /\ UNCHANGED <<node, changed, hist>>

\* Mutant: the restarts follow the copies without the reload.
AfterLoop_NoReload ==
  [render |-> "hash", hash |-> "deploy", deploy |-> "restart", restart |-> "ensure"]
AfterLoop ==
  [render |-> "hash", hash |-> "deploy", deploy |-> "reload", restart |-> "ensure"]

\* Mutant: a task's failure is ignored.
LoopSucceeded_Always == todo = {}
LoopSucceeded == todo = {} /\ ~failed

\* A loop without a failed item is followed by the next task.
NextTask ==
  /\ pc \in DOMAIN AfterLoop
  /\ LoopSucceeded
  /\ Enter(AfterLoop[pc], Containers)
  /\ UNCHANGED <<node, changed, hist>>

\* A failed task ends the run.
EndFailed == pc \in Loops /\ todo = {} /\ failed /\ Abort

\* The run is cut short: the connection is lost, the runner is killed, the
\* reload fails.
Interrupt == pc # "idle" /\ Abort

Succeed ==
  /\ pc = "ensure"
  /\ LoopSucceeded
  /\ NoTask
  /\ settled' = ~touched
  /\ UNCHANGED <<node, lost, touched>>

RoleStep ==
  \/ \E c \in Containers :
       \/ Render(c) \/ InjectHash(c) \/ Deploy(c)
       \/ Restart(c) \/ RestartAttemptFails(c)
       \/ EnsureStarted(c) \/ StepFails(c)
  \/ Reload \/ NextTask \/ EndFailed \/ Succeed

Next ==
  \/ \E c \in Containers, b \in Bodies : EditTemplate(c, b)
  \/ \E c \in Containers, k \in Confs : EditConfig(c, k)
  \/ \E c \in Containers : RemoveLegacy(c) \/ Exit(c) \/ AutoRestart(c)
  \/ Reboot \/ OtherReload \/ StartRun \/ Interrupt
  \/ RoleStep

Spec == Init /\ [][Next]_vars

\* ansible carries on with a run it has begun.
FairSpec == Spec /\ WF_vars(RoleStep)

-----------------------------------------------------------------------------
(* Properties.                                                             *)

\* What the template and the configuration call for now.
Desired(c) == Quadlet(template[c], config[c])

\* c runs a Quadlet unit, and not the one in /etc/containers/systemd.
Stale(c) == running[c] # Stopped /\ running[c].unit \notin {Legacy, unit[c]}

\* A restart by the role starts the unit that is on disk: the reload that
\* makes systemd read it comes after the copy and before the restart.
ReloadBeforeRestart ==
  pc = "restart" => \A c \in todo : loaded[c] = Generated(c)

\* Between two runs a container runs an outdated unit only if a run that
\* copied its file ended before it restarted it: no other order of edits,
\* failures, exits, reloads and reboots leaves one behind.
StaleOnlyIfLost == pc = "idle" => \A c \in Containers : Stale(c) => c \in lost

\* After a successful run without edits, every container that runs a Quadlet
\* unit runs what is called for now, unless its restart was lost earlier.
SettledRunsDesired ==
  settled => \A c \in Containers \ lost :
               running[c] # Stopped => running[c].unit \in {Legacy, Desired(c)}

\* Running the role again after that copies nothing, so nothing is reloaded
\* and nothing restarted ("re-running the role produces no restarts").
IdempotentRun == settled => changed = {}

\* A run that was begun ends, whatever fails: no retry goes on for ever.
RunEnds == (pc # "idle") ~> (pc = "idle")

\* How far the run is from its end: the tasks ahead, the items left to this
\* one, the attempts left to this item.
Stage == [render |-> 6, hash |-> 5, deploy |-> 4, reload |-> 3, restart |-> 2, ensure |-> 1, idle |-> 0]
Ahead == <<Stage[pc], Cardinality(todo), Attempts - tries>>
Lower(r, s) == \E i \in 1..3 : r[i] < s[i] /\ \A j \in 1..(i - 1) : r[j] = s[j]

\* Each step of the role brings the run nearer to its end, and no edit, exit,
\* reload or reboot takes it back.
StepsDescend ==
  [][pc # "idle" => \/ Lower(Ahead', Ahead)
                    \/ UNCHANGED task /\ ~RoleStep]_vars

(* The inductive invariant behind the three invariants above.              *)

\* What the staging directory holds: complete bodies when hashing begins,
\* complete files when copying begins, and those of now if nothing was edited.
Hashed(c) ==
  /\ \E k \in Confs : staged[c] = Quadlet(template[c], k)
  /\ ~touched => staged[c] = Desired(c)

StagingInv ==
  /\ pc = "render" /\ ~failed =>
       \A c \in Containers \ todo : staged[c] = Quadlet(template[c], NoHash)
  /\ pc = "hash" =>
       /\ \A c \in Containers :
            \E h \in Confs \cup {NoHash} : staged[c] = Quadlet(template[c], h)
       /\ ~failed => \A c \in Containers \ todo : Hashed(c)
  /\ pc \in {"deploy", "reload", "restart", "ensure"} =>
       \A c \in Containers : Hashed(c)

\* What has been copied by then.
CopiedInv ==
  /\ pc \in {"idle", "render", "hash"} => changed = {}
  /\ pc = "deploy" /\ ~failed => \A c \in Containers \ todo : unit[c] = staged[c]
  /\ pc \in {"reload", "restart", "ensure"} => \A c \in Containers : unit[c] = staged[c]

\* Since a run without edits, the files on disk are those called for.
SettledInv ==
  settled => ~touched /\ \A c \in Containers : unit[c] = Desired(c)

\* What systemd has loaded and what runs follow the file on disk, but for
\* the containers whose restart is owed or lost.
FollowsDisk(c) ==
  /\ loaded[c] \in {Legacy, unit[c]}
  /\ ~Stale(c)

FreshInv == \A c \in Containers \ (lost \cup Owed) : FollowsDisk(c)

IInv ==
  /\ TypeOK
  /\ StagingInv
  /\ CopiedInv
  /\ SettledInv
  /\ FreshInv
  /\ ReloadBeforeRestart
  /\ IdempotentRun

=============================================================================
