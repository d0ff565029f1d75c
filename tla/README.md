# edpm-ansible in TLA+

edpm-ansible is an Ansible collection that configures the compute nodes of an
OpenStack cloud run by OpenShift operators. A deployment runs playbooks on a
node; a playbook includes roles; a role is a list of tasks. This directory
models the parts of the collection that keep state on a node between runs and
that must survive failed tasks, interrupted runs and other runs.

## The system

| Component | State it keeps | Operations | Talks to |
|---|---|---|---|
| Quadlet deployment (`edpm_container_standalone/tasks/quadlet.yml`) | staged and deployed `.container` files | render, hash, copy, reload, restart, start | systemd, podman, configuration hash |
| Container module (`plugins/modules/edpm_container_manage.py`) | containers and their `config_data` labels | batches by `start_order`, create, exec, retry | podman |
| State file (`edpm_container_standalone/tasks/state_file_update.yml`) | `/var/lib/edpm-config/deployed_services.yaml` | register, append, remove | every role that deploys a container |
| Cleanup (`edpm_cleanup`, `edpm_container_rm`) | the state file, units, containers | clean services, clean orphans | state file, podman, systemd |
| Units of containers (`plugins/action/container_systemd.py`) | `/etc/systemd/system/edpm_*` | take away old healthchecks and `.requires`, write units, reload, restart, start | systemd |
| Definitions and filters (`container_config_data.py`, `plugins/filter/helpers.py`) | none | merge overrides, choose containers to create, to start by a unit and to delete | container role |
| Configuration hash (`container_config_hash.py`) | the hash in a startup definition | checksum of mounted configuration | Quadlet deployment, container role |
| PCI passthrough (`edpm_derive_pci_passthrough_devicespec.py`) | none | take what the host uses out of nova's `device_spec` | os-net-config's `sriov_config.yaml`, nova |
| nftables (`edpm_nftables`) | rule snippets, generated files, the changed sentinel, the boot file, the kernel's rules | bootstrap, configure, run, clean up | nft, every role with a firewall snippet |
| Nova state directory (`nova_statedir_ownership.py`) | owners of files, the upgrade marker | walk and chown | nova containers |
| Nova configuration (`edpm_nova`) | `/var/lib/openstack/nova`, the compute id | sync, deploy in order | Quadlet deployment, state file |
| Network configuration (`edpm_network_config`, `edpm_os_net_config*.py`) | NIC mapping, derived mapping, return code file, device map | map, derive, apply, safe defaults, skip | os-net-config, nmstate |
| Kernel and reboot (`edpm_kernel`, `edpm_reboot`) | kernel arguments, pending reboots | set, detect, reboot | the node's boot loader |
| Runner (`openstack_ansibleee`) | event log, summary | run, summarise | ansible-runner, Kubernetes |
| Update (`edpm_update_services`, `edpm_update_system`) | none of its own | remove legacy units, run roles, prune | the roles above |

What makes it hard:

* **Failure between two tasks.** A run stops at the first task that fails on a
  node, or is cut off, and nothing is undone. The next run starts with the
  first task and knows only what is on the node.
* **Change detection.** Restarts and reloads happen because *this* run changed
  something (`register: ... is changed`); nothing on the node remembers one
  that is still owed.
* **Facts that outlive their task.** `set_fact` keeps a value to the end of the
  ansible-playbook run, over every later inclusion of the same task file.
* **Other actors.** Two plays may run on one node; systemd restarts what it
  runs; containers exit; a node reboots at any time.
* **Threads.** `edpm_container_manage` starts the containers of a batch on a pool of
  threads and must not start the next batch before this one is through.

What makes each component correct is stated by the properties of its module
and listed, hazard by hazard, in `PROJECT.json`.

## Modules

| Module | Models | Kind |
|---|---|---|
| `QuadletDeploy` | Quadlet deployment | state machine of one role run after another on one node |
| `ContainerManage` | the module `edpm_container_manage` | state machine of its threads and of podman |
| `ContainerSystemd` | the action `container_systemd` | state machine of one run after another beside systemd |
| `RegistryOps`, `ServiceRegistry` | what the state file stands for | abstract specification |
| `ServiceLifecycle` | deployment, state file, cleanup, systemd's restarts | composition, implements `ServiceRegistry` |
| `Nftables` | the role `edpm_nftables`, nft and the boot | state machine of one play after another on one node |
| `StatedirOwnership` | `nova_statedir_ownership.py` | state machine of the script beside other users of the tree |
| `NetworkConfig` | the role `edpm_network_config` with either tool | state machine of one run after another on one node |
| `ContainerConfig` | definitions, overrides, units, orphans, configuration hash | operators |
| `PciPassthrough` | the derivation of `device_spec` | operators |
| `RunnerSummary` | the summary of a run of the playbooks | operators |
| `Derivations` | the three modules of operators, asked and answered | state machine of one question and its answer |
| `...Proofs` | theorems about `QuadletDeploy`, `ContainerManage`, `ContainerSystemd`, `ServiceLifecycle`, `Nftables`, `StatedirOwnership`, `NetworkConfig` and `Derivations` | proofs |
| `MC*` | values of the constants | for TLC |

### QuadletDeploy

The variables are what is on the node (`staged`, `unit`, `legacy`, `loaded`,
`running`: the staging directory, `/etc/containers/systemd`, the legacy units
of `/etc/systemd/system`, the units systemd has loaded and the processes), what the
operator edits (`template`, `config`) and what the run knows (`pc`, `todo`,
`tries`, `failed`, `changed`). Each task of `quadlet.yml` is an action; a loop task takes
one action per item and visits all its items even when one has failed,
as Ansible does. `changed` is the fact `_edpm_changed_containers`. Edits, exits, restarts by systemd,
reloads by others and reboots may happen between any two steps. `HashFor` is the value written by
`container_config_hash.py`: it stands for the mounted configuration, of which the
module keeps one value per container.

A file is a record of its body and its hash, and a process a record of the unit
and the configuration it was started from, so that *running what is called for*
can be stated. The history variables `lost`, `touched` and `settled` are read by
properties only.

### ContainerManage

`work[c]` is the state of the worker of container `c`, `order` the batch that
runs, `left` and `probes` its retries and its looks at the target of an `exec`,
`failed` the failures collected so far. `appended` counts how often this run has
appended the healthcheck mount to the volumes of a definition: `manage_container` changes
the very list that is also the label `config_data`, and a retry runs it
again. A definition is its revision number; podman creates a container anew if
the label differs.

### ContainerSystemd

`unit`, `loaded`, `enabled` and `running` are what systemd knows of each
`edpm_<name>.service`; `requires`, `files` and `ticking` are what an older release
left beside it. A run goes through the loops of the action (`pc`), each over the
containers (`todo`, in the order of `container_config`): `.requires` directories,
the stat and removal of healthcheck service and timer with a reload after them,
the copy of the units, the reload, the restart of the changed ones, the start of
the others. The action reads `changed` of a module's result and never `failed`, so a
failed copy or reload is passed over (`PassedOver`) and the loop goes on. Only a restart or a start is tried again (`tries`) and ends the run when its
attempts are used up (`AttemptFails`, `Abort`); `Interrupt` ends a run anywhere. Edits,
exits, boots and reloads by others happen between any two steps. `owed`, `missed` and `clean` are history.

`StepsDescend` says that a run ends without any assumption of fairness on what
systemd answers: `Ahead`, the loops ahead, the containers and the files left
and the attempts left, goes down lexicographically with every step of the action.

### ServiceLifecycle

A play deploys the containers of a service one after the other (`RunContainer`), and
registers each in the state file (`ReadState`, `WriteState`): the read and the write are two tasks, and what is between them only
changes facts. `filtered` and `kept` are the facts
`_edpm_filtered_services` and `_edpm_cleanup_services_filtered`, which keep their
value until the end of the run (`NewRun`, `PlayFails`). A cleanup removes the
containers of the unwanted services one at a time, rewrites the state file and,
if asked, removes the containers the file does not name. A service that the state file
does not name is one without containers. `Respawn` is systemd starting a container
whose Quadlet unit is still there.

`ServiceRegistry` is what the README of the role promises of the state file:
atomic operations. Every request takes effect in one step on the registry as it
is then, or not at all. What the code does beyond the promise is in it too, as an explicit
freedom: a run may remember what its removals and cleanups left (`memory`, which the mapping
fills from `filtered` and `kept`), and a service that a later one takes out may come back as
remembered. The mapping takes a play's request from the read to the
write of one inclusion of `state_file_update.yml`, or of one cleanup.

### Nftables

`snippets` is what the roles say of a chain: the content of its rules, and
whether the first of them by name is one with `ensure: absent` (`hidden`). The
files generated from them are a function of the file's name, so that a file that
was not written yet is missing; each is written by a task of its own. `kernel` is the
live ruleset as far as it matters here: the tables, the chains of the role, the
contents live in each, the jumps to it (counted to 2) and the policy of `INPUT`.
Every task of `service-bootstrap.yml`, `configure.yml`, `run.yml` and
`cleanup.yml` that changes state is an action; `configure.yml` stops at a failed validation, `run.yml`
deletes the sentinel whether or not the reload was accepted. nft takes a file as
one transaction, on the live ruleset (`Validates`, `Accepted`) or on an
empty one at boot (`BootLoads`). `Cut`, `Reboot`, `UpgradeCollection` and edits of
snippets happen around the tasks. The history `lost` names what a cut or a boot has
left undone for good: the properties say that what is wrong is always one of
these.

### StatedirOwnership

The stack of `_walk` is `stack`, a frame per directory with the entries of its listing
that are left; `cur` is the `PathManager` in use, with the owner its `stat` has seen.
`stat`, `chown`, `chcon` and `listdir` are separate actions, each of which may
fail (`StatFails`, `EntryFails`: the loop goes on; `Die`: outside the loop, or a kill). `Touch` is
everything others do to the tree between two calls. The history `given` is the owner others gave a
file last, `raced` the files given away between their `stat` and their `chown`,
`excused` what a run cannot answer for: what raised, and what was changed while it ran.
`Up[p]`, the directories `p` is under, is what every set has that has `p` and the directory of
all it has.

### NetworkConfig

Either tool is one machine: the mapping file made from the lookup, for nmstate its
derivation (`derived`) against the NICs that are there, the gate on the return
code file (`rc`), the application of a template whose aliases are replaced, the
device map and the return code of nmstate, the safe defaults of os-net-config, and
the rescue. NICs appear, vanish, come up and go down between any two steps. The
mapping functions are operators translated from the Python code, including
`_ordered_nics`, the resolution of names, MAC addresses and numbered aliases, and
the conflicts they may have. `last` and `succeeded` are history.

### ContainerConfig, PciPassthrough, RunnerSummary, Derivations

Functions of their inputs: the code has no state to interleave, so each is an
operator, and `Derivations` asks one question of it and keeps the answer for the
properties. `Plan` is what one run of `edpm_container_manage` creates, starts
through a unit and deletes; role and module each read the overrides, in different
ways, and the plan is made of both. `UpdateHashes` rewrites a startup
definition; a digest is what it is of: for each directory, the contents of its files one after
the other, in the order glob lists them. `DeviceSpec` takes a user's
entries apart: an entry stays, goes, or is replaced by entries for
the virtual functions to spare. `Report` picks run directory, events and percentage
from artifacts in the order the directory lists them. The loops over overrides, files and events
are functions of the rounds done.

## Runs

| Run | Checks | Bounds |
|---|---|---|
| `quadlet_units` | a container is left on an outdated unit only by a run that ended between its copy and its restart; reload before restart; a successful run without edits leaves what is called for, and a second changes nothing | 2 containers, 1 template body, 2 configurations, 2 attempts |
| `quadlet_ends` | a run ends whatever fails; every step brings it nearer its end | 1 container, 2 bodies, 2 configurations, 2 attempts |
| `manage_groups` | groups do not overlap, report of failures, success means created, exec after its target, a run ends | 4 definitions in 2 groups, 2 threads, 1 retry, 2 revisions |
| `manage_label_drift` | refutes that only changed definitions are created anew: a retry leaves a label that differs | as above |
| `systemd_units` | a service differs from its unit file only where a restart is owed; a run without failures delivers; an interrupted cleanup is taken up; every step brings the run nearer its end | 2 containers, 1 of them upgraded, 2 units, 2 attempts |
| `service_registry` | the state file implements the registry; a deployed service is registered in full; cleanup spares kept services; what was cleaned up returns only from a Quadlet unit | a service of 2 containers and one of 1, 1 play at a time; any number of removals and cleanups in a run |
| `cleanup_everything` | refutes that a cleanup that keeps no service cleans the state file | 2 services, 1 play at a time |
| `nft_files` | nobody is locked out and no jump is doubled but by a file of jumps older than the kernel; a `run.yml` that ends well leaves the rules of the files enforced but for changes without sentinel, an emptied ruleset and files of two versions; the base layout is loaded at the validation | `INPUT` and one chain, a valid and an invalid ruleset, 5 events around any number of plays |
| `nft_boot` | refutes that what was validated can be loaded at boot | the same, 2 events |
| `statedir_walk` | files keep their owners but for the ids of nova of the host; the marker outlives the work; no context under an NFS mount below the statedir | 3 files and 2 directories, 3 users; nothing else is bounded |
| `network_apply` | nmstate is applied with a mapping of this run, resolved and unambiguous; a later run skips only what is done | 2 NICs, 5 lookups, 2 templates, both tools; nothing else is bounded |
| `derivations` | nova is given nothing the host uses, and all else that was asked for; units start what podman does not; the hash follows the content; the summary follows the events in any listing | 2 cards of 2 virtual functions with every kind of entry; 3 containers, up to 2 overrides; 1 edit of a file; up to 4 events, 2 run directories |

Two containers are enough for a loop to fail on one item and succeed on the
other, which is where the order of the tasks matters; two services are enough
for one to be written over, put back or kept while the other is changed, and two
removals in one run for the second to build on the leftover of the first. Two
attempts distinguish a retry that may follow from the last one. Five events
(`MaxEvents`) are enough to take `Nftables` through an edit, a cut, a boot, an
upgrade and another cut, which is what the lock-out below takes. Two NICs are
enough for an alias to be taken, a NIC to be missing and two aliases to want the same
one; the lookups have one that contradicts itself and one without an answer. Two
cards are enough for an entry to reach a partitioned and an untouched one. The
larger state spaces have 3.3 million (`systemd_units`, `nft_files`), 1.8 million (`quadlet_units`,
`statedir_walk`), 1.4 million (`network_apply`) and 0.6 million states (`service_registry`).

The runs that end in a violation each check one statement of the documentation, a
comment or a test; `PROJECT.json` quotes the line and says what happens. `derivations` has no
deadlock check: a question is answered once.

### Known and not run

Disagreements found while modelling that have no run of their own. Where a property
has one as its exception, it is named in the comment of the property: the property
then says that nothing else goes wrong, not that this does not.

* Two plays on one node lose an update of the state file: nothing locks it
  between the read and the write. The role's README says so; `Plays` is one. A
  cleanup of orphans likewise removes what another play has started and not
  registered yet.
* Of two removals of last containers in one run the second may put back what it removes:
  it builds on `_edpm_filtered_services` as the first one left it, with its own service
  in it (`state_file_update.yml:89`), although lines 31-32 say "When the last container is removed from a
  service, the service is automatically removed from the state file". A cleanup that
  follows another in its run likewise. `ServiceRegistry` has the leftover as its
  `memory`: a service that is taken out may come back exactly as its own run left
  it, and nothing else comes back (`ImplementsRegistry`).
* A restart that is due and not done, because its run failed, is not done by
  the next run. `StaleOnlyIfLost` (Quadlets) and `DriftOnlyIfOwed` (units of the
  action) have it as their exception.
* A hash stands for the configuration at the time it is made: if it is edited between hash and
  start and the edit taken back later, the next run finds the hash unchanged and leaves the
  container with what it read in between. `SettledRunsDesired` compares units, not
  what their processes have read.
* A legacy unit that `edpm_nova/tasks/update.yml:5` removes stays loaded until a later
  reload; the restart in between starts what was removed.
* A cleanup takes away no Quadlet unit: systemd brings the container back
  (`OnlyQuadletsReturn`).
* `INPUT` may be set to drop without a jump to the rules, although `run.yml:24` loads
  them in one transaction to prevent lock-outs: an `edpm-update-jumps.nft` that was written
  while the jump was live, with the sentinel still there, is loaded after a boot that
  could not load the files. `LockedOutOnlyByOldJumps` has it as its only
  exception.
* The `always` section of `run.yml` deletes the sentinel of a reload that failed, so the next
  `run.yml` succeeds without the rules; a new `iptables.nft` puts the
  policy of `INPUT` back to accept until the next change of a rule; a play cut between the file of
  rules and the sentinel leaves a change no run sees; files of two versions are loaded as they are. After a
  cleanup, or a boot that could not load the files, an `edpm-update-jumps.nft` of before lacks
  the jumps that were live then, and a `run.yml` that loads it succeeds without
  them. All are exceptions of `RunEnforces`. A boot that loads the files has
  all jumps, so what is loaded after it is not excepted.
* The state directory script looks at the answer of `chcon` for every directory but the
  statedir itself (`nova_statedir_ownership.py:226-229`): on a statedir that is a mount without
  contexts it labels what is below. `LabelsStayOff` is about directories below it.
* A file given away between the `stat` and the `chown` of the script gets the ids of
  before (`raced` in `FilesKeepOwners`), and an entry that raised is left to the old user
  when the marker goes (`excused` in `MarkerOutlivesWork`).
* Every `configure.yml` fails on a node on which a play was cut off between push and
  load of `iptables.nft`, or whose ruleset was emptied later
  (`CompatLoadedUnlessLost`).
* An update by os-net-config that fails leaves the return code 0 of the
  application before it, although `os_net_config_tool.yml` applies again when "the
  previous run of NetworkConfig failed" (an exception of `SkipsOnlyWhenDone`); the safe
  defaults configure no interface that is down.
* `_is_vf_by_name` of the NIC mapping looks for `physfn` beside `device/` and not below it, so virtual
  functions are numbered as NICs.
* A PCI entry stays as it is when a partitioned physical function has no virtual one
  to spare, and reaches what the host uses (`HostDevicesSpared`).
* The role applies an override to the definition of exactly that name and stops at the
  first, the module applies all of them as regular expressions: `PlanFollowsConfig` is
  about overrides both read alike. Any `restart` value makes the module create without
  starting, but only `always` and `unless-stopped` get a unit.
* A mount of a single file right below the configuration base hashes nothing, and files that
  begin with a dot are not hashed (`Plain` in `HashFollowsContent`).

## Fairness

`RunEnds` of `QuadletDeploy` assumes weak fairness of the steps of the role: the
ansible process makes progress and every task ends or fails (a lost connection
fails it). `RunEnds` of `ContainerManage` assumes it of the main thread and of each worker: the
operating system runs them, and every podman command ends. Nothing is assumed of
edits, exits, reboots or other plays. The other modules have safety properties only.

## Proofs

Every theorem holds for all values of the constants that the module's named
assumptions allow; each property is also checked by TLC on the run named above, except for
the measure of `ContainerManage`, whose run checks `RunEnds` itself.
The properties speak of idle states, of answers or of single steps, and are not inductive: each
proof has an invariant that says for every task what the tasks before it have
established, proved with one step per action (`InvInit`, `InvNext`).

`QuadletDeployProofs`, for every number of containers and attempts, all bodies and
configurations: `TypeCorrect`, `StaleOnlyIfLostThm`, `Converges`
(`SettledRunsDesired`), `Idempotent` (`IdempotentRun`), `ReloadedFirst`. `IInv` says
which items of the staging directory are rendered, hashed and copied, that a copied
file is in `changed` until it is restarted, and that what systemd has
loaded is what is generated unless a reload is due. Assumed: one container and one attempt
at least. `RunsDescend` (`StepsDescend`) is the half of `RunEnds` that needs no fairness: every
step of the role lowers the measure `Ahead` (the tasks ahead, the items left to this one, the
attempts left to this item) and nothing else that happens raises it.

`ContainerManageProofs`, for every set of definitions and orders, pool size and
retries: `TypeCorrect`, `OrderKept` (`GroupsInOrder`), `ReportComplete`
(`EveryFailureReported`), `SuccessMeansCreated` (`OkMeansCreated`), `TargetFound`
(`ExecFindsTarget`). The invariant orders the groups (those before the current one
have ended, those after it wait), adds attempts made to retries left, and says of a container
created in this run that it has this run's definition. `Smallest`
justifies the `CHOOSE` of the next group by the well-foundedness of the naturals.
`RunsDescend` (`StepsDescend`) is here too the half of `RunEnds` that needs no fairness: a
step of a worker lowers the measure of its own container and leaves the others' alone
(`OwnDescends`, `OthersStay`), one of the main thread ends the run or goes on to a later group.

`ContainerSystemdProofs`, for any number of containers, units and attempts:
`TypeCorrect`, `DriftOwed`, `Delivers`, `Resumes` and `RunsDescend`, which are all the
properties of `systemd_units`. The invariant has four parts: what the loop at `pc` may
still have to do (`Shape`), what differs is owed or changed (`Debts`), the
cleanup takes a healthcheck apart from its end (`Cleanup`), and what a run without
failures has done so far (`Delivered`). `RunsDescend` proves from the types alone that
the measure goes down, by the finiteness of `todo`.

`ServiceLifecycleProofs`: `TypeCorrect` for any number of plays. The
rest is for one play at a time, `Undisturbed`: at most one play, and roles that append.
These are the conditions under which the code is correct, not a
convenience of the proof: two plays lose an update, and a role that does not append
registers its last container only. How often one run removes and cleans up is not bounded. Under
them, for every set of services, programs and containers:
`CompleteStays` (`CompleteRegistered`), `RemovedStaysAway` (`OnlyQuadletsReturn`),
`KeptAreSpared` (`KeptSurvive`), and `Refines`: the module implements `ServiceRegistry`, with the
leftovers of a run as its memory. The invariant says that the dict a play is about to
write is an outcome of its request on the file as it still is (`Due`), that a
role in mid-course has registered the containers before the present one (`Built`), and that neither
removal loop has a container of a complete, kept service on its list (`Spared`).
`StepsRefine` maps reading to asking, writing to committing, the end of a run to forgetting, and
every other step to a stutter. That a dict built on a leftover has nothing but the effect of
the request and what the leftover says of the service taken out is `Leftover`.

`NftablesProofs`, for any chains and rules and any order of plays, cuts, boots,
upgrades and edits, without the bound on events: `TypeCorrect`, `NobodyLockedOut`,
`NoSecondJump`, `RunsEnforce`, `LayoutLoaded`, which are all the properties of
`nft_files`. What makes them hold is on disk: which of the generated files are of one version, whether
`edpm-update-jumps.nft` is still about the jumps the kernel has, that file and kernel together
have every jump until the ruleset is emptied (`OneVersion`), and that the
missing sentinel can be trusted but for what `lost` names.

`StatedirOwnershipProofs`, for every tree, all exclusions, NFS mounts and ids, any
number of runs, kills and errors, and anything others do: `TypeCorrect`,
`OwnersKept` (`FilesKeepOwners`), `MarkerOutlives` (`MarkerOutlivesWork`) and `LabelsOff`
(`LabelsStayOff`), which are all the properties of `statedir_walk`. A chown computes from the
owner its `stat` has seen, so the invariant adds `StatFits`: the `stat` the script holds is that
of the file, unless the file was given away since. For the marker it accounts for every entry
that is there, in reach and not excused (`WorkDone`): it is done, or it is under an entry that
a frame of the stack still has to visit (`Pending`), or under the one in hand. This rests
on no entry being without its directory (`TreeKept`). For the labels it says that what a
frame which labels has left is under no directory without contexts, the statedir itself apart (`Labels`). Assumed
are only that the top is a directory that is not excluded and above every path, that every path
has a parent directory, and that the ids are ids.

`NetworkConfigProofs`, for any NICs, lookups and templates: `TypeCorrect`,
`MappingResolved` (`ResolvedMapping`), `SkipsJustified` (`SkipsOnlyWhenDone`). The
lemmas are about the derivation: it gives each alias a NIC of its own and keeps
the user's entries if they do not contradict each other. Assumed are the shapes of lookups and templates,
and that an order of the NICs is strict.

`DerivationsProofs` states all the properties of `derivations`:

* for any devices, addresses and entries, `HostSpared` (`HostDevicesSpared`) and `AskedKept`
  (`AskedDevicesKept`), by lemmas about what a physical function makes of an entry. Assumed
  is what the node guarantees: no two devices have one address, every physical function has a
  virtual one, and `sriov_config.yaml` names functions of the node;
* for any definitions, overrides and installed containers, `PlanFollows` (`PlanFollowsConfig`).
  Assumed: the definitions are of containers, an expression matches the name it is, and no
  restart policy is the missing key;
* for any files, mounts and exclusions, `HashFollows` (`HashFollowsContent`). Assumed: glob lists a
  file once, and what is compared are two runs between which one file was edited at most;
* for any run directories and listings, `SummaryIsFaithful` (`SummaryFaithful`). Assumed: a run
  writes one event of statistics at most, and a counter is a number or unreadable.

The loops over overrides, files and events are recursive functions of a number, so the proofs
need an induction. The rule of the library takes an operator as its parameter; `Induct` states it
for a set instead (a set that has 0, and the successor of each it has, has all numbers), and
follows from the well-foundedness of the naturals (`Least`). `MergedIs`, `ReadIs` and `LastIs`
use it: such a function exists, and this is what it has after any round.

Only model-checked are:

* liveness, `RunEnds` of `QuadletDeploy` and of `ContainerManage`: that the steps which are
  due are enabled and fair is TLC's part, that they lead to the end is `RunsDescend`;
* the violations.

## Not modelled

* `Nftables`: the rendering of one rule, rules left live in a chain that no snippet
  names any more, and a cleanup cut off among the files it removes (the loop of
  `cleanup.yml:11-21` is one step).
* `ServiceLifecycle`: several roles that register under one service name, which the README of the role
  describes and no role of the collection does any more, and a state file that cannot be read: `slurp`
  has `failed_when: false` (`state_file_update.yml:35-40`), so any failed read, not only that of a
  missing file, counts as an empty one, and the write drops the other services. The file is
  readable for everybody; in the model a read that fails ends the play.
* `StatedirOwnership`: symbolic links, the values of security contexts, and a file that is
  relabelled only in a run that changes its ids.
* `NetworkConfig`: what os-net-config and nmstate do with a template, the
  configuration of NetworkManager, the purge of another provider's files.
* `ContainerConfig`: the reading of definition files, `check_config` (which no role asks
  for) and filters that only format.
* Kernel arguments and reboots: markers in `/var/lib/openstack/reboot_required` that
  `edpm_kernel` and `edpm_reboot` set and a reboot clears; next in the plan.
* Runner: the shell entry points, which prepare an inventory, call ansible-runner and pass on its status.
* Templates, packages, files and services that a role writes once and for all; the
  text of messages; images and their prune; the contents of configuration beyond equality.

`PROJECT.json` lists every component with what is left out.

## Plan

Done: all modules and proofs above. Left, in this order:

1. `ContainerSystemd` composed with `ContainerManage` to the non-Quadlet deployment, from
   definition to running unit, with an abstract specification: a unit runs what its
   definition calls for.
2. `ServiceLifecycle` with two plays: what is still true of the state file then.
3. Reboots: a node whose kernel arguments are not live has a marker until it is rebooted,
   a node with a workload is rebooted only by `force`; and what `Nftables` and
   `QuadletDeploy` have after it.
4. The update: roles in sequence, the prune of images, and the compute id of nova.
5. That a run of the state directory script ends when nobody changes the tree, with its measure.
