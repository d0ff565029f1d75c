--------------------------- MODULE ContainerConfig ---------------------------
(* What is decided from the container definitions: the definitions each     *)
(* part of the role edpm_container_manage works from, the containers and    *)
(* units that come of them, the orphans that go, and the hash that stands   *)
(* for the files a container mounts.                                        *)
(*                                                                          *)
(* A definition is a function from its keys to values; the paths below      *)
(* config_vol_prefix are sequences of names.                                *)
EXTENDS Integers, SequencesExt

CONSTANTS
  Names,        \* containers
  MatchedBy,    \* the names the key of an override matches as an expression
  Policies,     \* restart policies systemd stands in for
  NoKey,        \* a key a definition does not have
  NotBelow,     \* a volume that begins like the prefix and is not below it
  Shared,       \* SHARED_CONFIG_NAMESPACES
  Dot,          \* file names that begin with a dot
  GlobOrder     \* the files of the node, in the order glob lists them

ASSUME MatchAssumption == (\A n \in Names : n \in MatchedBy[n]) /\ NoKey \notin Policies

Present == {GlobOrder[i] : i \in 1..Len(GlobOrder)}

\* glob lists a file once.
ASSUME GlobAssumption ==
  /\ GlobOrder \in Seq(Seq(STRING) \ {<<>>})
  /\ \A i, j \in 1..Len(GlobOrder) : GlobOrder[i] = GlobOrder[j] => i = j

-----------------------------------------------------------------------------
(* Definitions and overrides: config_overrides is a sequence of keys, each  *)
(* with the settings it makes.                                              *)

Overridden(definition, override) ==
  [k \in DOMAIN definition |->
     IF k \in DOMAIN override.set THEN override.set[k] ELSE definition[k]]

\* The role's view: the first override whose key is a container, and no other.
MergeWithOverrides(configs, overrides) ==
  LET applicable == {i \in 1..Len(overrides) : overrides[i].key \in DOMAIN configs}
      first == overrides[Min(applicable)]
  IN IF applicable = {} THEN configs
     ELSE [n \in DOMAIN configs |->
             IF n = first.key THEN Overridden(configs[n], first) ELSE configs[n]]

Restricted(configs, wanted) == [n \in DOMAIN configs \cap wanted |-> configs[n]]

\* edpm_container_manage_containers: the selection, or everything.
Selected(configs, containers) ==
  IF containers = {} THEN configs ELSE Restricted(configs, containers)

AllContainersHash(configs, overrides, containers) ==
  Selected(MergeWithOverrides(configs, overrides), containers)

Matched(configs, override) ==
  [n \in DOMAIN configs |->
     IF n \in MatchedBy[override.key] THEN Overridden(configs[n], override) ELSE configs[n]]

\* The module's view: all overrides, each on every container it matches.
GetConfigs(configs, overrides, containers) ==
  LET merged[i \in 0..Len(overrides)] ==
        IF i = 0 THEN Selected(configs, containers) ELSE Matched(merged[i - 1], overrides[i])
  IN merged[Len(overrides)]

-----------------------------------------------------------------------------
(* What comes of the definitions.                                           *)

\* A definition with a restart policy, any policy, is created and not started.
StartedByPodman(definition) == definition.restart = NoKey

\* haskey over dict_to_list: the containers that get a systemd unit.
Haskey(configs) == {n \in DOMAIN configs : configs[n].restart \in Policies}

\* An installed container has labels or none, and its inspection may mention ceph.
Managed(c) == c.labels # {} /\ "managed_by" \in c.labels

ToSkip(installed, config_id) ==
  {n \in DOMAIN installed : ~Managed(installed[n]) \/ installed[n].config_id # config_id}

\* Mutant: the containers of other config_ids are not skipped.
NeedsDelete_AnyId(installed, config, config_id) ==
  {n \in DOMAIN installed : n \notin DOMAIN config /\ Managed(installed[n])}

NeedsDelete(installed, config, config_id) ==
  {n \in DOMAIN installed \ ToSkip(installed, config_id) :
     \/ "config_data" \notin installed[n].labels
     \/ n \notin DOMAIN config}

\* Containers whose inspection mentions ceph are not looked at.
Filtered(installed) ==
  Restricted(installed, {n \in DOMAIN installed : ~installed[n].ceph})

\* One run of the role.  Without a container to manage it does nothing.
Plan(configs, overrides, containers, installed, config_id) ==
  LET all == AllContainersHash(configs, overrides, containers)
      own == GetConfigs(configs, overrides, containers)
  IN IF DOMAIN all = {} THEN [deleted |-> {}, created |-> {}, started |-> {}, units |-> {}]
     ELSE [deleted |-> NeedsDelete(Filtered(installed), all, config_id),
           created |-> DOMAIN own,
           started |-> {n \in DOMAIN own : StartedByPodman(own[n])},
           units |-> Haskey(all)]

-----------------------------------------------------------------------------
(* The configuration hash.  A volume is a path below the prefix, or one     *)
(* that begins like it and is not below it; others are left out.            *)

\* Mutant: the namespaces services share are not told apart.
GetConfigBase_Top(path) == SubSeq(path, 1, 1)

\* The walk up stops at the first directory right below the prefix or below a
\* shared namespace.
GetConfigBase(path) ==
  IF Len(path) > 1 /\ path[1] \in Shared THEN SubSeq(path, 1, 2) ELSE SubSeq(path, 1, 1)

\* A volume that is the prefix, or not below it, ends the module in an error.
BadVolumes(volumes) == NotBelow \in volumes \/ <<>> \in volumes

MatchConfigVolumes(volumes) == {GetConfigBase(v) : v \in volumes}

Below(base, path) == IsStrictPrefix(base, path)
Rest(base, path) == SubSeq(path, Len(base) + 1, Len(path))

\* glob('**/*') passes over names that begin with a dot.
Hashed(base, path) ==
  Below(base, path) /\ \A i \in 1..Len(Rest(base, path)) : Rest(base, path)[i] \notin Dot

\* The contents of the files one after the other, the excluded ones left out.
Content(base, files, exclusions, path) ==
  IF Hashed(base, path) /\ Rest(base, path) \notin exclusions THEN files[path] ELSE <<>>

CalculateChecksum(base, files, exclusions) ==
  LET read[i \in 0..Len(GlobOrder)] ==
        IF i = 0 THEN <<>> ELSE read[i - 1] \o Content(base, files, exclusions, GlobOrder[i])
  IN read[Len(GlobOrder)]

\* A checksum for each directory; the code joins them in the order of the names.
ConfigHash(volumes, files, exclusions) ==
  [b \in MatchConfigVolumes(volumes) |-> CalculateChecksum(b, files, exclusions)]

\* A startup definition is rewritten only when it mounts something and the hash
\* differs; one that mounts nothing any more keeps the hash it has.
UpdateHashes(startup, files) ==
  LET new == ConfigHash(startup.volumes, files, startup.exclusions)
  IN IF startup.volumes = {} \/ new = startup.hash THEN startup
     ELSE [startup EXCEPT !.hash = new]

=============================================================================
