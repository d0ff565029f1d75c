---------------------------- MODULE NetworkConfig ----------------------------
(* The role edpm_network_config on one node, with the tool the node is      *)
(* given (each tool has files of its own): the mapping of NIC aliases, its  *)
(* resolution against the NICs that are there, the application of the       *)
(* template, and the return code file by which a later run knows whether    *)
(* there is anything left to do.                                            *)
(*                                                                          *)
(* A mapping is a function from aliases to NICs; NoNic stands for a name or *)
(* a MAC address no NIC has.  A template is a set of leaves, each with the  *)
(* key that is nearest to it.                                               *)
EXTENDS Integers, FiniteSets, TLC

CONSTANTS
  Nics, NoNic,
  Pos,          \* place of a NIC in _ordered_nics: embedded first, then by name
  NumberAlias,  \* "nic1", "nic2", ...
  NicKeys,      \* _NIC_NAME_KEYS
  Lookups,      \* the values of edpm_network_config_mappings: sequences of nodes
  Templates,
  SafeDefaults, \* edpm_network_config_safe_defaults
  None          \* no file, no answer

ASSUME NicsAssumption ==
  /\ NoNic \notin Nics /\ None \notin Nat
  /\ Pos \in [Nics -> Nat]
  /\ \A m, n \in Nics : Pos[m] = Pos[n] => m = n

ASSUME NoneAssumption == \A S \in SUBSET Nics : S # None

ASSUME LookupsAssumption ==
  \A lookup \in Lookups :
    /\ DOMAIN lookup \subseteq Nat
    /\ \A i \in DOMAIN lookup : \A a \in DOMAIN lookup[i].map : lookup[i].map[a] \in Nics \cup {NoNic}

ASSUME LeavesAssumption == \A t \in Templates : \A leaf \in t : DOMAIN leaf = {"key", "value"}

ASSUME NamesAssumption ==
  /\ IsFiniteSet(Nics)
  /\ DOMAIN NumberAlias = 1..Cardinality(Nics)

Tools == {"nmstate", "os-net-config"}

VARIABLES
  tool,              \* edpm_network_config_tool
  pc, input,         \* the run: what it is at, its parameters
  link,              \* each NIC is absent, down or up
  userFile,          \* the mapping file made from the lookup
  derived,           \* derived_nic_mapping.yaml
  rc,                \* the return code file of the tool
  applied,           \* the leaves last applied to the node
  deviceMap,         \* device_map.yaml: the NICs it lists
  last,              \* history: how the last application ended
  succeeded          \* history: an application has succeeded

files == <<userFile, derived, rc, deviceMap>>
node == <<link, applied>>
history == <<last, succeeded>>
vars == <<pc, tool, input, node, files, history>>

Idle == pc = "idle"

-----------------------------------------------------------------------------
(* NICs and mappings.                                                       *)

Present(n) == link[n] # "absent"

\* The name says virtual functions are left out; their physfn is below device/,
\* where _is_vf_by_name does not look, and they stay.
OrderedNics(checkActive) == {n \in Nics : IF checkActive THEN link[n] = "up" ELSE Present(n)}

\* The first node of the lookup with an address of this host, or with its DMI
\* string; the others are not looked at, resolvable or not.
Hits(lookup) ==
  {i \in DOMAIN lookup :
     \/ /\ lookup[i].byMac
        /\ \E a \in DOMAIN lookup[i].map : lookup[i].map[a] \in OrderedNics(FALSE)
     \/ lookup[i].dmi}

GetMappings(lookup) ==
  lookup[CHOOSE i \in Hits(lookup) : \A j \in Hits(lookup) : i <= j].map

\* An entry that names no NIC of the host, two of one NIC, or an alias that is
\* the name of another NIC in use.
Contradictory(mapping) ==
  \/ \E a \in DOMAIN mapping : mapping[a] \notin OrderedNics(FALSE)
  \/ \E a, b \in DOMAIN mapping : a # b /\ mapping[a] = mapping[b]
  \/ \E a \in DOMAIN mapping : a \in OrderedNics(TRUE)

\* The NICs in use are numbered, and those without an alias get nic<number>
\* unless the user gave that one away.
Number(n) == Cardinality({m \in OrderedNics(TRUE) : Pos[m] <= Pos[n]})

Leftovers(mapping) ==
  {n \in OrderedNics(TRUE) : /\ \A a \in DOMAIN mapping : mapping[a] # n
                             /\ NumberAlias[Number(n)] \notin DOMAIN mapping}

DeriveNicMapping(mapping) ==
  [a \in DOMAIN mapping \cup {NumberAlias[Number(n)] : n \in Leftovers(mapping)} |->
     IF a \in DOMAIN mapping THEN mapping[a]
     ELSE CHOOSE n \in Leftovers(mapping) : NumberAlias[Number(n)] = a]

\* Aliases are replaced where a key takes the name of an interface.
SubstituteNicAliases(template, mapping) ==
  {[leaf EXCEPT !.value = IF leaf.key \in NicKeys /\ leaf.value \in DOMAIN mapping
                          THEN mapping[leaf.value] ELSE leaf.value] : leaf \in template}

NoFile == [exists |-> FALSE, map |-> [a \in {} |-> NoNic]]
File(mapping) == [exists |-> TRUE, map |-> mapping]

-----------------------------------------------------------------------------
Init ==
  /\ pc = "idle"
  /\ tool \in Tools
  /\ input = None
  /\ link \in [Nics -> {"down", "up"}]
  /\ userFile = NoFile
  /\ derived = NoFile
  /\ rc = None
  /\ applied = None
  /\ deviceMap = None
  /\ last = "never"
  /\ succeeded = FALSE

ToApply(update) == update \/ rc = None \/ rc # 0

\* The return code is read: at the start with os-net-config, after the
\* mapping is derived with nmstate.
StartRun(update, lookup, template) ==
  /\ Idle
  /\ tool = "nmstate" \/ ToApply(update)
  /\ pc' = "lookup"
  /\ input' = [update |-> update, lookup |-> lookup, template |-> template]
  /\ last' = IF tool = "nmstate" THEN last ELSE "cut"
  /\ UNCHANGED <<tool, node, files, succeeded>>

End == pc' = "idle" /\ input' = None

\* A task that fails outside a block with a rescue ends the run; with
\* os-net-config the application is under way by then.
FailTool == End /\ last' = IF tool = "nmstate" THEN last ELSE "failed"

\* nic_mapping.yml: the mapping file is written, or removed when there is no
\* lookup; a lookup without a match fails.
WriteUserFile ==
  /\ pc = "lookup"
  /\ \/ input.lookup = <<>> /\ userFile' = NoFile
     \/ Hits(input.lookup) # {} /\ userFile' = File(GetMappings(input.lookup))
  /\ pc' = IF tool = "nmstate" THEN "copy" ELSE "apply"
  /\ UNCHANGED <<tool, input, node, derived, rc, deviceMap, history>>

NoMatch ==
  /\ pc = "lookup" /\ input.lookup # <<>>
  /\ Hits(input.lookup) = {}
  /\ FailTool
  /\ UNCHANGED <<tool, node, files, succeeded>>

\* Mutant: an earlier derived file is kept.
CopyUserFile_Keep ==
  /\ pc = "copy"
  /\ pc' = "derive"
  /\ derived' = IF derived.exists THEN derived ELSE userFile
  /\ UNCHANGED <<tool, input, node, userFile, rc, deviceMap, history>>

CopyUserFile ==
  /\ pc = "copy"
  /\ pc' = "derive"
  /\ derived' = userFile
  /\ UNCHANGED <<tool, input, node, userFile, rc, deviceMap, history>>

\* edpm_derived_nic_mapping.py; its rescue removes the file and fails.
Derive ==
  /\ pc = "derive"
  /\ IF Contradictory(derived.map)
     THEN pc' = "unmap" /\ UNCHANGED derived
     ELSE pc' = "gate" /\ derived' = File(DeriveNicMapping(derived.map))
  /\ UNCHANGED <<tool, input, node, userFile, rc, deviceMap, history>>

\* The copy, or the Python YAML library, can be missing.
DeriveUnable ==
  /\ pc \in {"copy", "derive"}
  /\ pc' = "unmap"
  /\ UNCHANGED <<tool, input, node, files, history>>

RemoveDerived ==
  /\ pc = "unmap"
  /\ End
  /\ derived' = NoFile
  /\ UNCHANGED <<tool, node, userFile, rc, deviceMap, history>>

Gate ==
  /\ pc = "gate" /\ ToApply(input.update)
  /\ pc' = "apply"
  /\ last' = "cut"
  /\ UNCHANGED <<tool, input, node, files, succeeded>>

GateClosed ==
  /\ pc = "gate" /\ ~ToApply(input.update)
  /\ End
  /\ UNCHANGED <<tool, node, files, history>>

\* The leaves a tool applies: os-net-config resolves the aliases itself.
Wanted == SubstituteNicAliases(input.template,
                               IF tool = "nmstate" THEN derived.map ELSE userFile.map)

ApplyNmstate ==
  /\ pc = "apply" /\ tool = "nmstate"
  /\ pc' = "devices"
  /\ applied' = Wanted
  /\ UNCHANGED <<tool, input, link, files, history>>

\* The network role fails, having changed the node or not.
ApplyNmstateFails ==
  /\ pc = "apply" /\ tool = "nmstate"
  /\ pc' = "rescue"
  /\ applied' \in {applied, Wanted}
  /\ UNCHANGED <<tool, input, link, files, history>>

\* Every NIC with a device is listed, in use or not.
RefreshDeviceMap ==
  /\ pc = "devices"
  /\ pc' = "write rc"
  /\ deviceMap' = OrderedNics(FALSE)
  /\ UNCHANGED <<tool, input, node, userFile, derived, rc, history>>

RefreshFails ==
  /\ pc = "devices"
  /\ pc' = "rescue"
  /\ UNCHANGED <<tool, input, node, files, history>>

\* Mutant: the exit code is written as it is, 2 when something changed.
WriteRc_Raw ==
  /\ pc = "write rc"
  /\ End
  /\ rc' \in {0, 2}
  /\ last' = "ok"
  /\ succeeded' = TRUE
  /\ UNCHANGED <<tool, node, userFile, derived, deviceMap>>

WriteRc ==
  /\ pc = "write rc"
  /\ End
  /\ rc' = 0
  /\ last' = "ok"
  /\ succeeded' = TRUE
  /\ UNCHANGED <<tool, node, userFile, derived, deviceMap>>

\* Mutant: the rescue leaves the return code alone.
WriteFailure_Nothing ==
  /\ pc = "rescue"
  /\ End
  /\ last' = "failed"
  /\ UNCHANGED <<tool, node, files, succeeded>>

WriteFailure ==
  /\ pc = "rescue"
  /\ End
  /\ rc' = 1
  /\ last' = "failed"
  /\ UNCHANGED <<tool, node, userFile, derived, deviceMap, succeeded>>

\* The module edpm_os_net_config: exit codes 0 and 2 are a success.
RunOsNetConfig ==
  /\ pc = "apply" /\ tool = "os-net-config"
  /\ pc' = "write rc"
  /\ applied' = Wanted
  /\ UNCHANGED <<tool, input, link, files, history>>

\* _generate_default_cfg: an interface gets DHCP if it has a carrier; one that
\* is down is not brought up, because the loop that would is not entered.
SafeConfig == {[key |-> "dhcp", value |-> n] : n \in OrderedNics(TRUE)}

\* Any other code fails the module, and with it the run: the task that writes
\* the return code is not reached.  The safe defaults are applied in best effort.
OsNetConfigFails ==
  /\ pc = "apply" /\ tool = "os-net-config"
  /\ FailTool
  /\ applied' \in {applied, Wanted} \cup IF SafeDefaults THEN {SafeConfig} ELSE {}
  /\ UNCHANGED <<tool, link, files, succeeded>>

-----------------------------------------------------------------------------
(* What happens around the runs.                                            *)

\* A run loses its connection: no rescue, nothing more is done.
Cut ==
  /\ ~Idle
  /\ End
  /\ UNCHANGED <<tool, node, files, history>>

\* A NIC is plugged or unplugged, or its link comes or goes.
LinkChange(n) ==
  /\ \E state \in {"absent", "down", "up"} : link' = [link EXCEPT ![n] = state]
  /\ UNCHANGED <<pc, tool, input, applied, files, history>>

Mapping == WriteUserFile \/ NoMatch \/ CopyUserFile \/ Derive \/ DeriveUnable \/ RemoveDerived
           \/ Gate \/ GateClosed
Applying == \/ ApplyNmstate \/ ApplyNmstateFails \/ RunOsNetConfig \/ OsNetConfigFails
            \/ RefreshDeviceMap \/ RefreshFails \/ WriteRc \/ WriteFailure
Starting == \E update \in BOOLEAN, lookup \in Lookups, template \in Templates :
              StartRun(update, lookup, template)

Next == Starting \/ Mapping \/ Applying \/ Cut \/ \E n \in Nics : LinkChange(n)

Spec == Init /\ [][Next]_vars

-----------------------------------------------------------------------------
(* Properties.                                                              *)

MapFile(f) == f.exists \in BOOLEAN /\ \A a \in DOMAIN f.map : f.map[a] \in Nics \cup {NoNic}

TypeOK ==
  /\ pc \in {"idle", "lookup", "copy", "derive", "unmap", "gate", "apply", "devices", "write rc", "rescue"}
  /\ tool \in Tools
  /\ input = None \/ input \in [update : BOOLEAN, lookup : Lookups, template : Templates]
  /\ link \in [Nics -> {"absent", "down", "up"}]
  /\ MapFile(userFile)
  /\ MapFile(derived)
  /\ rc \in {None, 0, 1}
  /\ deviceMap = None \/ deviceMap \subseteq Nics
  /\ last \in {"never", "cut", "failed", "ok"}
  /\ succeeded \in BOOLEAN

\* The file the aliases are taken from when nmstate is applied is the one this
\* run derived: each alias is one NIC and each NIC has one alias, nothing is
\* unresolved, and the user's own entries stand.  (Between the copy and the
\* derivation, and after a cut, the same file holds raw values of the user.)
ResolvedMapping ==
  pc \in {"gate", "apply", "devices", "write rc", "rescue"} /\ tool = "nmstate" =>
    /\ derived.exists
    /\ \A a \in DOMAIN derived.map : derived.map[a] \in Nics
    /\ \A a, b \in DOMAIN derived.map : derived.map[a] = derived.map[b] => a = b
    /\ \A a \in DOMAIN userFile.map :
         a \in DOMAIN derived.map /\ derived.map[a] = userFile.map[a]

\* A node whose return code says there is nothing left to do once had its
\* configuration, and with nmstate a map of its devices; and its last
\* application did not fail, unless it was cut off or, with os-net-config, failed
\* after an earlier one had succeeded: the file then keeps the 0 of that one
\* although "the previous run of NetworkConfig failed" (os_net_config_tool.yml).
\* After an application that ended well the node has a template's
\* configuration, never the safe defaults of a failure before it.
SkipsOnlyWhenDone ==
  /\ rc = 0 => /\ succeeded
               /\ tool = "nmstate" => deviceMap # None
  /\ Idle /\ rc = 0 => \/ last \in {"ok", "cut"}
                       \/ tool = "os-net-config" /\ last = "failed"
  /\ Idle /\ last = "ok" =>
       /\ rc = 0
       /\ \E template \in Templates :
            {leaf.key : leaf \in applied} = {leaf.key : leaf \in template}

=============================================================================
