---------------------------- MODULE PciPassthrough ----------------------------
(* edpm_derive_pci_passthrough_devicespec: what of the device_spec of nova  *)
(* is left when the host itself uses virtual functions (NIC partitioning).  *)
(*                                                                          *)
(* A device stands for the address it has in sysfs; a pattern for a PCI     *)
(* address gives the values each field may have.  Lists whose order nothing *)
(* depends on are sets.  sriov_config.yaml is the physical functions        *)
(* os-net-config configured ("listed") and the virtual functions it gave    *)
(* the host, each with the name of its physical function.                   *)
EXTENDS Integers, Sequences, FiniteSets

CONSTANTS
  Pfs, Vfs,     \* physical and virtual functions of the node
  VfOf,         \* the physical function of each virtual one
  Address,      \* the PCI address of each device, a value for each field
  Top,          \* MAX_DOMAIN, MAX_BUS, MAX_SLOT, MAX_FUNC
  PfId, VfId,   \* product ids of a physical function and of its virtual ones
  AnyValue,          \* '*', or a field left blank
  Unset,        \* a key the user did not give
  Rejected      \* the outcome of an invalid configuration

Devices == Pfs \cup Vfs
LeftFields == <<"domain", "bus", "slot">>
Fields == {"domain", "bus", "slot", "function"}

ASSUME DevicesAssumption ==
  /\ Pfs \cap Vfs = {}
  /\ VfOf \in [Vfs -> Pfs]
  /\ \A pf \in Pfs : \E v \in Vfs : VfOf[v] = pf
  /\ Top \in [Fields -> Nat]
  /\ \A d \in Devices : \A f \in Fields : Address[d][f] \in 0..Top[f]
  /\ \A d, e \in Devices : (\A f \in Fields : Address[d][f] = Address[e][f]) => d = e
  /\ AnyValue \notin Nat

-----------------------------------------------------------------------------
(* Addresses as users write them.                                          *)

AllOf(f) == 0..Top[f]

\* A number out of range is an error; any other value stands for itself.
FieldValues(f, v) == IF v = AnyValue THEN AllOf(f) ELSE {v}

\* "domain:bus:slot.function", with fields missing on the left; a dictionary
\* has a number or a regular expression (a set of values) for each field.
TextPattern(a) ==
  LET missing == 3 - Len(a.left)
      Given(f) == \E i \in 1..Len(a.left) : LeftFields[missing + i] = f
      Value(f) == IF f = "function" THEN a.function
                  ELSE IF Given(f)
                  THEN a.left[CHOOSE i \in 1..Len(a.left) : LeftFields[missing + i] = f]
                  ELSE AnyValue
  IN [f \in Fields |-> FieldValues(f, Value(f))]

IsNumber(values) == Cardinality(values) = 1

DictPattern(a) == [f \in Fields |-> IF a.fields[f] = {AnyValue} THEN AllOf(f) ELSE a.fields[f]]

Pattern(a) ==
  CASE a.form = "text" -> TextPattern(a)
    [] a.form = "dict" -> DictPattern(a)
    [] a.form = "none" -> [f \in Fields |-> AllOf(f)]

\* More than three fields on the left, none at all, or a number too large.
BadAddress(a) ==
  \/ a.form = "text" /\ Len(a.left) \notin 1..3
  \/ /\ a.form # "none"
     /\ \E f \in Fields : IsNumber(Pattern(a)[f]) /\ ~(Pattern(a)[f] \subseteq AllOf(f))

Matches(pattern, d) == \A f \in Fields : Address[d][f] \in pattern[f]

\* The pattern of one device, as get_pci_addr_from_ifname and sysfs name it.
Exactly(d) == [form |-> "dict", fields |-> [f \in Fields |-> {Address[d][f]}]]

-----------------------------------------------------------------------------
(* sriov_config.yaml: host is the set of the host's virtual functions.     *)

NicPartitionPfs(host) == {VfOf[v] : v \in host}

\* Mutant: the functions that are not partitioned are forgotten.
NonNicPartitionPfs_None(listed, host) == {}
NonNicPartitionPfs(listed, host) == listed \ NicPartitionPfs(host)

\* Mutant: the functions of the host are not left out.
AvailableVfs_All(pf, host) == {v \in Vfs : VfOf[v] = pf}
AvailableVfs(pf, host) == {v \in Vfs \ host : VfOf[v] = pf}

-----------------------------------------------------------------------------
(* One entry of the user's device_spec against one physical function.      *)

Agrees(user, id) == user.product \in {Unset, id}

MatchPf(user, pf, nonNic) ==
  CASE Agrees(user, VfId[pf]) -> IF nonNic THEN "add pf" ELSE "add vfs"
    [] ~Agrees(user, VfId[pf]) /\ Agrees(user, PfId[pf]) ->
         IF nonNic THEN "add pf" ELSE "delete"
    [] OTHER -> "keep"

\* The devices the entry is replaced by, and whether it is to be deleted.
PassthroughConfig(user, pf, host, nonNic) ==
  LET pattern == Pattern(user.address)
      free == AvailableVfs(pf, host)
      match == MatchPf(user, pf, nonNic)
      taken == {v \in free : Matches(pattern, v)}
  IN IF Matches(pattern, pf)
     THEN [sel |-> CASE match = "add pf" -> {pf} [] match = "add vfs" -> free [] OTHER -> {},
           del |-> match = "delete" \/ (match = "add vfs" /\ free = {})]
     ELSE IF Agrees(user, VfId[pf]) /\ free # {}
     THEN [sel |-> taken, del |-> taken = {} /\ \E v \in host : Matches(pattern, v)]
     ELSE [sel |-> {}, del |-> FALSE]

\* The physical functions that are not partitioned are looked at only when a
\* partitioned one changed the entry.
ForAllPfs(user, listed, host) ==
  LET nic == {PassthroughConfig(user, pf, host, FALSE) : pf \in NicPartitionPfs(host)}
      del == \E r \in nic : r.del
      derived == UNION {r.sel : r \in nic}
      nonNic == IF del \/ derived # {} THEN NonNicPartitionPfs(listed, host) ELSE {}
      all == derived \cup UNION {PassthroughConfig(user, pf, host, TRUE).sel : pf \in nonNic}
  IN [sel |-> all, del |-> del /\ all = {}]

-----------------------------------------------------------------------------
(* The device_spec.                                                        *)

\* What the module makes of an entry: it is kept, with the address that a
\* devname or a physical network stood for, replaced by devices, or dropped.
Kept(user) == [kind |-> "kept", user |-> user]
Derived(user, devices) == [kind |-> "derived", user |-> user, devices |-> devices]
Dropped == [kind |-> "dropped"]

\* devname and a physical network whose interface is known become addresses.
Resolved(user) ==
  IF user.address.form = "none" /\ user.product = Unset /\ user.devname = Unset
  THEN [user EXCEPT !.address = Exactly(user.network)]
  ELSE IF user.devname # Unset
  THEN [user EXCEPT !.address = Exactly(user.devname), !.devname = Unset]
  ELSE user

Replaced(user, listed, host) ==
  LET r == ForAllPfs(user, listed, host)
  IN IF r.del THEN Dropped
     ELSE IF r.sel # {} THEN Derived(user, r.sel) ELSE Kept(user)

CombinedConfiguration(user, listed, host) ==
  IF user.devname # Unset /\ user.devname \notin NicPartitionPfs(host) THEN Kept(user)
  ELSE Replaced(Resolved(user), listed, host)

\* An address and a devname, or neither with nothing that stands for them; an
\* address is read only when there is a partitioned function to compare with.
Invalid(user, host) ==
  \/ user.address.form # "none" /\ user.devname # Unset
  \/ user.address.form = "none" /\ {user.product, user.devname, user.network} = {Unset}
  \/ NicPartitionPfs(host) # {} /\ BadAddress(user.address)

\* The configuration written for nova: one bad entry and none is.
DeviceSpec(users, listed, host) ==
  IF \E user \in users : Invalid(user, host) THEN Rejected
  ELSE {CombinedConfiguration(user, listed, host) : user \in users}

-----------------------------------------------------------------------------
(* What nova makes of an entry: it passes through a device whose address,  *)
(* or whose physical function's address, matches, with the product asked.  *)

ProductOf(d) == IF d \in Pfs THEN PfId[d] ELSE VfId[VfOf[d]]

Reaches(user, d) ==
  LET pf == IF d \in Pfs THEN d ELSE VfOf[d]
      pattern == Pattern(IF user.devname # Unset THEN Exactly(user.devname)
                         ELSE Resolved(user).address)
  IN /\ ~BadAddress(user.address)
     /\ Agrees(user, ProductOf(d))
     /\ (Matches(pattern, d) \/ Matches(pattern, pf))

Reached(entry) ==
  CASE entry.kind = "kept" -> {d \in Devices : Reaches(entry.user, d)}
    [] entry.kind = "derived" ->
         {d \in Devices : \E x \in entry.devices :
            Reaches([entry.user EXCEPT !.address = Exactly(x), !.devname = Unset], d)}
    [] OTHER -> {}

HostDevices(host) == host \cup NicPartitionPfs(host)

=============================================================================
