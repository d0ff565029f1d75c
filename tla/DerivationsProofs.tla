-------------------------- MODULE DerivationsProofs --------------------------
(***************************************************************************)
(* Proofs about what the collection derives from its inputs.  For every    *)
(* node, every sriov_config.yaml and every set of entries, what is derived *)
(* for nova spares the devices of the host and keeps all others that were  *)
(* asked for; for all definitions, overrides and containers a run of the   *)
(* role plans what its configuration says; for all files the hash of a     *)
(* definition follows those it mounts, and no other service's; and for all *)
(* listings of events the summary of a run is true to them.                *)
(*                                                                         *)
(* The three loops of the code (over the overrides, over the files and     *)
(* over the events) are functions of the number of rounds done.  That a    *)
(* function with the equations of such a loop exists, and what it has      *)
(* after any round, is proved over the set of numbers of which it is true: *)
(* one that has zero, and the successor of each it has, has all numbers.   *)
(***************************************************************************)
EXTENDS Derivations, FiniteSetTheorems, SequenceTheorems, WellFoundedInduction, TLAPS

\* The pattern of one device: it is valid and no other device has it.
LEMMA ExactlyOne ==
  ASSUME NEW x \in Devices
  PROVE  /\ Exactly(x).form = "dict"
         /\ ~BadAddress(Exactly(x))
         /\ \A d \in Devices : Matches(Pattern(Exactly(x)), d) <=> d = x
<1>1. Exactly(x).form = "dict" /\ Exactly(x).fields = [f \in Fields |-> {Address[x][f]}]
  BY DEF Exactly
<1>2. \A f \in Fields : Address[x][f] \in 0..Top[f] /\ Top[f] \in Nat
  BY DevicesAssumption
<1>3. \A f \in Fields : {Address[x][f]} # {AnyValue}
  BY <1>2, DevicesAssumption
<1>4. Pattern(Exactly(x)) = DictPattern(Exactly(x))
  BY <1>1 DEF Pattern
<1>5. \A f \in Fields : Pattern(Exactly(x))[f] = {Address[x][f]}
  BY <1>1, <1>3, <1>4 DEF DictPattern
<1>6. ~BadAddress(Exactly(x))
  BY <1>1, <1>2, <1>5 DEF BadAddress, AllOf
<1>7. \A d \in Devices : Matches(Pattern(Exactly(x)), d) <=> \A f \in Fields : Address[d][f] = Address[x][f]
  BY <1>5 DEF Matches
<1>8. \A d \in Devices : Matches(Pattern(Exactly(x)), d) <=> d = x
  BY <1>7, DevicesAssumption
<1> QED BY <1>1, <1>6, <1>8

\* The function a device belongs to: its own, or that of a virtual one.
PfOf(d) == IF d \in Pfs THEN d ELSE VfOf[d]

LEMMA PfOfType == \A d \in Devices : PfOf(d) \in Pfs
  BY DevicesAssumption DEF PfOf, Devices

User(user) ==
  /\ DOMAIN user = {"address", "product", "devname", "network"}
  /\ user.devname \in Pfs \cup {Unset} /\ user.network \in Pfs \cup {Unset}

\* An entry without devname whose address stands for itself.
Plainly(user) ==
  /\ DOMAIN user = {"address", "product", "devname", "network"}
  /\ user.devname = Unset
  /\ ~(user.address.form = "none" /\ user.product = Unset)

LEMMA ReachesPlainly ==
  ASSUME NEW user, Plainly(user), NEW d
  PROVE  Reaches(user, d) <=> /\ ~BadAddress(user.address)
                              /\ Agrees(user, ProductOf(d))
                              /\ \/ Matches(Pattern(user.address), d)
                                 \/ Matches(Pattern(user.address), PfOf(d))
  BY DEF Plainly, Reaches, Resolved, PfOf

\* What a derived entry reaches: its devices and their virtual functions.
LEMMA DerivedReaches ==
  ASSUME NEW user, DOMAIN user = {"address", "product", "devname", "network"},
         NEW devices \in SUBSET Devices
  PROVE  Reached(Derived(user, devices)) =
           {d \in Devices : Agrees(user, ProductOf(d)) /\ (d \in devices \/ PfOf(d) \in devices)}
<1> DEFINE At(x) == [user EXCEPT !.address = Exactly(x), !.devname = Unset]
<1>1. Reached(Derived(user, devices)) = {d \in Devices : \E x \in devices : Reaches(At(x), d)}
  BY DEF Reached, Derived
<1>2. ASSUME NEW x \in devices, NEW d \in Devices
      PROVE  Reaches(At(x), d) <=> Agrees(user, ProductOf(d)) /\ (d = x \/ PfOf(d) = x)
  <2>1. /\ DOMAIN At(x) = DOMAIN user /\ At(x).address = Exactly(x)
        /\ At(x).devname = Unset /\ At(x).product = user.product
    OBVIOUS
  <2>2. Plainly(At(x))
    BY <2>1, ExactlyOne DEF Plainly
  <2>3. Agrees(At(x), ProductOf(d)) <=> Agrees(user, ProductOf(d))
    BY <2>1 DEF Agrees
  <2>4. PfOf(d) \in Devices
    BY PfOfType DEF Devices
  <2> HIDE DEF At
  <2> QED BY <2>1, <2>2, <2>3, <2>4, ReachesPlainly, ExactlyOne
<1> HIDE DEF At
<1> QED BY <1>1, <1>2

\* A devname or a physical network becomes an address, once and for all.
LEMMA ResolvedPlainly ==
  ASSUME NEW user, User(user)
  PROVE  Plainly(Resolved(user)) /\ Resolved(user).product = user.product
  BY DEF User, Plainly, Resolved, Exactly

LEMMA ResolvedReaches ==
  ASSUME NEW user, User(user), NEW d \in Devices,
         ~(user.address.form # "none" /\ user.devname # Unset),
         Reaches(user, d)
  PROVE  /\ Agrees(user, ProductOf(d))
         /\ \/ Matches(Pattern(Resolved(user).address), d)
            \/ Matches(Pattern(Resolved(user).address), PfOf(d))
  BY DEF User, Reaches, Resolved, PfOf

-----------------------------------------------------------------------------
(* One entry against one physical function, and against all of them.       *)

\* What a physical function makes of an entry is its own, and none of the
\* host's: itself if it is not partitioned, virtual functions to spare else.
LEMMA SelectedSpared ==
  ASSUME NEW user, NEW host \in SUBSET Vfs, NEW pf \in Pfs, NEW nonNic \in BOOLEAN,
         nonNic <=> pf \notin NicPartitionPfs(host)
  PROVE  /\ PassthroughConfig(user, pf, host, nonNic).sel \subseteq
              {v \in Vfs \ host : VfOf[v] = pf} \cup {pf}
         /\ pf \in PassthroughConfig(user, pf, host, nonNic).sel => nonNic
<1> DEFINE pattern == Pattern(user.address)
           free == AvailableVfs(pf, host)
           taken == {v \in free : Matches(pattern, v)}
           match == MatchPf(user, pf, nonNic)
           P == PassthroughConfig(user, pf, host, nonNic)
<1>1. free = {v \in Vfs \ host : VfOf[v] = pf} /\ pf \notin free
  BY DevicesAssumption DEF AvailableVfs
<1>2. \/ P.sel = CASE match = "add pf" -> {pf} [] match = "add vfs" -> free [] OTHER -> {}
      \/ P.sel = taken
      \/ P.sel = {}
  BY DEF PassthroughConfig
<1>3. match = "add pf" => nonNic
  BY DEF MatchPf
<1> HIDE DEF match, P, free
<1> QED BY <1>1, <1>2, <1>3 DEF P, free

\* A device an entry reaches is among those its function selects, or the
\* entry is to be deleted because of it.
LEMMA ReachedSelected ==
  ASSUME NEW user, NEW host \in SUBSET Vfs, NEW d \in Devices,
         Agrees(user, ProductOf(d)),
         Matches(Pattern(user.address), d) \/ Matches(Pattern(user.address), PfOf(d))
  PROVE  LET own == PassthroughConfig(user, PfOf(d), host, FALSE)
             alone == PassthroughConfig(user, PfOf(d), host, TRUE)
         IN /\ d \in HostDevices(host) /\ AvailableVfs(PfOf(d), host) # {} => own.sel # {} \/ own.del
            /\ d \notin HostDevices(host) /\ PfOf(d) \in NicPartitionPfs(host) => d \in own.sel
            /\ PfOf(d) \notin NicPartitionPfs(host) => d \in alone.sel \/ PfOf(d) \in alone.sel
<1> DEFINE pf == PfOf(d)
           pattern == Pattern(user.address)
           free == AvailableVfs(pf, host)
           taken == {v \in free : Matches(pattern, v)}
           own == PassthroughConfig(user, pf, host, FALSE)
           alone == PassthroughConfig(user, pf, host, TRUE)
<1>1. pf \in Pfs /\ (d \in Pfs => d = pf) /\ (d \notin Pfs => d \in Vfs /\ VfOf[d] = pf)
  BY PfOfType DEF PfOf, Devices
<1>2. Agrees(user, IF d \in Pfs THEN PfId[pf] ELSE VfId[pf])
  BY <1>1 DEF ProductOf
<1>3. free = {v \in Vfs \ host : VfOf[v] = pf}
  BY DEF AvailableVfs
<1>4. CASE Matches(pattern, pf)
  <2>1. MatchPf(user, pf, FALSE) = IF Agrees(user, VfId[pf]) THEN "add vfs" ELSE "delete"
    BY <1>2 DEF MatchPf
  <2>2. MatchPf(user, pf, TRUE) = "add pf"
    BY <1>2 DEF MatchPf
  <2>3. /\ own.sel = IF Agrees(user, VfId[pf]) THEN free ELSE {}
        /\ ~Agrees(user, VfId[pf]) => own.del
    BY <1>4, <2>1 DEF PassthroughConfig
  <2>4. alone.sel = {pf}
    BY <1>4, <2>2 DEF PassthroughConfig
  <2> HIDE DEF own, alone, free, pf
  <2>5. d \notin HostDevices(host) /\ pf \in NicPartitionPfs(host) => d \in own.sel
    BY <1>1, <1>2, <1>3, <2>3 DEF HostDevices
  <2> QED BY <2>3, <2>4, <2>5 DEF own, alone, free, pf
<1>5. CASE ~Matches(pattern, pf)
  <2>1. Matches(pattern, d) /\ d \in Vfs /\ VfOf[d] = pf /\ Agrees(user, VfId[pf])
    BY <1>1, <1>2, <1>5
  <2>2. free # {} => /\ own.sel = taken /\ alone.sel = taken
                     /\ own.del <=> taken = {} /\ \E v \in host : Matches(pattern, v)
    BY <1>5, <2>1 DEF PassthroughConfig
  <2>3. d \notin host => d \in taken /\ free # {}
    BY <1>3, <2>1
  <2>4. d \in host => pf \in NicPartitionPfs(host)
    BY <2>1 DEF NicPartitionPfs
  <2>5. d \in HostDevices(host) => d \in host
    BY <2>1, DevicesAssumption DEF HostDevices, NicPartitionPfs
  <2> HIDE DEF own, alone, free, pf, pattern
  <2> QED BY <2>1, <2>2, <2>3, <2>4, <2>5 DEF own, alone, free, pf, HostDevices
<1> QED BY <1>4, <1>5

\* The same of all physical functions: nothing of the host's is selected, and
\* a device that is reached and not the host's is, if the entry is replaced.
LEMMA AllSpared ==
  ASSUME NEW user, NEW listed \in SUBSET Pfs, NEW host \in SUBSET Vfs
  PROVE  /\ ForAllPfs(user, listed, host).sel \subseteq Devices \ HostDevices(host)
         /\ \A v \in host : VfOf[v] \notin ForAllPfs(user, listed, host).sel
<1> DEFINE F == ForAllPfs(user, listed, host)
           Own(pf) == PassthroughConfig(user, pf, host, FALSE)
           Alone(pf) == PassthroughConfig(user, pf, host, TRUE)
<1>1. NicPartitionPfs(host) \subseteq Pfs
  BY DevicesAssumption DEF NicPartitionPfs
<1>2. \A x \in F.sel : \/ \E pf \in NicPartitionPfs(host) : x \in Own(pf).sel
                       \/ \E pf \in listed \ NicPartitionPfs(host) : x \in Alone(pf).sel
  BY DEF ForAllPfs, NonNicPartitionPfs
<1>3. ASSUME NEW pf \in NicPartitionPfs(host)
      PROVE  Own(pf).sel \subseteq {v \in Vfs \ host : VfOf[v] = pf}
  <2>1. pf \in Pfs /\ FALSE \in BOOLEAN /\ (FALSE <=> pf \notin NicPartitionPfs(host))
    BY <1>1
  <2>2. Own(pf).sel \subseteq {v \in Vfs \ host : VfOf[v] = pf} \cup {pf} /\ pf \notin Own(pf).sel
    BY <2>1, SelectedSpared
  <2> QED BY <2>2
<1>4. \A pf \in listed \ NicPartitionPfs(host) :
        Alone(pf).sel \subseteq {v \in Vfs \ host : VfOf[v] = pf} \cup {pf}
  BY SelectedSpared
<1> HIDE DEF F, Own, Alone
<1>5. \A x \in F.sel : x \in Vfs \ host \/ x \in Pfs \ NicPartitionPfs(host)
  BY <1>2, <1>3, <1>4
<1> QED BY <1>5, DevicesAssumption DEF F, Devices, HostDevices, NicPartitionPfs

LEMMA AllSelected ==
  ASSUME NEW user, NEW host \in SUBSET Vfs, NEW listed \in SUBSET Pfs, NEW d \in Devices,
         Agrees(user, ProductOf(d)),
         Matches(Pattern(user.address), d) \/ Matches(Pattern(user.address), PfOf(d))
  PROVE  LET r == ForAllPfs(user, listed, host)
         IN /\ d \in HostDevices(host) /\ AvailableVfs(PfOf(d), host) # {} => r.del \/ r.sel # {}
            /\ listed = Pfs /\ d \notin HostDevices(host) /\ (r.del \/ r.sel # {}) =>
                 d \in r.sel \/ PfOf(d) \in r.sel
<1> DEFINE r == ForAllPfs(user, listed, host)
           nic == {PassthroughConfig(user, pf, host, FALSE) : pf \in NicPartitionPfs(host)}
           del == \E q \in nic : q.del
           derived == UNION {q.sel : q \in nic}
           nonNic == IF del \/ derived # {} THEN NonNicPartitionPfs(listed, host) ELSE {}
           own == PassthroughConfig(user, PfOf(d), host, FALSE)
           alone == PassthroughConfig(user, PfOf(d), host, TRUE)
           others == UNION {PassthroughConfig(user, pf, host, TRUE).sel : pf \in nonNic}
<1>1. r.sel = derived \cup others /\ (r.del <=> del /\ r.sel = {})
  BY DEF ForAllPfs
<1>2. PfOf(d) \in Pfs
  BY PfOfType
<1>3. d \in HostDevices(host) => PfOf(d) \in NicPartitionPfs(host)
  BY DevicesAssumption DEF HostDevices, NicPartitionPfs, PfOf
<1>4. PfOf(d) \in NicPartitionPfs(host) => /\ own.sel \subseteq r.sel
                                           /\ own.del => del
  <2>1. PfOf(d) \in NicPartitionPfs(host) => own \in nic
    OBVIOUS
  <2> HIDE DEF own, r, others, nic
  <2>2. own \in nic => own.sel \subseteq derived /\ (own.del => del)
    OBVIOUS
  <2> HIDE DEF derived, del
  <2> QED BY <1>1, <2>1, <2>2
<1>5. r.del \/ r.sel # {} => del \/ derived # {}
  <2>1. ~(del \/ derived # {}) => others = {}
    OBVIOUS
  <2> HIDE DEF r, del, derived, others
  <2> QED BY <1>1, <2>1
<1>6. (del \/ derived # {}) /\ listed = Pfs /\ PfOf(d) \notin NicPartitionPfs(host)
      => alone.sel \subseteq r.sel
  BY <1>1, <1>2 DEF NonNicPartitionPfs
<1>7. /\ d \in HostDevices(host) /\ AvailableVfs(PfOf(d), host) # {} => own.sel # {} \/ own.del
      /\ d \notin HostDevices(host) /\ PfOf(d) \in NicPartitionPfs(host) => d \in own.sel
      /\ PfOf(d) \notin NicPartitionPfs(host) => d \in alone.sel \/ PfOf(d) \in alone.sel
  BY ReachedSelected
<1> HIDE DEF r, del, derived, own, alone
<1>8. d \in HostDevices(host) /\ AvailableVfs(PfOf(d), host) # {} => r.del \/ r.sel # {}
  BY <1>1, <1>3, <1>4, <1>7
<1>9. listed = Pfs /\ d \notin HostDevices(host) /\ (r.del \/ r.sel # {}) => d \in r.sel \/ PfOf(d) \in r.sel
  BY <1>4, <1>5, <1>6, <1>7
<1> QED BY <1>8, <1>9 DEF r

-----------------------------------------------------------------------------
(* Entries and configurations.                                             *)

\* No derived entry reaches a device of the host, and no entry at all does
\* while every partitioned physical function has a virtual one to spare.
LEMMA EntrySpares ==
  ASSUME NEW user, User(user), NEW listed \in SUBSET Pfs, NEW host \in SUBSET Vfs,
         ~Invalid(user, host)
  PROVE  LET entry == CombinedConfiguration(user, listed, host)
         IN entry.kind = "derived" \/ SomeLeft(host) => Reached(entry) \cap HostDevices(host) = {}
<1> DEFINE entry == CombinedConfiguration(user, listed, host)
           u == Resolved(user)
           r == ForAllPfs(u, listed, host)
<1>1. Plainly(u)
  BY ResolvedPlainly
<1>2. CASE entry = Kept(user) /\ user.devname # Unset /\ user.devname \notin NicPartitionPfs(host)
  <2>1. user.devname \in Pfs /\ user.devname \in Devices
    BY <1>2 DEF User, Devices
  <2>2. \A d \in Devices : Reaches(user, d) => d = user.devname \/ PfOf(d) = user.devname
    BY <1>2, <2>1, ExactlyOne, PfOfType DEF Reaches, PfOf, Devices
  <2>3. \A d \in HostDevices(host) : PfOf(d) \in NicPartitionPfs(host) /\ (d \in Pfs => d = PfOf(d))
    BY DevicesAssumption DEF HostDevices, NicPartitionPfs, PfOf
  <2>4. Reached(entry) = {d \in Devices : Reaches(user, d)}
    BY <1>2 DEF Reached, Kept
  <2> QED BY <1>2, <2>1, <2>2, <2>3, <2>4
<1>3. CASE entry = Kept(u) /\ ~r.del /\ r.sel = {}
  <2>1. entry.kind # "derived" /\ Reached(entry) = {d \in Devices : Reaches(u, d)}
    BY <1>3 DEF Reached, Kept
  <2>2. ASSUME SomeLeft(host), NEW d \in HostDevices(host), d \in Devices, Reaches(u, d) PROVE FALSE
    <3>1. AvailableVfs(PfOf(d), host) # {}
      BY <2>2, DevicesAssumption DEF SomeLeft, HostDevices, NicPartitionPfs, PfOf
    <3> QED BY <1>1, <1>3, <2>2, <3>1, ReachesPlainly, AllSelected
  <2> QED BY <2>1, <2>2
<1>4. CASE entry = Derived(u, r.sel)
  <2>1. r.sel \subseteq Devices \ HostDevices(host) /\ \A v \in host : VfOf[v] \notin r.sel
    BY AllSpared
  <2>2. Reached(entry) \subseteq {d \in Devices : d \in r.sel \/ PfOf(d) \in r.sel}
    BY <1>1, <1>4, <2>1, DerivedReaches DEF Plainly
  <2>3. \A d \in HostDevices(host) : d \notin r.sel /\ PfOf(d) \notin r.sel
    BY <2>1, DevicesAssumption DEF HostDevices, NicPartitionPfs, PfOf
  <2> QED BY <2>2, <2>3
<1>5. CASE entry = Dropped
  BY <1>5 DEF Reached, Dropped
<1> QED BY <1>2, <1>3, <1>4, <1>5 DEF CombinedConfiguration, Replaced

\* An entry's device that is not the host's is reached by what replaces it.
LEMMA EntryKeeps ==
  ASSUME NEW user, User(user), NEW host \in SUBSET Vfs, ~Invalid(user, host)
  PROVE  Reached(Kept(user)) \ HostDevices(host) \subseteq Reached(CombinedConfiguration(user, Pfs, host))
<1> DEFINE entry == CombinedConfiguration(user, Pfs, host)
           u == Resolved(user)
           r == ForAllPfs(u, Pfs, host)
<1> SUFFICES ASSUME NEW d \in Devices, d \notin HostDevices(host), Reaches(user, d)
             PROVE  d \in Reached(entry)
  BY DEF Reached, Kept
<1>1. Plainly(u) /\ u.product = user.product
  BY ResolvedPlainly
<1>2. /\ Agrees(u, ProductOf(d))
      /\ Matches(Pattern(u.address), d) \/ Matches(Pattern(u.address), PfOf(d))
  BY <1>1, ResolvedReaches DEF Invalid, Agrees
<1>3. CASE entry = Kept(user)
  BY <1>3 DEF Reached, Kept
<1>4. CASE entry = Kept(u)
  <2>1. ~BadAddress(u.address)
    <3>1. user.devname # Unset => ~BadAddress(Exactly(user.devname))
      BY ExactlyOne DEF User, Devices
    <3>2. user.network # Unset => ~BadAddress(Exactly(user.network))
      BY ExactlyOne DEF User, Devices
    <3>3. user.address.form = "none" /\ user.product = Unset /\ user.devname = Unset
          => user.network # Unset
      BY DEF Invalid
    <3>4. ~BadAddress(user.address)
      BY DEF Reaches
    <3> QED BY <3>1, <3>2, <3>3, <3>4 DEF Resolved, User
  <2>2. Reaches(u, d)
    BY <1>1, <1>2, <2>1, ReachesPlainly
  <2> QED BY <1>4, <2>2 DEF Reached, Kept
<1>5. CASE entry = Derived(u, r.sel) /\ r.sel # {}
  <2>1. r.sel \subseteq Devices
    BY AllSpared
  <2>2. d \in r.sel \/ PfOf(d) \in r.sel
    BY <1>2, <1>5, AllSelected
  <2> QED BY <1>1, <1>2, <1>5, <2>1, <2>2, DerivedReaches DEF Plainly
<1>6. CASE entry = Dropped /\ r.del
  <2>1. r.sel = {}
    BY <1>6 DEF ForAllPfs
  <2> QED BY <1>2, <1>6, <2>1, AllSelected
<1> QED BY <1>3, <1>4, <1>5, <1>6 DEF CombinedConfiguration, Replaced

-----------------------------------------------------------------------------
(* Induction over the numbers of a set.                                    *)

\* A set of numbers that is not empty has a least one.
LEMMA Least ==
  ASSUME NEW S, S \subseteq Nat, S # {}
  PROVE \E m \in S : \A n \in S : m <= n
<1> DEFINE R == OpToRel(<, Nat)
<1>1. IsWellFoundedOn(R, Nat)
  BY NatLessThanWellFounded
<1>2. \A x, y \in Nat : <<y, x>> \in R <=> y < x
  BY DEF OpToRel
<1> HIDE DEF R
<1>3. PICK x \in S : \A y \in S : ~ (<<y, x>> \in R)
  BY <1>1, WFMin
<1>4. ASSUME NEW y \in S PROVE x <= y
  <2>1. x \in Nat /\ y \in Nat
    OBVIOUS
  <2>2. ~(y < x)
    BY <1>2, <1>3, <2>1
  <2> QED BY <2>1, <2>2
<1> QED BY <1>4

\* A set that has zero and with each number the next has all of them.
LEMMA Induct ==
  ASSUME NEW S, 0 \in S, \A n \in Nat : n \in S => n + 1 \in S
  PROVE  Nat \subseteq S
<1> SUFFICES ASSUME Nat \ S # {} PROVE FALSE
  OBVIOUS
<1>1. PICK m \in Nat \ S : \A n \in Nat \ S : m <= n
  BY Least
<1>2. m # 0 /\ m - 1 \in Nat
  OBVIOUS
<1>3. m - 1 \in S
  BY <1>1, <1>2
<1>4. m - 1 + 1 \in S
  BY <1>2, <1>3
<1> QED BY <1>4

-----------------------------------------------------------------------------
(* The plan of a run of the role.                                          *)

\* What GetConfigs makes of the definitions, one override after the other.
LEMMA MergedIs ==
  ASSUME NEW configs, NEW overrides, NEW containers, Len(overrides) \in Nat
  PROVE  \E merged :
           /\ GetConfigs(configs, overrides, containers) = merged[Len(overrides)]
           /\ merged[0] = Selected(configs, containers)
           /\ \A i \in 1..Len(overrides) : merged[i] = Matched(merged[i - 1], overrides[i])
<1> DEFINE first == Selected(configs, containers)
           D(x, i) == Matched(x, overrides[i])
           G(g, n) == g = [i \in 0..n |-> IF i = 0 THEN first ELSE D(g[i - 1], i)]
           S == {n \in Nat : \E g : G(g, n)}
           merged == CHOOSE g : G(g, Len(overrides))
<1>1. GetConfigs(configs, overrides, containers) = merged[Len(overrides)]
  BY DEF GetConfigs
<1>2. \A g, n : G(g, n) <=> g = [i \in 0..n |-> IF i = 0 THEN first ELSE D(g[i - 1], i)]
  OBVIOUS
<1>3. \A x, i : D(x, i) = Matched(x, overrides[i])
  OBVIOUS
<1> HIDE DEF D, first
<1>4. Nat \subseteq S
  <2>1. 0 \in S
    <3>1. G([i \in 0..0 |-> first], 0)
      OBVIOUS
    <3> QED BY <3>1
  <2>2. ASSUME NEW n \in Nat, n \in S PROVE n + 1 \in S
    <3>1. PICK g : G(g, n)
      BY <2>2
    <3> DEFINE h == [i \in 0..(n + 1) |-> IF i <= n THEN g[i] ELSE D(g[n], n + 1)]
    <3>2. ASSUME NEW i \in 0..(n + 1) PROVE h[i] = IF i = 0 THEN first ELSE D(h[i - 1], i)
      BY <3>1
    <3>3. h = [i \in 0..(n + 1) |-> IF i = 0 THEN first ELSE D(h[i - 1], i)]
      BY <3>2
    <3>4. G(h, n + 1)
      BY ONLY <3>3
    <3> HIDE DEF h, G
    <3> QED BY <3>4
  <2> HIDE DEF S
  <2> QED BY <2>1, <2>2, Induct
<1>5. G(merged, Len(overrides))
  BY <1>4
<1> HIDE DEF merged, G
<1> QED BY <1>1, <1>2, <1>3, <1>5 DEF first

\* An override that matches none of the definitions leaves them as they are.
LEMMA MatchedNone ==
  ASSUME NEW configs, configs = [n \in DOMAIN configs |-> configs[n]],
         NEW override, MatchedBy[override.key] \cap DOMAIN configs = {}
  PROVE  Matched(configs, override) = configs
<1>1. Matched(configs, override) = [n \in DOMAIN configs |-> configs[n]]
  BY DEF Matched
<1> QED BY <1>1

\* The selection is a part of the definitions, unchanged.
LEMMA SelectedIs ==
  ASSUME NEW configs, NEW containers, configs = Restricted(configs, Names)
  PROVE  LET chosen == Selected(configs, containers)
             kept == IF containers = {} THEN DOMAIN configs ELSE DOMAIN configs \cap containers
         IN /\ DOMAIN configs \subseteq Names
            /\ configs = [n \in DOMAIN configs |-> configs[n]]
            /\ chosen = [n \in kept |-> configs[n]]
<1>1. configs = [n \in DOMAIN configs \cap Names |-> configs[n]]
  BY DEF Restricted
<1>2. DOMAIN configs = DOMAIN configs \cap Names
  BY <1>1
<1>3. configs = [n \in DOMAIN configs |-> configs[n]]
  BY <1>1, <1>2
<1>4. CASE containers = {}
  BY <1>2, <1>3, <1>4 DEF Selected
<1>5. CASE containers # {}
  BY <1>2, <1>3, <1>5 DEF Selected, Restricted
<1> QED BY <1>4, <1>5

\* The module's definitions are those of the selected containers.
LEMMA SameContainers ==
  ASSUME NEW configs, NEW overrides, NEW containers, Len(overrides) \in Nat
  PROVE  DOMAIN GetConfigs(configs, overrides, containers) = DOMAIN Selected(configs, containers)
<1>1. PICK merged : /\ GetConfigs(configs, overrides, containers) = merged[Len(overrides)]
                    /\ merged[0] = Selected(configs, containers)
                    /\ \A i \in 1..Len(overrides) : merged[i] = Matched(merged[i - 1], overrides[i])
  BY MergedIs
<1> DEFINE S == {n \in Nat : n <= Len(overrides) =>
                               DOMAIN merged[n] = DOMAIN Selected(configs, containers)}
<1>2. 0 \in S
  BY <1>1
<1>3. ASSUME NEW n \in Nat, n \in S PROVE n + 1 \in S
  <2>1. n + 1 <= Len(overrides) => merged[n + 1] = Matched(merged[n], overrides[n + 1])
    BY <1>1
  <2>2. \A x, o : DOMAIN Matched(x, o) = DOMAIN x
    BY DEF Matched
  <2> QED BY <1>3, <2>1, <2>2
<1>4. Nat \subseteq S
  <2> HIDE DEF S
  <2> QED BY <1>2, <1>3, Induct
<1> QED BY <1>1, <1>4

\* The same of what the role works from.
LEMMA RoleContainers ==
  ASSUME NEW configs, NEW overrides, NEW containers, configs = Restricted(configs, Names)
  PROVE  DOMAIN AllContainersHash(configs, overrides, containers) = DOMAIN Selected(configs, containers)
<1>1. DOMAIN MergeWithOverrides(configs, overrides) = DOMAIN configs
  BY DEF MergeWithOverrides
<1> QED BY <1>1 DEF AllContainersHash, Selected, Restricted

\* Where the overrides are read alike, the definitions are the same.
LEMMA SameDefinitions ==
  ASSUME NEW q, q.configs = Restricted(q.configs, Names), Len(q.overrides) \in Nat, ReadAlike(q)
  PROVE  AllContainersHash(q.configs, q.overrides, q.containers)
           = GetConfigs(q.configs, q.overrides, q.containers)
<1> DEFINE configs == q.configs
           overrides == q.overrides
           names == DOMAIN configs
           chosen == Selected(configs, q.containers)
           hit == {i \in 1..Len(overrides) : MatchedBy[overrides[i].key] \cap names # {}}
           all == AllContainersHash(configs, overrides, q.containers)
<1>1. /\ names \subseteq Names
      /\ configs = [n \in names |-> configs[n]]
      /\ chosen = [n \in IF q.containers = {} THEN names ELSE names \cap q.containers |-> configs[n]]
  BY SelectedIs
<1>2. DOMAIN chosen \subseteq names /\ chosen = [n \in DOMAIN chosen |-> chosen[n]]
  BY <1>1
<1>3. \A i \in hit : hit = {i} /\ MatchedBy[overrides[i].key] \cap names = {overrides[i].key}
  BY DEF ReadAlike
<1>4. \A i \in 1..Len(overrides) : overrides[i].key \in names => i \in hit
  BY <1>1, MatchAssumption
<1>5. PICK merged : /\ GetConfigs(configs, overrides, q.containers) = merged[Len(overrides)]
                    /\ merged[0] = chosen
                    /\ \A i \in 1..Len(overrides) : merged[i] = Matched(merged[i - 1], overrides[i])
  BY MergedIs
<1>6. CASE hit = {}
  <2>1. all = chosen
    <3>1. {i \in 1..Len(overrides) : overrides[i].key \in names} = {}
      BY <1>4, <1>6
    <3>2. MergeWithOverrides(configs, overrides) = configs
      BY <3>1 DEF MergeWithOverrides
    <3> QED BY <3>2 DEF AllContainersHash
  <2> DEFINE S == {n \in Nat : n <= Len(overrides) => merged[n] = chosen}
  <2>2. 0 \in S
    BY <1>5
  <2>3. ASSUME NEW n \in Nat, n \in S, n + 1 <= Len(overrides) PROVE n + 1 \in S
    <3>1. merged[n + 1] = Matched(chosen, overrides[n + 1]) /\ n + 1 \in 1..Len(overrides)
      BY <1>5, <2>3
    <3>2. MatchedBy[overrides[n + 1].key] \cap DOMAIN chosen = {}
      BY <1>2, <1>6, <3>1
    <3>3. merged[n + 1] = chosen
      BY <1>2, <3>1, <3>2, MatchedNone
    <3> QED BY <3>3
  <2>4. Nat \subseteq S
    <3>1. ASSUME NEW n \in Nat, n \in S, ~(n + 1 <= Len(overrides)) PROVE n + 1 \in S
      BY <3>1
    <3> HIDE DEF S
    <3> QED BY <2>2, <2>3, <3>1, Induct
  <2>5. merged[Len(overrides)] = chosen
    BY <2>4
  <2> QED BY <1>5, <2>1, <2>5
<1>7. ASSUME NEW k \in hit PROVE all = GetConfigs(configs, overrides, q.containers)
  <2> DEFINE o == overrides[k]
             target == [n \in DOMAIN chosen |-> IF n = o.key THEN Overridden(configs[n], o) ELSE configs[n]]
  <2>1. k \in 1..Len(overrides) /\ hit = {k} /\ MatchedBy[o.key] \cap names = {o.key} /\ o.key \in names
    BY <1>3
  <2>2. {i \in 1..Len(overrides) : overrides[i].key \in names} = {k}
    BY <1>4, <2>1
  <2>3. all = target
    <3> DEFINE both == [n \in names |-> IF n = o.key THEN Overridden(configs[n], o) ELSE configs[n]]
    <3>1. Min({k}) = k
      BY <2>1 DEF Min
    <3>2. MergeWithOverrides(configs, overrides) = both
      BY <2>2, <3>1 DEF MergeWithOverrides
    <3>3. CASE q.containers = {}
      BY <1>1, <3>2, <3>3 DEF AllContainersHash, Selected
    <3>4. CASE q.containers # {}
      <4>1. DOMAIN chosen = names \cap q.containers
        BY <1>1, <3>4
      <4>2. DOMAIN both = names
        OBVIOUS
      <4>3. all = [n \in DOMAIN both \cap q.containers |-> both[n]]
        BY <3>2, <3>4 DEF AllContainersHash, Selected, Restricted
      <4>4. \A n \in DOMAIN chosen :
              both[n] = IF n = o.key THEN Overridden(configs[n], o) ELSE configs[n]
        BY <4>1
      <4> HIDE DEF both, all, chosen
      <4> QED BY <4>1, <4>2, <4>3, <4>4
    <3> QED BY <3>3, <3>4
  <2>4. Matched(chosen, o) = target
    <3>1. \A n \in DOMAIN chosen : n \in MatchedBy[o.key] <=> n = o.key
      BY <1>2, <2>1
    <3>2. \A n \in DOMAIN chosen : chosen[n] = configs[n]
      BY <1>1
    <3> QED BY <3>1, <3>2 DEF Matched
  <2>5. target = [n \in DOMAIN target |-> target[n]] /\ DOMAIN target \subseteq names
    BY <1>2
  <2> HIDE DEF target
  <2> DEFINE S == {n \in Nat : n <= Len(overrides) => merged[n] = IF k <= n THEN target ELSE chosen}
  <2>6. 0 \in S
    BY <1>5, <2>1
  <2>7. ASSUME NEW n \in Nat, n \in S, n + 1 <= Len(overrides) PROVE n + 1 \in S
    <3>1. n + 1 \in 1..Len(overrides) /\ merged[n + 1] = Matched(merged[n], overrides[n + 1])
      BY <1>5, <2>7
    <3>2. merged[n] = IF k <= n THEN target ELSE chosen
      BY <2>7
    <3>3. CASE n + 1 = k
      <4>1. ~(k <= n) /\ k <= n + 1
        BY <2>1, <3>3
      <4>2. merged[n] = chosen
        BY <3>2, <4>1
      <4>3. merged[n + 1] = target
        BY <2>4, <3>1, <3>3, <4>2
      <4> QED BY <4>1, <4>3
    <3>4. CASE n + 1 # k
      <4>1. MatchedBy[overrides[n + 1].key] \cap names = {}
        BY <2>1, <3>1, <3>4
      <4>2. merged[n + 1] = merged[n]
        BY <1>2, <2>5, <3>1, <3>2, <4>1, MatchedNone
      <4>3. k <= n + 1 <=> k <= n
        BY <2>1, <3>4
      <4>4. merged[n + 1] = IF k <= n + 1 THEN target ELSE chosen
        BY <3>2, <4>2, <4>3
      <4> QED BY <4>4
    <3> QED BY <3>3, <3>4
  <2>8. Nat \subseteq S
    <3>1. ASSUME NEW n \in Nat, n \in S, ~(n + 1 <= Len(overrides)) PROVE n + 1 \in S
      BY <3>1
    <3> HIDE DEF S
    <3> QED BY <2>6, <2>7, <3>1, Induct
  <2>9. merged[Len(overrides)] = target
    <3>1. Len(overrides) \in S
      BY <2>8
    <3>2. k <= Len(overrides)
      BY <2>1
    <3> QED BY <3>1, <3>2
  <2> QED BY <1>5, <2>3, <2>9
<1> QED BY <1>6, <1>7

\* Of its own config_id, and of its own tool, only what is wanted is left.
LEMMA DeletedOwn ==
  ASSUME NEW installed, NEW config, NEW config_id
  PROVE  LET own == {n \in DOMAIN installed : /\ Managed(installed[n])
                                             /\ installed[n].config_id = config_id
                                             /\ ~installed[n].ceph}
             gone == NeedsDelete(Filtered(installed), config, config_id)
         IN gone \subseteq own /\ own \ gone \subseteq DOMAIN config
<1> DEFINE seen == {n \in DOMAIN installed : ~installed[n].ceph}
           F == Filtered(installed)
<1>1. DOMAIN F = seen /\ \A n \in seen : F[n] = installed[n]
  BY DEF Filtered, Restricted
<1> HIDE DEF F
<1> QED BY <1>1 DEF NeedsDelete, ToSkip, F

-----------------------------------------------------------------------------
(* The hash of a definition.                                               *)

\* What is read of a directory after each of the files glob lists.
ReadIn(base, files, exclusions, read) ==
  /\ CalculateChecksum(base, files, exclusions) = read[Len(GlobOrder)]
  /\ read[0] = <<>>
  /\ \A i \in 1..Len(GlobOrder) :
       read[i] = read[i - 1] \o Content(base, files, exclusions, GlobOrder[i])

\* There is such a reading.
LEMMA ReadIs ==
  ASSUME NEW base, NEW files, NEW exclusions
  PROVE  \E read : ReadIn(base, files, exclusions, read)
<1> DEFINE len == Len(GlobOrder)
           D(x, i) == x \o Content(base, files, exclusions, GlobOrder[i])
           G(g, n) == g = [i \in 0..n |-> IF i = 0 THEN <<>> ELSE D(g[i - 1], i)]
           S == {n \in Nat : \E g : G(g, n)}
           read == CHOOSE g : G(g, len)
<1>1. CalculateChecksum(base, files, exclusions) = read[len]
  BY DEF CalculateChecksum
<1>2. \A g, n : G(g, n) <=> g = [i \in 0..n |-> IF i = 0 THEN <<>> ELSE D(g[i - 1], i)]
  OBVIOUS
<1>3. \A x, i : D(x, i) = x \o Content(base, files, exclusions, GlobOrder[i])
  OBVIOUS
<1>4. len \in Nat
  BY GlobAssumption
<1> HIDE DEF D, len
<1>5. Nat \subseteq S
  <2>1. 0 \in S
    <3>1. G([i \in 0..0 |-> <<>>], 0)
      OBVIOUS
    <3> QED BY <3>1
  <2>2. ASSUME NEW n \in Nat, n \in S PROVE n + 1 \in S
    <3>1. PICK g : G(g, n)
      BY <2>2
    <3> DEFINE h == [i \in 0..(n + 1) |-> IF i <= n THEN g[i] ELSE D(g[n], n + 1)]
    <3>2. ASSUME NEW i \in 0..(n + 1) PROVE h[i] = IF i = 0 THEN <<>> ELSE D(h[i - 1], i)
      BY <3>1
    <3>3. h = [i \in 0..(n + 1) |-> IF i = 0 THEN <<>> ELSE D(h[i - 1], i)]
      BY <3>2
    <3>4. G(h, n + 1)
      BY ONLY <3>3
    <3> HIDE DEF h, G
    <3> QED BY <3>4
  <2> HIDE DEF S
  <2> QED BY <2>1, <2>2, Induct
<1>6. G(read, len)
  BY <1>4, <1>5
<1> HIDE DEF read, G
<1>7. read[0] = <<>> /\ \A i \in 1..len : read[i] = D(read[i - 1], i)
  BY <1>2, <1>4, <1>6
<1> QED BY <1>1, <1>3, <1>7 DEF ReadIn, len

\* What is read next can be told from the whole, and so can what was read before.
LEMMA NextTold ==
  ASSUME NEW s \in Seq(Nat), NEW t \in Seq(Nat), NEW u \in Seq(Nat)
  PROVE  s \o t = s \o u <=> t = u
  BY ConcatSimplifications

LEMMA EarlierTold ==
  ASSUME NEW s \in Seq(Nat), NEW t \in Seq(Nat), NEW u \in Seq(Nat)
  PROVE  t \o s = u \o s <=> t = u
  BY ConcatSimplifications

Contents(files) == \A i \in 1..Len(GlobOrder) : files[GlobOrder[i]] \in Seq(Nat)

\* The hash of a directory reads the one file that was edited, or it does not.
LEMMA ChecksumFollows ==
  ASSUME NEW base, NEW files, NEW edited, NEW exclusions, Contents(files), Contents(edited),
         NEW path, path \in Present,
         \A p \in Present : p # path => files[p] = edited[p]
  PROVE  CalculateChecksum(base, files, exclusions) = CalculateChecksum(base, edited, exclusions)
           <=> Content(base, files, exclusions, path) = Content(base, edited, exclusions, path)
<1> DEFINE len == Len(GlobOrder)
           C(i) == Content(base, files, exclusions, GlobOrder[i])
           E(i) == Content(base, edited, exclusions, GlobOrder[i])
<1>1. len \in Nat
  BY GlobAssumption
<1>2. PICK at \in 1..len : path = GlobOrder[at]
  BY DEF Present
<1>3. \A i \in 1..len : C(i) \in Seq(Nat) /\ E(i) \in Seq(Nat)
  BY DEF Contents, Content
<1>4. \A i \in 1..len : i # at => C(i) = E(i)
  BY <1>2, GlobAssumption DEF Content, Present
<1>5. PICK read : ReadIn(base, files, exclusions, read)
  BY ReadIs
<1>6. PICK again : ReadIn(base, edited, exclusions, again)
  BY ReadIs
<1> DEFINE same == C(at) = E(at)
           Both(n) == read[n] \in Seq(Nat) /\ again[n] \in Seq(Nat)
           S == {n \in Nat : n <= len => /\ Both(n)
                                         /\ read[n] = again[n] <=> (n < at \/ same)}
<1>7. /\ CalculateChecksum(base, files, exclusions) = read[len]
      /\ CalculateChecksum(base, edited, exclusions) = again[len]
      /\ read[0] = <<>> /\ again[0] = <<>>
      /\ \A i \in 1..len : read[i] = read[i - 1] \o C(i) /\ again[i] = again[i - 1] \o E(i)
  BY <1>5, <1>6 DEF ReadIn
<1> HIDE DEF C, E, len
<1>8. 0 \in S
  <2>1. <<>> \in Seq(Nat)
    OBVIOUS
  <2>2. Both(0) /\ read[0] = again[0]
    BY <1>7, <2>1
  <2>3. 0 < at
    BY <1>1, <1>2
  <2> HIDE DEF same
  <2> QED BY <2>2, <2>3
<1>9. ASSUME NEW n \in Nat, n \in S, n + 1 <= len PROVE n + 1 \in S
  <2> DEFINE i == n + 1
  <2>1. i \in 1..len /\ i - 1 = n /\ i \in Nat
    BY <1>1, <1>9
  <2>2. read[i] = read[n] \o C(i) /\ again[i] = again[n] \o E(i)
    BY <1>7, <2>1
  <2>3. Both(n) /\ (read[n] = again[n] <=> (n < at \/ same))
    BY <1>1, <1>9
  <2>4. C(i) \in Seq(Nat) /\ E(i) \in Seq(Nat)
    BY <1>3, <2>1
  <2>5. Both(i)
    BY <2>2, <2>3, <2>4, ConcatProperties
  <2>6. ASSUME i = at PROVE read[i] = again[i] <=> (i < at \/ same)
    <3>1. n < at
      BY <2>6
    <3>2. read[n] = again[n]
      BY <2>3, <3>1
    <3>3. read[i] = again[i] <=> C(i) = E(i)
      <4>1. read[n] \in Seq(Nat)
        BY <2>3
      <4> HIDE DEF i, Both, same
      <4>2. read[n] \o C(i) = read[n] \o E(i) <=> C(i) = E(i)
        BY ONLY <2>4, <4>1, NextTold, Zenon
      <4> QED BY <2>2, <3>2, <4>2
    <3>4. C(i) = E(i) <=> same
      BY <2>6
    <3>5. ~(i < at)
      BY <1>2, <2>6
    <3> HIDE DEF i, same
    <3> QED BY <3>3, <3>4, <3>5
  <2>7. ASSUME i # at PROVE read[i] = again[i] <=> (i < at \/ same)
    <3>1. C(i) = E(i)
      BY <1>4, <2>1, <2>7
    <3>2. read[i] = again[i] <=> read[n] = again[n]
      <4>1. read[n] \in Seq(Nat) /\ again[n] \in Seq(Nat)
        BY <2>3
      <4> HIDE DEF i, Both, same
      <4>2. read[n] \o C(i) = again[n] \o C(i) <=> read[n] = again[n]
        BY ONLY <2>4, <4>1, EarlierTold, Zenon
      <4> QED BY <2>2, <3>1, <4>2
    <3>3. i < at <=> n < at
      BY <1>2, <1>1, <2>7
    <3> HIDE DEF i, same
    <3> QED BY <2>3, <3>2, <3>3
  <2>8. i \in Nat /\ Both(i) /\ (read[i] = again[i] <=> (i < at \/ same))
    BY <2>1, <2>5, <2>6, <2>7
  <2> HIDE DEF i, same, Both
  <2>9. i \in S
    BY <2>8
  <2> QED BY <2>9 DEF i
<1>10. Nat \subseteq S
  <2>1. ASSUME NEW n \in Nat, n \in S, ~(n + 1 <= len) PROVE n + 1 \in S
    BY <2>1
  <2> HIDE DEF S
  <2> QED BY <1>8, <1>9, <2>1, Induct
<1>11. len \in S /\ ~(len < at)
  BY <1>1, <1>2, <1>10
<1>12. read[len] = again[len] <=> same
  BY <1>1, <1>11
<1> QED BY <1>2, <1>7, <1>12 DEF C, E

\* The first names of a path.
LEMMA FirstNames ==
  ASSUME NEW s \in Seq(STRING), NEW k \in 1..Len(s)
  PROVE  /\ SubSeq(s, 1, k) \in Seq(STRING) /\ Len(SubSeq(s, 1, k)) = k
         /\ \A i \in 1..k : SubSeq(s, 1, k)[i] = s[i]
<1>1. \A i \in 1..k : s[i] \in STRING
  OBVIOUS
<1>2. /\ SubSeq(s, 1, k) \in Seq(STRING)
      /\ Len(SubSeq(s, 1, k)) = IF 1 <= k THEN k - 1 + 1 ELSE 0
      /\ \A i \in 1..(k - 1 + 1) : SubSeq(s, 1, k)[i] = s[1 + i - 1]
  BY <1>1, SubSeqProperties
<1>3. /\ Len(SubSeq(s, 1, k)) = k
      /\ \A i \in 1..k : SubSeq(s, 1, k)[i] = s[i]
  BY <1>2
<1> QED BY <1>2, <1>3

\* Paths of the same names are the same.
LEMMA SameNames ==
  ASSUME NEW s \in Seq(STRING), NEW t \in Seq(STRING), Len(s) = Len(t),
         \A i \in 1..Len(s) : s[i] = t[i]
  PROVE  s = t
  OBVIOUS

\* The directory that stands for a volume: one name, or two in a shared namespace.
LEMMA BaseIs ==
  ASSUME NEW volume \in Seq(STRING), volume # <<>>
  PROVE  \E k \in 1..Len(volume) :
           /\ k = IF Len(volume) > 1 /\ volume[1] \in Shared THEN 2 ELSE 1
           /\ GetConfigBase(volume) \in Seq(STRING) /\ Len(GetConfigBase(volume)) = k
           /\ \A i \in 1..k : GetConfigBase(volume)[i] = volume[i]
<1> DEFINE k == IF Len(volume) > 1 /\ volume[1] \in Shared THEN 2 ELSE 1
<1>1. k \in 1..Len(volume) /\ GetConfigBase(volume) = SubSeq(volume, 1, k)
  <2>1. Len(volume) \in Nat /\ Len(volume) # 0
    OBVIOUS
  <2>2. k \in 1..Len(volume)
    BY <2>1
  <2> QED BY <2>2 DEF GetConfigBase
<1> QED BY <1>1, FirstNames

\* What lies below that directory is of the service the volume is of.
LEMMA BelowIsSame ==
  ASSUME NEW volume \in Seq(STRING), volume # <<>>, NEW path \in Seq(STRING),
         Below(GetConfigBase(volume), path)
  PROVE  SameService(path, volume)
<1> DEFINE base == GetConfigBase(volume)
<1>1. PICK k \in 1..Len(volume) :
        /\ k = IF Len(volume) > 1 /\ volume[1] \in Shared THEN 2 ELSE 1
        /\ base \in Seq(STRING) /\ Len(base) = k
        /\ \A i \in 1..k : base[i] = volume[i]
  BY BaseIs
<1>2. k <= Len(path) /\ SubSeq(base, 1, k) = SubSeq(path, 1, k)
  BY <1>1 DEF Below, IsStrictPrefix, IsPrefix
<1>3. k \in 1..Len(base) /\ k \in 1..Len(path)
  BY <1>1, <1>2
<1> HIDE DEF base
<1>4. \A i \in 1..k : path[i] = volume[i]
  BY <1>1, <1>2, <1>3, FirstNames
<1>5. path[1] = volume[1] /\ (k = 2 => path[2] = volume[2])
  BY <1>1, <1>4
<1> QED BY <1>1, <1>5 DEF SameService

\* A plain file the volume mounts is read by the hash of that directory.
LEMMA MountedIsHashed ==
  ASSUME NEW volume \in Seq(STRING), volume # <<>>, NEW path \in Seq(STRING), NEW exclusions,
         IsPrefix(volume, path), Plain(path, exclusions)
  PROVE  /\ Hashed(GetConfigBase(volume), path)
         /\ Rest(GetConfigBase(volume), path) \notin exclusions
<1> DEFINE base == GetConfigBase(volume)
           rest == SubSeq(path, Len(base) + 1, Len(path))
<1>1. PICK k \in 1..Len(volume) :
        /\ k = IF Len(volume) > 1 /\ volume[1] \in Shared THEN 2 ELSE 1
        /\ base \in Seq(STRING) /\ Len(base) = k
        /\ \A i \in 1..k : base[i] = volume[i]
  BY BaseIs
<1> HIDE DEF base
<1>2. /\ Len(volume) \in 1..Len(volume) /\ Len(volume) \in 1..Len(path)
      /\ SubSeq(volume, 1, Len(volume)) = SubSeq(path, 1, Len(volume))
  BY DEF IsPrefix
<1>3. \A i \in 1..Len(volume) : path[i] = volume[i]
  BY <1>2, FirstNames
<1>4. k < Len(path)
  <2>1. path[1] = volume[1]
    BY <1>2, <1>3
  <2>2. Len(path) > (IF path[1] \in Shared THEN 2 ELSE 1)
    BY DEF Plain
  <2>3. path[1] \notin Shared => k = 1
    BY <1>1, <2>1
  <2> QED BY <1>1, <2>2, <2>3
<1>5. SubSeq(base, 1, k) = SubSeq(path, 1, k)
  <2>1. k \in 1..Len(base) /\ k \in 1..Len(path)
    BY <1>1, <1>4
  <2>2. /\ SubSeq(base, 1, k) \in Seq(STRING) /\ Len(SubSeq(base, 1, k)) = k
        /\ \A i \in 1..k : SubSeq(base, 1, k)[i] = base[i]
    BY <1>1, <2>1, FirstNames
  <2>3. /\ SubSeq(path, 1, k) \in Seq(STRING) /\ Len(SubSeq(path, 1, k)) = k
        /\ \A i \in 1..k : SubSeq(path, 1, k)[i] = path[i]
    BY <2>1, FirstNames
  <2>4. \A i \in 1..k : base[i] = path[i]
    BY <1>1, <1>3
  <2> QED BY <2>2, <2>3, <2>4, SameNames
<1>6. Below(base, path)
  BY <1>1, <1>4, <1>5 DEF Below, IsStrictPrefix, IsPrefix
<1>7. /\ Len(rest) = Len(path) - k
      /\ \A i \in 1..(Len(path) - k) : rest[i] = path[k + i]
  <2>1. \A i \in (k + 1)..Len(path) : path[i] \in STRING
    BY <1>1
  <2>2. /\ Len(rest) = IF k + 1 <= Len(path) THEN Len(path) - (k + 1) + 1 ELSE 0
        /\ \A i \in 1..(Len(path) - (k + 1) + 1) : rest[i] = path[k + 1 + i - 1]
    BY <1>1, <2>1, SubSeqProperties
  <2>3. k \in Nat /\ Len(path) \in Nat /\ k < Len(path)
    BY <1>1, <1>4
  <2>4. /\ Len(path) - (k + 1) + 1 = Len(path) - k /\ k + 1 <= Len(path)
        /\ \A i \in 1..(Len(path) - k) : k + 1 + i - 1 = k + i
    BY <2>3
  <2> HIDE DEF rest
  <2> QED BY <2>2, <2>4
<1>8. Rest(base, path) = rest
  BY DEF Rest
<1>9. k + 1 \in 1..Len(path) /\ rest = SubSeq(path, k + 1, Len(path))
  BY <1>1, <1>4
<1> HIDE DEF rest
<1>10. \A i \in 1..Len(rest) : rest[i] \notin Dot
  <2>1. \A i \in 1..Len(path) : path[i] \notin Dot
    BY DEF Plain
  <2>2. \A i \in 1..(Len(path) - k) : k + i \in 1..Len(path)
    BY <1>1, <1>4
  <2> QED BY <1>7, <2>1, <2>2
<1>11. rest \notin exclusions
  BY <1>9 DEF Plain
<1> QED BY <1>6, <1>8, <1>10, <1>11 DEF Hashed, base

\* Both times the definition is given the hash of the files there are then.
LEMMA HashIsNew ==
  ASSUME NEW startup, DOMAIN startup = {"volumes", "exclusions", "hash"}, startup.volumes # {},
         NEW files, NEW edited
  PROVE  LET first == UpdateHashes(startup, files)
             second == UpdateHashes(first, edited)
         IN /\ first.hash = ConfigHash(startup.volumes, files, startup.exclusions)
            /\ second.hash = ConfigHash(startup.volumes, edited, startup.exclusions)
<1> DEFINE first == UpdateHashes(startup, files)
<1>1. /\ DOMAIN first = {"volumes", "exclusions", "hash"} /\ first.volumes = startup.volumes
      /\ first.exclusions = startup.exclusions
      /\ first.hash = ConfigHash(startup.volumes, files, startup.exclusions)
  BY DEF UpdateHashes
<1> HIDE DEF first
<1>2. UpdateHashes(first, edited).hash = ConfigHash(first.volumes, edited, first.exclusions)
  BY <1>1 DEF UpdateHashes
<1> QED BY <1>1, <1>2 DEF first

-----------------------------------------------------------------------------
(* The summary of a run.                                                   *)

\* What LastEvent has seen after each of the events listed.
LEMMA LastIs ==
  ASSUME NEW events, Len(events) \in Nat
  PROVE  \E last :
           /\ LastEvent(events) = last[Len(events)]
           /\ last[0] = Absent
           /\ \A i \in 1..Len(events) :
                last[i] = IF i \in Readable(events) /\ Replaces(events[i], last[i - 1])
                          THEN events[i] ELSE last[i - 1]
<1> DEFINE D(x, i) == IF i \in Readable(events) /\ Replaces(events[i], x) THEN events[i] ELSE x
           G(g, n) == g = [i \in 0..n |-> IF i = 0 THEN Absent ELSE D(g[i - 1], i)]
           S == {n \in Nat : \E g : G(g, n)}
           last == CHOOSE g : G(g, Len(events))
<1>1. LastEvent(events) = last[Len(events)]
  BY DEF LastEvent
<1>2. \A g, n : G(g, n) <=> g = [i \in 0..n |-> IF i = 0 THEN Absent ELSE D(g[i - 1], i)]
  OBVIOUS
<1>3. \A x, i : D(x, i) = IF i \in Readable(events) /\ Replaces(events[i], x) THEN events[i] ELSE x
  OBVIOUS
<1> HIDE DEF D
<1>4. Nat \subseteq S
  <2>1. 0 \in S
    <3>1. G([i \in 0..0 |-> Absent], 0)
      OBVIOUS
    <3> QED BY <3>1
  <2>2. ASSUME NEW n \in Nat, n \in S PROVE n + 1 \in S
    <3>1. PICK g : G(g, n)
      BY <2>2
    <3> DEFINE h == [i \in 0..(n + 1) |-> IF i <= n THEN g[i] ELSE D(g[n], n + 1)]
    <3>2. ASSUME NEW i \in 0..(n + 1) PROVE h[i] = IF i = 0 THEN Absent ELSE D(h[i - 1], i)
      BY <3>1
    <3>3. h = [i \in 0..(n + 1) |-> IF i = 0 THEN Absent ELSE D(h[i - 1], i)]
      BY <3>2
    <3>4. G(h, n + 1)
      BY ONLY <3>3
    <3> HIDE DEF h, G
    <3> QED BY <3>4
  <2> HIDE DEF S
  <2> QED BY <2>1, <2>2, Induct
<1>5. G(last, Len(events))
  BY <1>4
<1> HIDE DEF last, G
<1> QED BY <1>1, <1>2, <1>3, <1>5

\* Some directory has the latest modification time.
LEMMA Youngest ==
  ASSUME NEW dirs, IsFiniteSet(dirs), dirs # {}, \A d \in dirs : d.mtime \in Int
  PROVE  \E d \in dirs : \A e \in dirs : e.mtime <= d.mtime
<1>1. PICK len \in Nat : ExistsSurjection(1..len, dirs)
  BY FS_NatSurjection
<1>2. PICK g \in [1..len -> dirs] : \A d \in dirs : \E i \in 1..len : g[i] = d
  BY <1>1 DEF ExistsSurjection, Surjection
<1>3. \A i \in 1..len : g[i].mtime \in Int
  BY <1>2
<1> DEFINE S == {n \in Nat : n + 1 <= len =>
                   \E m \in 1..(n + 1) : \A k \in 1..(n + 1) : g[k].mtime <= g[m].mtime}
<1>4. 0 \in S
  <2>1. 1 <= len => g[1].mtime <= g[1].mtime
    BY <1>3
  <2>2. 1..(0 + 1) = {1}
    OBVIOUS
  <2> QED BY <2>1, <2>2
<1>5. ASSUME NEW n \in Nat, n \in S PROVE n + 1 \in S
  <2> SUFFICES ASSUME n + 2 <= len
               PROVE  \E m \in 1..(n + 2) : \A k \in 1..(n + 2) : g[k].mtime <= g[m].mtime
    <3>1. n + 1 + 1 = n + 2 /\ n + 1 \in Nat
      OBVIOUS
    <3> QED BY <3>1
  <2>1. PICK m \in 1..(n + 1) : \A k \in 1..(n + 1) : g[k].mtime <= g[m].mtime
    BY <1>5
  <2>2. \A k \in 1..(n + 2) : k \in 1..(n + 1) \/ k = n + 2
    OBVIOUS
  <2>3. /\ m \in 1..(n + 2) /\ n + 2 \in 1..(n + 2)
        /\ g[m].mtime \in Int /\ g[n + 2].mtime \in Int
        /\ \A k \in 1..(n + 2) : g[k].mtime \in Int
    BY <1>3
  <2>4. CASE g[m].mtime <= g[n + 2].mtime
    <3>1. \A k \in 1..(n + 2) : g[k].mtime <= g[n + 2].mtime
      BY <2>1, <2>2, <2>3, <2>4
    <3> QED BY <2>3, <3>1
  <2>5. CASE g[n + 2].mtime <= g[m].mtime
    <3>1. \A k \in 1..(n + 2) : g[k].mtime <= g[m].mtime
      BY <2>1, <2>2, <2>5
    <3> QED BY <2>3, <3>1
  <2> QED BY <2>3, <2>4, <2>5
<1>6. Nat \subseteq S
  <2> HIDE DEF S
  <2> QED BY <1>4, <1>5, Induct
<1>7. len - 1 \in Nat /\ len - 1 + 1 = len
  <2>1. \E i : i \in 1..len
    BY <1>2
  <2>2. len > 0
    BY <2>1
  <2> QED BY <2>2
<1>8. PICK m \in 1..len : \A k \in 1..len : g[k].mtime <= g[m].mtime
  <2>1. len - 1 \in S
    BY <1>6, <1>7
  <2>2. \E m \in 1..(len - 1 + 1) : \A k \in 1..(len - 1 + 1) : g[k].mtime <= g[m].mtime
    BY <1>7, <2>1
  <2> QED BY <1>7, <2>2
<1> QED BY <1>2, <1>8

\* No event that can be read has a later counter than the last event.
LEMMA LatestCounter ==
  ASSUME NEW events, Len(events) \in Nat,
         \A i \in Readable(events) : events[i].counter \in Nat \cup {Bad},
         NEW j \in Readable(events), events[j].counter # Bad
  PROVE  LastEvent(events) # Absent /\ LastEvent(events).counter >= events[j].counter
<1>1. PICK last : /\ LastEvent(events) = last[Len(events)]
                  /\ last[0] = Absent
                  /\ \A i \in 1..Len(events) :
                       last[i] = IF i \in Readable(events) /\ Replaces(events[i], last[i - 1])
                                 THEN events[i] ELSE last[i - 1]
  BY LastIs
<1> DEFINE S == {n \in Nat : n <= Len(events) =>
                   /\ last[n] # Absent => last[n].counter \in Nat
                   /\ \A i \in Readable(events) : i <= n /\ events[i].counter # Bad =>
                        last[n] # Absent /\ last[n].counter >= events[i].counter}
<1>2. 0 \in S
  BY <1>1 DEF Readable
<1>3. ASSUME NEW n \in Nat, n \in S, n + 1 <= Len(events) PROVE n + 1 \in S
  <2> DEFINE e == events[n + 1]
             new == n + 1 \in Readable(events) /\ Replaces(e, last[n])
  <2>1. last[n + 1] = IF new THEN e ELSE last[n]
    BY <1>1, <1>3
  <2>2. /\ last[n] # Absent => last[n].counter \in Nat
        /\ \A i \in Readable(events) : i <= n /\ events[i].counter # Bad =>
             last[n] # Absent /\ last[n].counter >= events[i].counter
    BY <1>3
  <2>3. CASE new
    <3>1. e # Absent /\ e.counter \in Nat /\ (last[n] # Absent => e.counter >= last[n].counter)
      BY <2>3 DEF Readable, Replaces
    <3>2. ASSUME NEW i \in Readable(events), i <= n + 1, events[i].counter # Bad
          PROVE  e.counter >= events[i].counter
      <4>1. i \in Nat /\ events[i].counter \in Nat
        BY <3>2 DEF Readable
      <4>2. CASE i = n + 1
        BY <3>1, <4>2
      <4>3. CASE i <= n
        <5>1. last[n] # Absent /\ last[n].counter >= events[i].counter
          BY <2>2, <3>2, <4>3
        <5>2. last[n].counter \in Nat /\ e.counter \in Nat /\ e.counter >= last[n].counter
          BY <2>2, <3>1, <5>1
        <5> HIDE DEF e
        <5> QED BY <4>1, <5>1, <5>2
      <4> QED BY <3>2, <4>1, <4>2, <4>3
    <3> HIDE DEF e, new
    <3> QED BY <2>1, <2>3, <3>1, <3>2
  <2>4. CASE ~new
    <3>1. ASSUME NEW i \in Readable(events), i <= n + 1, events[i].counter # Bad
          PROVE  last[n] # Absent /\ last[n].counter >= events[i].counter
      <4>1. i \in Nat /\ events[i].counter \in Nat
        BY <3>1 DEF Readable
      <4>2. CASE i = n + 1
        <5>1. ~(e.counter >= (IF last[n] = Absent THEN 0 ELSE last[n].counter))
          BY <2>4, <3>1, <4>2 DEF Replaces
        <5> QED BY <2>2, <4>1, <4>2, <5>1
      <4>3. CASE i <= n
        BY <2>2, <3>1, <4>3
      <4> QED BY <3>1, <4>1, <4>2, <4>3
    <3> HIDE DEF e, new
    <3> QED BY <2>1, <2>2, <2>4, <3>1
  <2> QED BY <2>3, <2>4
<1>4. Nat \subseteq S
  <2>1. ASSUME NEW n \in Nat, n \in S, ~(n + 1 <= Len(events)) PROVE n + 1 \in S
    BY <2>1
  <2> HIDE DEF S
  <2> QED BY <1>2, <1>3, <2>1, Induct
<1>5. j <= Len(events)
  BY DEF Readable
<1> QED BY <1>1, <1>4, <1>5

\* The percentage, times the hosts, is the impacted hosts' to half a host.
LEMMA Rounding ==
  ASSUME NEW impacted \in Nat, NEW total \in Nat, total > 0
  PROVE  /\ FailurePercent(impacted, total) \in Nat
         /\ 200 * impacted - 2 * total * FailurePercent(impacted, total) <= total
         /\ 2 * total * FailurePercent(impacted, total) - 200 * impacted <= total
<1> DEFINE n == impacted * 100 + total \div 2
           p == n \div total
           r == n % total
           x == total * p
<1>1. total \div 2 \in Nat /\ total - 1 <= 2 * (total \div 2) /\ 2 * (total \div 2) <= total
  OBVIOUS
<1>2. n \in Nat
  BY <1>1
<1>3. p \in Nat /\ r \in 0..(total - 1) /\ n = total * p + r
  <2> HIDE DEF n
  <2> QED BY <1>2
<1>4. x \in Nat /\ 2 * total * p = 2 * x
  <2> HIDE DEF p, n
  <2> QED BY <1>3
<1>5. 200 * impacted - 2 * x <= total /\ 2 * x - 200 * impacted <= total
  <2>1. x + r = impacted * 100 + total \div 2
    BY <1>3
  <2> HIDE DEF p, n, x, r
  <2> QED BY <1>1, <1>3, <1>4, <2>1
<1> QED BY <1>3, <1>4, <1>5 DEF FailurePercent

\* The statistics there are, and no other, are those reported.
LEMMA StatsTaken ==
  ASSUME NEW events, Len(events) \in Nat, NEW i \in Readable(events),
         events[i].event = "playbook_on_stats",
         \A j \in Readable(events) : events[j].event = "playbook_on_stats" => j = i
  PROVE  LatestStatsEvent(events) = events[i].hosts
<1> DEFINE stats == {j \in Readable(events) : events[j].event = "playbook_on_stats"}
<1>1. stats = {i} /\ i \in Nat
  BY DEF Readable
<1>2. Min(stats) = i
  BY <1>1 DEF Min
<1> QED BY <1>1, <1>2 DEF LatestStatsEvent

-----------------------------------------------------------------------------
(* The run derivations.                                                    *)

\* Each kind of question has the answer that kind is given.
Inv ==
  /\ kind = "pci" => /\ question \in PciQuestions
                     /\ answer \in {Open, DeviceSpec(question.users, question.listed, question.host)}
  /\ kind = "plan" => /\ question \in PlanQuestions
                      /\ answer \in {Open, Plan(question.configs, question.overrides, question.containers,
                                              question.installed, question.config_id)}
  /\ kind = "hash" => question \in HashQuestions /\ answer \in {Open, TwoHashes(question)}
  /\ kind = "run" => question \in RunQuestions /\ answer \in {Open, Report(question)}

\* The answers are those of the questions that can be asked, from the start.
THEOREM InvInit == Init => Inv
  BY DEF Init, Inv

\* And no step changes a question or gives another answer.
THEOREM InvNext == Inv /\ [Next]_vars => Inv'
  BY DEF Inv, Next, DerivePci, PlanRun, HashTwice, Summarise, Answer, vars

\* What a question that is answered has for an answer.
LEMMA Answers ==
  ASSUME Inv, Answered("pci")
  PROVE  /\ question.listed \in SUBSET Pfs /\ question.host \in SUBSET Vfs
         /\ \A user \in question.users : User(user) /\ ~Invalid(user, question.host)
         /\ answer = {CombinedConfiguration(user, question.listed, question.host) : user \in question.users}
  BY PciQuestionsAssumption DEF Inv, Answered, DeviceSpec, User

\* Nova is given nothing the host uses by a derived entry, nor by any while a
\* virtual function is left of every partitioned card.
THEOREM HostSpared == Spec => []HostDevicesSpared
<1>1. Inv => HostDevicesSpared
  <2> SUFFICES ASSUME Inv, Answered("pci"), NEW entry \in answer,
                      entry.kind = "derived" \/ SomeLeft(question.host)
               PROVE  Reached(entry) \cap HostDevices(question.host) = {}
    BY DEF HostDevicesSpared
  <2>1. PICK user \in question.users :
          entry = CombinedConfiguration(user, question.listed, question.host)
    BY Answers
  <2> QED BY <2>1, Answers, EntrySpares
<1> QED BY <1>1, InvInit, InvNext, PTL DEF Spec

\* Every device that was asked for and is not the host's is still reached.
THEOREM AskedKept == Spec => []AskedDevicesKept
<1>1. Inv => AskedDevicesKept
  <2> SUFFICES ASSUME Inv, Answered("pci"), question.listed = Pfs, NEW user \in question.users
               PROVE  Reached(Kept(user)) \ HostDevices(question.host)
                        \subseteq UNION {Reached(e) : e \in answer}
    BY DEF AskedDevicesKept
  <2>1. CombinedConfiguration(user, Pfs, question.host) \in answer
    BY Answers
  <2> QED BY <2>1, Answers, EntryKeeps
<1> QED BY <1>1, InvInit, InvNext, PTL DEF Spec

-----------------------------------------------------------------------------

\* The units are of the containers podman does not start, wherever both parts
\* of the role read the overrides alike; what goes is the role's own and of no
\* other config_id; and what is its own and stays is wanted.
THEOREM PlanFollows == Spec => []PlanFollowsConfig
<1>1. Inv => PlanFollowsConfig
  <2> SUFFICES ASSUME Inv, Answered("plan") PROVE PlanFollowsConfig
    BY DEF PlanFollowsConfig
  <2> DEFINE q == question
             own == {n \in DOMAIN q.installed : /\ Managed(q.installed[n])
                                               /\ q.installed[n].config_id = q.config_id
                                               /\ ~q.installed[n].ceph}
             effective == GetConfigs(q.configs, q.overrides, q.containers)
             all == AllContainersHash(q.configs, q.overrides, q.containers)
  <2>1. /\ q.configs = Restricted(q.configs, Names) /\ Len(q.overrides) \in Nat
        /\ answer = Plan(q.configs, q.overrides, q.containers, q.installed, q.config_id)
    BY PlanQuestionsAssumption DEF Inv, Answered
  <2>2. DOMAIN effective = DOMAIN all
    BY <2>1, SameContainers, RoleContainers
  <2>3. ReadAlike(q) => all = effective
    BY <2>1, SameDefinitions
  <2>4. LET gone == NeedsDelete(Filtered(q.installed), all, q.config_id)
        IN gone \subseteq own /\ own \ gone \subseteq DOMAIN all
    BY DeletedOwn
  <2> HIDE DEF own, effective, all
  <2>5. CASE DOMAIN all = {}
    <3>1. answer = [deleted |-> {}, created |-> {}, started |-> {}, units |-> {}]
      BY <2>1, <2>5 DEF Plan, all
    <3> QED BY <3>1 DEF PlanFollowsConfig
  <2>6. CASE DOMAIN all # {}
    <3>1. /\ answer.deleted = NeedsDelete(Filtered(q.installed), all, q.config_id)
          /\ answer.created = DOMAIN effective
          /\ answer.started = {n \in DOMAIN effective : StartedByPodman(effective[n])}
          /\ answer.units = Haskey(all)
      BY <2>1, <2>6 DEF Plan, all, effective
    <3>2. ASSUME ReadAlike(q), \A n \in DOMAIN effective : effective[n].restart \in Policies \cup {NoKey}
          PROVE  answer.units = answer.created \ answer.started
      BY <2>3, <3>1, <3>2, MatchAssumption DEF Haskey, StartedByPodman
    <3>3. answer.deleted \subseteq own /\ own \ answer.deleted \subseteq answer.created
      BY <2>2, <2>4, <3>1
    <3> QED BY <3>2, <3>3 DEF PlanFollowsConfig, own, effective
  <2> QED BY <2>5, <2>6
<1> QED BY <1>1, InvInit, InvNext, PTL DEF Spec

\* A plain file that is mounted and edited changes the hash, and no file of
\* another service does.
THEOREM HashFollows == Spec => []HashFollowsContent
<1>1. Inv => HashFollowsContent
  <2> SUFFICES ASSUME Inv, Answered("hash") PROVE HashFollowsContent
    BY DEF HashFollowsContent
  <2> DEFINE startup == question.startup
             volumes == startup.volumes
             path == question.path
             before(b) == CalculateChecksum(b, question.files, startup.exclusions)
             after(b) == CalculateChecksum(b, question.edited, startup.exclusions)
             changed == answer.first.hash # answer.second.hash
             read(b) == Hashed(b, path) /\ Rest(b, path) \notin startup.exclusions
  <2>1. question \in HashQuestions /\ answer = TwoHashes(question) /\ answer # Rejected
    BY DEF Inv, Answered
  <2>2. /\ ~BadVolumes(volumes)
        /\ answer.first = UpdateHashes(startup, question.files)
        /\ answer.second = UpdateHashes(answer.first, question.edited)
    BY <2>1 DEF TwoHashes
  <2>3. /\ DOMAIN startup = {"volumes", "exclusions", "hash"}
        /\ volumes \subseteq Seq(STRING) \cup {NotBelow} /\ path \in Present
    BY <2>1, HashQuestionsAssumption
  <2>4. /\ \A p \in Present : question.files[p] \in Seq(Nat) /\ question.edited[p] \in Seq(Nat)
        /\ \A p \in Present : p # path => question.files[p] = question.edited[p]
        /\ question.differs <=> question.files[path] # question.edited[path]
    <3>1. /\ \A p \in Present : question.files[p] \in Seq(Nat) /\ question.edited[p] \in Seq(Nat)
          /\ \A p \in Present : p # path => question.files[p] = question.edited[p]
      BY <2>1, HashQuestionsAssumption
    <3>2. question.differs <=> question.files[path] # question.edited[path]
      BY <2>1, HashQuestionsAssumption, Zenon
    <3> QED BY <3>1, <3>2
  <2>5. \A v \in volumes : v \in Seq(STRING) /\ v # <<>>
    BY <2>2, <2>3 DEF BadVolumes
  <2>6. path \in Seq(STRING) /\ path # <<>>
    BY <2>3, GlobAssumption DEF Present
  <2>7. Contents(question.files) /\ Contents(question.edited)
    BY <2>4 DEF Contents, Present
  <2>8. \A b : before(b) = after(b) <=> Content(b, question.files, startup.exclusions, path)
                                        = Content(b, question.edited, startup.exclusions, path)
    BY <2>3, <2>4, <2>7, ChecksumFollows
  <2>9. \A b : before(b) # after(b) <=> read(b) /\ question.files[path] # question.edited[path]
    BY <2>8 DEF Content
  <2>10. CASE volumes = {}
    <3>1. answer.first = startup /\ answer.second = startup
      BY <2>2, <2>10 DEF UpdateHashes
    <3> QED BY <2>10, <3>1 DEF HashFollowsContent, Mounts
  <2>11. CASE volumes # {}
    <3>1. /\ answer.first.hash = ConfigHash(volumes, question.files, startup.exclusions)
          /\ answer.second.hash = ConfigHash(volumes, question.edited, startup.exclusions)
      <4> HIDE DEF startup
      <4>1. LET first == UpdateHashes(startup, question.files)
                second == UpdateHashes(first, question.edited)
            IN /\ first.hash = ConfigHash(startup.volumes, question.files, startup.exclusions)
               /\ second.hash = ConfigHash(startup.volumes, question.edited, startup.exclusions)
        BY <2>3, <2>11, HashIsNew
      <4> QED BY <2>2, <4>1
    <3>2. changed <=> \E v \in volumes : before(GetConfigBase(v)) # after(GetConfigBase(v))
      BY <3>1 DEF ConfigHash, MatchConfigVolumes
    <3> HIDE DEF before, after, changed
    <3>3. ASSUME question.differs, NEW v \in volumes, IsPrefix(v, path), Plain(path, startup.exclusions)
          PROVE  changed
      BY <2>4, <2>5, <2>6, <2>9, <3>2, <3>3, MountedIsHashed
    <3>4. ASSUME changed PROVE \E v \in volumes : SameService(path, v)
      <4>1. PICK v \in volumes : read(GetConfigBase(v))
        BY <2>9, <3>2, <3>4
      <4>2. Below(GetConfigBase(v), path)
        BY <4>1 DEF Hashed
      <4> QED BY <2>5, <2>6, <4>2, BelowIsSame
    <3> QED BY <3>3, <3>4 DEF HashFollowsContent, Mounts, changed
  <2> QED BY <2>10, <2>11
<1> QED BY <1>1, InvInit, InvNext, PTL DEF Spec

\* The last event by its counter, the statistics and the percentage are those
\* of the youngest run, in whatever order its events are listed.
THEOREM SummaryIsFaithful == Spec => []SummaryFaithful
<1>1. Inv => SummaryFaithful
  <2> DEFINE dir == LatestRunDir(question)
  <2> SUFFICES ASSUME Inv, Answered("run"), question # {}
               PROVE
      LET s == answer.summary
      IN /\ dir.status # "successful" =>
            \A e \in EventsOf(dir) :
              e.counter # Bad => answer.named # Absent /\ answer.named.counter >= e.counter
         /\ \A e \in EventsOf(dir) : e.event = "playbook_on_stats" =>
            LET impacted == Cardinality(e.hosts.failures \cup e.hosts.dark)
                total == Cardinality(e.hosts.processed)
            IN /\ s.failed = e.hosts.failures /\ s.unreachable = e.hosts.dark
               /\ total > 0 => /\ 200 * impacted - 2 * total * s.failurePercent <= total
                               /\ 2 * total * s.failurePercent - 200 * impacted <= total
    BY DEF SummaryFaithful, LatestRunDir
  <2>1. question \in RunQuestions /\ answer = Report(question)
    BY DEF Inv, Answered
  <2>2. IsFiniteSet(question) /\ \A d \in question : d.mtime \in Int
    BY <2>1, RunQuestionsAssumption
  <2>3. dir \in question
    BY <2>2, Youngest DEF LatestRunDir
  <2>4. /\ dir # Absent /\ Len(dir.events) \in Nat
        /\ \A i \in Readable(dir.events) : dir.events[i].counter \in Nat \cup {Bad}
    BY <2>1, <2>3, RunQuestionsAssumption
  <2>5. \A i, j \in Readable(dir.events) :
          dir.events[i].event = "playbook_on_stats" /\ dir.events[j].event = "playbook_on_stats" => i = j
    BY <2>1, <2>3, RunQuestionsAssumption
  <2>6. \A i \in Readable(dir.events) : /\ IsFiniteSet(dir.events[i].hosts.processed)
                                        /\ IsFiniteSet(dir.events[i].hosts.failures)
                                        /\ IsFiniteSet(dir.events[i].hosts.dark)
    BY <2>1, <2>3, RunQuestionsAssumption
  <2>7. /\ answer.summary = BuildSummary(dir.events)
        /\ dir.status # "successful" => answer.named = LastEvent(dir.events)
    BY <2>1, <2>4 DEF Report
  <2>8. \A e \in EventsOf(dir) : \E i \in Readable(dir.events) : e = dir.events[i]
    BY DEF EventsOf, Readable
  <2> HIDE DEF dir
  <2>9. ASSUME dir.status # "successful", NEW e \in EventsOf(dir), e.counter # Bad
        PROVE  answer.named # Absent /\ answer.named.counter >= e.counter
    BY <2>4, <2>7, <2>8, <2>9, LatestCounter
  <2>10. ASSUME NEW e \in EventsOf(dir), e.event = "playbook_on_stats"
         PROVE  LET impacted == Cardinality(e.hosts.failures \cup e.hosts.dark)
                    total == Cardinality(e.hosts.processed)
                    s == answer.summary
                IN /\ s.failed = e.hosts.failures /\ s.unreachable = e.hosts.dark
                   /\ total > 0 => /\ 200 * impacted - 2 * total * s.failurePercent <= total
                                   /\ 2 * total * s.failurePercent - 200 * impacted <= total
    <3>1. PICK i \in Readable(dir.events) : e = dir.events[i]
      BY <2>8
    <3>2. LatestStatsEvent(dir.events) = e.hosts
      BY <2>4, <2>5, <2>10, <3>1, StatsTaken
    <3> DEFINE impacted == Cardinality(e.hosts.failures \cup e.hosts.dark)
               total == Cardinality(e.hosts.processed)
    <3>3. impacted \in Nat /\ total \in Nat
      BY <2>6, <3>1, FS_CardinalityType, FS_Union
    <3>4. /\ answer.summary.failed = e.hosts.failures
          /\ answer.summary.unreachable = e.hosts.dark
          /\ answer.summary.failurePercent = FailurePercent(impacted, total)
      BY <2>7, <3>2 DEF BuildSummary
    <3> HIDE DEF impacted, total
    <3>5. total > 0 => /\ 200 * impacted - 2 * total * answer.summary.failurePercent <= total
                       /\ 2 * total * answer.summary.failurePercent - 200 * impacted <= total
      BY <3>3, <3>4, Rounding
    <3> QED BY <3>4, <3>5 DEF impacted, total
  <2> QED BY <2>9, <2>10
<1> QED BY <1>1, InvInit, InvNext, PTL DEF Spec

=============================================================================
