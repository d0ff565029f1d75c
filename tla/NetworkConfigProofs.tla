------------------------- MODULE NetworkConfigProofs -------------------------
(***************************************************************************)
(* Proofs about NetworkConfig, for every set of NICs, lookups and          *)
(* templates, with either tool, over runs that fail or are cut anywhere    *)
(* while links come and go.  Inv is inductive; the three properties of the *)
(* run network_apply follow.                                               *)
(***************************************************************************)
EXTENDS NetworkConfig, WellFoundedInduction, TLAPS

LEMMA Smallest ==
  ASSUME NEW S \in SUBSET Nat, S # {},
         NEW m, m = CHOOSE i \in S : \A j \in S : i <= j
  PROVE  m \in S
<1>1. PICK x \in S : \A y \in S : ~(<<y, x>> \in OpToRel(<, Nat))
  BY WFMin, NatLessThanWellFounded, Zenon
<1>2. \A y \in S : ~(y < x)
  BY <1>1 DEF OpToRel
<1>3. \A y \in S : x <= y
  BY <1>2, SMT
<1> QED BY <1>3

\* What a lookup with a match gives is one of its nodes' mappings.
LEMMA MappingOfNode ==
  ASSUME NEW lookup \in Lookups, Hits(lookup) # {}
  PROVE  \A a \in DOMAIN GetMappings(lookup) : GetMappings(lookup)[a] \in Nics \cup {NoNic}
<1> DEFINE m == CHOOSE i \in Hits(lookup) : \A j \in Hits(lookup) : i <= j
<1>1. Hits(lookup) \in SUBSET Nat /\ Hits(lookup) \subseteq DOMAIN lookup
  BY LookupsAssumption DEF Hits
<1>2. m \in DOMAIN lookup
  BY <1>1, Smallest, Zenon
<1>3. GetMappings(lookup) = lookup[m].map
  BY DEF GetMappings
<1> HIDE DEF m
<1> QED BY <1>2, <1>3, LookupsAssumption

\* The derived mapping gives every alias a NIC of its own and keeps what the
\* user gave, if nothing of that is contradictory.
Resolved(mapping, user) ==
  /\ \A a \in DOMAIN mapping : mapping[a] \in Nics
  /\ \A a, b \in DOMAIN mapping : mapping[a] = mapping[b] => a = b
  /\ \A a \in DOMAIN user : a \in DOMAIN mapping /\ mapping[a] = user[a]

LEMMA DerivationResolves ==
  ASSUME NEW user, ~Contradictory(user)
  PROVE  Resolved(DeriveNicMapping(user), user)
<1> DEFINE D == DeriveNicMapping(user)
           Numbered == {NumberAlias[Number(n)] : n \in Leftovers(user)}
<1>1. DOMAIN D = DOMAIN user \cup Numbered
  BY DEF DeriveNicMapping
<1>2. \A a \in DOMAIN user : D[a] = user[a] /\ user[a] \in Nics
  BY <1>1 DEF DeriveNicMapping, Contradictory, OrderedNics
<1>3. ASSUME NEW a \in DOMAIN D, a \notin DOMAIN user
      PROVE  D[a] \in Leftovers(user) /\ NumberAlias[Number(D[a])] = a
  <2>1. \E n \in Leftovers(user) : NumberAlias[Number(n)] = a
    BY <1>1, <1>3
  <2>2. D[a] = CHOOSE n \in Leftovers(user) : NumberAlias[Number(n)] = a
    BY <1>1, <1>3 DEF DeriveNicMapping
  <2> HIDE DEF D
  <2> QED BY <2>1, <2>2
<1>4. \A n \in Leftovers(user) : n \in Nics /\ \A a \in DOMAIN user : user[a] # n
  BY DEF Leftovers, OrderedNics
<1>5. \A a, b \in DOMAIN user : user[a] = user[b] => a = b
  BY DEF Contradictory
<1> HIDE DEF D
<1>6. \A a \in DOMAIN D : D[a] \in Nics
  BY <1>2, <1>3, <1>4
<1>7. ASSUME NEW a \in DOMAIN D, NEW b \in DOMAIN D, D[a] = D[b] PROVE a = b
  <2>1. CASE a \in DOMAIN user /\ b \in DOMAIN user
    BY <1>2, <1>5, <1>7, <2>1
  <2>2. CASE a \in DOMAIN user /\ b \notin DOMAIN user
    BY <1>2, <1>3, <1>4, <1>7, <2>2
  <2>3. CASE a \notin DOMAIN user /\ b \in DOMAIN user
    BY <1>2, <1>3, <1>4, <1>7, <2>3
  <2>4. CASE a \notin DOMAIN user /\ b \notin DOMAIN user
    BY <1>3, <1>7, <2>4
  <2> QED BY <2>1, <2>2, <2>3, <2>4
<1>8. \A a \in DOMAIN user : a \in DOMAIN D /\ D[a] = user[a]
  BY <1>1, <1>2
<1> QED BY <1>6, <1>7, <1>8 DEF Resolved, D

\* Replacing aliases leaves the keys of a template alone.
Keys(leaves) == {leaf.key : leaf \in leaves}

LEMMA SubstitutionKeepsKeys ==
  ASSUME NEW template \in Templates, NEW mapping
  PROVE  Keys(SubstituteNicAliases(template, mapping)) = Keys(template)
<1> DEFINE Sub(leaf) == [leaf EXCEPT !.value = IF leaf.key \in NicKeys /\ leaf.value \in DOMAIN mapping
                                                THEN mapping[leaf.value] ELSE leaf.value]
<1>1. \A leaf \in template : Sub(leaf).key = leaf.key
  BY LeavesAssumption
<1>2. SubstituteNicAliases(template, mapping) = {Sub(leaf) : leaf \in template}
  BY DEF SubstituteNicAliases
<1> HIDE DEF Sub
<1> QED BY <1>1, <1>2 DEF Keys

-----------------------------------------------------------------------------
(* The inductive invariant.                                                *)

Later == {"apply", "devices", "write rc", "rescue"}

\* A run has its parameters; the tools have their own steps; an application
\* is under way where it says so.
Course ==
  /\ ~Idle => input \in [update : BOOLEAN, lookup : Lookups, template : Templates]
  /\ pc \in {"copy", "derive", "unmap", "gate", "devices", "rescue"} => tool = "nmstate"
  /\ pc \in Later => last = "cut"
  /\ tool = "os-net-config" /\ ~Idle => last = "cut"

\* The derived file is the user's until the script has run, and derived from
\* the user's afterwards.
Derivation ==
  /\ pc = "derive" => derived = userFile
  /\ pc \in {"gate"} \cup Later /\ tool = "nmstate" =>
       derived.exists /\ Resolved(derived.map, userFile.map)

\* The code of a success goes with what the success left.
CodeOfSuccess ==
  /\ rc = 0 => /\ succeeded /\ last # "never"
               /\ tool = "nmstate" => deviceMap # None /\ last # "failed"
  /\ pc = "write rc" /\ tool = "nmstate" => deviceMap # None

\* Between the application and its code, and after it, the node has a
\* template's configuration.
Configured ==
  /\ pc \in {"devices", "write rc"} => \E template \in Templates : Keys(applied) = Keys(template)
  /\ last = "ok" => rc = 0 /\ \E template \in Templates : Keys(applied) = Keys(template)

Inv == TypeOK /\ Course /\ Derivation /\ CodeOfSuccess /\ Configured

LEMMA EmptyMap == NoFile.exists = FALSE /\ \A a \in DOMAIN NoFile.map : FALSE
  BY DEF NoFile

LEMMA FileShape == ASSUME NEW m PROVE File(m).exists = TRUE /\ File(m).map = m
  BY DEF File

THEOREM InvInit == Init => Inv
<1> SUFFICES ASSUME Init PROVE Inv
  OBVIOUS
<1>1. TypeOK
  BY EmptyMap DEF Init, TypeOK, MapFile, Tools
<1>2. Course /\ Derivation /\ CodeOfSuccess /\ Configured
  BY NicsAssumption DEF Init, Course, Derivation, CodeOfSuccess, Configured, Later, Idle
<1> QED BY <1>1, <1>2 DEF Inv

-----------------------------------------------------------------------------
\* Every step keeps Inv: one step per action.
THEOREM InvNext == Inv /\ [Next]_vars => Inv'
<1> SUFFICES ASSUME Inv, [Next]_vars PROVE Inv'
  OBVIOUS
<1> USE DEF Inv
<1>1. ASSUME NEW update \in BOOLEAN, NEW lookup \in Lookups, NEW template \in Templates,
             StartRun(update, lookup, template) PROVE Inv'
  <2>1. TypeOK'
    BY <1>1 DEF StartRun, node, files, TypeOK, MapFile, Idle, Tools
  <2>2. Course'
    BY <1>1 DEF StartRun, node, files, Course, TypeOK, Later, Idle, Tools
  <2>3. Derivation'
    BY <1>1 DEF StartRun, node, files, Derivation, Course, Later, Idle
  <2>4. CodeOfSuccess'
    BY <1>1 DEF StartRun, node, files, CodeOfSuccess, Course, Later, Idle
  <2>5. Configured'
    BY <1>1 DEF StartRun, node, files, Configured, Course, Later, Idle
  <2> QED BY <2>1, <2>2, <2>3, <2>4, <2>5
<1>2. ASSUME WriteUserFile PROVE Inv'
  <2>1. MapFile(userFile')
    BY <1>2, EmptyMap, FileShape, MappingOfNode DEF WriteUserFile, MapFile, Course, Idle
  <2>2. TypeOK'
    BY <1>2, <2>1 DEF WriteUserFile, node, history, TypeOK, MapFile, Idle, Tools
  <2>3. Course'
    BY <1>2 DEF WriteUserFile, node, history, Course, TypeOK, Later, Idle, Tools
  <2>4. Derivation'
    BY <1>2 DEF WriteUserFile, node, history, Derivation, Course, Later, Idle
  <2>5. CodeOfSuccess'
    BY <1>2 DEF WriteUserFile, node, history, CodeOfSuccess, Course, Later, Idle
  <2>6. Configured'
    BY <1>2 DEF WriteUserFile, node, history, Configured, Course, Later, Idle
  <2> QED BY <2>2, <2>3, <2>4, <2>5, <2>6
<1>3. ASSUME NoMatch PROVE Inv'
  <2>1. TypeOK'
    BY <1>3 DEF NoMatch, FailTool, End, node, files, TypeOK, MapFile, Idle, Tools
  <2>2. Course'
    BY <1>3 DEF NoMatch, FailTool, End, node, files, Course, TypeOK, Later, Idle, Tools
  <2>3. Derivation'
    BY <1>3 DEF NoMatch, FailTool, End, node, files, Derivation, Course, Later, Idle
  <2>4. CodeOfSuccess'
    BY <1>3 DEF NoMatch, FailTool, End, node, files, CodeOfSuccess, Course, Later, Idle
  <2>5. Configured'
    BY <1>3 DEF NoMatch, FailTool, End, node, files, Configured, Course, Later, Idle
  <2> QED BY <2>1, <2>2, <2>3, <2>4, <2>5
<1>4. ASSUME CopyUserFile PROVE Inv'
  <2>1. TypeOK'
    BY <1>4 DEF CopyUserFile, node, history, TypeOK, MapFile, Idle, Tools
  <2>2. Course'
    BY <1>4 DEF CopyUserFile, node, history, Course, TypeOK, Later, Idle, Tools
  <2>3. Derivation'
    BY <1>4 DEF CopyUserFile, node, history, Derivation, Course, Later, Idle
  <2>4. CodeOfSuccess'
    BY <1>4 DEF CopyUserFile, node, history, CodeOfSuccess, Course, Later, Idle
  <2>5. Configured'
    BY <1>4 DEF CopyUserFile, node, history, Configured, Course, Later, Idle
  <2> QED BY <2>1, <2>2, <2>3, <2>4, <2>5
<1>5. ASSUME Derive PROVE Inv'
  <2>1. pc = "derive" /\ derived = userFile /\ tool = "nmstate"
    BY <1>5 DEF Derive, Derivation, Course
  <2>2. pc' = "gate" => derived'.exists /\ Resolved(derived'.map, userFile.map)
    BY <1>5, <2>1, DerivationResolves, FileShape DEF Derive
  <2>3. MapFile(derived')
    BY <1>5, <2>1, <2>2, DerivationResolves, FileShape DEF Derive, MapFile, TypeOK, Resolved
  <2>4. TypeOK'
    BY <1>5, <2>3 DEF Derive, node, history, TypeOK, MapFile, Idle, Tools
  <2>5. Course'
    BY <1>5 DEF Derive, node, history, Course, TypeOK, Later, Idle, Tools
  <2>6. Derivation'
    BY <1>5, <2>1, <2>2 DEF Derive, node, history, Derivation, Course, Later, Idle
  <2>7. CodeOfSuccess'
    BY <1>5 DEF Derive, node, history, CodeOfSuccess, Course, Later, Idle
  <2>8. Configured'
    BY <1>5 DEF Derive, node, history, Configured, Course, Later, Idle
  <2> QED BY <2>4, <2>5, <2>6, <2>7, <2>8
<1>6. ASSUME DeriveUnable PROVE Inv'
  <2>1. TypeOK'
    BY <1>6 DEF DeriveUnable, node, files, history, TypeOK, MapFile, Idle, Tools
  <2>2. Course'
    BY <1>6 DEF DeriveUnable, node, files, history, Course, TypeOK, Later, Idle, Tools
  <2>3. Derivation'
    BY <1>6 DEF DeriveUnable, node, files, history, Derivation, Course, Later, Idle
  <2>4. CodeOfSuccess'
    BY <1>6 DEF DeriveUnable, node, files, history, CodeOfSuccess, Course, Later, Idle
  <2>5. Configured'
    BY <1>6 DEF DeriveUnable, node, files, history, Configured, Course, Later, Idle
  <2> QED BY <2>1, <2>2, <2>3, <2>4, <2>5
<1>7. ASSUME RemoveDerived PROVE Inv'
  <2>1. TypeOK'
    BY <1>7, EmptyMap DEF RemoveDerived, End, node, history, TypeOK, MapFile, Idle, Tools
  <2>2. Course'
    BY <1>7, EmptyMap DEF RemoveDerived, End, node, history, Course, TypeOK, Later, Idle, Tools
  <2>3. Derivation'
    BY <1>7, EmptyMap DEF RemoveDerived, End, node, history, Derivation, Course, Later, Idle
  <2>4. CodeOfSuccess'
    BY <1>7, EmptyMap DEF RemoveDerived, End, node, history, CodeOfSuccess, Course, Later, Idle
  <2>5. Configured'
    BY <1>7, EmptyMap DEF RemoveDerived, End, node, history, Configured, Course, Later, Idle
  <2> QED BY <2>1, <2>2, <2>3, <2>4, <2>5
<1>8. ASSUME Gate PROVE Inv'
  <2>1. TypeOK'
    BY <1>8 DEF Gate, node, files, TypeOK, MapFile, Idle, Tools
  <2>2. Course'
    BY <1>8 DEF Gate, node, files, Course, TypeOK, Later, Idle, Tools
  <2>3. Derivation'
    BY <1>8 DEF Gate, node, files, Derivation, Course, Later, Idle
  <2>4. CodeOfSuccess'
    BY <1>8 DEF Gate, node, files, CodeOfSuccess, Course, Later, Idle
  <2>5. Configured'
    BY <1>8 DEF Gate, node, files, Configured, Course, Later, Idle
  <2> QED BY <2>1, <2>2, <2>3, <2>4, <2>5
<1>9. ASSUME GateClosed PROVE Inv'
  <2>1. TypeOK'
    BY <1>9 DEF GateClosed, End, node, files, history, TypeOK, MapFile, Idle, Tools
  <2>2. Course'
    BY <1>9 DEF GateClosed, End, node, files, history, Course, TypeOK, Later, Idle, Tools
  <2>3. Derivation'
    BY <1>9 DEF GateClosed, End, node, files, history, Derivation, Course, Later, Idle
  <2>4. CodeOfSuccess'
    BY <1>9 DEF GateClosed, End, node, files, history, CodeOfSuccess, Course, Later, Idle
  <2>5. Configured'
    BY <1>9 DEF GateClosed, End, node, files, history, Configured, Course, Later, Idle
  <2> QED BY <2>1, <2>2, <2>3, <2>4, <2>5
<1>10. ASSUME ApplyNmstate PROVE Inv'
  <2>1. \E template \in Templates : Keys(applied') = Keys(template)
    BY <1>10, SubstitutionKeepsKeys DEF ApplyNmstate, Wanted, Course, Idle
  <2>2. TypeOK'
    BY <1>10 DEF ApplyNmstate, files, history, TypeOK, MapFile, Idle, Tools
  <2>3. Course'
    BY <1>10 DEF ApplyNmstate, files, history, Course, TypeOK, Later, Idle, Tools
  <2>4. Derivation'
    BY <1>10 DEF ApplyNmstate, files, history, Derivation, Course, Later, Idle
  <2>5. CodeOfSuccess'
    BY <1>10 DEF ApplyNmstate, files, history, CodeOfSuccess, Course, Later, Idle
  <2>6. Configured'
    BY <1>10, <2>1 DEF ApplyNmstate, files, history, Configured, Course, Later, Idle
  <2> QED BY <2>2, <2>3, <2>4, <2>5, <2>6
<1>11. ASSUME ApplyNmstateFails PROVE Inv'
  <2>1. TypeOK'
    BY <1>11 DEF ApplyNmstateFails, files, history, TypeOK, MapFile, Idle, Tools
  <2>2. Course'
    BY <1>11 DEF ApplyNmstateFails, files, history, Course, TypeOK, Later, Idle, Tools
  <2>3. Derivation'
    BY <1>11 DEF ApplyNmstateFails, files, history, Derivation, Course, Later, Idle
  <2>4. CodeOfSuccess'
    BY <1>11 DEF ApplyNmstateFails, files, history, CodeOfSuccess, Course, Later, Idle
  <2>5. Configured'
    BY <1>11 DEF ApplyNmstateFails, files, history, Configured, Course, Later, Idle
  <2> QED BY <2>1, <2>2, <2>3, <2>4, <2>5
<1>12. ASSUME RunOsNetConfig PROVE Inv'
  <2>1. \E template \in Templates : Keys(applied') = Keys(template)
    BY <1>12, SubstitutionKeepsKeys DEF RunOsNetConfig, Wanted, Course, Idle
  <2>2. TypeOK'
    BY <1>12 DEF RunOsNetConfig, files, history, TypeOK, MapFile, Idle, Tools
  <2>3. Course'
    BY <1>12 DEF RunOsNetConfig, files, history, Course, TypeOK, Later, Idle, Tools
  <2>4. Derivation'
    BY <1>12 DEF RunOsNetConfig, files, history, Derivation, Course, Later, Idle
  <2>5. CodeOfSuccess'
    BY <1>12 DEF RunOsNetConfig, files, history, CodeOfSuccess, Course, Later, Idle
  <2>6. Configured'
    BY <1>12, <2>1 DEF RunOsNetConfig, files, history, Configured, Course, Later, Idle
  <2> QED BY <2>2, <2>3, <2>4, <2>5, <2>6
<1>13. ASSUME OsNetConfigFails PROVE Inv'
  <2>1. TypeOK'
    BY <1>13 DEF OsNetConfigFails, FailTool, End, files, TypeOK, MapFile, Idle, Tools
  <2>2. Course'
    BY <1>13 DEF OsNetConfigFails, FailTool, End, files, Course, TypeOK, Later, Idle, Tools
  <2>3. Derivation'
    BY <1>13 DEF OsNetConfigFails, FailTool, End, files, Derivation, Course, Later, Idle
  <2>4. CodeOfSuccess'
    BY <1>13 DEF OsNetConfigFails, FailTool, End, files, CodeOfSuccess, Course, Later, Idle
  <2>5. Configured'
    BY <1>13 DEF OsNetConfigFails, FailTool, End, files, Configured, Course, Later, Idle
  <2> QED BY <2>1, <2>2, <2>3, <2>4, <2>5
<1>14. ASSUME RefreshDeviceMap PROVE Inv'
  <2>1. TypeOK'
    BY <1>14, NoneAssumption DEF RefreshDeviceMap, OrderedNics, node, history, TypeOK, MapFile, Idle, Tools
  <2>2. Course'
    BY <1>14, NoneAssumption DEF RefreshDeviceMap, OrderedNics, node, history, Course, TypeOK, Later, Idle, Tools
  <2>3. Derivation'
    BY <1>14, NoneAssumption DEF RefreshDeviceMap, OrderedNics, node, history, Derivation, Course, Later, Idle
  <2>4. CodeOfSuccess'
    BY <1>14, NoneAssumption DEF RefreshDeviceMap, OrderedNics, node, history, CodeOfSuccess, Course, Later, Idle
  <2>5. Configured'
    BY <1>14, NoneAssumption DEF RefreshDeviceMap, OrderedNics, node, history, Configured, Course, Later, Idle
  <2> QED BY <2>1, <2>2, <2>3, <2>4, <2>5
<1>15. ASSUME RefreshFails PROVE Inv'
  <2>1. TypeOK'
    BY <1>15 DEF RefreshFails, node, files, history, TypeOK, MapFile, Idle, Tools
  <2>2. Course'
    BY <1>15 DEF RefreshFails, node, files, history, Course, TypeOK, Later, Idle, Tools
  <2>3. Derivation'
    BY <1>15 DEF RefreshFails, node, files, history, Derivation, Course, Later, Idle
  <2>4. CodeOfSuccess'
    BY <1>15 DEF RefreshFails, node, files, history, CodeOfSuccess, Course, Later, Idle
  <2>5. Configured'
    BY <1>15 DEF RefreshFails, node, files, history, Configured, Course, Later, Idle
  <2> QED BY <2>1, <2>2, <2>3, <2>4, <2>5
<1>16. ASSUME WriteRc PROVE Inv'
  <2>1. TypeOK'
    BY <1>16 DEF WriteRc, End, node, TypeOK, MapFile, Idle, Tools
  <2>2. Course'
    BY <1>16 DEF WriteRc, End, node, Course, TypeOK, Later, Idle, Tools
  <2>3. Derivation'
    BY <1>16 DEF WriteRc, End, node, Derivation, Course, Later, Idle
  <2>4. CodeOfSuccess'
    BY <1>16 DEF WriteRc, End, node, CodeOfSuccess, Course, Later, Idle
  <2>5. Configured'
    BY <1>16 DEF WriteRc, End, node, Configured, Course, Later, Idle
  <2> QED BY <2>1, <2>2, <2>3, <2>4, <2>5
<1>17. ASSUME WriteFailure PROVE Inv'
  <2>1. TypeOK'
    BY <1>17 DEF WriteFailure, End, node, TypeOK, MapFile, Idle, Tools
  <2>2. Course'
    BY <1>17 DEF WriteFailure, End, node, Course, TypeOK, Later, Idle, Tools
  <2>3. Derivation'
    BY <1>17 DEF WriteFailure, End, node, Derivation, Course, Later, Idle
  <2>4. CodeOfSuccess'
    BY <1>17 DEF WriteFailure, End, node, CodeOfSuccess, Course, Later, Idle
  <2>5. Configured'
    BY <1>17 DEF WriteFailure, End, node, Configured, Course, Later, Idle
  <2> QED BY <2>1, <2>2, <2>3, <2>4, <2>5
<1>18. ASSUME Cut PROVE Inv'
  <2>1. TypeOK'
    BY <1>18 DEF Cut, End, node, files, history, TypeOK, MapFile, Idle, Tools
  <2>2. Course'
    BY <1>18 DEF Cut, End, node, files, history, Course, TypeOK, Later, Idle, Tools
  <2>3. Derivation'
    BY <1>18 DEF Cut, End, node, files, history, Derivation, Course, Later, Idle
  <2>4. CodeOfSuccess'
    BY <1>18 DEF Cut, End, node, files, history, CodeOfSuccess, Course, Later, Idle
  <2>5. Configured'
    BY <1>18 DEF Cut, End, node, files, history, Configured, Course, Later, Idle
  <2> QED BY <2>1, <2>2, <2>3, <2>4, <2>5
<1>19. ASSUME NEW n \in Nics, LinkChange(n) PROVE Inv'
  <2>1. TypeOK'
    <3>1. link' \in [Nics -> {"absent", "down", "up"}]
      BY <1>19 DEF LinkChange, TypeOK
    <3>2. UNCHANGED <<pc, tool, input, userFile, derived, rc, deviceMap, last, succeeded>>
      BY <1>19 DEF LinkChange, files, history
    <3> QED BY <3>1, <3>2 DEF TypeOK
  <2>2. Course'
    BY <1>19 DEF LinkChange, files, history, Course, TypeOK, Later, Idle, Tools
  <2>3. Derivation'
    BY <1>19 DEF LinkChange, files, history, Derivation, Course, Later, Idle
  <2>4. CodeOfSuccess'
    BY <1>19 DEF LinkChange, files, history, CodeOfSuccess, Course, Later, Idle
  <2>5. Configured'
    BY <1>19 DEF LinkChange, files, history, Configured, Course, Later, Idle
  <2> QED BY <2>1, <2>2, <2>3, <2>4, <2>5
<1>20. CASE UNCHANGED vars
  <2>1. UNCHANGED <<pc, tool, input, link, applied, userFile, derived, rc, deviceMap, last, succeeded>>
    BY <1>20 DEF vars, node, files, history
  <2>2. TypeOK'
    BY <2>1 DEF TypeOK
  <2>3. Course'
    BY <2>1 DEF Course, Idle
  <2>4. Derivation' /\ CodeOfSuccess' /\ Configured'
    BY <2>1 DEF Derivation, CodeOfSuccess, Configured
  <2> QED BY <2>2, <2>3, <2>4
<1>21. CASE Starting
  BY <1>1, <1>21 DEF Starting
<1>22. CASE Mapping
  BY <1>2, <1>3, <1>4, <1>5, <1>6, <1>7, <1>8, <1>9, <1>22 DEF Mapping
<1>23. CASE Applying
  BY <1>10, <1>11, <1>12, <1>13, <1>14, <1>15, <1>16, <1>17, <1>23 DEF Applying
<1> QED BY <1>18, <1>19, <1>20, <1>21, <1>22, <1>23 DEF Next

-----------------------------------------------------------------------------
\* Files, codes and mappings keep their types, over any number of runs.
THEOREM TypeCorrect == Spec => []TypeOK
<1>1. Inv => TypeOK BY DEF Inv
<1> QED BY <1>1, InvInit, InvNext, PTL DEF Spec

\* nmstate is applied with a mapping of this run: resolved, unambiguous, and
\* with the user's own entries.
THEOREM MappingResolved == Spec => []ResolvedMapping
<1>1. Inv => ResolvedMapping
  BY DEF Inv, Derivation, ResolvedMapping, Resolved, Later
<1> QED BY <1>1, InvInit, InvNext, PTL DEF Spec

\* A node whose code says that nothing is left to do once had its
\* configuration, and has a template's after an application that ended well.
THEOREM SkipsJustified == Spec => []SkipsOnlyWhenDone
<1>1. Inv => SkipsOnlyWhenDone
  <2> SUFFICES ASSUME Inv PROVE SkipsOnlyWhenDone
    OBVIOUS
  <2>1. rc = 0 => succeeded /\ (tool = "nmstate" => deviceMap # None)
    BY DEF Inv, CodeOfSuccess
  <2>2. rc = 0 => last \in {"ok", "cut"} \/ (tool = "os-net-config" /\ last = "failed")
    BY DEF Inv, CodeOfSuccess, TypeOK, Tools
  <2>3. last = "ok" =>
          rc = 0 /\ \E template \in Templates :
                      {leaf.key : leaf \in applied} = {leaf.key : leaf \in template}
    BY DEF Inv, Configured, Keys
  <2> QED BY <2>1, <2>2, <2>3 DEF SkipsOnlyWhenDone
<1> QED BY <1>1, InvInit, InvNext, PTL DEF Spec

=============================================================================
