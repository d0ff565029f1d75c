------------------------ MODULE ServiceLifecycleProofs ------------------------
(***************************************************************************)
(* Proofs about ServiceLifecycle: its types for any number of plays, the   *)
(* rest for one play at a time, as the operator is expected to run them,   *)
(* with roles that append their containers.  What the play has read is     *)
(* then still what the state file says when it writes, and the file        *)
(* implements the registry.                                                *)
(***************************************************************************)
EXTENDS ServiceLifecycle, TLAPS

\* The operation of a play fits the task it is at.
Busy(p) ==
  /\ pc[p] = "run" => op[p].kind = "deploy"
  /\ pc[p] \in {"read", "write"} => op[p].kind \in {"deploy", "remove"}
  /\ pc[p] \in {"clean", "find", "orphans"} => op[p].kind = "clean"
  /\ op[p].kind = "deploy" => op[p].step \in 1..Len(Program[op[p].service])

Works == TypeOK /\ \A p \in Plays : Busy(p)

LEMMA OpTypes ==
  ASSUME TypeOK, NEW p \in Plays
  PROVE  /\ op[p].kind = "deploy" => op[p].service \in Services /\ op[p].step \in Nat \ {0}
         /\ op[p].kind = "remove" => op[p].service \in Services /\ op[p].container \in Containers
         /\ op[p].kind = "clean" => op[p].keep \in SUBSET Services /\ op[p].orphans \in BOOLEAN
         /\ op[p].kind \in {"none", "deploy", "remove", "clean"}
  BY DEF TypeOK, Ops, NoOp

\* The container a step of a role is about.
LEMMA ProgramType ==
  ASSUME NEW s \in Services
  PROVE  /\ Program[s] \in Seq(Containers) /\ Len(Program[s]) \in Nat \ {0}
         /\ \A i \in 1..Len(Program[s]) : Program[s][i] \in Containers
  BY ConstantsAssumption

\* The values the steps put into the state file are registries.
LEMMA EmptyType == Empty \in Registries
  BY DEF Empty, Registries

LEMMA CombinedType ==
  ASSUME NEW low \in Registries, NEW high \in Registries
  PROVE  Combined(low, high) \in Registries
  BY DEF Combined, Registries

LEMMA WithoutType ==
  ASSUME NEW r \in Registries, NEW S
  PROVE  Without(r, S) \in Registries
  BY DEF Without, Registries

LEMMA UpdatedType ==
  ASSUME TypeOK, NEW p \in Plays, Busy(p), pc[p] = "read"
  PROVE  Updated(p, file) \in Registries
<1>1. file \in Registries /\ filtered[p] \in Registries
  BY DEF TypeOK
<1>2. CASE op[p].kind = "deploy"
  <2>1. op[p].service \in Services /\ Program[op[p].service][op[p].step] \in Containers
    BY <1>2, OpTypes, ProgramType DEF Busy
  <2> QED BY <1>1, <1>2, <2>1 DEF Updated, Registered, Registries
<1>3. CASE op[p].kind = "remove"
  <2>1. FilteredBy(op[p], file, filtered[p]) \in Registries
    BY <1>1, CombinedType, WithoutType DEF FilteredBy
  <2>2. [file EXCEPT ![op[p].service] = @ \ {op[p].container}] \in Registries
    BY <1>1 DEF Registries
  <2> QED BY <1>3, <2>1, <2>2 DEF Updated, Removed
<1> QED BY <1>2, <1>3 DEF Busy

LEMMA RemainingType ==
  ASSUME TypeOK, NEW p \in Plays
  PROVE  Remaining(p) \in Registries
  BY CombinedType, WithoutType DEF TypeOK, Remaining

\* How a play ends leaves its variables of their types.
LEMMA NewFactsType ==
  ASSUME TypeOK, NEW p \in Plays, NewFacts(p)
  PROVE  /\ filtered' \in [Plays -> Registries] /\ kept' \in [Plays -> Registries]
         /\ seen' \in [Plays -> BOOLEAN]
  BY EmptyType DEF TypeOK, NewFacts

LEMMA PlayFailsType ==
  ASSUME TypeOK, NEW p \in Plays, NEW how \in {"fault", "undefined"}, PlayFails(p, how)
  PROVE  /\ pc' \in [Plays -> Steps] /\ op' \in [Plays -> Ops] /\ data' \in [Plays -> Registries]
         /\ todo' \in [Plays -> SUBSET Containers] /\ target' \in [Plays -> SUBSET Containers]
         /\ filtered' \in [Plays -> Registries] /\ kept' \in [Plays -> Registries]
         /\ seen' \in [Plays -> BOOLEAN]
         /\ outcome' \in [Plays -> {"none", "ok", "fault", "undefined"}]
<1>1. NoOp \in Ops /\ "idle" \in Steps /\ {} \in SUBSET Containers
  BY DEF Ops, Steps
<1>2. NewFacts(p)
  BY DEF PlayFails
<1> QED BY <1>1, <1>2, NewFactsType, EmptyType DEF TypeOK, PlayFails

LEMMA EndCleanType ==
  ASSUME TypeOK, NEW p \in Plays, EndClean(p)
  PROVE  /\ pc' \in [Plays -> Steps] /\ op' \in [Plays -> Ops] /\ data' \in [Plays -> Registries]
         /\ target' \in [Plays -> SUBSET Containers] /\ gone' \in SUBSET Containers
         /\ outcome' \in [Plays -> {"none", "ok", "fault", "undefined"}]
<1>1. NoOp \in Ops /\ "idle" \in Steps /\ {} \in SUBSET Containers
  BY DEF Ops, Steps
<1> QED BY <1>1, EmptyType DEF TypeOK, EndClean

\* An operation and a task are entered together.
LEMMA OpChanges ==
  ASSUME TypeOK, NEW p \in Plays, NEW t \in Steps, NEW o \in Ops,
         pc' = [pc EXCEPT ![p] = t], op' = [op EXCEPT ![p] = o]
  PROVE  /\ pc' \in [Plays -> Steps] /\ op' \in [Plays -> Ops]
         /\ pc'[p] = t /\ op'[p] = o
         /\ \A q \in Plays \ {p} : pc'[q] = pc[q] /\ op'[q] = op[q]
  BY DEF TypeOK

\* Every step keeps the types.
LEMMA TypeNext == Works /\ [Next]_vars => TypeOK'
<1> SUFFICES ASSUME Works, [Next]_vars PROVE TypeOK'
  OBVIOUS
<1> USE DEF node, play, facts, hist, Works
<1>1. ASSUME NEW p \in Plays, \E s \in Services : StartDeploy(p, s) PROVE TypeOK'
  <2> PICK s \in Services : StartDeploy(p, s)
    BY <1>1
  <2>1. [kind |-> "deploy", service |-> s, step |-> 1] \in Ops /\ "run" \in Steps
    BY DEF Ops, Steps
  <2> QED BY <2>1, OpChanges DEF StartDeploy, TypeOK
<1>2. ASSUME NEW p \in Plays, \E s \in Services, c \in Containers : StartRemove(p, s, c) PROVE TypeOK'
  <2> PICK s \in Services, c \in Containers : StartRemove(p, s, c)
    BY <1>2
  <2>1. [kind |-> "remove", service |-> s, container |-> c] \in Ops /\ "read" \in Steps
    BY DEF Ops, Steps
  <2> QED BY <2>1, OpChanges DEF StartRemove, TypeOK
<1>3. ASSUME NEW p \in Plays, \E K \in Keeps, o \in BOOLEAN : StartClean(p, K, o) PROVE TypeOK'
  <2> PICK K \in Keeps, orphans \in BOOLEAN : StartClean(p, K, orphans)
    BY <1>3
  <2> DEFINE o == [kind |-> "clean", keep |-> K, orphans |-> orphans]
  <2>1. o \in Ops /\ "clean" \in Steps
    BY ConstantsAssumption DEF Ops, Steps
  <2>2. Doomed(o, file) \in SUBSET Containers
    BY DEF Doomed, Unwanted, Named, TypeOK, Registries
  <2> HIDE DEF o
  <2> QED BY <2>1, <2>2, OpChanges DEF StartClean, TypeOK, o
<1>4. ASSUME NEW p \in Plays, RunContainer(p) PROVE TypeOK'
  <2>1. Program[op[p].service][op[p].step] \in Containers
    BY <1>4, OpTypes, ProgramType DEF RunContainer, Busy
  <2> QED BY <1>4, <2>1 DEF RunContainer, TypeOK, Steps
<1>5. ASSUME NEW p \in Plays, ReadState(p) PROVE TypeOK'
  <2>1. Updated(p, file) \in Registries
    BY <1>5, UpdatedType DEF ReadState
  <2>2. FilteredBy(op[p], file, filtered[p]) \in Registries
    BY CombinedType, WithoutType DEF FilteredBy, TypeOK
  <2> QED BY <1>5, <2>1, <2>2 DEF ReadState, TypeOK, Steps
<1>6. ASSUME NEW p \in Plays, WriteState(p) PROVE TypeOK'
  <2> DEFINE more == op[p].kind = "deploy" /\ op[p].step < Len(Program[op[p].service])
  <2>1. more => [op[p] EXCEPT !.step = @ + 1] \in Ops
    <3> SUFFICES ASSUME more PROVE [op[p] EXCEPT !.step = @ + 1] \in Ops
      OBVIOUS
    <3>1. op[p] \in [kind : {"deploy"}, service : Services, step : Nat \ {0}]
      BY DEF TypeOK, Ops, NoOp
    <3>2. [op[p] EXCEPT !.step = @ + 1] \in [kind : {"deploy"}, service : Services, step : Nat \ {0}]
      BY <3>1
    <3> QED BY <3>2 DEF Ops
  <2>2. NoOp \in Ops /\ {"run", "idle"} \subseteq Steps
    BY DEF Ops, Steps
  <2>3. pc' \in [Plays -> Steps] /\ op' \in [Plays -> Ops]
    BY <1>6, <2>1, <2>2 DEF WriteState, TypeOK
  <2>4. op[p].kind = "deploy" => op[p].service \in Services
    BY OpTypes
  <2>5. complete' \subseteq Services /\ data' \in [Plays -> Registries] /\ file' \in Registries
    BY <1>6, <2>4, EmptyType DEF WriteState, TypeOK
  <2> HIDE DEF more
  <2> QED BY <1>6, <2>3, <2>5 DEF WriteState, TypeOK
<1>7. ASSUME NEW p \in Plays, \E c \in Containers : RemoveContainer(p, c) PROVE TypeOK'
  BY <1>7 DEF RemoveContainer, Surviving, TypeOK
<1>8. ASSUME NEW p \in Plays, \E c \in Containers : RemovalFails(p, c) PROVE TypeOK'
  <2> PICK c \in Containers : RemovalFails(p, c)
    BY <1>8
  <2>1. PlayFails(p, "fault")
    BY DEF RemovalFails
  <2> QED BY <2>1, PlayFailsType DEF RemovalFails, TypeOK
<1>9. ASSUME NEW p \in Plays, ForgetServices(p) PROVE TypeOK'
  <2>1. file' \in Registries /\ kept' \in [Plays -> Registries]
    BY <1>9, RemainingType DEF ForgetServices, TypeOK
  <2>2. CASE EndClean(p)
    BY <1>9, <2>1, <2>2, EndCleanType DEF ForgetServices, TypeOK
  <2>3. CASE op[p].orphans
    BY <1>9, <2>1, <2>3, RemainingType DEF ForgetServices, TypeOK, Steps
  <2> QED BY <1>9, <2>2, <2>3 DEF ForgetServices
<1>10. ASSUME NEW p \in Plays, FindOrphans(p) PROVE TypeOK'
  BY <1>10 DEF FindOrphans, TypeOK, Steps
<1>11. ASSUME NEW p \in Plays, OrphansRemoved(p) PROVE TypeOK'
  <2>1. EndClean(p)
    BY <1>11 DEF OrphansRemoved
  <2> QED BY <1>11, <2>1, EndCleanType DEF OrphansRemoved, TypeOK
<1>12. ASSUME NEW p \in Plays, UndefinedFact(p) PROVE TypeOK'
  <2>1. PlayFails(p, "undefined")
    BY <1>12 DEF UndefinedFact
  <2> QED BY <1>12, <2>1, PlayFailsType DEF UndefinedFact, TypeOK
<1>13. ASSUME NEW p \in Plays, Fail(p) PROVE TypeOK'
  <2>1. PlayFails(p, "fault")
    BY <1>13 DEF Fail
  <2> QED BY <1>13, <2>1, PlayFailsType DEF Fail, TypeOK
<1>14. ASSUME NEW p \in Plays, NewRun(p) PROVE TypeOK'
  <2>1. NewFacts(p)
    BY <1>14 DEF NewRun
  <2> QED BY <1>14, <2>1, NewFactsType DEF NewRun, TypeOK
<1>15. CASE \E c \in Containers : Respawn(c)
  BY <1>15 DEF Respawn, TypeOK
<1>16. CASE UNCHANGED vars
  BY <1>16 DEF vars, TypeOK
<1> QED BY <1>1, <1>2, <1>3, <1>4, <1>5, <1>6, <1>7, <1>8, <1>9,
           <1>10, <1>11, <1>12, <1>13, <1>14, <1>15, <1>16 DEF Next

\* Where the functions over plays are read.
LEMMA Maps ==
  TypeOK => /\ DOMAIN pc = Plays /\ DOMAIN op = Plays /\ DOMAIN data = Plays
            /\ DOMAIN filtered = Plays /\ DOMAIN kept = Plays /\ DOMAIN todo = Plays
            /\ DOMAIN target = Plays /\ DOMAIN outcome = Plays
  BY DEF TypeOK

\* A play without a task, and one that another play works beside.
LEMMA IdleBusy ==
  ASSUME NEW p \in Plays, pc'[p] = "idle", op'[p] = NoOp
  PROVE  Busy(p)'
  BY DEF Busy, NoOp

LEMMA SameBusy ==
  ASSUME NEW p \in Plays, Busy(p), pc'[p] = pc[p], op'[p] = op[p]
  PROVE  Busy(p)'
  BY DEF Busy

\* Every step leaves each play with an operation that fits its task.
LEMMA BusyNext == Works /\ [Next]_vars => (\A q \in Plays : Busy(q)')
<1> SUFFICES ASSUME Works, [Next]_vars PROVE (\A q \in Plays : Busy(q)')
  OBVIOUS
<1> USE DEF node, play, facts, hist, Works
<1>1. ASSUME NEW p \in Plays, \E s \in Services : StartDeploy(p, s) PROVE (\A q \in Plays : Busy(q)')
  <2>1. \A q \in Plays \ {p} : pc'[q] = pc[q] /\ op'[q] = op[q]
    BY <1>1, Maps DEF StartDeploy
  <2>2. Busy(p)'
    <3> PICK s \in Services : StartDeploy(p, s)
      BY <1>1
    <3>1. pc'[p] = "run" /\ op'[p] = [kind |-> "deploy", service |-> s, step |-> 1]
      BY Maps DEF StartDeploy
    <3> QED BY <3>1, ProgramType DEF Busy
  <2> QED BY <2>1, <2>2, SameBusy
<1>2. ASSUME NEW p \in Plays, \E s \in Services, c \in Containers : StartRemove(p, s, c) PROVE (\A q \in Plays : Busy(q)')
  <2>1. \A q \in Plays \ {p} : pc'[q] = pc[q] /\ op'[q] = op[q]
    BY <1>2, Maps DEF StartRemove
  <2>2. Busy(p)'
    BY <1>2, Maps DEF StartRemove, Busy
  <2> QED BY <2>1, <2>2, SameBusy
<1>3. ASSUME NEW p \in Plays, \E K \in Keeps, o \in BOOLEAN : StartClean(p, K, o) PROVE (\A q \in Plays : Busy(q)')
  <2>1. \A q \in Plays \ {p} : pc'[q] = pc[q] /\ op'[q] = op[q]
    BY <1>3, Maps DEF StartClean
  <2>2. Busy(p)'
    BY <1>3, Maps DEF StartClean, Busy
  <2> QED BY <2>1, <2>2, SameBusy
<1>4. ASSUME NEW p \in Plays, RunContainer(p) PROVE (\A q \in Plays : Busy(q)')
  <2>1. \A q \in Plays \ {p} : pc'[q] = pc[q] /\ op'[q] = op[q]
    BY <1>4, Maps DEF RunContainer
  <2>2. Busy(p)'
    BY <1>4, Maps DEF RunContainer, Busy
  <2> QED BY <2>1, <2>2, SameBusy
<1>5. ASSUME NEW p \in Plays, ReadState(p) PROVE (\A q \in Plays : Busy(q)')
  <2>1. \A q \in Plays \ {p} : pc'[q] = pc[q] /\ op'[q] = op[q]
    BY <1>5, Maps DEF ReadState
  <2>2. Busy(p)'
    <3>1. pc[p] = "read" /\ pc'[p] = "write" /\ op'[p] = op[p]
      BY <1>5, Maps DEF ReadState
    <3> QED BY <3>1 DEF Busy
  <2> QED BY <2>1, <2>2, SameBusy
<1>6. ASSUME NEW p \in Plays, WriteState(p) PROVE (\A q \in Plays : Busy(q)')
  <2>1. \A q \in Plays \ {p} : pc'[q] = pc[q] /\ op'[q] = op[q]
    BY <1>6, Maps DEF WriteState
  <2>2. Busy(p)'
    <3> DEFINE more == op[p].kind = "deploy" /\ op[p].step < Len(Program[op[p].service])
    <3>1. CASE more
      <4>1. pc'[p] = "run" /\ op'[p] = [op[p] EXCEPT !.step = @ + 1]
        BY <1>6, <3>1, Maps DEF WriteState
      <4>2. op[p] \in [kind : {"deploy"}, service : Services, step : Nat \ {0}]
        BY <3>1 DEF TypeOK, Ops, NoOp
      <4>3. op'[p].kind = "deploy" /\ op'[p].service = op[p].service /\ op'[p].step = op[p].step + 1
        BY <4>1, <4>2
      <4>4. Len(Program[op[p].service]) \in Nat
        BY <4>2, ProgramType
      <4>5. op'[p].step \in 1..Len(Program[op'[p].service])
        BY <3>1, <4>2, <4>3, <4>4
      <4> QED BY <4>1, <4>3, <4>5 DEF Busy
    <3>2. CASE ~more
      <4>1. pc'[p] = "idle" /\ op'[p] = NoOp
        BY <1>6, <3>2, Maps DEF WriteState
      <4> QED BY <4>1, IdleBusy
    <3> QED BY <3>1, <3>2
  <2> QED BY <2>1, <2>2, SameBusy
<1>7. ASSUME NEW p \in Plays, \E c \in Containers : RemoveContainer(p, c) PROVE (\A q \in Plays : Busy(q)')
  BY <1>7, SameBusy DEF RemoveContainer
<1>8. ASSUME NEW p \in Plays, \E c \in Containers : RemovalFails(p, c) PROVE (\A q \in Plays : Busy(q)')
  <2>1. \A q \in Plays \ {p} : pc'[q] = pc[q] /\ op'[q] = op[q]
    BY <1>8, Maps DEF RemovalFails, PlayFails, NewFacts
  <2>2. pc'[p] = "idle" /\ op'[p] = NoOp
    BY <1>8, Maps DEF RemovalFails, PlayFails, NewFacts
  <2> QED BY <2>1, <2>2, SameBusy, IdleBusy
<1>9. ASSUME NEW p \in Plays, ForgetServices(p) PROVE (\A q \in Plays : Busy(q)')
  <2>1. \A q \in Plays \ {p} : pc'[q] = pc[q] /\ op'[q] = op[q]
    BY <1>9, Maps DEF ForgetServices, EndClean
  <2>2. Busy(p)'
    <3>1. CASE op[p].orphans
      <4>1. pc[p] = "clean" /\ pc'[p] = "find" /\ op'[p] = op[p]
        BY <1>9, <3>1, Maps DEF ForgetServices
      <4> QED BY <4>1 DEF Busy
    <3>2. CASE ~op[p].orphans
      <4>1. pc'[p] = "idle" /\ op'[p] = NoOp
        BY <1>9, <3>2, Maps DEF ForgetServices, EndClean
      <4> QED BY <4>1, IdleBusy
    <3> QED BY <3>1, <3>2
  <2> QED BY <2>1, <2>2, SameBusy
<1>10. ASSUME NEW p \in Plays, FindOrphans(p) PROVE (\A q \in Plays : Busy(q)')
  <2>1. \A q \in Plays \ {p} : pc'[q] = pc[q] /\ op'[q] = op[q]
    BY <1>10, Maps DEF FindOrphans
  <2>2. Busy(p)'
    <3>1. pc[p] = "find" /\ pc'[p] = "orphans" /\ op'[p] = op[p]
      BY <1>10, Maps DEF FindOrphans
    <3> QED BY <3>1 DEF Busy
  <2> QED BY <2>1, <2>2, SameBusy
<1>11. ASSUME NEW p \in Plays, OrphansRemoved(p) PROVE (\A q \in Plays : Busy(q)')
  <2>1. \A q \in Plays \ {p} : pc'[q] = pc[q] /\ op'[q] = op[q]
    BY <1>11, Maps DEF OrphansRemoved, EndClean
  <2>2. pc'[p] = "idle" /\ op'[p] = NoOp
    BY <1>11, Maps DEF OrphansRemoved, EndClean
  <2> QED BY <2>1, <2>2, SameBusy, IdleBusy
<1>12. ASSUME NEW p \in Plays, UndefinedFact(p) PROVE (\A q \in Plays : Busy(q)')
  <2>1. \A q \in Plays \ {p} : pc'[q] = pc[q] /\ op'[q] = op[q]
    BY <1>12, Maps DEF UndefinedFact, PlayFails, NewFacts
  <2>2. pc'[p] = "idle" /\ op'[p] = NoOp
    BY <1>12, Maps DEF UndefinedFact, PlayFails, NewFacts
  <2> QED BY <2>1, <2>2, SameBusy, IdleBusy
<1>13. ASSUME NEW p \in Plays, Fail(p) PROVE (\A q \in Plays : Busy(q)')
  <2>1. \A q \in Plays \ {p} : pc'[q] = pc[q] /\ op'[q] = op[q]
    BY <1>13, Maps DEF Fail, PlayFails, NewFacts
  <2>2. pc'[p] = "idle" /\ op'[p] = NoOp
    BY <1>13, Maps DEF Fail, PlayFails, NewFacts
  <2> QED BY <2>1, <2>2, SameBusy, IdleBusy
<1>14. ASSUME NEW p \in Plays, NewRun(p) PROVE (\A q \in Plays : Busy(q)')
  <2>1. \A q \in Plays \ {p} : pc'[q] = pc[q] /\ op'[q] = op[q]
    BY <1>14, Maps DEF NewRun, NewFacts
  <2>2. Busy(p)'
    <3>1. pc[p] = "idle" /\ pc'[p] = "idle" /\ op'[p] = op[p]
      BY <1>14 DEF NewRun
    <3> QED BY <3>1 DEF Busy
  <2> QED BY <2>1, <2>2, SameBusy
<1>15. CASE \E c \in Containers : Respawn(c)
  BY <1>15, SameBusy DEF Respawn
<1>16. CASE UNCHANGED vars
  BY <1>16, SameBusy DEF vars
<1> QED BY <1>1, <1>2, <1>3, <1>4, <1>5, <1>6, <1>7, <1>8, <1>9,
           <1>10, <1>11, <1>12, <1>13, <1>14, <1>15, <1>16 DEF Next

\* At the start every play is idle.
LEMMA WorksInit == Init => Works
<1>1. NoOp \in Ops /\ "idle" \in Steps /\ {} \in SUBSET Containers
  BY DEF Ops, Steps
<1>2. ASSUME Init PROVE TypeOK
  <2>1. /\ pc \in [Plays -> Steps] /\ op \in [Plays -> Ops] /\ seen \in [Plays -> BOOLEAN]
        /\ unit \in [Containers -> {"none", "legacy", "quadlet"}]
        /\ outcome \in [Plays -> {"none", "ok", "fault", "undefined"}]
    BY <1>1, <1>2 DEF Init
  <2>2. todo \in [Plays -> SUBSET Containers] /\ target \in [Plays -> SUBSET Containers]
    BY <1>1, <1>2 DEF Init
  <2>3. /\ data \in [Plays -> Registries] /\ filtered \in [Plays -> Registries]
        /\ kept \in [Plays -> Registries] /\ file \in Registries
    BY <1>2, EmptyType DEF Init
  <2>4. /\ exists \in BOOLEAN /\ present \subseteq Containers /\ complete \subseteq Services
        /\ gone \subseteq Containers
    BY <1>2 DEF Init
  <2> QED BY <2>1, <2>2, <2>3, <2>4 DEF TypeOK
<1>3. Init => \A p \in Plays : Busy(p)
  BY DEF Init, Busy, NoOp
<1> QED BY <1>2, <1>3 DEF Works

\* TypeOK, for any number of plays: no step puts a value of another shape into
\* the state file, a fact or an operation.
THEOREM TypeCorrect == Spec => []TypeOK
<1>1. Works /\ [Next]_vars => Works'
  BY TypeNext, BusyNext DEF Works
<1>2. Works => TypeOK
  BY DEF Works
<1> QED BY WorksInit, <1>1, <1>2, PTL DEF Spec

-----------------------------------------------------------------------------
(* One play at a time, whose role appends what it registers.                 *)

Undisturbed == Appending /\ \A p, q \in Plays : p = q

\* What the play has read is still what the file says, and what it will write
\* is an outcome of its request on that.
Due(p) ==
  /\ pc[p] = "write" => data[p] \in Outcomes(Request(p), file, Memory(p))
  /\ pc[p] \in {"clean", "find"} => data[p] = file

\* A service is registered, and left in a dict, with containers of its own only.
OwnOnly(r) == \A s \in Services : r[s] \subseteq ContainersOf(s)
Own ==
  /\ OwnOnly(file)
  /\ \A p \in Plays : OwnOnly(filtered[p]) /\ OwnOnly(kept[p])

\* The containers before the one a deployment is at.
Before(o) == {Program[o.service][i] : i \in 1..(o.step - 1)}

\* A role in mid-course has registered the containers before the present one,
\* and no service that is being changed counts as complete.
Built(p) ==
  /\ pc[p] \in {"run", "read", "write"} /\ op[p].kind = "deploy" =>
       /\ op[p].service \notin complete
       /\ op[p].step > 1 => file[op[p].service] = Before(op[p])
  /\ pc[p] \in {"read", "write"} /\ op[p].kind = "remove" => op[p].service \notin complete
  /\ pc[p] \in {"clean", "find", "orphans"} => complete \subseteq op[p].keep

\* A cleanup has no container of a complete service it keeps on its list.
Spared(p) ==
  pc[p] \in {"clean", "orphans"} =>
    \A s \in op[p].keep \cap complete : todo[p] \cap ContainersOf(s) = {}

\* What a cleanup took off its list is gone, or comes from a Quadlet unit.
Returned(p) ==
  /\ \A c \in target[p] \ todo[p] : c \in present => unit[c] = "quadlet"
  /\ pc[p] \notin {"clean", "orphans"} => todo[p] = {}
  /\ pc[p] \notin {"clean", "find", "orphans"} => target[p] = {}

IInv ==
  /\ Works
  /\ Own
  /\ CompleteRegistered
  /\ OnlyQuadletsReturn
  /\ \A p \in Plays : Due(p) /\ Built(p) /\ Spared(p) /\ Returned(p)

\* What a request makes of a registry, spelled out.
LEMMA RegisterEffect ==
  ASSUME NEW r \in Registries, NEW s \in Services, NEW cs, NEW a \in BOOLEAN
  PROVE  Effect(Register(s, cs, a), r) = [r EXCEPT ![s] = IF a THEN r[s] \cup cs ELSE cs]
  BY DEF Effect, Register, Registries

LEMMA RemoveEffect ==
  ASSUME NEW r \in Registries, NEW s \in Services, NEW c
  PROVE  Effect(Remove(s, c), r) = [r EXCEPT ![s] = r[s] \ {c}]
  BY DEF Effect, Remove, Registries

LEMMA KeepEffect ==
  ASSUME NEW r \in Registries, NEW K
  PROVE  Effect(Keep(K), r) = [s \in Services |-> IF s \in K THEN r[s] ELSE {}]
  BY DEF Effect, Keep, Registries

\* A dict that a loop builds upon an older one holds what the change leaves and,
\* of what it takes out, what the older one held.
LEMMA Leftover ==
  ASSUME NEW q, NEW r, NEW old \in Registries, NEW M,
         q.kind # "register", Effect(q, r) \in Registries,
         \A s \in Services : Effect(q, r)[s] = {} /\ old[s] # {} => <<s, old[s]>> \in M
  PROVE  Combined(old, Effect(q, r)) \in Outcomes(q, r, M)
<1> DEFINE new == Combined(old, Effect(q, r))
<1>1. new \in [Services -> SUBSET Containers]
  BY CombinedType DEF Registries
<1>2. ASSUME NEW s \in Services
      PROVE  new[s] = Effect(q, r)[s] \/ (Effect(q, r)[s] = {} /\ <<s, new[s]>> \in M)
  <2>1. new[s] = IF Effect(q, r)[s] # {} THEN Effect(q, r)[s] ELSE old[s]
    BY DEF Combined
  <2>2. CASE Effect(q, r)[s] # {} \/ old[s] = {}
    BY <2>1, <2>2
  <2>3. CASE Effect(q, r)[s] = {} /\ old[s] # {}
    BY <2>1, <2>3
  <2> QED BY <2>2, <2>3
<1> QED BY <1>1, <1>2 DEF Outcomes, Returns

\* It names nothing that neither of them names.
LEMMA Learned ==
  ASSUME NEW q, NEW r, NEW old \in Registries
  PROVE  Items(Combined(old, Effect(q, r))) \subseteq Items(old) \cup Left(q, r)
<1> DEFINE new == Combined(old, Effect(q, r))
<1>1. ASSUME NEW s \in Services, new[s] # {}
      PROVE  <<s, new[s]>> \in Items(old) \cup Left(q, r)
  <2>1. new[s] = IF Effect(q, r)[s] # {} THEN Effect(q, r)[s] ELSE old[s]
    BY DEF Combined
  <2>2. CASE Effect(q, r)[s] # {}
    BY <2>1, <2>2 DEF Left
  <2>3. CASE Effect(q, r)[s] = {}
    BY <1>1, <2>1, <2>3 DEF Items, Named
  <2> QED BY <2>2, <2>3
<1> HIDE DEF new
<1>2. Items(new) \subseteq Items(old) \cup Left(q, r)
  BY <1>1 DEF Items, Named
<1> QED BY <1>2 DEF new

\* An outcome keeps what the change leaves, and of a registration there is one.
LEMMA OutcomeLeaves ==
  ASSUME NEW q, NEW r, NEW M, NEW e \in Outcomes(q, r, M)
  PROVE  /\ e \in Registries
         /\ \A s \in Services : \/ e[s] = Effect(q, r)[s]
                                \/ Effect(q, r)[s] = {} /\ <<s, e[s]>> \in M
  BY DEF Outcomes, Returns, Registries

LEMMA RegisterOutcome ==
  ASSUME NEW r \in Registries, NEW s \in Services, NEW cs \in SUBSET Containers, NEW a \in BOOLEAN,
         NEW M, NEW e
  PROVE  e \in Outcomes(Register(s, cs, a), r, M) <=> e = Effect(Register(s, cs, a), r)
<1>1. Effect(Register(s, cs, a), r) \in Registries
  BY RegisterEffect DEF Registries
<1>2. Register(s, cs, a).kind = "register"
  BY DEF Register
<1>3. e \in Outcomes(Register(s, cs, a), r, M)
        <=> e \in Registries /\ \A t \in Services : e[t] = Effect(Register(s, cs, a), r)[t]
  BY <1>2 DEF Outcomes, Returns, Registries
<1>4. e \in Registries /\ (\A t \in Services : e[t] = Effect(Register(s, cs, a), r)[t])
        => e = Effect(Register(s, cs, a), r)
  BY <1>1 DEF Registries
<1> QED BY <1>1, <1>3, <1>4

\* What a play makes of the file it has read is the effect of its request, or
\* for the last container of a service that effect upon the dict left before.
LEMMA RegistrationIsEffect ==
  ASSUME Undisturbed, IInv, NEW p \in Plays, pc[p] = "read", op[p].kind = "deploy"
  PROVE  LET q == Register(op[p].service, {Program[op[p].service][op[p].step]}, op[p].step > 1)
         IN \A M : Updated(p, file) \in Outcomes(q, file, M)
<1> DEFINE sv == op[p].service
           cs == {Program[op[p].service][op[p].step]}
           a == op[p].step > 1
<1>1. file \in Registries /\ TypeOK /\ Busy(p)
  BY DEF IInv, Works, TypeOK
<1>2. sv \in Services /\ op[p].step \in Nat /\ a \in BOOLEAN /\ cs \in SUBSET Containers
  BY <1>1, OpTypes, ProgramType DEF Busy
<1>3. Updated(p, file) = [file EXCEPT ![sv] = (IF a THEN @ ELSE {}) \cup cs]
  BY DEF Undisturbed, Updated, Registered, Appends
<1> HIDE DEF sv, cs, a
<1>4. Effect(Register(sv, cs, a), file) = [file EXCEPT ![sv] = IF a THEN file[sv] \cup cs ELSE cs]
  BY <1>1, <1>2, RegisterEffect
<1>5. (IF a THEN file[sv] ELSE {}) \cup cs = IF a THEN file[sv] \cup cs ELSE cs
  OBVIOUS
<1>6. Updated(p, file) = Effect(Register(sv, cs, a), file)
  BY <1>1, <1>2, <1>3, <1>4, <1>5 DEF Registries
<1>7. \A M : Updated(p, file) \in Outcomes(Register(sv, cs, a), file, M)
  BY <1>1, <1>2, <1>6, RegisterOutcome
<1> QED BY <1>7 DEF sv, cs, a

LEMMA RemovalIsEffect ==
  ASSUME Undisturbed, IInv, NEW p \in Plays, pc[p] = "read", op[p].kind = "remove"
  PROVE  LET q == Remove(op[p].service, op[p].container)
         IN /\ Effect(q, file) \in Registries /\ q.kind # "register"
            /\ Updated(p, file) = IF Last(op[p], file) THEN Combined(filtered[p], Effect(q, file))
                                  ELSE Effect(q, file)
<1> DEFINE sv == op[p].service
           c == op[p].container
<1>1. file \in Registries /\ TypeOK /\ sv \in Services
  BY OpTypes DEF IInv, Works, TypeOK
<1>2. Effect(Remove(sv, c), file) = [file EXCEPT ![sv] = file[sv] \ {c}]
  <2> HIDE DEF sv, c
  <2> QED BY <1>1, RemoveEffect
<1>3. Effect(Remove(sv, c), file) \in Registries
  BY <1>1, <1>2 DEF Registries
<1>4. Remove(sv, c).kind # "register"
  BY DEF Remove
<1>5. CASE Last(op[p], file)
  <2>1. Updated(p, file) = Combined(filtered[p], Without(file, {sv}))
    BY <1>5 DEF Updated, Removed, FilteredBy
  <2>2. file[sv] \ {c} = {}
    BY <1>5 DEF Last
  <2>3. Effect(Remove(sv, c), file) = Without(file, {sv})
    BY <1>1, <1>2, <2>2 DEF Without, Registries
  <2> QED BY <1>3, <1>4, <1>5, <2>1, <2>3
<1>6. CASE ~Last(op[p], file)
  BY <1>2, <1>3, <1>4, <1>6 DEF Updated, Removed
<1> QED BY <1>5, <1>6

\* So is what a cleanup makes of it.
LEMMA CleanupIsEffect ==
  ASSUME Undisturbed, IInv, NEW p \in Plays, pc[p] = "clean"
  PROVE  LET q == Keep(op[p].keep)
         IN /\ Effect(q, file) = [s \in Services |-> IF s \in op[p].keep THEN file[s] ELSE {}]
            /\ Effect(q, file) \in Registries /\ q.kind # "register"
            /\ Remaining(p) = Combined(kept[p], Effect(q, file))
            /\ Unwanted(op[p], data[p]) = {} => file = Effect(q, file)
<1>1. file \in Registries /\ data[p] = file
  BY DEF IInv, Works, TypeOK, Due
<1>2. Effect(Keep(op[p].keep), file) = [s \in Services |-> IF s \in op[p].keep THEN file[s] ELSE {}]
  BY <1>1, KeepEffect
<1>3. Effect(Keep(op[p].keep), file) \in Registries
  BY <1>1, <1>2 DEF Registries
<1>4. Keep(op[p].keep).kind # "register"
  BY DEF Keep
<1>5. Without(file, Unwanted(op[p], file)) = [s \in Services |-> IF s \in op[p].keep THEN file[s] ELSE {}]
  BY <1>1 DEF Without, Unwanted, Named, Registries
<1>6. Unwanted(op[p], data[p]) = {} => file = [s \in Services |-> IF s \in op[p].keep THEN file[s] ELSE {}]
  BY <1>1 DEF Unwanted, Named, Registries
<1> QED BY <1>1, <1>2, <1>3, <1>4, <1>5, <1>6 DEF Remaining

\* The dicts of a play name services of the older dicts or left by the change.
LEMMA ReadLearns ==
  ASSUME Undisturbed, IInv, NEW p \in Plays, ReadState(p)
  PROVE  /\ Updated(p, file) \in Outcomes(Request(p)', file, Memory(p)')
         /\ Memory(p)' \subseteq Memory(p) \cup Left(Request(p)', file)
<1>1. TypeOK /\ Busy(p) /\ filtered[p] \in Registries /\ file \in Registries
  BY DEF IInv, Works, TypeOK
<1>2. /\ pc[p] = "read" /\ pc'[p] = "write" /\ op'[p] = op[p] /\ kept' = kept
      /\ filtered'[p] = IF op[p].kind = "remove" /\ Last(op[p], file)
                        THEN FilteredBy(op[p], file, filtered[p]) ELSE filtered[p]
  BY <1>1, Maps DEF ReadState
<1>3. CASE op[p].kind = "deploy"
  <2>1. Request(p)' = Register(op[p].service, {Program[op[p].service][op[p].step]}, op[p].step > 1)
    BY <1>2, <1>3 DEF Request
  <2>2. Memory(p)' = Memory(p)
    BY <1>2, <1>3 DEF Memory
  <2> QED BY <1>2, <1>3, <2>1, <2>2, RegistrationIsEffect
<1>4. CASE op[p].kind = "remove"
  <2> DEFINE q == Remove(op[p].service, op[p].container)
  <2>1. Request(p)' = q
    BY <1>2, <1>4 DEF Request
  <2>2. /\ Effect(q, file) \in Registries /\ q.kind # "register"
        /\ Updated(p, file) = IF Last(op[p], file) THEN Combined(filtered[p], Effect(q, file))
                              ELSE Effect(q, file)
    BY <1>2, <1>4, RemovalIsEffect
  <2>3. CASE Last(op[p], file)
    <3> HIDE DEF q
    <3>1. Updated(p, file) = Combined(filtered[p], Effect(q, file)) /\ filtered'[p] = Updated(p, file)
      BY <1>2, <1>4, <2>2, <2>3 DEF Updated, Removed
    <3>2. Memory(p)' = Items(Updated(p, file)) \cup Items(kept[p])
      BY <1>2, <3>1 DEF Memory
    <3>3. ASSUME NEW s \in Services, Effect(q, file)[s] = {}, filtered[p][s] # {}
          PROVE  <<s, filtered[p][s]>> \in Memory(p)'
      <4>1. Updated(p, file)[s] = filtered[p][s]
        BY <3>1, <3>3 DEF Combined
      <4>2. <<s, filtered[p][s]>> \in Items(Updated(p, file))
        BY <3>3, <4>1 DEF Items, Named
      <4> QED BY <3>2, <4>2
    <3>4. Updated(p, file) \in Outcomes(q, file, Memory(p)')
      BY <1>1, <2>2, <3>1, <3>3, Leftover
    <3>5. Items(Updated(p, file)) \subseteq Items(filtered[p]) \cup Left(q, file)
      BY <1>1, <3>1, Learned
    <3> QED BY <2>1, <3>2, <3>4, <3>5 DEF Memory
  <2>4. CASE ~Last(op[p], file)
    <3> HIDE DEF q
    <3>1. Memory(p)' = Memory(p)
      BY <1>2, <2>4 DEF Memory
    <3>2. Updated(p, file) \in Outcomes(q, file, Memory(p)')
      BY <2>2, <2>4 DEF Outcomes, Registries
    <3> QED BY <2>1, <3>1, <3>2
  <2> QED BY <2>3, <2>4
<1> QED BY <1>1, <1>2, <1>3, <1>4 DEF Busy

LEMMA ForgetLearns ==
  ASSUME Undisturbed, IInv, NEW p \in Plays, ForgetServices(p)
  PROVE  /\ pc[p] = "clean" /\ Request(p) = Keep(op[p].keep)
         /\ file' \in Outcomes(Request(p), file, Memory(p))
         /\ Memory(p)' \subseteq Memory(p) \cup Left(Request(p), file)
<1> DEFINE q == Keep(op[p].keep)
<1>1. pc[p] = "clean" /\ file \in Registries /\ kept[p] \in Registries /\ TypeOK
  BY DEF ForgetServices, IInv, Works, TypeOK
<1>2. Request(p) = q
  BY <1>1 DEF Request
<1>3. /\ Effect(q, file) \in Registries /\ q.kind # "register"
      /\ Remaining(p) = Combined(kept[p], Effect(q, file))
      /\ Unwanted(op[p], data[p]) = {} => file = Effect(q, file)
  BY <1>1, CleanupIsEffect
<1> HIDE DEF q
<1>4. CASE Unwanted(op[p], data[p]) = {}
  <2>1. file' = file /\ filtered' = filtered /\ kept' = kept
    BY <1>4 DEF ForgetServices
  <2>2. file' \in Outcomes(q, file, Memory(p))
    BY <1>1, <1>3, <1>4, <2>1 DEF Outcomes, Registries
  <2>3. Memory(p)' = Memory(p)
    BY <2>1 DEF Memory
  <2> QED BY <1>1, <1>2, <2>2, <2>3 DEF q
<1>5. CASE Unwanted(op[p], data[p]) # {}
  <2>1. file' = Remaining(p) /\ filtered' = filtered /\ kept'[p] = Remaining(p)
    BY <1>1, <1>5, Maps DEF ForgetServices
  <2>2. \A s \in Services : kept[p][s] # {} => <<s, kept[p][s]>> \in Memory(p)
    BY DEF Memory, Items, Named
  <2>3. file' \in Outcomes(q, file, Memory(p))
    BY <1>1, <1>3, <2>1, <2>2, Leftover
  <2>4. Items(Remaining(p)) \subseteq Items(kept[p]) \cup Left(q, file)
    BY <1>1, <1>3, Learned
  <2>5. Memory(p)' = Items(filtered[p]) \cup Items(Remaining(p))
    BY <2>1 DEF Memory
  <2> QED BY <1>1, <1>2, <2>3, <2>4, <2>5 DEF Memory, q
<1> QED BY <1>4, <1>5

\* Nobody else writes the file between the read and the write of the play.
LEMMA DueNext == Undisturbed /\ IInv /\ [Next]_vars => (\A q \in Plays : Due(q)')
<1> SUFFICES ASSUME Undisturbed, IInv, [Next]_vars PROVE (\A q \in Plays : Due(q)')
  OBVIOUS
<1> USE DEF node, play, facts, hist
<1>0. TypeOK /\ \A p, q \in Plays : p = q
  BY DEF Undisturbed, IInv, Works
<1>1. ASSUME NEW p \in Plays, \E s \in Services : StartDeploy(p, s) PROVE (\A q \in Plays : Due(q)')
  BY <1>0, <1>1, Maps DEF StartDeploy, IInv, Due
<1>2. ASSUME NEW p \in Plays, \E s \in Services, c \in Containers : StartRemove(p, s, c) PROVE (\A q \in Plays : Due(q)')
  BY <1>0, <1>2, Maps DEF StartRemove, IInv, Due
<1>3. ASSUME NEW p \in Plays, \E K \in Keeps, o \in BOOLEAN : StartClean(p, K, o) PROVE (\A q \in Plays : Due(q)')
  BY <1>0, <1>3, Maps DEF StartClean, IInv, Due
<1>4. ASSUME NEW p \in Plays, RunContainer(p) PROVE (\A q \in Plays : Due(q)')
  BY <1>0, <1>4, Maps DEF RunContainer, IInv, Due
<1>5. ASSUME NEW p \in Plays, ReadState(p) PROVE (\A q \in Plays : Due(q)')
  <2>1. /\ pc[p] = "read" /\ pc'[p] = "write" /\ op'[p] = op[p] /\ file' = file
        /\ data'[p] = Updated(p, file)
    BY <1>0, <1>5, Maps DEF ReadState
  <2>2. data'[p] \in Outcomes(Request(p)', file', Memory(p)')
    BY <1>5, <2>1, ReadLearns
  <2> QED BY <1>0, <2>1, <2>2 DEF Due
<1>6. ASSUME NEW p \in Plays, WriteState(p) PROVE (\A q \in Plays : Due(q)')
  BY <1>0, <1>6, Maps DEF WriteState, IInv, Due
<1>7. ASSUME NEW p \in Plays, \E c \in Containers : RemoveContainer(p, c) PROVE (\A q \in Plays : Due(q)')
  <2>1. pc' = pc /\ op' = op /\ data' = data /\ file' = file /\ pc[p] # "write"
    BY <1>7 DEF RemoveContainer
  <2> QED BY <1>0, <2>1 DEF Due, IInv
<1>8. ASSUME NEW p \in Plays, \E c \in Containers : RemovalFails(p, c) PROVE (\A q \in Plays : Due(q)')
  BY <1>0, <1>8, Maps DEF RemovalFails, PlayFails, NewFacts, IInv, Due
<1>9. ASSUME NEW p \in Plays, ForgetServices(p) PROVE (\A q \in Plays : Due(q)')
  <2>1. pc'[p] \in {"find", "idle"} /\ (pc'[p] = "find" => data'[p] = file')
    BY <1>0, <1>9, Maps DEF ForgetServices, EndClean, IInv, Due
  <2> QED BY <1>0, <2>1 DEF Due
<1>10. ASSUME NEW p \in Plays, FindOrphans(p) PROVE (\A q \in Plays : Due(q)')
  BY <1>0, <1>10, Maps DEF FindOrphans, IInv, Due
<1>11. ASSUME NEW p \in Plays, OrphansRemoved(p) PROVE (\A q \in Plays : Due(q)')
  BY <1>0, <1>11, Maps DEF OrphansRemoved, EndClean, IInv, Due
<1>12. ASSUME NEW p \in Plays, UndefinedFact(p) PROVE (\A q \in Plays : Due(q)')
  BY <1>0, <1>12, Maps DEF UndefinedFact, PlayFails, NewFacts, IInv, Due
<1>13. ASSUME NEW p \in Plays, Fail(p) PROVE (\A q \in Plays : Due(q)')
  BY <1>0, <1>13, Maps DEF Fail, PlayFails, NewFacts, IInv, Due
<1>14. ASSUME NEW p \in Plays, NewRun(p) PROVE (\A q \in Plays : Due(q)')
  BY <1>0, <1>14, Maps DEF NewRun, NewFacts, IInv, Due
<1>15. CASE \E c \in Containers : Respawn(c)
  <2>1. pc' = pc /\ op' = op /\ data' = data /\ file' = file /\ filtered' = filtered /\ kept' = kept
    BY <1>15 DEF Respawn
  <2> QED BY <2>1 DEF IInv, Due, Request, Memory
<1>16. CASE UNCHANGED vars
  <2>1. pc' = pc /\ op' = op /\ data' = data /\ file' = file /\ filtered' = filtered /\ kept' = kept
    BY <1>16 DEF vars
  <2> QED BY <2>1 DEF IInv, Due, Request, Memory
<1> QED BY <1>1, <1>2, <1>3, <1>4, <1>5, <1>6, <1>7, <1>8, <1>9,
           <1>10, <1>11, <1>12, <1>13, <1>14, <1>15, <1>16 DEF Next

\* The two ways a registration changes the file, and what a cleanup leaves of it.
LEMMA WriteRegisters ==
  ASSUME Undisturbed, IInv, NEW p \in Plays, WriteState(p), op[p].kind = "deploy"
  PROVE  LET sv == op[p].service
             c == Program[sv][op[p].step]
         IN file' = [file EXCEPT ![sv] = IF op[p].step > 1 THEN file[sv] \cup {c} ELSE {c}]
<1> DEFINE sv == op[p].service
           cs == {Program[sv][op[p].step]}
           a == op[p].step > 1
<1>1. pc[p] = "write" /\ file' = data[p]
  BY DEF WriteState
<1>2. data[p] \in Outcomes(Register(sv, cs, a), file, Memory(p))
  BY <1>1 DEF IInv, Due, Request
<1>3. sv \in Services /\ a \in BOOLEAN /\ file \in Registries /\ cs \in SUBSET Containers
  BY <1>1, OpTypes, ProgramType DEF IInv, Works, TypeOK, Busy
<1>4. /\ data[p] = Effect(Register(sv, cs, a), file)
      /\ Effect(Register(sv, cs, a), file) = [file EXCEPT ![sv] = IF a THEN file[sv] \cup cs ELSE cs]
  <2> HIDE DEF sv, cs, a
  <2> QED BY <1>2, <1>3, RegisterOutcome, RegisterEffect
<1> QED BY <1>1, <1>4

LEMMA WriteRemoves ==
  ASSUME Undisturbed, IInv, NEW p \in Plays, WriteState(p), op[p].kind # "deploy"
  PROVE  LET left == [file EXCEPT ![op[p].service] = file[op[p].service] \ {op[p].container}]
         IN /\ op[p].kind = "remove"
            /\ \A s \in Services : \/ file'[s] = left[s]
                                   \/ left[s] = {} /\ <<s, file'[s]>> \in Memory(p)
<1> DEFINE sv == op[p].service
           c == op[p].container
<1>1. pc[p] = "write" /\ file' = data[p]
  BY DEF WriteState
<1>2. op[p].kind = "remove"
  BY <1>1 DEF IInv, Works, Busy
<1>3. data[p] \in Outcomes(Remove(sv, c), file, Memory(p))
  BY <1>1, <1>2 DEF IInv, Due, Request
<1>4. sv \in Services /\ file \in Registries
  BY <1>2, OpTypes DEF IInv, Works, TypeOK
<1>5. Effect(Remove(sv, c), file) = [file EXCEPT ![sv] = file[sv] \ {c}]
  <2> HIDE DEF sv, c
  <2> QED BY <1>4, RemoveEffect
<1>6. \A s \in Services :
        \/ data[p][s] = Effect(Remove(sv, c), file)[s]
        \/ Effect(Remove(sv, c), file)[s] = {} /\ <<s, data[p][s]>> \in Memory(p)
  BY <1>3, OutcomeLeaves
<1> QED BY <1>1, <1>2, <1>5, <1>6

LEMMA ForgetKeeps ==
  ASSUME Undisturbed, IInv, NEW p \in Plays, ForgetServices(p)
  PROVE  LET left == [s \in Services |-> IF s \in op[p].keep THEN file[s] ELSE {}]
         IN \A s \in Services : \/ file'[s] = left[s]
                                \/ left[s] = {} /\ <<s, file'[s]>> \in Memory(p)
<1>1. /\ pc[p] = "clean" /\ Request(p) = Keep(op[p].keep)
      /\ file' \in Outcomes(Request(p), file, Memory(p))
  BY ForgetLearns
<1>2. Effect(Keep(op[p].keep), file) = [s \in Services |-> IF s \in op[p].keep THEN file[s] ELSE {}]
  BY <1>1, CleanupIsEffect
<1>3. \A s \in Services :
        \/ file'[s] = Effect(Keep(op[p].keep), file)[s]
        \/ Effect(Keep(op[p].keep), file)[s] = {} /\ <<s, file'[s]>> \in Memory(p)
  BY <1>1, OutcomeLeaves
<1> QED BY <1>2, <1>3

\* The containers of a service, of which there are some, are no other service's.
LEMMA OwnContainers ==
  /\ \A s \in Services : ContainersOf(s) # {}
  /\ \A s, t \in Services : s # t => ContainersOf(s) \cap ContainersOf(t) = {}
  /\ \A s \in Services : \A i \in 1..Len(Program[s]) : Program[s][i] \in ContainersOf(s)
<1>1. ASSUME NEW s \in Services
      PROVE  DOMAIN Program[s] = 1..Len(Program[s]) /\ 1 \in DOMAIN Program[s]
  <2>1. Program[s] \in Seq(Containers) /\ Len(Program[s]) \in Nat \ {0}
    BY ProgramType
  <2> QED BY <2>1
<1>2. \A s, t \in Services : s # t => ContainersOf(s) \cap ContainersOf(t) = {}
  BY ConstantsAssumption
<1>3. \A s \in Services : \A i \in 1..Len(Program[s]) : Program[s][i] \in ContainersOf(s)
  BY <1>1 DEF ContainersOf
<1>4. \A s \in Services : Program[s][1] \in ContainersOf(s)
  BY <1>1 DEF ContainersOf
<1> QED BY <1>2, <1>3, <1>4

\* No update brings a container into a service that is not its own.
LEMMA OwnDicts ==
  /\ OwnOnly(Empty)
  /\ \A low, high : OwnOnly(low) /\ OwnOnly(high) => OwnOnly(Combined(low, high))
  /\ \A r, S : OwnOnly(r) => OwnOnly(Without(r, S))
  BY DEF OwnOnly, Empty, Combined, Without

LEMMA OwnMemory ==
  ASSUME IInv, NEW p \in Plays, NEW s \in Services, NEW cs, <<s, cs>> \in Memory(p)
  PROVE  cs \subseteq ContainersOf(s)
<1>1. cs = filtered[p][s] \/ cs = kept[p][s]
  BY DEF Memory, Items
<1> QED BY <1>1 DEF IInv, Own, OwnOnly

LEMMA OwnSame == Own /\ UNCHANGED <<file, filtered, kept>> => Own'
  BY DEF Own, OwnOnly

LEMMA OwnFacts ==
  ASSUME Undisturbed, IInv, NEW p \in Plays, NewFacts(p), file' = file
  PROVE  Own'
<1>1. filtered'[p] = Empty /\ kept'[p] = Empty /\ \A q \in Plays : q = p
  BY Maps DEF NewFacts, IInv, Works, Undisturbed
<1> QED BY <1>1, OwnDicts DEF Own, OwnOnly, IInv

LEMMA OwnNext == Undisturbed /\ IInv /\ [Next]_vars => Own'
<1> SUFFICES ASSUME Undisturbed, IInv, [Next]_vars PROVE Own'
  OBVIOUS
<1> USE DEF node, play, facts, hist
<1>0. TypeOK /\ Own /\ \A p, q \in Plays : p = q
  BY DEF Undisturbed, IInv, Works
<1>1. ASSUME NEW p \in Plays, \E s \in Services : StartDeploy(p, s) PROVE Own'
  BY <1>0, <1>1, OwnSame DEF StartDeploy
<1>2. ASSUME NEW p \in Plays, \E s \in Services, c \in Containers : StartRemove(p, s, c) PROVE Own'
  BY <1>0, <1>2, OwnSame DEF StartRemove
<1>3. ASSUME NEW p \in Plays, \E K \in Keeps, o \in BOOLEAN : StartClean(p, K, o) PROVE Own'
  BY <1>0, <1>3, OwnSame DEF StartClean
<1>4. ASSUME NEW p \in Plays, RunContainer(p) PROVE Own'
  BY <1>0, <1>4, OwnSame DEF RunContainer
<1>5. ASSUME NEW p \in Plays, ReadState(p) PROVE Own'
  <2>1. /\ file' = file /\ kept' = kept
        /\ filtered'[p] = filtered[p] \/ filtered'[p] = FilteredBy(op[p], file, filtered[p])
    BY <1>0, <1>5, Maps DEF ReadState
  <2>2. OwnOnly(FilteredBy(op[p], file, filtered[p]))
    BY <1>0, OwnDicts DEF FilteredBy, Own
  <2>3. OwnOnly(filtered'[p])
    BY <1>0, <2>1, <2>2 DEF Own
  <2> QED BY <1>0, <2>1, <2>3 DEF Own, OwnOnly
<1>6. ASSUME NEW p \in Plays, WriteState(p) PROVE Own'
  <2>1. CASE op[p].kind = "deploy"
    <3> DEFINE sv == op[p].service
               c == Program[sv][op[p].step]
    <3>1. sv \in Services /\ c \in ContainersOf(sv)
      BY <2>1, OpTypes, OwnContainers DEF IInv, Works, Busy
    <3>2. \A s \in Services : file'[s] = IF s # sv THEN file[s]
                                        ELSE IF op[p].step > 1 THEN file[sv] \cup {c} ELSE {c}
      BY <1>6, <2>1, <3>1, WriteRegisters DEF IInv, Works, TypeOK, Registries
    <3>3. OwnOnly(file)'
      BY <1>0, <3>1, <3>2 DEF Own, OwnOnly
    <3> QED BY <1>0, <1>6, <3>3 DEF WriteState, Own
  <2>2. CASE op[p].kind # "deploy"
    <3>1. op[p].service \in Services /\ file \in Registries
      BY <1>6, <2>2, WriteRemoves, OpTypes DEF IInv, Works, TypeOK
    <3> DEFINE left == [file EXCEPT ![op[p].service] = file[op[p].service] \ {op[p].container}]
    <3>2. \A s \in Services : left[s] \subseteq file[s]
      BY <3>1 DEF Registries
    <3>3. \A s \in Services : file'[s] = left[s] \/ <<s, file'[s]>> \in Memory(p)
      BY <1>6, <2>2, WriteRemoves
    <3> HIDE DEF left
    <3>4. \A s \in Services : file'[s] \subseteq ContainersOf(s)
      BY <1>0, <3>2, <3>3, OwnMemory DEF Own, OwnOnly
    <3>5. OwnOnly(file)'
      BY <3>4 DEF OwnOnly
    <3> QED BY <1>0, <1>6, <3>5 DEF WriteState, Own
  <2> QED BY <2>1, <2>2
<1>7. ASSUME NEW p \in Plays, \E c \in Containers : RemoveContainer(p, c) PROVE Own'
  BY <1>0, <1>7, OwnSame DEF RemoveContainer
<1>8. ASSUME NEW p \in Plays, \E c \in Containers : RemovalFails(p, c) PROVE Own'
  <2>1. NewFacts(p) /\ file' = file
    BY <1>8 DEF RemovalFails, PlayFails
  <2> QED BY <2>1, OwnFacts
<1>9. ASSUME NEW p \in Plays, ForgetServices(p) PROVE Own'
  <2>1. \A s \in Services : file'[s] \subseteq file[s] \/ <<s, file'[s]>> \in Memory(p)
    BY <1>9, ForgetKeeps
  <2>2. OwnOnly(file)'
    BY <1>0, <2>1, OwnMemory DEF Own, OwnOnly
  <2>3. filtered' = filtered /\ (kept'[p] = kept[p] \/ kept'[p] = file')
    BY <1>0, <1>9, Maps DEF ForgetServices
  <2>4. OwnOnly(kept'[p])
    BY <1>0, <2>2, <2>3 DEF Own, OwnOnly
  <2> QED BY <1>0, <2>2, <2>3, <2>4 DEF Own, OwnOnly
<1>10. ASSUME NEW p \in Plays, FindOrphans(p) PROVE Own'
  BY <1>0, <1>10, OwnSame DEF FindOrphans
<1>11. ASSUME NEW p \in Plays, OrphansRemoved(p) PROVE Own'
  BY <1>0, <1>11, OwnSame DEF OrphansRemoved
<1>12. ASSUME NEW p \in Plays, UndefinedFact(p) PROVE Own'
  <2>1. NewFacts(p) /\ file' = file
    BY <1>12 DEF UndefinedFact, PlayFails
  <2> QED BY <2>1, OwnFacts
<1>13. ASSUME NEW p \in Plays, Fail(p) PROVE Own'
  <2>1. NewFacts(p) /\ file' = file
    BY <1>13 DEF Fail, PlayFails
  <2> QED BY <2>1, OwnFacts
<1>14. ASSUME NEW p \in Plays, NewRun(p) PROVE Own'
  <2>1. NewFacts(p) /\ file' = file
    BY <1>14 DEF NewRun
  <2> QED BY <2>1, OwnFacts
<1>15. CASE \E c \in Containers : Respawn(c)
  BY <1>0, <1>15, OwnSame DEF Respawn
<1>16. CASE UNCHANGED vars
  BY <1>0, <1>16, OwnSame DEF vars
<1> QED BY <1>1, <1>2, <1>3, <1>4, <1>5, <1>6, <1>7, <1>8, <1>9,
           <1>10, <1>11, <1>12, <1>13, <1>14, <1>15, <1>16 DEF Next

\* The role registers its containers one after the other.
LEMMA BuiltNext == Undisturbed /\ IInv /\ [Next]_vars => (\A q \in Plays : Built(q)')
<1> SUFFICES ASSUME Undisturbed, IInv, [Next]_vars PROVE (\A q \in Plays : Built(q)')
  OBVIOUS
<1> USE DEF node, play, facts, hist
<1>0. TypeOK /\ \A p, q \in Plays : p = q
  BY DEF Undisturbed, IInv, Works
<1>1. ASSUME NEW p \in Plays, \E s \in Services : StartDeploy(p, s) PROVE (\A q \in Plays : Built(q)')
  <2> PICK s \in Services : StartDeploy(p, s)
    BY <1>1
  <2>1. /\ pc'[p] = "run" /\ op'[p] = [kind |-> "deploy", service |-> s, step |-> 1]
        /\ complete' = complete \ {s}
    BY <1>0, Maps DEF StartDeploy
  <2> QED BY <1>0, <2>1 DEF Built
<1>2. ASSUME NEW p \in Plays, \E s \in Services, c \in Containers : StartRemove(p, s, c) PROVE (\A q \in Plays : Built(q)')
  <2> PICK s \in Services, c \in Containers : StartRemove(p, s, c)
    BY <1>2
  <2>1. /\ pc'[p] = "read" /\ op'[p] = [kind |-> "remove", service |-> s, container |-> c]
        /\ complete' = complete \ {s}
    BY <1>0, Maps DEF StartRemove
  <2> QED BY <1>0, <2>1 DEF Built
<1>3. ASSUME NEW p \in Plays, \E K \in Keeps, o \in BOOLEAN : StartClean(p, K, o) PROVE (\A q \in Plays : Built(q)')
  <2> PICK K \in Keeps, o \in BOOLEAN : StartClean(p, K, o)
    BY <1>3
  <2>1. pc'[p] = "clean" /\ op'[p] = [kind |-> "clean", keep |-> K, orphans |-> o]
    BY <1>0, Maps DEF StartClean
  <2>2. complete' = complete \ (Named(file) \ K)
    BY DEF StartClean, Unwanted
  <2>3. complete \subseteq Named(file)
    BY <1>0, OwnContainers DEF IInv, CompleteRegistered, Named, TypeOK
  <2> QED BY <1>0, <2>1, <2>2, <2>3 DEF Built
<1>4. ASSUME NEW p \in Plays, RunContainer(p) PROVE (\A q \in Plays : Built(q)')
  <2>1. /\ pc[p] = "run" /\ pc'[p] = "read" /\ complete' = complete /\ file' = file /\ op'[p] = op[p]
    BY <1>0, <1>4, Maps DEF RunContainer
  <2> QED BY <1>0, <2>1 DEF Built, IInv, Works, Busy
<1>5. ASSUME NEW p \in Plays, ReadState(p) PROVE (\A q \in Plays : Built(q)')
  <2>1. /\ pc[p] = "read" /\ pc'[p] = "write" /\ complete' = complete /\ file' = file /\ op'[p] = op[p]
    BY <1>0, <1>5, Maps DEF ReadState
  <2> QED BY <1>0, <2>1 DEF Built, IInv, Works, Busy
<1>6. ASSUME NEW p \in Plays, WriteState(p) PROVE (\A q \in Plays : Built(q)')
  <2> DEFINE sv == op[p].service
             k == op[p].step
             more == op[p].kind = "deploy" /\ k < Len(Program[sv])
  <2>1. CASE more
    <3>1. op[p] \in [kind : {"deploy"}, service : Services, step : Nat \ {0}]
      BY <1>0, <2>1 DEF TypeOK, Ops, NoOp
    <3>2. pc'[p] = "run" /\ op'[p] = [op[p] EXCEPT !.step = @ + 1] /\ complete' = complete
      BY <1>0, <1>6, <2>1, Maps DEF WriteState
    <3>3. op'[p].kind = "deploy" /\ op'[p].service = sv /\ op'[p].step = k + 1
      BY <3>1, <3>2
    <3>4. k \in Nat \ {0} /\ sv \in Services
      BY <3>1
    <3>5. /\ sv \notin complete
          /\ k > 1 => file[sv] = {Program[sv][i] : i \in 1..(k - 1)}
      BY <1>6, <2>1 DEF WriteState, IInv, Built, Before
    <3>6. file'[sv] = IF k > 1 THEN file[sv] \cup {Program[sv][k]} ELSE {Program[sv][k]}
      <4>1. file' = [file EXCEPT ![sv] = IF k > 1 THEN file[sv] \cup {Program[sv][k]} ELSE {Program[sv][k]}]
        BY <1>6, <2>1, WriteRegisters
      <4>2. sv \in DOMAIN file
        BY <1>0, <3>4 DEF TypeOK, Registries
      <4> HIDE DEF sv, k, more
      <4> QED BY <4>1, <4>2
    <3>7. file'[sv] = {Program[sv][i] : i \in 1..k}
      <4>1. CASE k > 1
        <5>1. 1..k = (1..(k - 1)) \cup {k}
          BY <3>4, <4>1
        <5> QED BY <3>5, <3>6, <4>1, <5>1
      <4>2. CASE k = 1
        BY <3>6, <4>2
      <4> QED BY <3>4, <4>1, <4>2
    <3>8. Before(op'[p]) = {Program[sv][i] : i \in 1..k}
      <4>1. op'[p].step - 1 = k
        BY <3>3, <3>4
      <4> QED BY <3>3, <4>1 DEF Before
    <3>9. file'[sv] = Before(op'[p])
      BY <3>7, <3>8
    <3> HIDE DEF sv, k, more
    <3> QED BY <1>0, <3>2, <3>3, <3>5, <3>9 DEF Built
  <2>2. CASE ~more
    <3>1. pc'[p] = "idle"
      BY <1>0, <1>6, <2>2, Maps DEF WriteState
    <3> QED BY <1>0, <3>1 DEF Built
  <2> QED BY <2>1, <2>2
<1>7. ASSUME NEW p \in Plays, \E c \in Containers : RemoveContainer(p, c) PROVE (\A q \in Plays : Built(q)')
  <2>1. pc' = pc /\ op' = op /\ complete' = complete /\ file' = file
    BY <1>7 DEF RemoveContainer
  <2> QED BY <2>1 DEF IInv, Built
<1>8. ASSUME NEW p \in Plays, \E c \in Containers : RemovalFails(p, c) PROVE (\A q \in Plays : Built(q)')
  <2>1. pc'[p] = "idle"
    BY <1>0, <1>8, Maps DEF RemovalFails, PlayFails, NewFacts
  <2> QED BY <1>0, <2>1 DEF Built
<1>9. ASSUME NEW p \in Plays, ForgetServices(p) PROVE (\A q \in Plays : Built(q)')
  <2>1. /\ pc[p] = "clean" /\ complete' = complete
        /\ pc'[p] = "idle" \/ (pc'[p] = "find" /\ op'[p] = op[p])
    BY <1>0, <1>9, Maps DEF ForgetServices, EndClean
  <2> QED BY <1>0, <2>1 DEF Built, IInv, Works, Busy
<1>10. ASSUME NEW p \in Plays, FindOrphans(p) PROVE (\A q \in Plays : Built(q)')
  <2>1. /\ pc[p] = "find" /\ complete' = complete /\ pc'[p] = "orphans" /\ op'[p] = op[p]
    BY <1>0, <1>10, Maps DEF FindOrphans
  <2> QED BY <1>0, <2>1 DEF Built, IInv
<1>11. ASSUME NEW p \in Plays, OrphansRemoved(p) PROVE (\A q \in Plays : Built(q)')
  <2>1. pc'[p] = "idle"
    BY <1>0, <1>11, Maps DEF OrphansRemoved, EndClean
  <2> QED BY <1>0, <2>1 DEF Built
<1>12. ASSUME NEW p \in Plays, UndefinedFact(p) PROVE (\A q \in Plays : Built(q)')
  <2>1. pc'[p] = "idle"
    BY <1>0, <1>12, Maps DEF UndefinedFact, PlayFails, NewFacts
  <2> QED BY <1>0, <2>1 DEF Built
<1>13. ASSUME NEW p \in Plays, Fail(p) PROVE (\A q \in Plays : Built(q)')
  <2>1. pc'[p] = "idle"
    BY <1>0, <1>13, Maps DEF Fail, PlayFails, NewFacts
  <2> QED BY <1>0, <2>1 DEF Built
<1>14. ASSUME NEW p \in Plays, NewRun(p) PROVE (\A q \in Plays : Built(q)')
  <2>1. pc'[p] = "idle"
    BY <1>0, <1>14, Maps DEF NewRun, NewFacts
  <2> QED BY <1>0, <2>1 DEF Built
<1>15. CASE \E c \in Containers : Respawn(c)
  <2>1. pc' = pc /\ op' = op /\ complete' = complete /\ file' = file
    BY <1>15 DEF Respawn
  <2> QED BY <2>1 DEF IInv, Built
<1>16. CASE UNCHANGED vars
  <2>1. pc' = pc /\ op' = op /\ complete' = complete /\ file' = file
    BY <1>16 DEF vars
  <2> QED BY <2>1 DEF IInv, Built
<1> QED BY <1>1, <1>2, <1>3, <1>4, <1>5, <1>6, <1>7, <1>8, <1>9,
           <1>10, <1>11, <1>12, <1>13, <1>14, <1>15, <1>16 DEF Next

\* The end of a role leaves its service registered in full.
LEMMA CompleteNext == Undisturbed /\ IInv /\ [Next]_vars => CompleteRegistered'
<1> SUFFICES ASSUME Undisturbed, IInv, [Next]_vars PROVE CompleteRegistered'
  OBVIOUS
<1> USE DEF node, play, facts, hist
<1>0. TypeOK /\ \A p, q \in Plays : p = q
  BY DEF Undisturbed, IInv, Works
<1>1. ASSUME NEW p \in Plays, \E s \in Services : StartDeploy(p, s) PROVE CompleteRegistered'
  <2>1. file' = file /\ complete' \subseteq complete
    BY <1>1 DEF StartDeploy
  <2> QED BY <2>1 DEF IInv, CompleteRegistered
<1>2. ASSUME NEW p \in Plays, \E s \in Services, c \in Containers : StartRemove(p, s, c) PROVE CompleteRegistered'
  <2>1. file' = file /\ complete' \subseteq complete
    BY <1>2 DEF StartRemove
  <2> QED BY <2>1 DEF IInv, CompleteRegistered
<1>3. ASSUME NEW p \in Plays, \E K \in Keeps, o \in BOOLEAN : StartClean(p, K, o) PROVE CompleteRegistered'
  <2>1. file' = file /\ complete' \subseteq complete
    BY <1>3 DEF StartClean
  <2> QED BY <2>1 DEF IInv, CompleteRegistered
<1>4. ASSUME NEW p \in Plays, RunContainer(p) PROVE CompleteRegistered'
  <2>1. file' = file /\ complete' \subseteq complete
    BY <1>4 DEF RunContainer
  <2> QED BY <2>1 DEF IInv, CompleteRegistered
<1>5. ASSUME NEW p \in Plays, ReadState(p) PROVE CompleteRegistered'
  <2>1. file' = file /\ complete' \subseteq complete
    BY <1>5 DEF ReadState
  <2> QED BY <2>1 DEF IInv, CompleteRegistered
<1>6. ASSUME NEW p \in Plays, WriteState(p) PROVE CompleteRegistered'
  <2> DEFINE sv == op[p].service
             k == op[p].step
             more == op[p].kind = "deploy" /\ k < Len(Program[sv])
  <2>1. CASE op[p].kind = "deploy"
    <3>1. /\ sv \in Services /\ k \in 1..Len(Program[sv]) /\ Len(Program[sv]) \in Nat
          /\ sv \notin complete
          /\ k > 1 => file[sv] = Before(op[p])
      BY <1>6, <2>1, OpTypes, ProgramType DEF WriteState, IInv, Works, Busy, Built
    <3>2. \A s \in Services : file'[s] = IF s # sv THEN file[s]
                                        ELSE IF k > 1 THEN file[sv] \cup {Program[sv][k]} ELSE {Program[sv][k]}
      BY <1>6, <2>1, <3>1, WriteRegisters DEF IInv, Works, TypeOK, Registries
    <3>3. CASE k < Len(Program[sv])
      <4>1. complete' = complete
        BY <1>6, <2>1, <3>3 DEF WriteState
      <4> HIDE DEF sv, k
      <4> QED BY <1>0, <3>1, <3>2, <4>1 DEF IInv, CompleteRegistered, TypeOK
    <3>4. CASE k = Len(Program[sv])
      <4>1. complete' = complete \cup {sv}
        BY <1>6, <2>1, <3>4 DEF WriteState
      <4>2. ContainersOf(sv) = {Program[sv][i] : i \in 1..k}
        <5>1. DOMAIN Program[sv] = 1..k
          BY <3>1, <3>4, ProgramType
        <5> QED BY <5>1 DEF ContainersOf
      <4>3. file'[sv] = {Program[sv][i] : i \in 1..k}
        <5>1. CASE k > 1
          <6>1. 1..k = (1..(k - 1)) \cup {k}
            BY <3>1, <5>1
          <6>2. file[sv] = {Program[sv][i] : i \in 1..(k - 1)}
            BY <3>1, <5>1 DEF Before
          <6>3. file'[sv] = file[sv] \cup {Program[sv][k]}
            BY <3>1, <3>2, <5>1
          <6> QED BY <6>1, <6>2, <6>3
        <5>2. CASE k = 1
          <6>1. file'[sv] = {Program[sv][k]}
            BY <3>1, <3>2, <5>2
          <6> QED BY <6>1, <5>2
        <5> QED BY <3>1, <5>1, <5>2
      <4> HIDE DEF sv, k
      <4> QED BY <1>0, <3>1, <3>2, <4>1, <4>2, <4>3 DEF IInv, CompleteRegistered, TypeOK
    <3> QED BY <3>1, <3>3, <3>4
  <2>2. CASE op[p].kind # "deploy"
    <3>1. sv \in Services /\ sv \notin complete /\ complete' = complete
      BY <1>6, <2>2, WriteRemoves, OpTypes DEF WriteState, IInv, Works, Built
    <3> DEFINE left == [file EXCEPT ![sv] = file[sv] \ {op[p].container}]
    <3>2. \A s \in Services : s # sv => left[s] = file[s]
      BY <1>0, <3>1 DEF TypeOK, Registries
    <3>3. \A s \in Services : file'[s] = left[s] \/ left[s] = {}
      BY <1>6, <2>2, WriteRemoves
    <3>4. \A s \in complete : s \in Services /\ file[s] # {}
      BY <1>0, OwnContainers DEF IInv, CompleteRegistered, TypeOK
    <3> HIDE DEF left, sv
    <3> QED BY <3>1, <3>2, <3>3, <3>4 DEF IInv, CompleteRegistered
  <2> QED BY <2>1, <2>2
<1>7. ASSUME NEW p \in Plays, \E c \in Containers : RemoveContainer(p, c) PROVE CompleteRegistered'
  <2>1. file' = file /\ complete' \subseteq complete
    BY <1>7 DEF RemoveContainer
  <2> QED BY <2>1 DEF IInv, CompleteRegistered
<1>8. ASSUME NEW p \in Plays, \E c \in Containers : RemovalFails(p, c) PROVE CompleteRegistered'
  <2>1. file' = file /\ complete' \subseteq complete
    BY <1>8 DEF RemovalFails, PlayFails, NewFacts
  <2> QED BY <2>1 DEF IInv, CompleteRegistered
<1>9. ASSUME NEW p \in Plays, ForgetServices(p) PROVE CompleteRegistered'
  <2>1. complete' = complete /\ complete \subseteq op[p].keep
    BY <1>9 DEF ForgetServices, IInv, Built
  <2>2. \A s \in complete : s \in Services /\ file[s] # {}
    BY <1>0, OwnContainers DEF IInv, CompleteRegistered, TypeOK
  <2>3. \A s \in complete : file'[s] = file[s]
    BY <1>9, <2>1, <2>2, ForgetKeeps
  <2> QED BY <2>1, <2>3 DEF IInv, CompleteRegistered
<1>10. ASSUME NEW p \in Plays, FindOrphans(p) PROVE CompleteRegistered'
  <2>1. file' = file /\ complete' \subseteq complete
    BY <1>10 DEF FindOrphans
  <2> QED BY <2>1 DEF IInv, CompleteRegistered
<1>11. ASSUME NEW p \in Plays, OrphansRemoved(p) PROVE CompleteRegistered'
  <2>1. file' = file /\ complete' \subseteq complete
    BY <1>11 DEF OrphansRemoved, EndClean
  <2> QED BY <2>1 DEF IInv, CompleteRegistered
<1>12. ASSUME NEW p \in Plays, UndefinedFact(p) PROVE CompleteRegistered'
  <2>1. file' = file /\ complete' \subseteq complete
    BY <1>12 DEF UndefinedFact, PlayFails, NewFacts
  <2> QED BY <2>1 DEF IInv, CompleteRegistered
<1>13. ASSUME NEW p \in Plays, Fail(p) PROVE CompleteRegistered'
  <2>1. file' = file /\ complete' \subseteq complete
    BY <1>13 DEF Fail, PlayFails, NewFacts
  <2> QED BY <2>1 DEF IInv, CompleteRegistered
<1>14. ASSUME NEW p \in Plays, NewRun(p) PROVE CompleteRegistered'
  <2>1. file' = file /\ complete' \subseteq complete
    BY <1>14 DEF NewRun, NewFacts
  <2> QED BY <2>1 DEF IInv, CompleteRegistered
<1>15. CASE \E c \in Containers : Respawn(c)
  <2>1. file' = file /\ complete' = complete
    BY <1>15 DEF Respawn
  <2> QED BY <2>1 DEF IInv, CompleteRegistered
<1>16. CASE UNCHANGED vars
  <2>1. file' = file /\ complete' = complete
    BY <1>16 DEF vars
  <2> QED BY <2>1 DEF IInv, CompleteRegistered
<1> QED BY <1>1, <1>2, <1>3, <1>4, <1>5, <1>6, <1>7, <1>8, <1>9,
           <1>10, <1>11, <1>12, <1>13, <1>14, <1>15, <1>16 DEF Next

\* What a cleanup puts on its list is no container of a complete service it keeps.
LEMMA SparedNext == Undisturbed /\ IInv /\ [Next]_vars => (\A q \in Plays : Spared(q)')
<1> SUFFICES ASSUME Undisturbed, IInv, [Next]_vars PROVE (\A q \in Plays : Spared(q)')
  OBVIOUS
<1> USE DEF node, play, facts, hist
<1>0. TypeOK /\ \A p, q \in Plays : p = q
  BY DEF Undisturbed, IInv, Works
<1>1. ASSUME NEW p \in Plays, \E s \in Services : StartDeploy(p, s) PROVE (\A q \in Plays : Spared(q)')
  <2>1. pc'[p] \notin {"clean", "orphans"}
    BY <1>0, <1>1, Maps DEF StartDeploy
  <2> QED BY <1>0, <2>1 DEF Spared
<1>2. ASSUME NEW p \in Plays, \E s \in Services, c \in Containers : StartRemove(p, s, c) PROVE (\A q \in Plays : Spared(q)')
  <2>1. pc'[p] \notin {"clean", "orphans"}
    BY <1>0, <1>2, Maps DEF StartRemove
  <2> QED BY <1>0, <2>1 DEF Spared
<1>3. ASSUME NEW p \in Plays, \E K \in Keeps, o \in BOOLEAN : StartClean(p, K, o) PROVE (\A q \in Plays : Spared(q)')
  <2> PICK K \in Keeps, orphans \in BOOLEAN : StartClean(p, K, orphans)
    BY <1>3
  <2> DEFINE o == [kind |-> "clean", keep |-> K, orphans |-> orphans]
  <2>1. op'[p] = o /\ todo'[p] = Doomed(o, file) /\ complete' \subseteq complete
    BY <1>0, Maps DEF StartClean
  <2>2. o.keep = K
    OBVIOUS
  <2>3. ASSUME NEW s \in K \cap Services PROVE Doomed(o, file) \cap ContainersOf(s) = {}
    <3>1. ASSUME NEW t \in Named(file) \ K PROVE file[t] \cap ContainersOf(s) = {}
      <4>1. t \in Services /\ t # s
        BY <2>3, <3>1 DEF Named
      <4>2. file[t] \subseteq ContainersOf(t)
        BY <4>1 DEF IInv, Own, OwnOnly
      <4> QED BY <2>3, <4>1, <4>2, OwnContainers
    <3>2. Doomed(o, file) = UNION {file[t] : t \in Named(file) \ K}
      BY <2>2 DEF Doomed, Unwanted
    <3> QED BY <3>1, <3>2
  <2> HIDE DEF o
  <2> QED BY <1>0, <2>1, <2>2, <2>3 DEF Spared, TypeOK
<1>4. ASSUME NEW p \in Plays, RunContainer(p) PROVE (\A q \in Plays : Spared(q)')
  <2>1. pc'[p] \notin {"clean", "orphans"}
    BY <1>0, <1>4, Maps DEF RunContainer
  <2> QED BY <1>0, <2>1 DEF Spared
<1>5. ASSUME NEW p \in Plays, ReadState(p) PROVE (\A q \in Plays : Spared(q)')
  <2>1. pc'[p] \notin {"clean", "orphans"}
    BY <1>0, <1>5, Maps DEF ReadState
  <2> QED BY <1>0, <2>1 DEF Spared
<1>6. ASSUME NEW p \in Plays, WriteState(p) PROVE (\A q \in Plays : Spared(q)')
  <2>1. pc'[p] \notin {"clean", "orphans"}
    BY <1>0, <1>6, Maps DEF WriteState
  <2> QED BY <1>0, <2>1 DEF Spared
<1>7. ASSUME NEW p \in Plays, \E c \in Containers : RemoveContainer(p, c) PROVE (\A q \in Plays : Spared(q)')
  <2>1. /\ pc' = pc /\ op' = op /\ complete' = complete /\ todo'[p] \subseteq todo[p]
    BY <1>0, <1>7, Maps DEF RemoveContainer
  <2> QED BY <1>0, <2>1 DEF Spared, IInv
<1>8. ASSUME NEW p \in Plays, \E c \in Containers : RemovalFails(p, c) PROVE (\A q \in Plays : Spared(q)')
  <2>1. pc'[p] \notin {"clean", "orphans"}
    BY <1>0, <1>8, Maps DEF RemovalFails, PlayFails, NewFacts
  <2> QED BY <1>0, <2>1 DEF Spared
<1>9. ASSUME NEW p \in Plays, ForgetServices(p) PROVE (\A q \in Plays : Spared(q)')
  <2>1. pc'[p] \notin {"clean", "orphans"}
    BY <1>0, <1>9, Maps DEF ForgetServices, EndClean
  <2> QED BY <1>0, <2>1 DEF Spared
<1>10. ASSUME NEW p \in Plays, FindOrphans(p) PROVE (\A q \in Plays : Spared(q)')
  <2>1. /\ pc[p] = "find" /\ op'[p] = op[p] /\ todo'[p] = present \ Tracked(data[p])
        /\ complete' = complete
    BY <1>0, <1>10, Maps DEF FindOrphans
  <2>2. data[p] = file
    BY <2>1 DEF IInv, Due
  <2>3. \A s \in complete : ContainersOf(s) \subseteq Tracked(file)
    BY <1>0 DEF IInv, CompleteRegistered, Tracked, TypeOK
  <2> QED BY <1>0, <2>1, <2>2, <2>3 DEF Spared
<1>11. ASSUME NEW p \in Plays, OrphansRemoved(p) PROVE (\A q \in Plays : Spared(q)')
  <2>1. pc'[p] \notin {"clean", "orphans"}
    BY <1>0, <1>11, Maps DEF OrphansRemoved, EndClean
  <2> QED BY <1>0, <2>1 DEF Spared
<1>12. ASSUME NEW p \in Plays, UndefinedFact(p) PROVE (\A q \in Plays : Spared(q)')
  <2>1. pc'[p] \notin {"clean", "orphans"}
    BY <1>0, <1>12, Maps DEF UndefinedFact, PlayFails, NewFacts
  <2> QED BY <1>0, <2>1 DEF Spared
<1>13. ASSUME NEW p \in Plays, Fail(p) PROVE (\A q \in Plays : Spared(q)')
  <2>1. pc'[p] \notin {"clean", "orphans"}
    BY <1>0, <1>13, Maps DEF Fail, PlayFails, NewFacts
  <2> QED BY <1>0, <2>1 DEF Spared
<1>14. ASSUME NEW p \in Plays, NewRun(p) PROVE (\A q \in Plays : Spared(q)')
  <2>1. pc'[p] \notin {"clean", "orphans"}
    BY <1>0, <1>14, Maps DEF NewRun, NewFacts
  <2> QED BY <1>0, <2>1 DEF Spared
<1>15. CASE \E c \in Containers : Respawn(c)
  <2>1. pc' = pc /\ op' = op /\ complete' = complete /\ todo' = todo
    BY <1>15 DEF Respawn
  <2> QED BY <2>1 DEF IInv, Spared
<1>16. CASE UNCHANGED vars
  <2>1. pc' = pc /\ op' = op /\ complete' = complete /\ todo' = todo
    BY <1>16 DEF vars
  <2> QED BY <2>1 DEF IInv, Spared
<1> QED BY <1>1, <1>2, <1>3, <1>4, <1>5, <1>6, <1>7, <1>8, <1>9,
           <1>10, <1>11, <1>12, <1>13, <1>14, <1>15, <1>16 DEF Next

\* What a cleanup takes off its list is removed.
LEMMA ReturnedNext == Undisturbed /\ IInv /\ [Next]_vars => (\A q \in Plays : Returned(q)')
<1> SUFFICES ASSUME Undisturbed, IInv, [Next]_vars PROVE (\A q \in Plays : Returned(q)')
  OBVIOUS
<1> USE DEF node, play, facts, hist
<1>0. TypeOK /\ \A p, q \in Plays : p = q
  BY DEF Undisturbed, IInv, Works
<1>1. ASSUME NEW p \in Plays, \E s \in Services : StartDeploy(p, s) PROVE (\A q \in Plays : Returned(q)')
  <2>1. /\ pc[p] \in {"idle", "read", "write"}
        /\ todo' = todo /\ target' = target
    BY <1>0, <1>1, Maps DEF StartDeploy
  <2>2. todo'[p] = {} /\ target'[p] = {}
    BY <2>1 DEF IInv, Returned
  <2> QED BY <1>0, <2>2 DEF Returned
<1>2. ASSUME NEW p \in Plays, \E s \in Services, c \in Containers : StartRemove(p, s, c) PROVE (\A q \in Plays : Returned(q)')
  <2>1. /\ pc[p] \in {"idle", "read", "write"}
        /\ todo' = todo /\ target' = target
    BY <1>0, <1>2, Maps DEF StartRemove
  <2>2. todo'[p] = {} /\ target'[p] = {}
    BY <2>1 DEF IInv, Returned
  <2> QED BY <1>0, <2>2 DEF Returned
<1>3. ASSUME NEW p \in Plays, \E K \in Keeps, o \in BOOLEAN : StartClean(p, K, o) PROVE (\A q \in Plays : Returned(q)')
  <2>1. pc'[p] = "clean" /\ todo'[p] = target'[p]
    BY <1>0, <1>3, Maps DEF StartClean
  <2> QED BY <1>0, <2>1 DEF Returned
<1>4. ASSUME NEW p \in Plays, RunContainer(p) PROVE (\A q \in Plays : Returned(q)')
  <2>1. pc[p] = "run" /\ todo' = todo /\ target' = target
    BY <1>4 DEF RunContainer
  <2>2. todo'[p] = {} /\ target'[p] = {}
    BY <2>1 DEF IInv, Returned
  <2> QED BY <1>0, <2>2 DEF Returned
<1>5. ASSUME NEW p \in Plays, ReadState(p) PROVE (\A q \in Plays : Returned(q)')
  <2>1. /\ pc[p] \in {"idle", "read", "write"}
        /\ todo' = todo /\ target' = target
    BY <1>0, <1>5, Maps DEF ReadState
  <2>2. todo'[p] = {} /\ target'[p] = {}
    BY <2>1 DEF IInv, Returned
  <2> QED BY <1>0, <2>2 DEF Returned
<1>6. ASSUME NEW p \in Plays, WriteState(p) PROVE (\A q \in Plays : Returned(q)')
  <2>1. /\ pc[p] \in {"idle", "read", "write"}
        /\ todo' = todo /\ target' = target
    BY <1>0, <1>6, Maps DEF WriteState
  <2>2. todo'[p] = {} /\ target'[p] = {}
    BY <2>1 DEF IInv, Returned
  <2> QED BY <1>0, <2>2 DEF Returned
<1>7. ASSUME NEW p \in Plays, \E c \in Containers : RemoveContainer(p, c) PROVE (\A q \in Plays : Returned(q)')
  <2> PICK c \in Containers : RemoveContainer(p, c)
    BY <1>7
  <2>1. /\ pc[p] \in {"clean", "orphans"} /\ pc' = pc /\ target' = target /\ todo'[p] = todo[p] \ {c}
        /\ present' = present \ {c}
        /\ \A d \in Containers \ {c} : unit'[d] = unit[d]
    BY <1>0, Maps DEF RemoveContainer, Surviving, TypeOK
  <2> QED BY <1>0, <2>1 DEF Returned, IInv, TypeOK
<1>8. ASSUME NEW p \in Plays, \E c \in Containers : RemovalFails(p, c) PROVE (\A q \in Plays : Returned(q)')
  <2>1. todo'[p] = {} /\ target'[p] = {}
    BY <1>0, <1>8, Maps DEF RemovalFails, PlayFails, NewFacts
  <2> QED BY <1>0, <2>1 DEF Returned
<1>9. ASSUME NEW p \in Plays, ForgetServices(p) PROVE (\A q \in Plays : Returned(q)')
  <2>1. /\ pc[p] = "clean" /\ todo' = todo /\ todo[p] = {} /\ present' = present /\ unit' = unit
    BY <1>9 DEF ForgetServices
  <2>2. target'[p] = {} \/ (target'[p] = target[p] /\ pc'[p] = "find")
    BY <1>0, <1>9, Maps DEF ForgetServices, EndClean
  <2> QED BY <1>0, <2>1, <2>2 DEF Returned, IInv
<1>10. ASSUME NEW p \in Plays, FindOrphans(p) PROVE (\A q \in Plays : Returned(q)')
  <2>1. /\ pc[p] = "find" /\ pc'[p] = "orphans" /\ target'[p] = target[p] \cup todo'[p]
        /\ present' = present /\ unit' = unit
    BY <1>0, <1>10, Maps DEF FindOrphans
  <2> QED BY <1>0, <2>1 DEF Returned, IInv
<1>11. ASSUME NEW p \in Plays, OrphansRemoved(p) PROVE (\A q \in Plays : Returned(q)')
  <2>1. todo' = todo /\ todo[p] = {} /\ target'[p] = {}
    BY <1>0, <1>11, Maps DEF OrphansRemoved, EndClean
  <2> QED BY <1>0, <2>1 DEF Returned
<1>12. ASSUME NEW p \in Plays, UndefinedFact(p) PROVE (\A q \in Plays : Returned(q)')
  <2>1. todo'[p] = {} /\ target'[p] = {}
    BY <1>0, <1>12, Maps DEF UndefinedFact, PlayFails, NewFacts
  <2> QED BY <1>0, <2>1 DEF Returned
<1>13. ASSUME NEW p \in Plays, Fail(p) PROVE (\A q \in Plays : Returned(q)')
  <2>1. todo'[p] = {} /\ target'[p] = {}
    BY <1>0, <1>13, Maps DEF Fail, PlayFails, NewFacts
  <2> QED BY <1>0, <2>1 DEF Returned
<1>14. ASSUME NEW p \in Plays, NewRun(p) PROVE (\A q \in Plays : Returned(q)')
  <2>1. /\ pc[p] \in {"idle", "read", "write"}
        /\ todo' = todo /\ target' = target
    BY <1>0, <1>14, Maps DEF NewRun, NewFacts
  <2>2. todo'[p] = {} /\ target'[p] = {}
    BY <2>1 DEF IInv, Returned
  <2> QED BY <1>0, <2>2 DEF Returned
<1>15. CASE \E c \in Containers : Respawn(c)
  <2> PICK c \in Containers : Respawn(c)
    BY <1>15
  <2>1. /\ pc' = pc /\ target' = target /\ todo' = todo /\ present' = present \cup {c} /\ unit' = unit
        /\ unit[c] = "quadlet"
    BY DEF Respawn
  <2> QED BY <1>0, <2>1 DEF Returned, IInv
<1>16. CASE UNCHANGED vars
  <2>1. UNCHANGED <<pc, target, todo, present, unit>>
    BY <1>16 DEF vars
  <2> QED BY <2>1 DEF IInv, Returned
<1> QED BY <1>1, <1>2, <1>3, <1>4, <1>5, <1>6, <1>7, <1>8, <1>9,
           <1>10, <1>11, <1>12, <1>13, <1>14, <1>15, <1>16 DEF Next

\* Only systemd brings back what was removed, and only from a Quadlet unit.
LEMMA QuadletsNext == Undisturbed /\ IInv /\ [Next]_vars => OnlyQuadletsReturn'
<1> SUFFICES ASSUME Undisturbed, IInv, [Next]_vars PROVE OnlyQuadletsReturn'
  OBVIOUS
<1> USE DEF node, play, facts, hist
<1>0. TypeOK /\ \A p, q \in Plays : p = q
  BY DEF Undisturbed, IInv, Works
<1>1. ASSUME NEW p \in Plays, \E s \in Services : StartDeploy(p, s) PROVE OnlyQuadletsReturn'
  <2>1. gone' = gone /\ present' = present /\ unit' = unit
    BY <1>1 DEF StartDeploy
  <2> QED BY <2>1 DEF IInv, OnlyQuadletsReturn
<1>2. ASSUME NEW p \in Plays, \E s \in Services, c \in Containers : StartRemove(p, s, c) PROVE OnlyQuadletsReturn'
  <2>1. gone' = gone /\ present' = present /\ unit' = unit
    BY <1>2 DEF StartRemove
  <2> QED BY <2>1 DEF IInv, OnlyQuadletsReturn
<1>3. ASSUME NEW p \in Plays, \E K \in Keeps, o \in BOOLEAN : StartClean(p, K, o) PROVE OnlyQuadletsReturn'
  <2>1. gone' = gone /\ present' = present /\ unit' = unit
    BY <1>3 DEF StartClean
  <2> QED BY <2>1 DEF IInv, OnlyQuadletsReturn
<1>4. ASSUME NEW p \in Plays, RunContainer(p) PROVE OnlyQuadletsReturn'
  <2> DEFINE c == Program[op[p].service][op[p].step]
  <2>1. /\ present' = present \cup {c} /\ gone' = gone \ {c}
        /\ \A d \in Containers \ {c} : unit'[d] = unit[d]
    BY <1>0, <1>4 DEF RunContainer, TypeOK
  <2> HIDE DEF c
  <2> QED BY <1>0, <2>1 DEF IInv, OnlyQuadletsReturn, TypeOK
<1>5. ASSUME NEW p \in Plays, ReadState(p) PROVE OnlyQuadletsReturn'
  <2>1. gone' = gone /\ present' = present /\ unit' = unit
    BY <1>5 DEF ReadState
  <2> QED BY <2>1 DEF IInv, OnlyQuadletsReturn
<1>6. ASSUME NEW p \in Plays, WriteState(p) PROVE OnlyQuadletsReturn'
  <2>1. gone' = gone /\ present' = present /\ unit' = unit
    BY <1>6 DEF WriteState
  <2> QED BY <2>1 DEF IInv, OnlyQuadletsReturn
<1>7. ASSUME NEW p \in Plays, \E c \in Containers : RemoveContainer(p, c) PROVE OnlyQuadletsReturn'
  <2> PICK c \in Containers : RemoveContainer(p, c)
    BY <1>7
  <2>1. /\ present' = present \ {c} /\ gone' = gone
        /\ \A d \in Containers \ {c} : unit'[d] = unit[d]
    BY <1>0 DEF RemoveContainer, Surviving, TypeOK
  <2> QED BY <1>0, <2>1 DEF IInv, OnlyQuadletsReturn, TypeOK
<1>8. ASSUME NEW p \in Plays, \E c \in Containers : RemovalFails(p, c) PROVE OnlyQuadletsReturn'
  <2> PICK c \in Containers : RemovalFails(p, c)
    BY <1>8
  <2>1. /\ present' = present /\ gone' = gone /\ c \in present /\ unit[c] = "legacy"
        /\ \A d \in Containers \ {c} : unit'[d] = unit[d]
    BY <1>0 DEF RemovalFails, TypeOK
  <2> QED BY <1>0, <2>1 DEF IInv, OnlyQuadletsReturn, TypeOK
<1>9. ASSUME NEW p \in Plays, ForgetServices(p) PROVE OnlyQuadletsReturn'
  <2>1. /\ todo[p] = {} /\ present' = present /\ unit' = unit
        /\ gone' \subseteq gone \cup target[p]
    BY <1>9 DEF ForgetServices, EndClean
  <2> QED BY <1>0, <2>1 DEF IInv, OnlyQuadletsReturn, Returned
<1>10. ASSUME NEW p \in Plays, FindOrphans(p) PROVE OnlyQuadletsReturn'
  <2>1. gone' = gone /\ present' = present /\ unit' = unit
    BY <1>10 DEF FindOrphans
  <2> QED BY <2>1 DEF IInv, OnlyQuadletsReturn
<1>11. ASSUME NEW p \in Plays, OrphansRemoved(p) PROVE OnlyQuadletsReturn'
  <2>1. /\ todo[p] = {} /\ present' = present /\ unit' = unit
        /\ gone' \subseteq gone \cup target[p]
    BY <1>11 DEF OrphansRemoved, EndClean
  <2> QED BY <1>0, <2>1 DEF IInv, OnlyQuadletsReturn, Returned
<1>12. ASSUME NEW p \in Plays, UndefinedFact(p) PROVE OnlyQuadletsReturn'
  <2>1. gone' = gone /\ present' = present /\ unit' = unit
    BY <1>12 DEF UndefinedFact, PlayFails, NewFacts
  <2> QED BY <2>1 DEF IInv, OnlyQuadletsReturn
<1>13. ASSUME NEW p \in Plays, Fail(p) PROVE OnlyQuadletsReturn'
  <2>1. gone' = gone /\ present' = present /\ unit' = unit
    BY <1>13 DEF Fail, PlayFails, NewFacts
  <2> QED BY <2>1 DEF IInv, OnlyQuadletsReturn
<1>14. ASSUME NEW p \in Plays, NewRun(p) PROVE OnlyQuadletsReturn'
  <2>1. gone' = gone /\ present' = present /\ unit' = unit
    BY <1>14 DEF NewRun, NewFacts
  <2> QED BY <2>1 DEF IInv, OnlyQuadletsReturn
<1>15. CASE \E c \in Containers : Respawn(c)
  <2> PICK c \in Containers : Respawn(c)
    BY <1>15
  <2>1. /\ gone' = gone /\ present' = present \cup {c} /\ unit' = unit /\ unit[c] = "quadlet"
    BY DEF Respawn
  <2> QED BY <2>1 DEF OnlyQuadletsReturn, IInv
<1>16. CASE UNCHANGED vars
  <2>1. UNCHANGED <<gone, present, unit>>
    BY <1>16 DEF vars
  <2> QED BY <2>1 DEF IInv, OnlyQuadletsReturn
<1> QED BY <1>1, <1>2, <1>3, <1>4, <1>5, <1>6, <1>7, <1>8, <1>9,
           <1>10, <1>11, <1>12, <1>13, <1>14, <1>15, <1>16 DEF Next

\* The invariant holds at the start and is kept.
LEMMA InvInit == Init => IInv
<1> SUFFICES ASSUME Init PROVE IInv
  OBVIOUS
<1>1. Works
  BY WorksInit
<1>2. Own /\ CompleteRegistered /\ OnlyQuadletsReturn
  BY OwnDicts DEF Init, Own, CompleteRegistered, OnlyQuadletsReturn
<1>3. ASSUME NEW p \in Plays PROVE Due(p) /\ Built(p) /\ Spared(p) /\ Returned(p)
  <2>1. pc[p] = "idle" /\ todo[p] = {} /\ target[p] = {}
    BY DEF Init
  <2> QED BY <2>1 DEF Due, Built, Spared, Returned
<1> QED BY <1>1, <1>2, <1>3 DEF IInv

LEMMA InvNext == Undisturbed /\ IInv /\ [Next]_vars => IInv'
<1> SUFFICES ASSUME Undisturbed, IInv, [Next]_vars PROVE IInv'
  OBVIOUS
<1>1. Works'
  BY TypeNext, BusyNext DEF IInv, Works
<1>2. Own' /\ CompleteRegistered' /\ OnlyQuadletsReturn'
  BY OwnNext, CompleteNext, QuadletsNext
<1>3. \A p \in Plays : Due(p)' /\ Built(p)' /\ Spared(p)' /\ Returned(p)'
  BY DueNext, BuiltNext, SparedNext, ReturnedNext
<1> QED BY <1>1, <1>2, <1>3 DEF IInv

LEMMA InvHolds == ASSUME Undisturbed PROVE Spec => []IInv
<1>1. IInv /\ [Next]_vars => IInv'
  BY InvNext
<1> QED BY <1>1, InvInit, PTL DEF Spec

\* CompleteRegistered: from the end of a role until its service is deployed,
\* cleaned up or taken from again, the file names every container of it.
THEOREM CompleteStays == ASSUME Undisturbed PROVE Spec => []CompleteRegistered
<1>1. IInv => CompleteRegistered
  BY DEF IInv
<1> QED BY <1>1, InvHolds, PTL

\* OnlyQuadletsReturn: what a finished cleanup removed comes back by a
\* deployment or from a Quadlet unit, in no other way.
THEOREM RemovedStaysAway == ASSUME Undisturbed PROVE Spec => []OnlyQuadletsReturn
<1>1. IInv => OnlyQuadletsReturn
  BY DEF IInv
<1> QED BY <1>1, InvHolds, PTL

\* KeptSurvive: neither the loop over the unwanted services nor the one over
\* the orphans removes a container of a complete service that is to be kept.
THEOREM KeptAreSpared == ASSUME Undisturbed PROVE Spec => KeptSurvive
<1> DEFINE Hit(p, c) == /\ pc[p] \in {"clean", "orphans"}
                        /\ c \in todo[p] \ todo'[p] /\ c \in present \ present'
           A == \A p \in Plays, c \in Containers :
                  Hit(p, c) => \A s \in op[p].keep \cap complete : c \notin ContainersOf(s)
<1>1. IInv => A
  <2> SUFFICES ASSUME IInv, NEW p \in Plays, NEW c \in Containers, Hit(p, c),
                      NEW s \in op[p].keep \cap complete
               PROVE  c \notin ContainersOf(s)
    OBVIOUS
  <2> QED BY DEF IInv, Spared
<1>2. IInv /\ [Next]_vars => [A]_vars
  BY <1>1
<1> QED BY <1>2, InvHolds, PTL DEF Spec, KeptSurvive

-----------------------------------------------------------------------------
(* The state file implements the registry.                                 *)

Asked == [p \in Plays |-> Request(p)]
Remembered == [p \in Plays |-> Memory(p)]
RegistryStep == Registry!Next \/ UNCHANGED <<file, Asked, Remembered>>

\* With one play its request is all that is asked of the registry, and its dicts
\* are all that is remembered.
LEMMA OneRequest ==
  ASSUME Undisturbed, NEW p \in Plays
  PROVE  /\ Asked[p] = Request(p) /\ Asked' = [Asked EXCEPT ![p] = Request(p)']
         /\ Request(p)' = Request(p) => Asked' = Asked
<1>1. \A q \in Plays : q = p
  BY DEF Undisturbed
<1> QED BY <1>1 DEF Asked

LEMMA OneMemory ==
  ASSUME Undisturbed, NEW p \in Plays
  PROVE  /\ Remembered[p] = Memory(p) /\ Remembered' = [Remembered EXCEPT ![p] = Memory(p)']
         /\ Memory(p)' = Memory(p) => Remembered' = Remembered
<1>1. \A q \in Plays : q = p
  BY DEF Undisturbed
<1> QED BY <1>1 DEF Remembered

\* A request and what it makes of a registry are the same on both levels.
LEMMA SameOps ==
  /\ NoRequest = Registry!NoRequest /\ Requests = Registry!Requests
  /\ \A q, r : Effect(q, r) = Registry!Effect(q, r)
  /\ \A q, r : Left(q, r) = Registry!Left(q, r)
  /\ \A q, r, M : Outcomes(q, r, M) = Registry!Outcomes(q, r, M)
<1>1. \A q, r : Effect(q, r) = Registry!Effect(q, r)
  BY DEF Effect, Registry!Effect
<1>2. NoRequest = Registry!NoRequest /\ Requests = Registry!Requests
  BY DEF NoRequest, Registry!NoRequest, Requests, Registry!Requests,
         Register, Registry!Register, Remove, Registry!Remove, Keep, Registry!Keep
<1>3. \A q, r : Left(q, r) = Registry!Left(q, r)
  BY <1>1 DEF Left, Registry!Left
<1>4. \A q, r, M : Outcomes(q, r, M) = Registry!Outcomes(q, r, M)
  BY <1>1 DEF Outcomes, Registry!Outcomes, Returns, Registry!Returns
<1> QED BY <1>1, <1>2, <1>3, <1>4

LEMMA LearnStep ==
  ASSUME Undisturbed, NEW p \in Plays, NEW q, Memory(p)' \subseteq Memory(p) \cup Left(q, file)
  PROVE  Registry!Learn(p, q)
<1>1. Memory(p)' \in SUBSET (Remembered[p] \cup Registry!Left(q, file))
  BY OneMemory, SameOps
<1> QED BY <1>1, OneMemory DEF Registry!Learn, Remembered

\* Which step of the registry a change of request, file and dicts is.
LEMMA AskStep ==
  ASSUME Undisturbed, NEW p \in Plays, Request(p) = NoRequest,
         Request(p)' \in Requests, Request(p)' # NoRequest, file' = file,
         Memory(p)' \subseteq Memory(p) \cup Left(Request(p)', file)
  PROVE  RegistryStep
<1>1. Registry!Learn(p, Request(p)')
  BY LearnStep
<1>2. Registry!Ask(p)
  BY <1>1, OneRequest, SameOps DEF Registry!Ask, Asked
<1> QED BY <1>2 DEF RegistryStep, Registry!Next

LEMMA CommitStep ==
  ASSUME Undisturbed, NEW p \in Plays, Request(p) # NoRequest, Request(p)' = NoRequest,
         file' \in Outcomes(Request(p), file, Memory(p)),
         Memory(p)' \subseteq Memory(p) \cup Left(Request(p), file)
  PROVE  RegistryStep
<1>1. Registry!Learn(p, Request(p))
  BY LearnStep
<1>2. Registry!Commit(p)
  BY <1>1, OneRequest, OneMemory, SameOps DEF Registry!Commit, Asked, Remembered
<1> QED BY <1>2 DEF RegistryStep, Registry!Next

LEMMA ForgetStep ==
  ASSUME Undisturbed, NEW p \in Plays, Request(p)' = NoRequest, Memory(p)' = {}, file' = file
  PROVE  RegistryStep
<1>1. Registry!Forget(p)
  BY OneRequest, OneMemory, SameOps DEF Registry!Forget, Asked, Remembered
<1> QED BY <1>1 DEF RegistryStep, Registry!Next

LEMMA StutterStep ==
  ASSUME Undisturbed, NEW p \in Plays, Request(p)' = Request(p), Memory(p)' = Memory(p), file' = file
  PROVE  RegistryStep
<1>1. Asked' = Asked /\ Remembered' = Remembered
  BY OneRequest, OneMemory
<1> QED BY <1>1 DEF RegistryStep

\* Steps that leave the dicts alone, and the end of a run.
LEMMA SameMemory ==
  ASSUME NEW p \in Plays, filtered' = filtered, kept' = kept
  PROVE  Memory(p)' = Memory(p)
  BY DEF Memory

LEMMA NoMemory ==
  ASSUME TypeOK, NEW p \in Plays, NewFacts(p)
  PROVE  Memory(p)' = {}
<1>1. filtered'[p] = Empty /\ kept'[p] = Empty
  BY Maps DEF NewFacts
<1>2. Items(Empty) = {}
  BY DEF Items, Named, Empty
<1> QED BY <1>1, <1>2 DEF Memory

\* The requests there are.
LEMMA RequestTypes ==
  /\ \A s \in Services, c \in Containers, a \in BOOLEAN :
       Register(s, {c}, a) \in Requests /\ Register(s, {c}, a) # NoRequest
  /\ \A s \in Services, c \in Containers : Remove(s, c) \in Requests /\ Remove(s, c) # NoRequest
  /\ \A K \in SUBSET Services : Keep(K) \in Requests /\ Keep(K) # NoRequest
<1>1. ASSUME NEW s \in Services, NEW c \in Containers, NEW a \in BOOLEAN
      PROVE  Register(s, {c}, a) \in Requests
  <2>1. {c} \in SUBSET Containers
    OBVIOUS
  <2> QED BY <2>1 DEF Requests
<1>2. \A s \in Services, c \in Containers : Remove(s, c) \in Requests
  BY DEF Requests
<1>3. \A K \in SUBSET Services : Keep(K) \in Requests
  BY DEF Requests
<1>4. /\ \A s, cs, a : Register(s, cs, a) # NoRequest
      /\ \A s, c : Remove(s, c) # NoRequest
      /\ \A K : Keep(K) # NoRequest
  <2>1. NoRequest.kind = "none"
    BY DEF NoRequest
  <2>2. /\ \A s, cs, a : Register(s, cs, a).kind = "register"
        /\ \A s, c : Remove(s, c).kind = "remove"
        /\ \A K : Keep(K).kind = "keep"
    BY DEF Register, Remove, Keep
  <2> QED BY <2>1, <2>2
<1> QED BY <1>1, <1>2, <1>3, <1>4

\* Reading is asking, writing is committing, the end of a run is forgetting, the rest stutters.
LEMMA StepsRefine == Undisturbed /\ IInv /\ [Next]_vars => RegistryStep
<1> SUFFICES ASSUME Undisturbed, IInv, [Next]_vars PROVE RegistryStep
  OBVIOUS
<1> USE DEF node, play, facts, hist
<1>0. TypeOK /\ \A p, q \in Plays : p = q
  BY DEF Undisturbed, IInv, Works
<1>1. ASSUME NEW p \in Plays, \E s \in Services : StartDeploy(p, s) PROVE RegistryStep
  <2>1. /\ pc[p] \notin {"write", "clean"} /\ pc'[p] \notin {"write", "clean"} /\ file' = file
        /\ filtered' = filtered /\ kept' = kept
    BY <1>0, <1>1, Maps DEF StartDeploy
  <2>2. Request(p) = NoRequest /\ Request(p)' = NoRequest
    BY <2>1 DEF Request
  <2> QED BY <2>1, <2>2, SameMemory, StutterStep
<1>2. ASSUME NEW p \in Plays, \E s \in Services, c \in Containers : StartRemove(p, s, c) PROVE RegistryStep
  <2>1. /\ pc[p] \notin {"write", "clean"} /\ pc'[p] \notin {"write", "clean"} /\ file' = file
        /\ filtered' = filtered /\ kept' = kept
    BY <1>0, <1>2, Maps DEF StartRemove
  <2>2. Request(p) = NoRequest /\ Request(p)' = NoRequest
    BY <2>1 DEF Request
  <2> QED BY <2>1, <2>2, SameMemory, StutterStep
<1>3. ASSUME NEW p \in Plays, \E K \in Keeps, o \in BOOLEAN : StartClean(p, K, o) PROVE RegistryStep
  <2> PICK K \in Keeps, orphans \in BOOLEAN : StartClean(p, K, orphans)
    BY <1>3
  <2>1. /\ pc[p] = "idle" /\ pc'[p] = "clean" /\ file' = file
        /\ filtered' = filtered /\ kept' = kept
        /\ op'[p] = [kind |-> "clean", keep |-> K, orphans |-> orphans]
    BY <1>0, Maps DEF StartClean
  <2>2. Request(p) = NoRequest /\ Request(p)' = Keep(K)
    BY <2>1 DEF Request
  <2>3. K \in SUBSET Services
    BY ConstantsAssumption
  <2> QED BY <2>1, <2>2, <2>3, SameMemory, RequestTypes, AskStep
<1>4. ASSUME NEW p \in Plays, RunContainer(p) PROVE RegistryStep
  <2>1. /\ pc[p] \notin {"write", "clean"} /\ pc'[p] \notin {"write", "clean"} /\ file' = file
        /\ filtered' = filtered /\ kept' = kept
    BY <1>0, <1>4, Maps DEF RunContainer
  <2>2. Request(p) = NoRequest /\ Request(p)' = NoRequest
    BY <2>1 DEF Request
  <2> QED BY <2>1, <2>2, SameMemory, StutterStep
<1>5. ASSUME NEW p \in Plays, ReadState(p) PROVE RegistryStep
  <2>1. pc[p] = "read" /\ pc'[p] = "write" /\ op'[p] = op[p] /\ file' = file /\ Busy(p)
    BY <1>0, <1>5, Maps DEF ReadState, IInv, Works
  <2>2. Request(p) = NoRequest /\ Memory(p)' \subseteq Memory(p) \cup Left(Request(p)', file)
    BY <1>5, <2>1, ReadLearns DEF Request
  <2>3. CASE op[p].kind = "deploy"
    <3> DEFINE sv == op[p].service
               c == Program[sv][op[p].step]
               a == op[p].step > 1
    <3>1. Request(p)' = Register(sv, {c}, a)
      BY <2>1, <2>3 DEF Request
    <3>2. sv \in Services /\ c \in Containers /\ a \in BOOLEAN
      BY <1>0, <2>1, <2>3, OpTypes, ProgramType DEF Busy
    <3> HIDE DEF sv, c, a
    <3> QED BY <2>1, <2>2, <3>1, <3>2, RequestTypes, AskStep
  <2>4. CASE op[p].kind = "remove"
    <3>1. Request(p)' = Remove(op[p].service, op[p].container)
      BY <2>1, <2>4 DEF Request
    <3>2. op[p].service \in Services /\ op[p].container \in Containers
      BY <1>0, <2>4, OpTypes
    <3> QED BY <2>1, <2>2, <3>1, <3>2, RequestTypes, AskStep
  <2> QED BY <2>1, <2>3, <2>4 DEF Busy
<1>6. ASSUME NEW p \in Plays, WriteState(p) PROVE RegistryStep
  <2>1. pc[p] = "write" /\ pc'[p] \in {"run", "idle"} /\ file' = data[p] /\ Busy(p)
    BY <1>0, <1>6, Maps DEF WriteState, IInv, Works
  <2>2. Request(p)' = NoRequest
    BY <2>1 DEF Request
  <2>3. file' \in Outcomes(Request(p), file, Memory(p))
    BY <2>1 DEF IInv, Due
  <2>4. Request(p) # NoRequest
    BY <2>1 DEF Request, NoRequest, Register, Remove, Busy
  <2>5. Memory(p)' = Memory(p)
    BY <1>6, SameMemory DEF WriteState
  <2> QED BY <2>2, <2>3, <2>4, <2>5, CommitStep
<1>7. ASSUME NEW p \in Plays, \E c \in Containers : RemoveContainer(p, c) PROVE RegistryStep
  <2>1. pc' = pc /\ op' = op /\ file' = file /\ filtered' = filtered /\ kept' = kept
    BY <1>7 DEF RemoveContainer
  <2>2. Request(p)' = Request(p)
    BY <2>1 DEF Request
  <2> QED BY <2>1, <2>2, SameMemory, StutterStep
<1>8. ASSUME NEW p \in Plays, \E c \in Containers : RemovalFails(p, c) PROVE RegistryStep
  <2>1. pc'[p] = "idle" /\ file' = file /\ NewFacts(p)
    BY <1>0, <1>8, Maps DEF RemovalFails, PlayFails
  <2>2. Request(p)' = NoRequest
    BY <2>1 DEF Request
  <2> QED BY <1>0, <2>1, <2>2, NoMemory, ForgetStep
<1>9. ASSUME NEW p \in Plays, ForgetServices(p) PROVE RegistryStep
  <2>1. pc'[p] \in {"find", "idle"}
    BY <1>0, <1>9, Maps DEF ForgetServices, EndClean
  <2>2. /\ Request(p) = Keep(op[p].keep) /\ file' \in Outcomes(Request(p), file, Memory(p))
        /\ Memory(p)' \subseteq Memory(p) \cup Left(Request(p), file)
    BY <1>9, ForgetLearns
  <2>3. Request(p) # NoRequest /\ Request(p)' = NoRequest
    BY <2>1, <2>2 DEF Keep, NoRequest, Request
  <2> QED BY <2>2, <2>3, CommitStep
<1>10. ASSUME NEW p \in Plays, FindOrphans(p) PROVE RegistryStep
  <2>1. /\ pc[p] \notin {"write", "clean"} /\ pc'[p] \notin {"write", "clean"} /\ file' = file
        /\ filtered' = filtered /\ kept' = kept
    BY <1>0, <1>10, Maps DEF FindOrphans
  <2>2. Request(p) = NoRequest /\ Request(p)' = NoRequest
    BY <2>1 DEF Request
  <2> QED BY <2>1, <2>2, SameMemory, StutterStep
<1>11. ASSUME NEW p \in Plays, OrphansRemoved(p) PROVE RegistryStep
  <2>1. /\ pc[p] \notin {"write", "clean"} /\ pc'[p] \notin {"write", "clean"} /\ file' = file
        /\ filtered' = filtered /\ kept' = kept
    BY <1>0, <1>11, Maps DEF OrphansRemoved, EndClean
  <2>2. Request(p) = NoRequest /\ Request(p)' = NoRequest
    BY <2>1 DEF Request
  <2> QED BY <2>1, <2>2, SameMemory, StutterStep
<1>12. ASSUME NEW p \in Plays, UndefinedFact(p) PROVE RegistryStep
  <2>1. pc'[p] = "idle" /\ file' = file /\ NewFacts(p)
    BY <1>0, <1>12, Maps DEF UndefinedFact, PlayFails
  <2>2. Request(p)' = NoRequest
    BY <2>1 DEF Request
  <2> QED BY <1>0, <2>1, <2>2, NoMemory, ForgetStep
<1>13. ASSUME NEW p \in Plays, Fail(p) PROVE RegistryStep
  <2>1. pc'[p] = "idle" /\ file' = file /\ NewFacts(p)
    BY <1>0, <1>13, Maps DEF Fail, PlayFails
  <2>2. Request(p)' = NoRequest
    BY <2>1 DEF Request
  <2> QED BY <1>0, <2>1, <2>2, NoMemory, ForgetStep
<1>14. ASSUME NEW p \in Plays, NewRun(p) PROVE RegistryStep
  <2>1. pc'[p] \notin {"write", "clean"} /\ file' = file /\ NewFacts(p)
    BY <1>0, <1>14 DEF NewRun
  <2>2. Request(p)' = NoRequest
    BY <2>1 DEF Request
  <2> QED BY <1>0, <2>1, <2>2, NoMemory, ForgetStep
<1>15. CASE \E c \in Containers : Respawn(c)
  <2>1. pc' = pc /\ op' = op /\ file' = file /\ filtered' = filtered /\ kept' = kept
    BY <1>15 DEF Respawn
  <2>2. Asked' = Asked /\ Remembered' = Remembered
    BY <2>1 DEF Asked, Request, Remembered, Memory
  <2> QED BY <2>1, <2>2 DEF RegistryStep
<1>16. CASE UNCHANGED vars
  <2>1. pc' = pc /\ op' = op /\ file' = file /\ filtered' = filtered /\ kept' = kept
    BY <1>16 DEF vars
  <2>2. Asked' = Asked /\ Remembered' = Remembered
    BY <2>1 DEF Asked, Request, Remembered, Memory
  <2> QED BY <2>1, <2>2 DEF RegistryStep
<1> QED BY <1>1, <1>2, <1>3, <1>4, <1>5, <1>6, <1>7, <1>8, <1>9,
           <1>10, <1>11, <1>12, <1>13, <1>14, <1>15, <1>16 DEF Next

\* ImplementsRegistry: every update of the state file, by a deployment, a removal
\* or a cleanup, is one step of the registry on what it holds at that step; what
\* it takes out comes back only as an earlier change of the same run left it.
THEOREM Refines == ASSUME Undisturbed PROVE Spec => ImplementsRegistry
<1>1. Init => Registry!Init
  <2> SUFFICES ASSUME Init PROVE Registry!Init
    OBVIOUS
  <2>1. Items(Empty) = {}
    BY DEF Items, Named, Empty
  <2>2. \A p \in Plays : Memory(p) = {}
    BY <2>1 DEF Init, Memory
  <2>3. \A p \in Plays : Request(p) = Registry!NoRequest
    BY SameOps DEF Init, Request
  <2>4. file = [s \in Services |-> {}]
    BY DEF Init, Empty
  <2> QED BY <2>2, <2>3, <2>4 DEF Registry!Init
<1>2. IInv /\ [Next]_vars => [Registry!Next]_<<file, Asked, Remembered>>
  BY StepsRefine DEF RegistryStep
<1> QED BY <1>1, <1>2, InvHolds, PTL DEF Spec, ImplementsRegistry, Registry!Spec, Asked, Remembered

=============================================================================
