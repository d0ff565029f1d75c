------------------------ MODULE ContainerManageProofs ------------------------
(***************************************************************************)
(* Proofs about ContainerManage, for every set of containers, every        *)
(* start_order, number of threads, retries and looks at a target.  Inv is  *)
(* inductive; the safety properties of the run manage_groups follow, and   *)
(* that every step of a worker brings its own container nearer to its end. *)
(***************************************************************************)
EXTENDS ContainerManage, WellFoundedInduction, TLAPS

\* A set of natural numbers that is not empty has a smallest member: the
\* CHOOSE of the next group is defined.
LEMMA Smallest ==
  ASSUME NEW S \in SUBSET Nat, S # {},
         NEW m, m = CHOOSE o \in S : \A p \in S : o <= p
  PROVE  m \in S /\ \A p \in S : m <= p
<1>1. PICK x \in S : \A y \in S : ~(<<y, x>> \in OpToRel(<, Nat))
  BY WFMin, NatLessThanWellFounded, Zenon
<1>2. \A y \in S : ~(y < x)
  BY <1>1 DEF OpToRel
<1>3. \A y \in S : x <= y
  BY <1>2, SMT
<1> QED BY <1>3

LEMMA OrdersNat == Orders \in SUBSET Nat /\ Orders # {} /\ NoOrder \notin Nat
  BY ConstantsAssumption DEF Orders, NoOrder

-----------------------------------------------------------------------------
(* The inductive invariant.                                                *)

\* What TypeOK leaves open, and which attempts are whose.
Shapes ==
  /\ left \in [Containers -> Nat]
  /\ appended \in [Containers -> Nat]
  /\ label \in [Created -> Labels \cup {Absent}]
  /\ \A c \in Containers : /\ work[c] \in {"probing", "executing"} => c \in Execs
                           /\ work[c] = "creating" => c \in Created

\* Attempts made and retries left add up.
Counted ==
  \A c \in Containers :
    IF work[c] = "waiting" THEN left[c] = Retries[c] /\ appended[c] = 0
    ELSE appended[c] + left[c] <= Retries[c] + (IF work[c] = "sleeping" THEN 0 ELSE 1)

\* The groups before the one that runs have ended, those after it wait.
Progress ==
  /\ Idle => \A c \in Containers : work[c] \notin Busy
  /\ ~Idle => \A c \in Containers :
       /\ StartOrder[c] < order => work[c] \in {"ok", "failed"}
       /\ order < StartOrder[c] => work[c] = "waiting"

\* The failures of the groups that have ended are collected.
Collected ==
  ~Idle => /\ result = "none"
           /\ failed = {c \in Containers : StartOrder[c] < order /\ work[c] = "failed"}

\* A container this run created has the definition of this run, and runs
\* unless systemd is to start it or it exited.
Made ==
  ~Idle => \A c \in Created : work[c] = "ok" =>
    /\ label[c] # Absent /\ label[c].rev = definition[c]
    /\ c \notin Unstarted => c \in up \cup exited

Inv ==
  /\ TypeOK /\ Shapes /\ Counted
  /\ Progress /\ GroupsInOrder
  /\ Collected /\ EveryFailureReported
  /\ Made

THEOREM InvInit == Init => Inv
<1> SUFFICES ASSUME Init PROVE Inv
  OBVIOUS
<1>1. TypeOK
  BY ConstantsAssumption DEF Init, TypeOK, Fresh, Ended, Busy, Created
<1>2. Shapes
  BY ConstantsAssumption DEF Init, Shapes, Fresh, Created
<1>3. Counted
  BY DEF Init, Counted, Fresh
<1>4. Progress /\ GroupsInOrder /\ Collected /\ EveryFailureReported /\ Made
  BY DEF Init, Progress, GroupsInOrder, Collected, EveryFailureReported, Made, Idle, Busy
<1> QED BY <1>1, <1>2, <1>3, <1>4 DEF Inv

-----------------------------------------------------------------------------
\* A worker that does something is of the group that runs.
LEMMA InGroup ==
  ASSUME Inv, NEW c \in Containers, work[c] \in Busy
  PROVE  ~Idle /\ StartOrder[c] = order /\ order \in Nat
<1>1. ~Idle
  BY DEF Inv, Progress
<1>2. order \in Nat
  BY <1>1, OrdersNat DEF Inv, TypeOK, Idle
<1>3. StartOrder[c] \in Nat
  BY ConstantsAssumption
<1>4. ~(StartOrder[c] < order) /\ ~(order < StartOrder[c])
  BY <1>1 DEF Inv, Progress, Busy
<1> QED BY <1>1, <1>2, <1>3, <1>4

\* Whatever a worker of the group that runs does to its own container, the
\* order of the groups and the failures collected stand.
LEMMA WorkerKeepsOrder ==
  ASSUME Inv, NEW c \in Containers, ~Idle, StartOrder[c] = order,
         NEW r \in Ended \cup Busy, work' = [work EXCEPT ![c] = r],
         UNCHANGED <<order, failed, result>>
  PROVE  Progress' /\ GroupsInOrder' /\ Collected' /\ EveryFailureReported'
<1>1. order \in Nat /\ \A d \in Containers : StartOrder[d] \in Nat
  BY OrdersNat, ConstantsAssumption DEF Inv, TypeOK, Idle
<1>2. work \in [Containers -> Ended \cup Busy \cup {"waiting"}]
  BY DEF Inv, TypeOK
<1>3. \A d \in Containers : StartOrder[d] # order => work'[d] = work[d]
  BY <1>2
<1>4. Progress'
  BY <1>1, <1>2, <1>3 DEF Inv, Progress, Idle
<1>5. GroupsInOrder'
  <2> SUFFICES ASSUME NEW d \in Containers, NEW e \in Containers,
                      work'[d] # "waiting", StartOrder[e] < StartOrder[d]
               PROVE  work'[e] \in {"ok", "failed"}
    BY DEF GroupsInOrder
  <2>1. StartOrder[d] <= order
    BY <1>1, <1>4 DEF Progress, Idle
  <2> QED BY <2>1, <1>1, <1>4 DEF Progress, Idle
<1>6. Collected'
  BY <1>1, <1>3 DEF Inv, Collected, Idle
<1>7. EveryFailureReported'
  BY DEF Inv, Collected, EveryFailureReported
<1> QED BY <1>4, <1>5, <1>6, <1>7

\* An attempt that begins is counted; the healthcheck's mount with it.
LEMMA AttemptCounts ==
  ASSUME Inv, NEW c \in Containers, Attempt(c), UNCHANGED left,
         work[c] \in {"waiting", "sleeping"}
  PROVE  /\ \E r \in Busy : work' = [work EXCEPT ![c] = r]
         /\ probes' \in [Containers -> 0..(Probes - 1)]
         /\ appended' \in [Containers -> Nat]
         /\ Counted'
         /\ \A d \in Containers : appended'[d] \in 0..(Retries[d] + 1)
         /\ \A d \in Containers : /\ work'[d] \in {"probing", "executing"} => d \in Execs
                                  /\ work'[d] = "creating" => d \in Created
<1>1. /\ work \in [Containers -> Ended \cup Busy \cup {"waiting"}]
      /\ left \in [Containers -> Nat] /\ appended \in [Containers -> Nat]
      /\ probes \in [Containers -> 0..(Probes - 1)]
      /\ Retries \in [Containers -> Nat] /\ Probes \in Nat \ {0}
  BY ConstantsAssumption DEF Inv, TypeOK, Shapes
<1>2. \E r \in Busy : work' = [work EXCEPT ![c] = r]
  BY DEF Attempt, Busy
<1>3. probes' \in [Containers -> 0..(Probes - 1)]
  BY <1>1 DEF Attempt
<1>4. appended' \in [Containers -> Nat]
  BY <1>1 DEF Attempt
<1>5. Counted'
  BY <1>1 DEF Inv, Counted, Attempt
<1>6. \A d \in Containers : appended'[d] \in 0..(Retries[d] + 1)
  <2> SUFFICES ASSUME NEW d \in Containers
               PROVE  appended'[d] <= Retries[d] + 1
    BY <1>1, <1>4, SMT
  <2>1. CASE d # c
    BY <2>1, <1>1 DEF Attempt, Inv, TypeOK
  <2>2. CASE d = c
    BY <2>2, <1>1, <1>5, <1>2 DEF Counted, Attempt
  <2> QED BY <2>1, <2>2
<1>7. \A d \in Containers : /\ work'[d] \in {"probing", "executing"} => d \in Execs
                            /\ work'[d] = "creating" => d \in Created
  BY <1>1 DEF Attempt, Inv, Shapes, Created
<1> QED BY <1>2, <1>3, <1>4, <1>5, <1>6, <1>7

\* An attempt that fails leaves its container asleep with one retry less, or
\* failed.
LEMMA FailureCounts ==
  ASSUME Inv, NEW c \in Containers, AttemptFails(c), UNCHANGED appended, work[c] \in Busy \ {"sleeping"}
  PROVE  /\ \E r \in {"sleeping", "failed"} : work' = [work EXCEPT ![c] = r]
         /\ left' \in [Containers -> Nat]
         /\ Counted'
         /\ \A d \in Containers : left'[d] \in 0..Retries[d]
         /\ \A d \in Containers : /\ work'[d] \in {"probing", "executing"} => d \in Execs
                                  /\ work'[d] = "creating" => d \in Created
<1>1. /\ work \in [Containers -> Ended \cup Busy \cup {"waiting"}]
      /\ left \in [Containers -> Nat] /\ appended \in [Containers -> Nat]
      /\ Retries \in [Containers -> Nat]
      /\ \A d \in Containers : left[d] <= Retries[d]
  BY ConstantsAssumption DEF Inv, TypeOK, Shapes
<1>2. \E r \in {"sleeping", "failed"} : work' = [work EXCEPT ![c] = r]
  BY DEF AttemptFails, Finish
<1>3. left' \in [Containers -> Nat]
  BY <1>1 DEF AttemptFails, RetriesAfter
<1>4. Counted'
  BY <1>1 DEF Inv, Counted, AttemptFails, RetriesAfter, Finish, Busy
<1>5. \A d \in Containers : left'[d] \in 0..Retries[d]
  BY <1>1, <1>3 DEF AttemptFails, RetriesAfter
<1>6. \A d \in Containers : /\ work'[d] \in {"probing", "executing"} => d \in Execs
                            /\ work'[d] = "creating" => d \in Created
  BY <1>1, <1>2 DEF Inv, Shapes
<1> QED BY <1>2, <1>3, <1>4, <1>5, <1>6

-----------------------------------------------------------------------------
\* Every step keeps Inv: one step per action.
THEOREM InvNext == Inv /\ [Next]_vars => Inv'
<1> SUFFICES ASSUME Inv, [Next]_vars PROVE Inv'
  OBVIOUS
<1> USE ConstantsAssumption
<1>0. /\ work \in [Containers -> Ended \cup Busy \cup {"waiting"}]
      /\ left \in [Containers -> Nat] /\ appended \in [Containers -> Nat]
      /\ label \in [Created -> Labels \cup {Absent}]
      /\ definition \in [Created -> Revisions]
  BY DEF Inv, TypeOK, Shapes
<1>1. ASSUME NEW c \in Created, NEW r \in Revisions, EditDefinition(c, r) PROVE Inv'
  <2>1. TypeOK' /\ Shapes' /\ Counted'
    BY <1>0, <1>1 DEF EditDefinition, Inv, TypeOK, Shapes, Counted
  <2>2. Progress' /\ GroupsInOrder' /\ Collected' /\ EveryFailureReported' /\ Made'
    BY <1>1 DEF EditDefinition, Inv, Progress, GroupsInOrder, Collected, EveryFailureReported, Made, Idle
  <2> QED BY <2>1, <2>2 DEF Inv
<1>2. ASSUME NEW c \in Created, SystemdStart(c) PROVE Inv'
  <2>1. TypeOK' /\ Shapes' /\ Counted'
    BY <1>2 DEF SystemdStart, Inv, TypeOK, Shapes, Counted
  <2>2. Progress' /\ GroupsInOrder' /\ Collected' /\ EveryFailureReported' /\ Made'
    BY <1>2 DEF SystemdStart, Inv, Progress, GroupsInOrder, Collected, EveryFailureReported, Made, Idle
  <2> QED BY <2>1, <2>2 DEF Inv
<1>3. ASSUME NEW c \in Created, Exit(c) PROVE Inv'
  <2>1. TypeOK' /\ Shapes' /\ Counted'
    BY <1>3 DEF Exit, Inv, TypeOK, Shapes, Counted
  <2>2. Progress' /\ GroupsInOrder' /\ Collected' /\ EveryFailureReported' /\ Made'
    BY <1>3 DEF Exit, Inv, Progress, GroupsInOrder, Collected, EveryFailureReported, Made, Idle
  <2> QED BY <2>1, <2>2 DEF Inv
<1>4. ASSUME StartRun PROVE Inv'
  <2>1. order' \in Orders /\ \A c \in Containers : order' <= StartOrder[c]
    <3>1. order' = CHOOSE o \in Orders : \A p \in Orders : o <= p
      BY <1>4 DEF StartRun
    <3>2. order' \in Orders /\ \A p \in Orders : order' <= p
      BY <3>1, OrdersNat, Smallest, Zenon
    <3> QED BY <3>2 DEF Orders
  <2>2. TypeOK' /\ Shapes' /\ Counted'
    <3>1. TypeOK'
      BY <1>0, <1>4, <2>1 DEF StartRun, Inv, TypeOK, Fresh, Busy, Ended
    <3>2. Shapes'
      BY <1>0, <1>4 DEF StartRun, Inv, Shapes, Fresh
    <3>3. Counted'
      BY <1>0, <1>4 DEF StartRun, Counted, Fresh
    <3> QED BY <3>1, <3>2, <3>3
  <2>3. ~Idle' /\ \A c \in Containers : work'[c] = "waiting" /\ ~(StartOrder[c] < order')
    <3>1. order' \in Nat /\ NoOrder \notin Nat
      BY <2>1, OrdersNat
    <3>2. \A c \in Containers : StartOrder[c] \in Nat
      OBVIOUS
    <3>3. \A c \in Containers : work'[c] = "waiting"
      BY <1>4 DEF StartRun
    <3> QED BY <2>1, <3>1, <3>2, <3>3 DEF Idle
  <2>4. failed' = {} /\ result' = "none"
    BY <1>4 DEF StartRun
  <2>5. Progress' /\ GroupsInOrder' /\ Collected' /\ EveryFailureReported' /\ Made'
    BY <2>3, <2>4
    DEF Progress, GroupsInOrder, Collected, EveryFailureReported, Made, Created
  <2> QED BY <2>2, <2>5 DEF Inv
<1>5. ASSUME NEW c \in Containers, Pick(c) PROVE Inv'
  <2>1. PICK r \in Busy : work' = [work EXCEPT ![c] = r]
    BY <1>5, AttemptCounts DEF Pick
  <2>2. Progress' /\ GroupsInOrder' /\ Collected' /\ EveryFailureReported'
    BY <1>5, <2>1, WorkerKeepsOrder DEF Pick, InPool
  <2>3. TypeOK' /\ Shapes' /\ Counted'
    BY <1>0, <1>5, <2>1, AttemptCounts DEF Pick, node, Inv, TypeOK, Shapes
  <2>4. Made'
    BY <1>0, <1>5, <2>1 DEF Pick, node, Inv, Made, Idle, Busy
  <2> QED BY <2>2, <2>3, <2>4 DEF Inv
<1>6. ASSUME NEW c \in Containers, Retry(c) PROVE Inv'
  <2>1. PICK r \in Busy : work' = [work EXCEPT ![c] = r]
    BY <1>6, AttemptCounts DEF Retry
  <2>2. Progress' /\ GroupsInOrder' /\ Collected' /\ EveryFailureReported'
    BY <1>6, <2>1, WorkerKeepsOrder, InGroup DEF Retry, Busy
  <2>3. TypeOK' /\ Shapes' /\ Counted'
    BY <1>0, <1>6, <2>1, AttemptCounts DEF Retry, node, Inv, TypeOK, Shapes
  <2>4. Made'
    BY <1>0, <1>6, <2>1 DEF Retry, node, Inv, Made, Idle, Busy
  <2> QED BY <2>2, <2>3, <2>4 DEF Inv
<1>7. ASSUME NEW c \in Containers, CreateSucceeds(c) PROVE Inv'
  <2>1. c \in Created /\ work' = [work EXCEPT ![c] = "ok"]
    BY <1>7 DEF CreateSucceeds, Finish, Inv, Shapes
  <2>2. Wanted(c) \in Labels /\ Wanted(c) # Absent /\ Wanted(c).rev = definition[c]
    BY <1>0, <2>1 DEF Wanted, Labels, Absent, Created
  <2>3. Progress' /\ GroupsInOrder' /\ Collected' /\ EveryFailureReported'
    BY <1>7, <2>1, WorkerKeepsOrder, InGroup DEF CreateSucceeds, Busy, Ended
  <2>4. TypeOK'
    BY <1>0, <1>7, <2>1, <2>2 DEF CreateSucceeds, Inv, TypeOK, Ended
  <2>5. Shapes' /\ Counted'
    BY <1>0, <1>7, <2>1, <2>2 DEF CreateSucceeds, Inv, Shapes, Counted
  <2>6. Made'
    BY <1>0, <1>7, <2>1, <2>2 DEF CreateSucceeds, Inv, Made, Idle
  <2> QED BY <2>3, <2>4, <2>5, <2>6 DEF Inv
<1>8. ASSUME NEW c \in Containers, CreateFails(c) PROVE Inv'
  <2>1. PICK r \in {"sleeping", "failed"} : work' = [work EXCEPT ![c] = r]
    BY <1>8, FailureCounts DEF CreateFails, Busy
  <2>2. Progress' /\ GroupsInOrder' /\ Collected' /\ EveryFailureReported'
    BY <1>8, <2>1, WorkerKeepsOrder, InGroup DEF CreateFails, Busy, Ended
  <2>3. c \in Created
    BY <1>8 DEF CreateFails, Inv, Shapes
  <2>4. label' \in [Created -> Labels \cup {Absent}] /\ up' \subseteq Created
    BY <1>0, <1>8 DEF CreateFails, Inv, TypeOK
  <2>5. TypeOK'
    BY <1>0, <1>8, <2>1, <2>4, FailureCounts DEF CreateFails, Inv, TypeOK, Busy, Ended
  <2>6. Shapes' /\ Counted'
    BY <1>0, <1>8, <2>4, FailureCounts DEF CreateFails, Inv, Shapes, Busy
  <2>7. Made'
    BY <1>0, <1>8, <2>1, <2>3 DEF CreateFails, Inv, Made, Idle
  <2> QED BY <2>2, <2>5, <2>6, <2>7 DEF Inv
<1>9. ASSUME NEW c \in Containers, WorkerRaises(c) PROVE Inv'
  <2>1. work' = [work EXCEPT ![c] = "raised"]
    BY <1>9 DEF WorkerRaises, Finish
  <2>2. Progress' /\ GroupsInOrder' /\ Collected' /\ EveryFailureReported'
    BY <1>9, <2>1, WorkerKeepsOrder, InGroup DEF WorkerRaises, Busy, Ended
  <2>3. TypeOK' /\ Shapes' /\ Counted'
    BY <1>0, <1>9, <2>1 DEF WorkerRaises, node, Inv, TypeOK, Shapes, Counted, Ended
  <2>4. Made'
    BY <1>0, <1>9, <2>1 DEF WorkerRaises, node, Inv, Made, Idle
  <2> QED BY <2>2, <2>3, <2>4 DEF Inv
<1>10. ASSUME NEW c \in Containers, Probe(c) PROVE Inv'
  <2>1. PICK r \in {"executing", "probing", "sleeping", "failed"} : work' = [work EXCEPT ![c] = r]
    <3>1. CASE UNCHANGED work
      BY <1>0, <1>10, <3>1 DEF Probe
    <3>2. CASE Finish(c, "executing")
      BY <3>2 DEF Finish
    <3>3. CASE AttemptFails(c)
      BY <3>3 DEF AttemptFails, Finish
    <3> QED BY <1>10, <3>1, <3>2, <3>3 DEF Probe
  <2>2. Progress' /\ GroupsInOrder' /\ Collected' /\ EveryFailureReported'
    BY <1>10, <2>1, WorkerKeepsOrder, InGroup DEF Probe, Busy, Ended
  <2>3. TypeOK' /\ Shapes' /\ Counted'
    <3>1. CASE AttemptFails(c) /\ UNCHANGED probes
      BY <1>0, <1>10, <3>1, <2>1, FailureCounts
      DEF Probe, node, Inv, TypeOK, Shapes, Busy, Ended
    <3>2. CASE Finish(c, "executing") /\ UNCHANGED <<left, probes>>
      BY <1>0, <1>10, <3>2 DEF Probe, Finish, node, Inv, TypeOK, Shapes, Counted, Busy
    <3>3. CASE /\ probes[c] + 1 < Probes
               /\ probes' = [probes EXCEPT ![c] = @ + 1]
               /\ UNCHANGED <<work, left>>
      BY <1>0, <1>10, <3>3 DEF Probe, node, Inv, TypeOK, Shapes, Counted
    <3> QED BY <1>10, <3>1, <3>2, <3>3 DEF Probe
  <2>4. Made'
    BY <1>0, <1>10, <2>1 DEF Probe, node, Inv, Made, Idle
  <2> QED BY <2>2, <2>3, <2>4 DEF Inv
<1>11. ASSUME NEW c \in Containers, ExecSucceeds(c) PROVE Inv'
  <2>1. work' = [work EXCEPT ![c] = "ok"]
    BY <1>11 DEF ExecSucceeds, Finish
  <2>2. Progress' /\ GroupsInOrder' /\ Collected' /\ EveryFailureReported'
    BY <1>11, <2>1, WorkerKeepsOrder, InGroup DEF ExecSucceeds, Busy, Ended
  <2>3. TypeOK' /\ Shapes' /\ Counted'
    BY <1>0, <1>11, <2>1 DEF ExecSucceeds, node, Inv, TypeOK, Shapes, Counted, Ended
  <2>4. Made'
    BY <1>0, <1>11, <2>1 DEF ExecSucceeds, node, Inv, Shapes, Made, Idle, Created
  <2> QED BY <2>2, <2>3, <2>4 DEF Inv
<1>12. ASSUME NEW c \in Containers, ExecFails(c) PROVE Inv'
  <2>1. PICK r \in {"sleeping", "failed"} : work' = [work EXCEPT ![c] = r]
    BY <1>12, FailureCounts DEF ExecFails, Busy
  <2>2. Progress' /\ GroupsInOrder' /\ Collected' /\ EveryFailureReported'
    BY <1>12, <2>1, WorkerKeepsOrder, InGroup DEF ExecFails, Busy, Ended
  <2>3. TypeOK' /\ Shapes' /\ Counted'
    BY <1>0, <1>12, <2>1, FailureCounts
    DEF ExecFails, node, Inv, TypeOK, Shapes, Busy, Ended
  <2>4. Made'
    BY <1>0, <1>12, <2>1 DEF ExecFails, node, Inv, Made, Idle
  <2> QED BY <2>2, <2>3, <2>4 DEF Inv
<1>13. ASSUME GroupRaises PROVE Inv'
  <2>1. \A c \in Containers : work[c] \notin Busy
    BY <1>0, <1>13, OrdersNat
    DEF GroupRaises, GroupEnded, Group, Inv, Progress, Ended, Busy, TypeOK, Idle
  <2>2. TypeOK' /\ Shapes' /\ Counted'
    BY <1>13 DEF GroupRaises, node, Inv, TypeOK, Shapes, Counted
  <2>3. Progress' /\ GroupsInOrder' /\ Collected' /\ EveryFailureReported' /\ Made'
    BY <1>13, <2>1 DEF GroupRaises, node, Inv, Progress, GroupsInOrder, Collected,
                       EveryFailureReported, Made, Idle
  <2> QED BY <2>2, <2>3 DEF Inv
<1>14. ASSUME GroupCollected PROVE Inv'
  <2>1. order \in Nat /\ order \in Orders /\ \A c \in Containers : StartOrder[c] \in Nat
    BY <1>14, OrdersNat DEF GroupCollected, Inv, TypeOK, Idle
  <2>2. \A c \in Containers : StartOrder[c] <= order => work[c] \in {"ok", "failed"}
    BY <1>0, <1>14, <2>1
    DEF GroupCollected, GroupEnded, Group, Inv, Progress, Ended
  <2>3. failed' = {c \in Containers : StartOrder[c] <= order /\ work[c] = "failed"}
    BY <1>14, <2>1 DEF GroupCollected, FailedOf, Group, Inv, Collected
  <2>4. result = "none" /\ UNCHANGED <<work, left, probes, appended, node>>
    BY <1>14 DEF GroupCollected, Inv, Collected
  <2>5. CASE Later # {}
    <3>1. order' = CHOOSE o \in Later : \A p \in Later : o <= p
      BY <1>14, <2>5 DEF GroupCollected
    <3>2. Later \in SUBSET Nat
      BY OrdersNat DEF Later
    <3>3. order' \in Later /\ \A p \in Later : order' <= p
      BY <2>5, <3>1, <3>2, Smallest, Zenon
    <3>4. order' \in Orders /\ order' \in Nat /\ order < order' /\ ~Idle'
      BY <3>2, <3>3, OrdersNat DEF Later, Idle
    <3>5. \A c \in Containers : StartOrder[c] < order' <=> StartOrder[c] <= order
      <4> SUFFICES ASSUME NEW c \in Containers, StartOrder[c] < order', ~(StartOrder[c] <= order)
                   PROVE  FALSE
        BY <2>1, <3>4
      <4>1. StartOrder[c] \in Later
        BY <2>1 DEF Later, Orders
      <4> QED BY <3>3, <3>4, <4>1, <2>1
    <3>6. UNCHANGED result
      BY <1>14, <2>5 DEF GroupCollected
    <3>7. TypeOK' /\ Shapes' /\ Counted'
      BY <2>3, <2>4, <3>4, <3>6 DEF node, Inv, TypeOK, Shapes, Counted
    <3>8. Progress' /\ GroupsInOrder'
      BY <1>14, <2>1, <2>2, <2>4, <3>4, <3>5
      DEF GroupCollected, Inv, Progress, GroupsInOrder
    <3>9. Collected' /\ EveryFailureReported' /\ Made'
      BY <1>14, <2>3, <2>4, <3>4, <3>5, <3>6
      DEF GroupCollected, node, Inv, Collected, EveryFailureReported, Made
    <3> QED BY <3>7, <3>8, <3>9 DEF Inv
  <2>6. CASE Later = {}
    <3>1. \A c \in Containers : StartOrder[c] <= order
      BY <2>1, <2>6 DEF Later, Orders
    <3>2. Idle' /\ result' \in {"ok", "failed"}
      BY <1>14, <2>6 DEF GroupCollected, Idle
    <3>3. \A c \in Containers : work[c] \in {"ok", "failed"}
      BY <2>2, <3>1
    <3>4. TypeOK' /\ Shapes' /\ Counted'
      BY <2>3, <2>4, <3>2 DEF node, Inv, TypeOK, Shapes, Counted, Idle
    <3>5. Progress' /\ GroupsInOrder'
      BY <2>4, <3>2, <3>3 DEF Inv, Progress, GroupsInOrder, Busy
    <3>6. Collected' /\ EveryFailureReported' /\ Made'
      BY <2>3, <2>4, <3>1, <3>2 DEF Collected, EveryFailureReported, Made
    <3> QED BY <3>4, <3>5, <3>6 DEF Inv
  <2> QED BY <2>5, <2>6
<1>15. CASE UNCHANGED vars
  BY <1>15 DEF vars, Inv, TypeOK, Shapes, Counted, Progress, GroupsInOrder, Collected,
               EveryFailureReported, Made, Idle
<1> QED
  BY <1>1, <1>2, <1>3, <1>4, <1>5, <1>6, <1>7, <1>8, <1>9, <1>10, <1>11, <1>12, <1>13, <1>14, <1>15
  DEF Next, Worker, Main

-----------------------------------------------------------------------------
\* The threads' and podman's state keep their types: no definition gets its
\* healthcheck mount more often than its container has attempts.
THEOREM TypeCorrect == Spec => []TypeOK
<1>1. Inv => TypeOK BY DEF Inv
<1> QED BY <1>1, InvInit, InvNext, PTL DEF Spec

\* No container is touched before all of every group before it have ended.
THEOREM OrderKept == Spec => []GroupsInOrder
<1>1. Inv => GroupsInOrder BY DEF Inv
<1> QED BY <1>1, InvInit, InvNext, PTL DEF Spec

\* The report of a failed run names all containers that failed and no other.
THEOREM ReportComplete == Spec => []EveryFailureReported
<1>1. Inv => EveryFailureReported BY DEF Inv
<1> QED BY <1>1, InvInit, InvNext, PTL DEF Spec

\* After a run that reports success every container is one of this run.
THEOREM SuccessMeansCreated == Spec => OkMeansCreated
<1>1. Inv /\ [Next]_vars =>
        [result' = "ok" /\ result # "ok" =>
           \A c \in Created : label[c] # Absent /\ label[c].rev = definition[c]]_vars
  <2> SUFFICES ASSUME Inv, Next, result' = "ok", result # "ok"
               PROVE  \A c \in Created : label[c] # Absent /\ label[c].rev = definition[c]
    OBVIOUS
  <2>1. GroupCollected
    BY DEF Next, EditDefinition, SystemdStart, Exit, StartRun, Worker, Pick, Retry,
           CreateSucceeds, CreateFails, WorkerRaises, Probe, ExecSucceeds, ExecFails, Main,
           GroupRaises
  <2>2. Later = {} /\ failed' = {} /\ ~Idle
    BY <2>1 DEF GroupCollected
  <2>3. order \in Nat /\ \A c \in Containers : StartOrder[c] \in Nat
    BY <2>2, OrdersNat, ConstantsAssumption DEF Inv, TypeOK, Idle
  <2>4. \A c \in Containers : StartOrder[c] <= order
    BY <2>2, <2>3 DEF Later, Orders
  <2>5. \A c \in Containers : work[c] \in {"ok", "failed"}
    <3> SUFFICES ASSUME NEW c \in Containers PROVE work[c] \in {"ok", "failed"}
      OBVIOUS
    <3>1. CASE StartOrder[c] = order
      BY <2>1, <3>1 DEF GroupCollected, GroupEnded, Group, Ended
    <3>2. CASE StartOrder[c] < order
      BY <2>2, <3>2 DEF Inv, Progress
    <3> QED BY <2>3, <2>4, <3>1, <3>2
  <2>6. \A c \in Containers : work[c] # "failed"
    <3> SUFFICES ASSUME NEW c \in Containers, work[c] = "failed" PROVE FALSE
      OBVIOUS
    <3>1. CASE StartOrder[c] = order
      BY <2>1, <2>2, <3>1 DEF GroupCollected, FailedOf, Group
    <3>2. CASE StartOrder[c] < order
      BY <2>1, <2>2, <3>2 DEF GroupCollected, Inv, Collected
    <3> QED BY <2>3, <2>4, <3>1, <3>2
  <2> QED BY <2>2, <2>5, <2>6 DEF Inv, Made, Created
<1> QED BY <1>1, InvInit, InvNext, PTL DEF Spec, OkMeansCreated

\* An exec gives up on a container of an earlier group only if that failed or
\* has exited since.
THEOREM TargetFound == Spec => ExecFindsTarget
<1>1. Inv /\ [Next]_vars =>
        [\A e \in Execs :
           LET t == Target[e] IN
           /\ work[e] = "probing" /\ work'[e] \in {"sleeping", "failed"}
           /\ t \notin Unstarted /\ StartOrder[t] < StartOrder[e]
           => work[t] = "failed" \/ t \in exited]_vars
  <2> SUFFICES ASSUME Inv, Next, NEW e \in Execs,
                      work[e] = "probing", work'[e] \in {"sleeping", "failed"},
                      Target[e] \notin Unstarted, StartOrder[Target[e]] < StartOrder[e]
               PROVE  work[Target[e]] = "failed" \/ Target[e] \in exited
    BY Zenon
  <2>1. e \in Containers /\ Target[e] \in Created
    BY ConstantsAssumption DEF Created
  <2>2. Probe(e)
    <3>1. work \in [Containers -> Ended \cup Busy \cup {"waiting"}]
      BY DEF Inv, TypeOK
    <3>2. ASSUME NEW c \in Containers, Worker(c), c # e PROVE work'[e] = work[e]
      BY <3>1, <3>2, <2>1
      DEF Worker, Pick, Retry, Attempt, CreateSucceeds, CreateFails, WorkerRaises, Probe,
          ExecSucceeds, ExecFails, AttemptFails, Finish
    <3>3. CASE Worker(e)
      <4>1. ~WorkerRaises(e)
        BY <3>1, <2>1 DEF WorkerRaises, Finish
      <4> QED BY <3>3, <4>1 DEF Worker, Pick, Retry, CreateSucceeds, CreateFails, ExecSucceeds, ExecFails
    <3>4. CASE StartRun
      BY <3>4, <2>1 DEF StartRun
    <3> QED
      BY <3>2, <3>3, <3>4
      DEF Next, EditDefinition, SystemdStart, Exit, Main, GroupRaises, GroupCollected
  <2>3. Target[e] \notin up
    <3>1. work[e] # work'[e] /\ work'[e] # "executing"
      OBVIOUS
    <3>2. Finish(e, "executing") => work'[e] = "executing"
      BY <2>1 DEF Finish, Inv, TypeOK
    <3> QED BY <2>2, <3>1, <3>2 DEF Probe
  <2>4. ~Idle
    BY <2>1, InGroup DEF Busy
  <2>5. work[Target[e]] \in {"ok", "failed"}
    BY <2>1 DEF Inv, GroupsInOrder, Created
  <2> QED BY <2>1, <2>3, <2>4, <2>5 DEF Inv, Made
<1> QED BY <1>1, InvInit, InvNext, PTL DEF Spec, ExecFindsTarget

-----------------------------------------------------------------------------
(* The end of a run.                                                       *)

\* A step of a worker leaves the other workers where they are.
LEMMA OthersStay ==
  ASSUME Inv, NEW c \in Containers, Worker(c)
  PROVE  /\ UNCHANGED order
         /\ \A d \in Containers \ {c} :
              work'[d] = work[d] /\ left'[d] = left[d] /\ probes'[d] = probes[d]
<1>1. /\ work \in [Containers -> Ended \cup Busy \cup {"waiting"}]
      /\ left \in [Containers -> Nat] /\ probes \in [Containers -> 0..(Probes - 1)]
  BY DEF Inv, TypeOK, Shapes
<1>2. \A r : Finish(c, r) => \A d \in Containers \ {c} : work'[d] = work[d]
  BY <1>1 DEF Finish
<1>3. AttemptFails(c) => \A d \in Containers \ {c} : work'[d] = work[d] /\ left'[d] = left[d]
  BY <1>1, <1>2 DEF AttemptFails
<1>4. Attempt(c) => \A d \in Containers \ {c} : work'[d] = work[d] /\ probes'[d] = probes[d]
  BY <1>1 DEF Attempt
<1>5. CASE Pick(c) \/ Retry(c)
  BY <1>4, <1>5 DEF Pick, Retry
<1>6. CASE CreateSucceeds(c) \/ WorkerRaises(c) \/ ExecSucceeds(c)
  BY <1>2, <1>6 DEF CreateSucceeds, WorkerRaises, ExecSucceeds
<1>7. CASE CreateFails(c) \/ ExecFails(c)
  BY <1>3, <1>7 DEF CreateFails, ExecFails
<1>8. CASE Probe(c)
  <2>1. UNCHANGED order
    BY <1>8 DEF Probe
  <2>2. CASE Finish(c, "executing") /\ UNCHANGED <<left, probes>>
    BY <1>2, <2>1, <2>2
  <2>3. CASE probes' = [probes EXCEPT ![c] = @ + 1] /\ UNCHANGED <<work, left>>
    BY <1>1, <2>1, <2>3
  <2>4. CASE AttemptFails(c) /\ UNCHANGED probes
    BY <1>3, <2>1, <2>4
  <2> QED BY <1>8, <2>2, <2>3, <2>4 DEF Probe
<1> QED BY <1>5, <1>6, <1>7, <1>8 DEF Worker

\* It brings its own container nearer to its end.
LEMMA OwnDescends ==
  ASSUME Inv, NEW c \in Containers, Worker(c)
  PROVE  Lower(Ahead(c)', Ahead(c))
<1> DEFINE Fewer == left'[c] < left[c]
           Sooner == left'[c] = left[c] /\ Phase[work'[c]] < Phase[work[c]]
           Looked == /\ left'[c] = left[c] /\ work'[c] = work[c]
                     /\ Probes - probes'[c] < Probes - probes[c]
<1>1. Fewer \/ Sooner \/ Looked => Lower(Ahead(c)', Ahead(c))
  <2>1. Fewer => Lower(Ahead(c)', Ahead(c))
    BY DEF Lower, Ahead
  <2>2. Sooner => Lower(Ahead(c)', Ahead(c))
    BY DEF Lower, Ahead
  <2>3. Looked => Lower(Ahead(c)', Ahead(c))
    BY DEF Lower, Ahead
  <2> QED BY <2>1, <2>2, <2>3
<1>2. /\ work \in [Containers -> Ended \cup Busy \cup {"waiting"}]
      /\ left \in [Containers -> Nat] /\ probes \in [Containers -> 0..(Probes - 1)]
      /\ Probes \in Nat
  BY ConstantsAssumption DEF Inv, TypeOK, Shapes
<1>3. \A r : Finish(c, r) => work'[c] = r
  BY <1>2 DEF Finish
<1>4. AttemptFails(c) => Fewer \/ (left'[c] = left[c] /\ work'[c] = "failed")
  <2>1. CASE left[c] > 0
    BY <1>2, <2>1 DEF AttemptFails, RetriesAfter
  <2>2. CASE ~(left[c] > 0)
    BY <1>3, <2>2 DEF AttemptFails
  <2> QED BY <2>1, <2>2
<1>5. CASE Pick(c) \/ Retry(c)
  <2>1. /\ left'[c] = left[c] /\ work[c] \in {"waiting", "sleeping"}
        /\ work'[c] \in {"probing", "creating"}
    BY <1>2, <1>5 DEF Pick, Retry, Attempt
  <2>2. Sooner
    BY <2>1 DEF Phase
  <2> QED BY <1>1, <2>2
<1>6. CASE CreateSucceeds(c) \/ WorkerRaises(c) \/ ExecSucceeds(c)
  <2>1. /\ left'[c] = left[c] /\ work[c] \in {"creating", "probing", "executing"}
        /\ work'[c] \in {"ok", "raised"}
    BY <1>3, <1>6 DEF CreateSucceeds, WorkerRaises, ExecSucceeds
  <2>2. Sooner
    BY <2>1 DEF Phase
  <2> QED BY <1>1, <2>2
<1>7. CASE CreateFails(c) \/ ExecFails(c)
  <2>1. work[c] \in {"creating", "executing"} /\ AttemptFails(c)
    BY <1>7 DEF CreateFails, ExecFails
  <2>2. Fewer \/ Sooner
    BY <1>4, <2>1 DEF Phase
  <2> QED BY <1>1, <2>2
<1>8. CASE Probe(c)
  <2>1. work[c] = "probing"
    BY <1>8 DEF Probe
  <2>2. CASE Finish(c, "executing") /\ UNCHANGED <<left, probes>>
    <3>1. Sooner
      BY <1>3, <2>1, <2>2 DEF Phase
    <3> QED BY <1>1, <3>1
  <2>3. CASE probes' = [probes EXCEPT ![c] = @ + 1] /\ UNCHANGED <<work, left>>
    <3>1. Looked
      BY <1>2, <2>3
    <3> QED BY <1>1, <3>1
  <2>4. CASE AttemptFails(c) /\ UNCHANGED probes
    <3>1. Fewer \/ Sooner
      BY <1>4, <2>1, <2>4 DEF Phase
    <3> QED BY <1>1, <3>1
  <2> QED BY <1>8, <2>2, <2>3, <2>4 DEF Probe
<1> QED BY <1>5, <1>6, <1>7, <1>8 DEF Worker

\* Whatever fails, raises or exits, each step of a worker and of the main
\* thread brings the run nearer to its end.
THEOREM RunsDescend == Spec => StepsDescend
<1>1. ASSUME Inv, NEW c \in Containers, Worker(c)
      PROVE  /\ Lower(Ahead(c)', Ahead(c)) /\ UNCHANGED order
             /\ \A d \in Containers \ {c} : Ahead(d)' = Ahead(d)
  BY <1>1, OwnDescends, OthersStay DEF Ahead
<1>2. ASSUME Inv, Main
      PROVE  (Idle' \/ order' \in Later) /\ UNCHANGED <<work, left, probes>>
  <2>1. Later \in SUBSET Nat
    BY OrdersNat DEF Later
  <2>2. CASE GroupRaises
    BY <2>2 DEF GroupRaises, Idle
  <2>3. CASE GroupCollected
    <3>1. UNCHANGED <<work, left, probes>>
      BY <2>3 DEF GroupCollected
    <3>2. CASE Later # {}
      <4>1. order' = CHOOSE o \in Later : \A p \in Later : o <= p
        BY <2>3, <3>2 DEF GroupCollected
      <4>2. order' \in Later
        BY <2>1, <3>2, <4>1, Smallest
      <4> QED BY <3>1, <4>2
    <3>3. CASE Later = {}
      BY <2>3, <3>1, <3>3 DEF GroupCollected, Idle
    <3> QED BY <3>2, <3>3
  <2> QED BY <1>2, <2>2, <2>3 DEF Main
<1>3. ASSUME ~Idle, Next, ~Main, \A c \in Containers : ~Worker(c)
      PROVE  UNCHANGED <<order, work, left, probes>>
  BY <1>3 DEF Next, EditDefinition, SystemdStart, Exit, StartRun
<1>4. Inv /\ [Next]_vars =>
        [~Idle =>
           \/ \E c \in Containers : /\ Lower(Ahead(c)', Ahead(c)) /\ UNCHANGED order
                                   /\ \A d \in Containers \ {c} : Ahead(d)' = Ahead(d)
           \/ (Idle' \/ order' \in Later) /\ UNCHANGED <<work, left, probes>>
           \/ UNCHANGED <<order, work, left, probes>> /\ ~Main /\ \A c \in Containers : ~Worker(c)]_vars
  BY <1>1, <1>2, <1>3, Zenon
<1> QED BY <1>4, InvInit, InvNext, PTL DEF Spec, StepsDescend

=============================================================================
