----------------------- MODULE QuadletDeployProofs -------------------------
(***************************************************************************)
(* Proofs about QuadletDeploy, for every number of containers, every set   *)
(* of template bodies and of configuration contents and every number of    *)
(* attempts.  IInv is inductive; the invariants of the runs follow.  That  *)
(* every step of the role lowers the measure of a run needs types only.    *)
(***************************************************************************)
EXTENDS QuadletDeploy, FiniteSetTheorems, TLAPS

\* The kinds of unit differ, and a unit or a process has the fields it was
\* built with.
LEMMA UnitShapes ==
  ASSUME NEW b, NEW h
  PROVE  /\ Quadlet(b, h).body = b
         /\ Quadlet(b, h).hash = h
         /\ Quadlet(b, h) # NoUnit
         /\ Quadlet(b, h) # Legacy
         /\ Legacy # NoUnit
  BY DEF Quadlet, NoUnit, Legacy

LEMMA ProcessShapes ==
  ASSUME NEW u, NEW k
  PROVE  /\ Process(u, k).unit = u
         /\ Process(u, k).conf = k
         /\ Process(u, k) # Stopped
  BY DEF Process, Stopped

\* A staged file with a hash is one that may be on disk, one on disk may be
\* loaded, and what is loaded may run.
LEMMA UnitTypes ==
  /\ \A b \in Bodies, k \in Confs : Quadlet(b, k) \in OnDisk
  /\ \A b \in Bodies, h \in Confs \cup {NoHash} : Quadlet(b, h) \in Staged
  /\ OnDisk \subseteq Loaded
  /\ Legacy \in Loaded /\ NoUnit \in Loaded /\ NoUnit \in OnDisk /\ NoUnit \in Staged
  /\ Stopped \in Processes
  BY DEF Staged, OnDisk, Loaded, Processes

LEMMA GeneratedType ==
  ASSUME TypeOK, NEW c \in Containers
  PROVE  Generated(c) \in Loaded /\ Generated(c) \in {Legacy, unit[c]}
  BY UnitTypes DEF TypeOK, Generated

\* What a start of a loaded unit leads to.
LEMMA LaunchType ==
  ASSUME TypeOK, NEW c \in Containers, NEW u \in Loaded
  PROVE  /\ Launch(c, u) \in Processes
         /\ Launch(c, u) # Stopped => Launch(c, u).unit = u
  BY UnitTypes, ProcessShapes DEF TypeOK, Launch, Processes

\* What the tasks do to the role's own state keeps its type.
LEMMA TaskTypes ==
  /\ 0 \in 0..(Attempts - 1)
  /\ \A t \in 0..(Attempts - 1) : t + 1 < Attempts => t + 1 \in 0..(Attempts - 1)
  /\ \A t \in {"idle", "render", "hash", "deploy", "reload", "restart", "ensure"} :
       t \in Tasks \cup {"idle"}
  BY AttemptsAssumption DEF Tasks, Loops

LEMMA AfterLoopValue ==
  ASSUME NEW t \in DOMAIN AfterLoop
  PROVE  \/ t = "render" /\ AfterLoop[t] = "hash"
         \/ t = "hash" /\ AfterLoop[t] = "deploy"
         \/ t = "deploy" /\ AfterLoop[t] = "reload"
         \/ t = "restart" /\ AfterLoop[t] = "ensure"
  BY DEF AfterLoop

\* IInv holds of a node before its first run.
THEOREM InvInit == Init => IInv
<1> SUFFICES ASSUME Init PROVE IInv
  OBVIOUS
<1>1. loaded \in [Containers -> Loaded] /\ running \in [Containers -> Processes]
  BY UnitTypes, ProcessShapes DEF Init, Generated, Launch, Processes
<1>2. TypeOK
  BY <1>1, UnitTypes, TaskTypes DEF Init, TypeOK
<1>3. FreshInv
  BY <1>1, UnitTypes, ProcessShapes, UnitShapes
  DEF Init, FreshInv, FollowsDisk, Stale, Owed, Generated, Launch
<1> QED
  BY <1>2, <1>3
  DEF Init, IInv, StagingInv, CopiedInv, SettledInv, ReloadBeforeRestart, IdempotentRun

\* Every step keeps IInv: one step per action, one leaf per conjunct.
THEOREM InvNext == IInv /\ [Next]_vars => IInv'
<1> SUFFICES ASSUME IInv, [Next]_vars PROVE IInv'
  OBVIOUS
<1> USE UnitTypes DEF IInv
<1>1. ASSUME NEW c \in Containers, NEW b \in Bodies, EditTemplate(c, b) PROVE IInv'
  <2>1. TypeOK'
    BY <1>1, UnitShapes, LaunchType, GeneratedType, TaskTypes DEF EditTemplate, TypeOK, task
  <2>2. StagingInv'
    BY <1>1, UnitShapes, LaunchType, GeneratedType
    DEF EditTemplate, StagingInv, Hashed, Desired, task, TypeOK
  <2>3. CopiedInv'
    BY <1>1, UnitShapes, LaunchType, GeneratedType DEF EditTemplate, CopiedInv, task, TypeOK
  <2>4. SettledInv'
    BY <1>1, UnitShapes, LaunchType, GeneratedType
    DEF EditTemplate, SettledInv, Desired, task, TypeOK
  <2>5. FreshInv'
    BY <1>1, UnitShapes, LaunchType, GeneratedType
    DEF EditTemplate, FreshInv, FollowsDisk, Stale, Owed, task, TypeOK
  <2>6. ReloadBeforeRestart'
    BY <1>1, UnitShapes, LaunchType, GeneratedType
    DEF EditTemplate, ReloadBeforeRestart, Generated, task, TypeOK
  <2>7. IdempotentRun'
    BY <1>1, UnitShapes, LaunchType, GeneratedType
    DEF EditTemplate, IdempotentRun, task, TypeOK
  <2> QED BY <2>1, <2>2, <2>3, <2>4, <2>5, <2>6, <2>7
<1>2. ASSUME NEW c \in Containers, NEW k \in Confs, EditConfig(c, k) PROVE IInv'
  <2>1. TypeOK'
    BY <1>2, UnitShapes, LaunchType, GeneratedType, TaskTypes DEF EditConfig, TypeOK, task
  <2>2. StagingInv'
    BY <1>2, UnitShapes, LaunchType, GeneratedType
    DEF EditConfig, StagingInv, Hashed, Desired, task, TypeOK
  <2>3. CopiedInv'
    BY <1>2, UnitShapes, LaunchType, GeneratedType DEF EditConfig, CopiedInv, task, TypeOK
  <2>4. SettledInv'
    BY <1>2, UnitShapes, LaunchType, GeneratedType
    DEF EditConfig, SettledInv, Desired, task, TypeOK
  <2>5. FreshInv'
    BY <1>2, UnitShapes, LaunchType, GeneratedType
    DEF EditConfig, FreshInv, FollowsDisk, Stale, Owed, task, TypeOK
  <2>6. ReloadBeforeRestart'
    BY <1>2, UnitShapes, LaunchType, GeneratedType
    DEF EditConfig, ReloadBeforeRestart, Generated, task, TypeOK
  <2>7. IdempotentRun'
    BY <1>2, UnitShapes, LaunchType, GeneratedType DEF EditConfig, IdempotentRun, task, TypeOK
  <2> QED BY <2>1, <2>2, <2>3, <2>4, <2>5, <2>6, <2>7
<1>3. ASSUME NEW c \in Containers, RemoveLegacy(c) PROVE IInv'
  <2>1. TypeOK'
    BY <1>3, UnitShapes, LaunchType, GeneratedType, TaskTypes DEF RemoveLegacy, TypeOK, task
  <2>2. StagingInv'
    BY <1>3, UnitShapes, LaunchType, GeneratedType
    DEF RemoveLegacy, StagingInv, Hashed, Desired, task, TypeOK
  <2>3. CopiedInv'
    BY <1>3, UnitShapes, LaunchType, GeneratedType DEF RemoveLegacy, CopiedInv, task, TypeOK
  <2>4. SettledInv'
    BY <1>3, UnitShapes, LaunchType, GeneratedType
    DEF RemoveLegacy, SettledInv, Desired, task, TypeOK
  <2>5. FreshInv'
    BY <1>3, UnitShapes, LaunchType, GeneratedType
    DEF RemoveLegacy, FreshInv, FollowsDisk, Stale, Owed, task, TypeOK
  <2>6. ReloadBeforeRestart'
    BY <1>3, UnitShapes, LaunchType, GeneratedType
    DEF RemoveLegacy, ReloadBeforeRestart, Generated, task, TypeOK
  <2>7. IdempotentRun'
    BY <1>3, UnitShapes, LaunchType, GeneratedType
    DEF RemoveLegacy, IdempotentRun, task, TypeOK
  <2> QED BY <2>1, <2>2, <2>3, <2>4, <2>5, <2>6, <2>7
<1>4. ASSUME NEW c \in Containers, Exit(c) PROVE IInv'
  BY <1>4, UnitShapes, LaunchType, GeneratedType
 
  DEF Exit, TypeOK, StagingInv, Hashed, Desired, CopiedInv, SettledInv, FreshInv,
      FollowsDisk, Stale, Owed,
      ReloadBeforeRestart, IdempotentRun, Generated, hist, task
<1>5. ASSUME NEW c \in Containers, AutoRestart(c) PROVE IInv'
  BY <1>5, UnitShapes, LaunchType, GeneratedType
 
  DEF AutoRestart, TypeOK, StagingInv, Hashed, Desired, CopiedInv, SettledInv, FreshInv,
      FollowsDisk, Stale, Owed,
      ReloadBeforeRestart, IdempotentRun, Generated, Caught, task
<1>6. ASSUME Reboot PROVE IInv'
  <2>1. TypeOK'
    BY <1>6, UnitShapes, LaunchType, GeneratedType, TaskTypes DEF Reboot, TypeOK, NoTask
  <2>2. StagingInv'
    BY <1>6, UnitShapes, LaunchType, GeneratedType
    DEF Reboot, StagingInv, Hashed, Desired, NoTask, TypeOK
  <2>3. CopiedInv'
    BY <1>6, UnitShapes, LaunchType, GeneratedType DEF Reboot, CopiedInv, NoTask, TypeOK
  <2>4. SettledInv'
    BY <1>6, UnitShapes, LaunchType, GeneratedType
    DEF Reboot, SettledInv, Desired, NoTask, TypeOK
  <2>5. FreshInv'
    BY <1>6, UnitShapes, LaunchType, GeneratedType
    DEF Reboot, FreshInv, FollowsDisk, Stale, Owed, NoTask, TypeOK
  <2>6. ReloadBeforeRestart'
    BY <1>6, UnitShapes, LaunchType, GeneratedType
    DEF Reboot, ReloadBeforeRestart, Generated, NoTask, TypeOK
  <2>7. IdempotentRun'
    BY <1>6, UnitShapes, LaunchType, GeneratedType DEF Reboot, IdempotentRun, NoTask, TypeOK
  <2> QED BY <2>1, <2>2, <2>3, <2>4, <2>5, <2>6, <2>7
<1>7. ASSUME OtherReload PROVE IInv'
  BY <1>7, UnitShapes, LaunchType, GeneratedType
 
  DEF OtherReload, TypeOK, StagingInv, Hashed, Desired, CopiedInv, SettledInv, FreshInv,
      FollowsDisk, Stale, Owed,
      ReloadBeforeRestart, IdempotentRun, Generated, hist, task
<1>8. ASSUME StartRun PROVE IInv'
  <2>1. TypeOK'
    BY <1>8, UnitShapes, LaunchType, GeneratedType, TaskTypes DEF StartRun, TypeOK, Enter, node
  <2>2. StagingInv'
    BY <1>8, UnitShapes, LaunchType, GeneratedType
    DEF StartRun, StagingInv, Hashed, Desired, Enter, node, TypeOK
  <2>3. CopiedInv'
    BY <1>8, UnitShapes, LaunchType, GeneratedType DEF StartRun, CopiedInv, Enter, node, TypeOK
  <2>4. SettledInv'
    BY <1>8, UnitShapes, LaunchType, GeneratedType
    DEF StartRun, SettledInv, Desired, Enter, node, TypeOK
  <2>5. FreshInv'
    BY <1>8, UnitShapes, LaunchType, GeneratedType
    DEF StartRun, FreshInv, FollowsDisk, Stale, Owed, Enter, node, TypeOK, CopiedInv
  <2>6. ReloadBeforeRestart'
    BY <1>8, UnitShapes, LaunchType, GeneratedType
    DEF StartRun, ReloadBeforeRestart, Generated, Enter, node, TypeOK
  <2>7. IdempotentRun'
    BY <1>8, UnitShapes, LaunchType, GeneratedType
    DEF StartRun, IdempotentRun, Enter, node, TypeOK
  <2> QED BY <2>1, <2>2, <2>3, <2>4, <2>5, <2>6, <2>7
<1>9. ASSUME Interrupt PROVE IInv'
  <2>1. TypeOK'
    BY <1>9, UnitShapes, LaunchType, GeneratedType, TaskTypes
    DEF Interrupt, TypeOK, Abort, NoTask, Owed, node
  <2>2. StagingInv'
    BY <1>9, UnitShapes, LaunchType, GeneratedType
    DEF Interrupt, StagingInv, Hashed, Desired, Abort, NoTask, Owed, node, TypeOK
  <2>3. CopiedInv'
    BY <1>9, UnitShapes, LaunchType, GeneratedType
    DEF Interrupt, CopiedInv, Abort, NoTask, Owed, node, TypeOK
  <2>4. SettledInv'
    BY <1>9, UnitShapes, LaunchType, GeneratedType
    DEF Interrupt, SettledInv, Desired, Abort, NoTask, Owed, node, TypeOK
  <2>5. FreshInv'
    BY <1>9, UnitShapes, LaunchType, GeneratedType
    DEF Interrupt, FreshInv, FollowsDisk, Stale, Owed, Abort, NoTask, node, TypeOK
  <2>6. ReloadBeforeRestart'
    BY <1>9, UnitShapes, LaunchType, GeneratedType
    DEF Interrupt, ReloadBeforeRestart, Generated, Abort, NoTask, Owed, node, TypeOK
  <2>7. IdempotentRun'
    BY <1>9, UnitShapes, LaunchType, GeneratedType
    DEF Interrupt, IdempotentRun, Abort, NoTask, Owed, node, TypeOK
  <2> QED BY <2>1, <2>2, <2>3, <2>4, <2>5, <2>6, <2>7
<1>10. ASSUME NEW c \in Containers, Render(c) PROVE IInv'
  <2>1. TypeOK'
    BY <1>10, UnitShapes, LaunchType, GeneratedType, TaskTypes
    DEF Render, TypeOK, Item, ItemDone, hist
  <2>2. StagingInv'
    BY <1>10, UnitShapes, LaunchType, GeneratedType
    DEF Render, StagingInv, Hashed, Desired, Item, ItemDone, hist, TypeOK
  <2>3. CopiedInv'
    BY <1>10, UnitShapes, LaunchType, GeneratedType
    DEF Render, CopiedInv, Item, ItemDone, hist, TypeOK
  <2>4. SettledInv'
    BY <1>10, UnitShapes, LaunchType, GeneratedType
    DEF Render, SettledInv, Desired, Item, ItemDone, hist, TypeOK
  <2>5. FreshInv'
    BY <1>10, UnitShapes, LaunchType, GeneratedType
    DEF Render, FreshInv, FollowsDisk, Stale, Owed, Item, ItemDone, hist, TypeOK
  <2>6. ReloadBeforeRestart'
    BY <1>10, UnitShapes, LaunchType, GeneratedType
    DEF Render, ReloadBeforeRestart, Generated, Item, ItemDone, hist, TypeOK
  <2>7. IdempotentRun'
    BY <1>10, UnitShapes, LaunchType, GeneratedType
    DEF Render, IdempotentRun, Item, ItemDone, hist, TypeOK
  <2> QED BY <2>1, <2>2, <2>3, <2>4, <2>5, <2>6, <2>7
<1>11. ASSUME NEW c \in Containers, InjectHash(c) PROVE IInv'
  <2>1. TypeOK'
    BY <1>11, UnitShapes, LaunchType, GeneratedType, TaskTypes
    DEF InjectHash, TypeOK, HashFor, Item, ItemDone, hist, StagingInv
  <2>2. StagingInv'
    BY <1>11, UnitShapes, LaunchType, GeneratedType
    DEF InjectHash, StagingInv, Hashed, Desired, HashFor, Item, ItemDone, hist, TypeOK
  <2>3. CopiedInv'
    BY <1>11, UnitShapes, LaunchType, GeneratedType
    DEF InjectHash, CopiedInv, HashFor, Item, ItemDone, hist, TypeOK
  <2>4. SettledInv'
    BY <1>11, UnitShapes, LaunchType, GeneratedType
    DEF InjectHash, SettledInv, Desired, HashFor, Item, ItemDone, hist, TypeOK
  <2>5. FreshInv'
    BY <1>11, UnitShapes, LaunchType, GeneratedType
    DEF InjectHash, FreshInv, FollowsDisk, Stale, Owed, HashFor, Item, ItemDone, hist,
        TypeOK
  <2>6. ReloadBeforeRestart'
    BY <1>11, UnitShapes, LaunchType, GeneratedType
    DEF InjectHash, ReloadBeforeRestart, Generated, HashFor, Item, ItemDone, hist, TypeOK
  <2>7. IdempotentRun'
    BY <1>11, UnitShapes, LaunchType, GeneratedType
    DEF InjectHash, IdempotentRun, HashFor, Item, ItemDone, hist, TypeOK
  <2> QED BY <2>1, <2>2, <2>3, <2>4, <2>5, <2>6, <2>7
<1>12. ASSUME NEW c \in Containers, Deploy(c) PROVE IInv'
  <2>1. TypeOK'
    BY <1>12, UnitShapes, LaunchType, GeneratedType, TaskTypes
    DEF Deploy, TypeOK, ChangedWith, Item, ItemDone, hist, StagingInv, Hashed
  <2>2. StagingInv'
    BY <1>12, UnitShapes, LaunchType, GeneratedType
    DEF Deploy, StagingInv, Hashed, Desired, ChangedWith, Item, ItemDone, hist, TypeOK
  <2>3. CopiedInv'
    BY <1>12, UnitShapes, LaunchType, GeneratedType
    DEF Deploy, CopiedInv, ChangedWith, Item, ItemDone, hist, TypeOK
  <2>4. SettledInv'
    BY <1>12, UnitShapes, LaunchType, GeneratedType
    DEF Deploy, SettledInv, Desired, ChangedWith, Item, ItemDone, hist, TypeOK,
        StagingInv, Hashed
  <2>5. FreshInv'
    BY <1>12, UnitShapes, LaunchType, GeneratedType
    DEF Deploy, FreshInv, FollowsDisk, Stale, Owed, ChangedWith, Item, ItemDone, hist,
        TypeOK
  <2>6. ReloadBeforeRestart'
    BY <1>12, UnitShapes, LaunchType, GeneratedType
    DEF Deploy, ReloadBeforeRestart, Generated, ChangedWith, Item, ItemDone, hist, TypeOK
  <2>7. IdempotentRun'
    BY <1>12, UnitShapes, LaunchType, GeneratedType
    DEF Deploy, IdempotentRun, ChangedWith, Item, ItemDone, hist, TypeOK, StagingInv,
        Hashed, SettledInv, Desired
  <2> QED BY <2>1, <2>2, <2>3, <2>4, <2>5, <2>6, <2>7
<1>13. ASSUME NEW c \in Containers, Restart(c) PROVE IInv'
  <2>1. TypeOK'
    BY <1>13, UnitShapes, LaunchType, GeneratedType, TaskTypes
    DEF Restart, TypeOK, Item, ItemDone
  <2>2. StagingInv'
    BY <1>13, UnitShapes, LaunchType, GeneratedType
    DEF Restart, StagingInv, Hashed, Desired, Item, ItemDone, TypeOK
  <2>3. CopiedInv'
    BY <1>13, UnitShapes, LaunchType, GeneratedType
    DEF Restart, CopiedInv, Item, ItemDone, TypeOK
  <2>4. SettledInv'
    BY <1>13, UnitShapes, LaunchType, GeneratedType
    DEF Restart, SettledInv, Desired, Item, ItemDone, TypeOK
  <2>5. FreshInv'
    BY <1>13, UnitShapes, LaunchType, GeneratedType
    DEF Restart, FreshInv, FollowsDisk, Stale, Owed, Item, ItemDone, TypeOK,
        ReloadBeforeRestart, Generated
  <2>6. ReloadBeforeRestart'
    BY <1>13, UnitShapes, LaunchType, GeneratedType
    DEF Restart, ReloadBeforeRestart, Generated, Item, ItemDone, TypeOK
  <2>7. IdempotentRun'
    BY <1>13, UnitShapes, LaunchType, GeneratedType
    DEF Restart, IdempotentRun, Item, ItemDone, TypeOK
  <2> QED BY <2>1, <2>2, <2>3, <2>4, <2>5, <2>6, <2>7
<1>14. ASSUME NEW c \in Containers, RestartAttemptFails(c) PROVE IInv'
  <2>1. TypeOK'
    <3>1. running' \in [Containers -> Processes]
      BY <1>14 DEF RestartAttemptFails, TypeOK
    <3>2. tries' \in 0..(Attempts - 1)
      BY <1>14, TaskTypes DEF RestartAttemptFails, MoreTries, ItemFails, TypeOK
    <3>3. /\ pc' = pc
          /\ todo' \in SUBSET Containers
          /\ failed' \in BOOLEAN
          /\ lost' \in SUBSET Containers
      BY <1>14 DEF RestartAttemptFails, MoreTries, ItemFails, TypeOK
    <3> QED BY <1>14, <3>1, <3>2, <3>3 DEF RestartAttemptFails, TypeOK
  <2>2. StagingInv'
    BY <1>14, UnitShapes, LaunchType, GeneratedType
    DEF RestartAttemptFails, StagingInv, Hashed, Desired, Item, ItemFails, MoreTries,
        TypeOK
  <2>3. CopiedInv'
    BY <1>14, UnitShapes, LaunchType, GeneratedType
    DEF RestartAttemptFails, CopiedInv, Item, ItemFails, MoreTries, TypeOK
  <2>4. SettledInv'
    BY <1>14, UnitShapes, LaunchType, GeneratedType
    DEF RestartAttemptFails, SettledInv, Desired, Item, ItemFails, MoreTries, TypeOK
  <2>5. FreshInv'
    BY <1>14, UnitShapes, LaunchType, GeneratedType
    DEF RestartAttemptFails, FreshInv, FollowsDisk, Stale, Owed, Item, ItemFails,
        MoreTries, TypeOK, ReloadBeforeRestart, Generated
  <2>6. ReloadBeforeRestart'
    BY <1>14, UnitShapes, LaunchType, GeneratedType
    DEF RestartAttemptFails, ReloadBeforeRestart, Generated, Item, ItemFails, MoreTries,
        TypeOK
  <2>7. IdempotentRun'
    BY <1>14, UnitShapes, LaunchType, GeneratedType
    DEF RestartAttemptFails, IdempotentRun, Item, ItemFails, MoreTries, TypeOK
  <2> QED BY <2>1, <2>2, <2>3, <2>4, <2>5, <2>6, <2>7
<1>15. ASSUME NEW c \in Containers, EnsureStarted(c) PROVE IInv'
  <2>1. TypeOK'
    BY <1>15, UnitShapes, LaunchType, GeneratedType, TaskTypes
    DEF EnsureStarted, TypeOK, Caught, Item, ItemDone
  <2>2. StagingInv'
    BY <1>15, UnitShapes, LaunchType, GeneratedType
    DEF EnsureStarted, StagingInv, Hashed, Desired, Caught, Item, ItemDone, TypeOK
  <2>3. CopiedInv'
    BY <1>15, UnitShapes, LaunchType, GeneratedType
    DEF EnsureStarted, CopiedInv, Caught, Item, ItemDone, TypeOK
  <2>4. SettledInv'
    BY <1>15, UnitShapes, LaunchType, GeneratedType
    DEF EnsureStarted, SettledInv, Desired, Caught, Item, ItemDone, TypeOK
  <2>5. FreshInv'
    BY <1>15, UnitShapes, LaunchType, GeneratedType
    DEF EnsureStarted, FreshInv, FollowsDisk, Stale, Owed, Caught, Item, ItemDone, TypeOK
  <2>6. ReloadBeforeRestart'
    BY <1>15, UnitShapes, LaunchType, GeneratedType
    DEF EnsureStarted, ReloadBeforeRestart, Generated, Caught, Item, ItemDone, TypeOK
  <2>7. IdempotentRun'
    BY <1>15, UnitShapes, LaunchType, GeneratedType
    DEF EnsureStarted, IdempotentRun, Caught, Item, ItemDone, TypeOK
  <2> QED BY <2>1, <2>2, <2>3, <2>4, <2>5, <2>6, <2>7
<1>16. ASSUME NEW c \in Containers, StepFails(c) PROVE IInv'
  <2>1. TypeOK'
    BY <1>16, UnitShapes, LaunchType, GeneratedType, TaskTypes
    DEF StepFails, TypeOK, Item, ItemFails, Loops, hist, node
  <2>2. StagingInv'
    BY <1>16, UnitShapes, LaunchType, GeneratedType
    DEF StepFails, StagingInv, Hashed, Desired, Item, ItemFails, Loops, hist, node, TypeOK
  <2>3. CopiedInv'
    BY <1>16, UnitShapes, LaunchType, GeneratedType
    DEF StepFails, CopiedInv, Item, ItemFails, Loops, hist, node, TypeOK
  <2>4. SettledInv'
    BY <1>16, UnitShapes, LaunchType, GeneratedType
    DEF StepFails, SettledInv, Desired, Item, ItemFails, Loops, hist, node, TypeOK
  <2>5. FreshInv'
    BY <1>16, UnitShapes, LaunchType, GeneratedType
    DEF StepFails, FreshInv, FollowsDisk, Stale, Owed, Item, ItemFails, Loops, hist, node,
        TypeOK
  <2>6. ReloadBeforeRestart'
    BY <1>16, UnitShapes, LaunchType, GeneratedType
    DEF StepFails, ReloadBeforeRestart, Generated, Item, ItemFails, Loops, hist, node,
        TypeOK
  <2>7. IdempotentRun'
    BY <1>16, UnitShapes, LaunchType, GeneratedType
    DEF StepFails, IdempotentRun, Item, ItemFails, Loops, hist, node, TypeOK
  <2> QED BY <2>1, <2>2, <2>3, <2>4, <2>5, <2>6, <2>7
<1>17. ASSUME Reload PROVE IInv'
  <2>1. TypeOK'
    BY <1>17, UnitShapes, LaunchType, GeneratedType, TaskTypes DEF Reload, TypeOK, Enter, hist
  <2>2. StagingInv'
    BY <1>17, UnitShapes, LaunchType, GeneratedType
    DEF Reload, StagingInv, Hashed, Desired, Enter, hist, TypeOK
  <2>3. CopiedInv'
    BY <1>17, UnitShapes, LaunchType, GeneratedType DEF Reload, CopiedInv, Enter, hist, TypeOK
  <2>4. SettledInv'
    BY <1>17, UnitShapes, LaunchType, GeneratedType
    DEF Reload, SettledInv, Desired, Enter, hist, TypeOK
  <2>5. FreshInv'
    BY <1>17, UnitShapes, LaunchType, GeneratedType
    DEF Reload, FreshInv, FollowsDisk, Stale, Owed, Enter, hist, TypeOK
  <2>6. ReloadBeforeRestart'
    BY <1>17, UnitShapes, LaunchType, GeneratedType
    DEF Reload, ReloadBeforeRestart, Generated, Enter, hist, TypeOK
  <2>7. IdempotentRun'
    BY <1>17, UnitShapes, LaunchType, GeneratedType
    DEF Reload, IdempotentRun, Enter, hist, TypeOK
  <2> QED BY <2>1, <2>2, <2>3, <2>4, <2>5, <2>6, <2>7
<1>18. ASSUME NextTask PROVE IInv'
  <2>1. TypeOK'
    <3>1. pc' \in Tasks
      BY <1>18, AfterLoopValue DEF NextTask, Enter, Tasks, Loops
    <3> QED BY <1>18, <3>1, TaskTypes DEF NextTask, TypeOK, Enter, LoopSucceeded, node, hist
  <2>2. StagingInv'
    BY <1>18, UnitShapes, LaunchType, GeneratedType, AfterLoopValue
    DEF NextTask, StagingInv, Hashed, Desired, Enter, LoopSucceeded, hist, node, TypeOK
  <2>3. CopiedInv'
    BY <1>18, UnitShapes, LaunchType, GeneratedType, AfterLoopValue
    DEF NextTask, CopiedInv, Enter, LoopSucceeded, hist, node, TypeOK
  <2>4. SettledInv'
    BY <1>18, UnitShapes, LaunchType, GeneratedType, AfterLoopValue
    DEF NextTask, SettledInv, Desired, Enter, LoopSucceeded, hist, node, TypeOK
  <2>5. FreshInv'
    BY <1>18, UnitShapes, LaunchType, GeneratedType, AfterLoopValue
    DEF NextTask, FreshInv, FollowsDisk, Stale, Owed, Enter, LoopSucceeded, hist, node,
        TypeOK
  <2>6. ReloadBeforeRestart'
    BY <1>18, UnitShapes, LaunchType, GeneratedType, AfterLoopValue
    DEF NextTask, ReloadBeforeRestart, Generated, Enter, LoopSucceeded, hist, node, TypeOK
  <2>7. IdempotentRun'
    BY <1>18, UnitShapes, LaunchType, GeneratedType, AfterLoopValue
    DEF NextTask, IdempotentRun, Enter, LoopSucceeded, hist, node, TypeOK
  <2> QED BY <2>1, <2>2, <2>3, <2>4, <2>5, <2>6, <2>7
<1>19. ASSUME EndFailed PROVE IInv'
  <2>1. TypeOK'
    BY <1>19, UnitShapes, LaunchType, GeneratedType, TaskTypes
    DEF EndFailed, TypeOK, Abort, Loops, NoTask, Owed, node
  <2>2. StagingInv'
    BY <1>19, UnitShapes, LaunchType, GeneratedType
    DEF EndFailed, StagingInv, Hashed, Desired, Abort, Loops, NoTask, Owed, node, TypeOK
  <2>3. CopiedInv'
    BY <1>19, UnitShapes, LaunchType, GeneratedType
    DEF EndFailed, CopiedInv, Abort, Loops, NoTask, Owed, node, TypeOK
  <2>4. SettledInv'
    BY <1>19, UnitShapes, LaunchType, GeneratedType
    DEF EndFailed, SettledInv, Desired, Abort, Loops, NoTask, Owed, node, TypeOK
  <2>5. FreshInv'
    BY <1>19, UnitShapes, LaunchType, GeneratedType
    DEF EndFailed, FreshInv, FollowsDisk, Stale, Owed, Abort, Loops, NoTask, node, TypeOK
  <2>6. ReloadBeforeRestart'
    BY <1>19, UnitShapes, LaunchType, GeneratedType
    DEF EndFailed, ReloadBeforeRestart, Generated, Abort, Loops, NoTask, Owed, node,
        TypeOK
  <2>7. IdempotentRun'
    BY <1>19, UnitShapes, LaunchType, GeneratedType
    DEF EndFailed, IdempotentRun, Abort, Loops, NoTask, Owed, node, TypeOK
  <2> QED BY <2>1, <2>2, <2>3, <2>4, <2>5, <2>6, <2>7
<1>20. ASSUME Succeed PROVE IInv'
  <2>1. TypeOK'
    BY <1>20, UnitShapes, LaunchType, GeneratedType, TaskTypes
    DEF Succeed, TypeOK, LoopSucceeded, NoTask, node
  <2>2. StagingInv'
    BY <1>20, UnitShapes, LaunchType, GeneratedType
    DEF Succeed, StagingInv, Hashed, Desired, LoopSucceeded, NoTask, node, TypeOK
  <2>3. CopiedInv'
    BY <1>20, UnitShapes, LaunchType, GeneratedType
    DEF Succeed, CopiedInv, LoopSucceeded, NoTask, node, TypeOK
  <2>4. SettledInv'
    BY <1>20, UnitShapes, LaunchType, GeneratedType
    DEF Succeed, SettledInv, Desired, LoopSucceeded, NoTask, node, TypeOK, CopiedInv,
        StagingInv, Hashed
  <2>5. FreshInv'
    BY <1>20, UnitShapes, LaunchType, GeneratedType
    DEF Succeed, FreshInv, FollowsDisk, Stale, Owed, LoopSucceeded, NoTask, node, TypeOK
  <2>6. ReloadBeforeRestart'
    BY <1>20, UnitShapes, LaunchType, GeneratedType
    DEF Succeed, ReloadBeforeRestart, Generated, LoopSucceeded, NoTask, node, TypeOK
  <2>7. IdempotentRun'
    BY <1>20, UnitShapes, LaunchType, GeneratedType
    DEF Succeed, IdempotentRun, LoopSucceeded, NoTask, node, TypeOK
  <2> QED BY <2>1, <2>2, <2>3, <2>4, <2>5, <2>6, <2>7
<1>21. CASE UNCHANGED vars
  BY <1>21
  DEF IInv, TypeOK, StagingInv, Hashed, CopiedInv, SettledInv, FreshInv, FollowsDisk,
      Stale, Owed, Desired, ReloadBeforeRestart, IdempotentRun, Generated, node, task,
      hist, vars
<1> QED BY <1>1, <1>2, <1>3, <1>4, <1>5, <1>6, <1>7, <1>8, <1>9, <1>10, <1>11, <1>12, <1>13, <1>14, <1>15, <1>16, <1>17, <1>18, <1>19, <1>20, <1>21
DEF Next, RoleStep

-----------------------------------------------------------------------------
\* The node's and the role's state keep their types, in runs of any length:
\* in particular no file without its hash is ever copied to the unit directory.
THEOREM TypeCorrect == Spec => []TypeOK
<1>1. IInv => TypeOK BY DEF IInv
<1> QED BY <1>1, InvInit, InvNext, PTL DEF Spec

\* A container runs an outdated unit between two runs only if a run that had
\* copied its file ended before restarting it.
THEOREM StaleOnlyIfLostThm == Spec => []StaleOnlyIfLost
<1>1. IInv => StaleOnlyIfLost
  BY DEF IInv, CopiedInv, FreshInv, FollowsDisk, Owed, StaleOnlyIfLost
<1> QED BY <1>1, InvInit, InvNext, PTL DEF Spec

\* A successful run without edits leaves every container on the unit called
\* for, but for lost restarts.
THEOREM Converges == Spec => []SettledRunsDesired
<1>1. IInv => SettledRunsDesired
  <2> SUFFICES ASSUME IInv, settled, NEW c \in Containers \ lost, running[c] # Stopped
               PROVE  running[c].unit \in {Legacy, Desired(c)}
    BY DEF IInv, SettledRunsDesired
  <2>1. c \notin lost \cup Owed
    BY DEF IInv, IdempotentRun, Owed
  <2>2. unit[c] = Desired(c)
    BY DEF IInv, SettledInv
  <2> QED BY <2>1, <2>2 DEF IInv, FreshInv, FollowsDisk, Stale
<1> QED BY <1>1, InvInit, InvNext, PTL DEF Spec

\* Running the role again after such a run copies nothing and restarts nothing.
THEOREM Idempotent == Spec => []IdempotentRun
<1>1. IInv => IdempotentRun BY DEF IInv
<1> QED BY <1>1, InvInit, InvNext, PTL DEF Spec

\* systemd has read the file on disk before the role restarts its container.
THEOREM ReloadedFirst == Spec => []ReloadBeforeRestart
<1>1. IInv => ReloadBeforeRestart BY DEF IInv
<1> QED BY <1>1, InvInit, InvNext, PTL DEF Spec

-----------------------------------------------------------------------------
(* The end of a run.                                                       *)

\* A loop that has visited an item has fewer left.
LEMMA FewerLeft ==
  ASSUME TypeOK, NEW c \in todo
  PROVE  Cardinality(todo \ {c}) < Cardinality(todo)
<1>1. IsFiniteSet(todo)
  <2>1. IsFiniteSet(1..N)
    BY ContainersAssumption, FS_Interval
  <2> QED BY <2>1, FS_Subset DEF TypeOK, Containers
<1>2. Cardinality(todo \ {c}) = Cardinality(todo) - 1 /\ Cardinality(todo) \in Nat
  BY <1>1, FS_RemoveElement, FS_CardinalityType
<1> QED BY <1>2

\* Whatever fails and whatever happens on the node, a run that goes on is
\* nearer to its end with each step the role takes.
THEOREM RunsDescend == Spec => StepsDescend
<1> DEFINE Sooner == Stage[pc'] < Stage[pc]
           Fewer == pc' = pc /\ Cardinality(todo') < Cardinality(todo)
           Again == UNCHANGED <<pc, todo>> /\ Attempts - tries' < Attempts - tries
<1>1. Sooner \/ Fewer \/ Again => Lower(Ahead', Ahead)
  <2>1. Sooner => Lower(Ahead', Ahead)
    BY DEF Lower, Ahead
  <2>2. Fewer => Lower(Ahead', Ahead)
    BY DEF Lower, Ahead
  <2>3. Again => Lower(Ahead', Ahead)
    BY DEF Lower, Ahead
  <2> QED BY <2>1, <2>2, <2>3
<1>2. ASSUME TypeOK, pc # "idle", NoTask PROVE Sooner
  <2>1. pc \in {"render", "hash", "deploy", "reload", "restart", "ensure"} /\ pc' = "idle"
    BY <1>2 DEF TypeOK, Tasks, Loops, NoTask
  <2> QED BY <2>1 DEF Stage
<1>3. ASSUME TypeOK, RoleStep PROVE Sooner \/ Fewer \/ Again
  <2>1. ASSUME NEW c \in Containers, Item(c), ItemDone(c) PROVE Fewer
    BY <1>3, <2>1, FewerLeft DEF Item, ItemDone
  <2>2. ASSUME NEW c \in Containers, Item(c), ItemFails(c) PROVE Fewer
    BY <1>3, <2>2, FewerLeft DEF Item, ItemFails
  <2>3. ASSUME NEW c \in Containers, RestartAttemptFails(c) PROVE Fewer \/ Again
    <3>1. CASE MoreTries /\ UNCHANGED <<pc, todo>>
      BY <1>3, <3>1, AttemptsAssumption DEF MoreTries, TypeOK
    <3>2. CASE ItemFails(c)
      BY <2>2, <2>3, <3>2 DEF RestartAttemptFails
    <3> QED BY <2>3, <3>1, <3>2 DEF RestartAttemptFails
  <2>4. ASSUME NEW c \in Containers,
               Render(c) \/ InjectHash(c) \/ Deploy(c) \/ Restart(c) \/ EnsureStarted(c)
        PROVE  Fewer
    BY <2>1, <2>4 DEF Render, InjectHash, Deploy, Restart, EnsureStarted
  <2>5. ASSUME NEW c \in Containers, StepFails(c) PROVE Fewer
    BY <2>2, <2>5 DEF StepFails
  <2>6. CASE Reload
    BY <2>6 DEF Reload, Enter, Stage
  <2>7. CASE NextTask
    BY <2>7, AfterLoopValue DEF NextTask, Enter, Stage
  <2>8. CASE EndFailed \/ Succeed
    BY <1>2, <1>3, <2>8 DEF EndFailed, Abort, Succeed, Loops
  <2> HIDE DEF Sooner, Fewer, Again
  <2> QED BY <1>3, <2>3, <2>4, <2>5, <2>6, <2>7, <2>8 DEF RoleStep
<1>4. ASSUME TypeOK, pc # "idle", Next, ~RoleStep PROVE Sooner \/ UNCHANGED task
  <2>1. CASE Reboot \/ Interrupt
    BY <1>2, <1>4, <2>1 DEF Reboot, Interrupt, Abort
  <2>2. CASE ~(Reboot \/ Interrupt)
    BY <1>4, <2>2 DEF Next, EditTemplate, EditConfig, RemoveLegacy, Exit, AutoRestart, OtherReload, StartRun
  <2> QED BY <2>1, <2>2
<1> HIDE DEF Sooner, Fewer, Again
<1>5. TypeOK /\ [Next]_vars =>
        [pc # "idle" => Lower(Ahead', Ahead) \/ (UNCHANGED task /\ ~RoleStep)]_vars
  BY <1>1, <1>3, <1>4
<1> QED BY <1>5, TypeCorrect, PTL DEF Spec, StepsDescend

=============================================================================
