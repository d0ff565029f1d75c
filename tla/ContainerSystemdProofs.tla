------------------------ MODULE ContainerSystemdProofs ------------------------
(***************************************************************************)
(* Proofs about ContainerSystemd, for any number of containers, units and  *)
(* attempts, and any order of failures, interruptions, reboots and edits.  *)
(* The properties speak of the end of a run; Inv says for each loop what   *)
(* of them holds already, and for which containers it has yet to hold.     *)
(***************************************************************************)
EXTENDS ContainerSystemd, FiniteSetTheorems, TLAPS

Early == {"idle", "requires", "stat", "rmservice", "rmtimer", "rmreload"}

\* The run has no changes before its copies, and restarts only what changed.
Shape ==
  /\ pc \in Early => changed = {}
  /\ pc = "restart" => todo \subseteq changed
  /\ clean = "done" => pc = "idle"
  /\ clean = "sofar" => pc # "idle"

\* What differs from its unit is owed a restart, by this run or since another;
\* past the reload, what systemd has not loaded is owed since another.
Debts ==
  \A c \in Containers :
    /\ Follows(c) \/ c \in owed \cup Owing
    /\ pc \notin {"copy", "reload"} => loaded[c] = unit[c] \/ c \in owed

\* The cleanup takes a healthcheck apart from its end.
Cleanup ==
  /\ CleanupResumes
  /\ \A c \in Containers \ missed :
       /\ Item("rmservice", c) \/ Item("rmtimer", c) => c \notin ticking
       /\ Item("rmtimer", c) => "service" \notin files[c]

\* What a run without failures has done so far.
Delivered ==
  /\ clean = "sofar" /\ pc = "requires" => requires \subseteq todo
  /\ clean # "no" /\ pc # "requires" => requires = {}
  /\ clean # "no" /\ pc # "requires" => \A c \in Containers \ missed :
       (files[c] = {} /\ c \notin ticking) \/ (pc \in {"stat", "rmservice", "rmtimer"} /\ c \in todo)
  /\ clean # "no" /\ pc \notin Early \ {"idle"} => \A c \in Containers :
       unit[c] = wanted[c] \/ (pc = "copy" /\ c \in todo)

Inv == TypeOK /\ Shape /\ Debts /\ Cleanup /\ Delivered

\* A loop is at one item at a time.
LEMMA OneItem ==
  ASSUME TypeOK, NEW c \in todo, NEW d \in todo, \A e \in todo : c <= e, \A e \in todo : d <= e
  PROVE  c = d
  BY CountsAssumption DEF TypeOK, Containers

TaskTypes ==
  /\ pc \in Loops \cup {"idle", "rmreload", "reload"}
  /\ todo \in SUBSET Containers
  /\ tries \in 0..(Tries - 1)
  /\ changed \in SUBSET Containers
  /\ removed \in BOOLEAN

\* The end of a run leaves nothing of it.
LEMMA NoTaskType == NoTask => TaskTypes'
<1> SUFFICES ASSUME NoTask PROVE TaskTypes'
  OBVIOUS
<1>1. 0 \in 0..(Tries - 1)
  BY CountsAssumption
<1>2. {} \in SUBSET Containers
  OBVIOUS
<1>3. "idle" \in Loops \cup {"idle", "rmreload", "reload"} /\ FALSE \in BOOLEAN
  OBVIOUS
<1> QED BY <1>1, <1>2, <1>3 DEF NoTask, TaskTypes

\* A node that has what an older release left, or nothing.
THEOREM InvInit == Init => Inv
<1> SUFFICES ASSUME Init PROVE Inv
  OBVIOUS
<1>1. \A c \in Containers : unit[c] \in Units \cup {NoUnit} /\ running[c] = Start(unit[c])
  BY UpgradedAssumption DEF Init
<1>2. TypeOK
  <2>1. unit \in [Containers -> Units \cup {NoUnit}] /\ running \in [Containers -> Units \cup {Stopped}]
    BY <1>1 DEF Init, Start
  <2>2. files \in [Containers -> SUBSET Parts] /\ {} \in SUBSET Containers
    BY DEF Init
  <2>3. TaskTypes
    <3>1. 0 \in 0..(Tries - 1)
      BY CountsAssumption
    <3> QED BY <3>1 DEF Init, TaskTypes
  <2> QED BY <2>1, <2>2, <2>3, UpgradedAssumption DEF Init, TypeOK, TaskTypes
<1>3. Debts
  BY <1>1 DEF Init, Debts, Follows, Start
<1>4. Cleanup
  BY DEF Init, Cleanup, CleanupResumes, Item, Parts
<1> QED BY <1>2, <1>3, <1>4 DEF Inv, Init, Shape, Delivered

-----------------------------------------------------------------------------
\* Every step keeps the types.
LEMMA TypeNext == TypeOK /\ [Next]_vars => TypeOK'
<1> SUFFICES ASSUME TypeOK, [Next]_vars PROVE TypeOK'
  OBVIOUS
<1> USE DEF TypeOK, systemd, old, task
<1>a. \A c \in Containers : Start(loaded[c]) \in Units \cup {Stopped}
                           /\ Start(unit[c]) \in Units \cup {Stopped}
  BY DEF Start
<1>1. CASE \E c \in Containers, u \in Units : Edit(c, u)
  BY <1>1 DEF Edit
<1>2. CASE \E c \in Containers : Exit(c) \/ AutoRestart(c)
  BY <1>2 DEF Exit, AutoRestart, StillOwed
<1>3. CASE OtherReload
  BY <1>3 DEF OtherReload, StillOwed
<1>4. CASE Reboot
  <2>1. TaskTypes'
    BY <1>4, NoTaskType DEF Reboot
  <2>2. running' \in [Containers -> Units \cup {Stopped}]
    BY <1>a, <1>4 DEF Reboot
  <2>3. ticking' \in SUBSET Containers /\ owed' \in SUBSET Containers
    BY <1>4 DEF Reboot
  <2> QED BY <1>4, <2>1, <2>2, <2>3 DEF Reboot, TaskTypes
<1>5. CASE StartRun
  BY <1>5, CountsAssumption DEF StartRun, Enter, Loops
<1>6. CASE Interrupt
  BY <1>6, NoTaskType DEF Interrupt, Abort, StillOwed, Owing, TaskTypes
<1>7. CASE Step
  <2>1. ASSUME NEW c \in Containers, RemoveRequires(c) PROVE TypeOK'
    BY <2>1, CountsAssumption DEF RemoveRequires, Visited, PassedOver
  <2>2. ASSUME NEW c \in Containers, NoHealthcheck(c) PROVE TypeOK'
    BY <2>2, CountsAssumption DEF NoHealthcheck, Visited, PassedOver
  <2>3. ASSUME NEW c \in Containers, StopTimer(c) PROVE TypeOK'
    BY <2>3 DEF StopTimer, GoOn, NextPart, PassedOver, Item, Loops
  <2>4. ASSUME NEW c \in Containers, NEW part \in Parts, RemovePart(c, part) PROVE TypeOK'
    <3>1. pc \in {"rmservice", "rmtimer"}
      BY <2>4 DEF RemovePart, Item, Parts
    <3>2. pc' \in Loops /\ todo' \in SUBSET Containers
      BY <2>4, <3>1 DEF RemovePart, GoOn, NextPart, Loops
    <3>3. files' \in [Containers -> SUBSET Parts]
      BY <2>4 DEF RemovePart
    <3> QED BY <2>4, <3>2, <3>3 DEF RemovePart, GoOn, PassedOver
  <2>5. ASSUME NEW c \in Containers, Copy(c) PROVE TypeOK'
    BY <2>5, CountsAssumption DEF Copy, Visited, PassedOver, ChangedWith
  <2>6. ASSUME NEW c \in Containers, Restart(c) \/ EnsureStarted(c) PROVE TypeOK'
    BY <2>6, CountsAssumption DEF Restart, EnsureStarted, Visited, StillOwed
  <2>7. ASSUME NEW c \in Containers, AttemptFails(c) PROVE TypeOK'
    <3>1. running' \in [Containers -> Units \cup {Stopped}] /\ enabled' \in SUBSET Containers
      BY <1>a, <2>7 DEF AttemptFails, Leaves
    <3>2. CASE Abort
      BY <2>7, <3>1, <3>2, NoTaskType DEF AttemptFails, Abort, StillOwed, Owing, TaskTypes
    <3>3. CASE MoreTries /\ clean' = "no" /\ owed' = StillOwed(owed)
               /\ UNCHANGED <<pc, todo, changed, removed>>
      BY <2>7, <3>1, <3>3, CountsAssumption DEF AttemptFails, MoreTries, StillOwed
    <3> QED BY <2>7, <3>2, <3>3 DEF AttemptFails
  <2>8. CASE Reload
    BY <2>8, CountsAssumption DEF Reload, Enter, DoReload, PassedOver, StillOwed, Loops
  <2>9. CASE NextLoop
    BY <2>9, CountsAssumption DEF NextLoop, Enter, After, Loops
  <2>10. CASE Succeed
    BY <2>10, NoTaskType DEF Succeed, TaskTypes
  <2> QED BY <1>7, <2>1, <2>2, <2>3, <2>4, <2>5, <2>6, <2>7, <2>8, <2>9, <2>10 DEF Step
<1>8. CASE UNCHANGED vars
  BY <1>8 DEF vars
<1> QED BY <1>1, <1>2, <1>3, <1>4, <1>5, <1>6, <1>7, <1>8 DEF Next

\* Every step keeps the shape of the run.
LEMMA ShapeNext == TypeOK /\ Shape /\ [Next]_vars => Shape'
<1> SUFFICES ASSUME TypeOK, Shape, [Next]_vars PROVE Shape'
  OBVIOUS
<1> USE DEF Shape, systemd, old, task, Early
<1>1. CASE \E c \in Containers, u \in Units : Edit(c, u)
  BY <1>1 DEF Edit
<1>2. CASE (\E c \in Containers : Exit(c) \/ AutoRestart(c)) \/ OtherReload
  BY <1>2 DEF Exit, AutoRestart, OtherReload
<1>3. CASE Reboot \/ Interrupt
  BY <1>3 DEF Reboot, NoTask, Interrupt, Abort
<1>4. CASE StartRun
  BY <1>4 DEF StartRun, Enter
<1>5. CASE Step
  <2>1. ASSUME NEW c \in Containers, RemoveRequires(c) \/ NoHealthcheck(c) PROVE Shape'
    BY <2>1 DEF RemoveRequires, NoHealthcheck, Visited, PassedOver, Item
  <2>2. ASSUME NEW c \in Containers, StopTimer(c) PROVE Shape'
    BY <2>2 DEF StopTimer, GoOn, NextPart, PassedOver, Item
  <2>3. ASSUME NEW c \in Containers, NEW part \in Parts, RemovePart(c, part) PROVE Shape'
    <3>1. pc \in {"rmservice", "rmtimer"}
      BY <2>3 DEF RemovePart, Item, Parts
    <3> QED BY <2>3, <3>1 DEF RemovePart, GoOn, NextPart, PassedOver
  <2>4. ASSUME NEW c \in Containers, Copy(c) PROVE Shape'
    BY <2>4 DEF Copy, Visited, PassedOver, Item
  <2>5. ASSUME NEW c \in Containers, Restart(c) \/ EnsureStarted(c) PROVE Shape'
    BY <2>5 DEF Restart, EnsureStarted, Visited, Item
  <2>6. ASSUME NEW c \in Containers, AttemptFails(c) PROVE Shape'
    BY <2>6 DEF AttemptFails, Abort, NoTask, Item
  <2>7. CASE Reload
    BY <2>7 DEF Reload, Enter, DoReload, PassedOver
  <2>8. CASE NextLoop
    BY <2>8 DEF NextLoop, Enter, After
  <2>9. CASE Succeed
    BY <2>9 DEF Succeed, NoTask
  <2> QED BY <1>5, <2>1, <2>2, <2>3, <2>4, <2>5, <2>6, <2>7, <2>8, <2>9 DEF Step
<1>6. CASE UNCHANGED vars
  BY <1>6 DEF vars
<1> QED BY <1>1, <1>2, <1>3, <1>4, <1>5, <1>6 DEF Next

\* Every step keeps count of the restarts that are due.
LEMMA DebtsNext == TypeOK /\ Shape /\ Debts /\ [Next]_vars => Debts'
<1> SUFFICES ASSUME TypeOK, Shape, Debts, [Next]_vars, NEW d \in Containers
             PROVE  /\ Follows(d)' \/ d \in owed' \cup Owing'
                    /\ pc' \notin {"copy", "reload"} => loaded'[d] = unit'[d] \/ d \in owed'
  BY DEF Debts
<1> USE DEF systemd, old, task
<1>a. /\ Follows(d) \/ d \in owed \cup Owing
      /\ pc \notin {"copy", "reload"} => loaded[d] = unit[d] \/ d \in owed
  BY DEF Debts
<1>b. owed' = StillOwed(owed) => (d \in owed => d \in owed' \/ Follows(d)')
  BY DEF StillOwed
<1>1. CASE \E c \in Containers, u \in Units : Edit(c, u)
  BY <1>a, <1>1 DEF Edit, Follows, Owing
<1>2. CASE \E c \in Containers : Exit(c)
  BY <1>a, <1>2 DEF Exit, Follows, Owing, TypeOK
<1>3. CASE \E c \in Containers : AutoRestart(c)
  BY <1>a, <1>b, <1>3 DEF AutoRestart, Follows, Owing, TypeOK
<1>4. CASE OtherReload
  BY <1>a, <1>b, <1>4 DEF OtherReload, Follows, Owing
<1>5. CASE Reboot
  BY <1>5 DEF Reboot, Follows, Start, TypeOK
<1>6. CASE StartRun
  BY <1>a, <1>6 DEF StartRun, Enter, Follows, Owing
<1>7. ASSUME NoTask, owed' = StillOwed(owed \cup Owing), UNCHANGED <<unit, loaded>>,
             running'[d] \in {running[d], Stopped, Start(loaded[d])}
      PROVE  /\ Follows(d)' \/ d \in owed' \cup Owing'
             /\ pc' \notin {"copy", "reload"} => loaded'[d] = unit'[d] \/ d \in owed'
  BY <1>a, <1>7 DEF NoTask, StillOwed, Follows, Start
<1>8. CASE Interrupt
  BY <1>7, <1>8 DEF Interrupt, Abort
<1>9. CASE Step
  <2>1. ASSUME NEW c \in Containers, RemoveRequires(c) \/ NoHealthcheck(c) \/ StopTimer(c)
        PROVE  /\ Follows(d)' \/ d \in owed' \cup Owing'
               /\ pc' \notin {"copy", "reload"} => loaded'[d] = unit'[d] \/ d \in owed'
    BY <1>a, <2>1 DEF RemoveRequires, NoHealthcheck, StopTimer, Visited, GoOn, NextPart, Item,
                      Follows, Owing
  <2>2. ASSUME NEW c \in Containers, NEW part \in Parts, RemovePart(c, part)
        PROVE  /\ Follows(d)' \/ d \in owed' \cup Owing'
               /\ pc' \notin {"copy", "reload"} => loaded'[d] = unit'[d] \/ d \in owed'
    <3>1. pc \in {"rmservice", "rmtimer"}
      BY <2>2 DEF RemovePart, Item, Parts
    <3> QED BY <1>a, <2>2, <3>1 DEF RemovePart, GoOn, NextPart, Follows, Owing
  <2>3. ASSUME NEW c \in Containers, Copy(c)
        PROVE  /\ Follows(d)' \/ d \in owed' \cup Owing'
               /\ pc' \notin {"copy", "reload"} => loaded'[d] = unit'[d] \/ d \in owed'
    BY <1>a, <2>3 DEF Copy, Visited, Item, ChangedWith, Follows, Owing, TypeOK
  <2>4. ASSUME NEW c \in Containers, Restart(c) \/ EnsureStarted(c)
        PROVE  /\ Follows(d)' \/ d \in owed' \cup Owing'
               /\ pc' \notin {"copy", "reload"} => loaded'[d] = unit'[d] \/ d \in owed'
    BY <1>a, <1>b, <2>4 DEF Restart, EnsureStarted, Visited, Item, Follows, Owing, TypeOK
  <2>5. ASSUME NEW c \in Containers, AttemptFails(c)
        PROVE  /\ Follows(d)' \/ d \in owed' \cup Owing'
               /\ pc' \notin {"copy", "reload"} => loaded'[d] = unit'[d] \/ d \in owed'
    <3>1. running'[d] \in {running[d], Stopped, Start(loaded[d])} /\ UNCHANGED <<unit, loaded>>
      BY <2>5 DEF AttemptFails, Leaves, TypeOK
    <3>2. CASE Abort
      BY <1>7, <3>1, <3>2 DEF Abort
    <3>3. CASE owed' = StillOwed(owed) /\ UNCHANGED <<pc, todo, changed>>
      BY <1>a, <1>b, <2>5, <3>1, <3>3 DEF AttemptFails, Item, Follows, Start, Owing
    <3> QED BY <2>5, <3>2, <3>3 DEF AttemptFails
  <2>6. CASE Reload
    BY <1>a, <1>b, <2>6 DEF Reload, Enter, DoReload, NeedsReload, Shape, Early, Follows, Owing, StillOwed
  <2>7. CASE NextLoop
    BY <1>a, <2>7 DEF NextLoop, Enter, After, Shape, Early, Follows, Owing
  <2>8. CASE Succeed
    BY <1>a, <2>8 DEF Succeed, NoTask, Follows, Owing
  <2> QED BY <1>9, <2>1, <2>2, <2>3, <2>4, <2>5, <2>6, <2>7, <2>8 DEF Step
<1>10. CASE UNCHANGED vars
  BY <1>a, <1>10 DEF vars, Follows, Owing
<1> QED BY <1>1, <1>2, <1>3, <1>4, <1>5, <1>6, <1>8, <1>9, <1>10 DEF Next

\* Every step leaves the rest of a healthcheck where the next cleanup finds it.
LEMMA CleanupNext == TypeOK /\ Cleanup /\ [Next]_vars => Cleanup'
<1> SUFFICES ASSUME TypeOK, Cleanup, [Next]_vars, NEW d \in Containers \ missed'
             PROVE  /\ files'[d] # {} \/ d \in ticking' => "timer" \in files'[d]
                    /\ Item("rmservice", d)' \/ Item("rmtimer", d)' => d \notin ticking'
                    /\ Item("rmtimer", d)' => "service" \notin files'[d]
  BY DEF Cleanup, CleanupResumes
<1> USE DEF systemd, old, task
<1>a. d \notin missed =>
        /\ files[d] # {} \/ d \in ticking => "timer" \in files[d]
        /\ Item("rmservice", d) \/ Item("rmtimer", d) => d \notin ticking
        /\ Item("rmtimer", d) => "service" \notin files[d]
  BY DEF Cleanup, CleanupResumes
<1>b. UNCHANGED <<missed, files, ticking>> /\ pc' \notin {"rmservice", "rmtimer"} =>
        /\ files'[d] # {} \/ d \in ticking' => "timer" \in files'[d]
        /\ Item("rmservice", d)' \/ Item("rmtimer", d)' => d \notin ticking'
        /\ Item("rmtimer", d)' => "service" \notin files'[d]
  BY <1>a DEF Item
<1>c. UNCHANGED <<missed, files, ticking, pc, todo>> =>
        /\ files'[d] # {} \/ d \in ticking' => "timer" \in files'[d]
        /\ Item("rmservice", d)' \/ Item("rmtimer", d)' => d \notin ticking'
        /\ Item("rmtimer", d)' => "service" \notin files'[d]
  BY <1>a DEF Item
<1>1. CASE (\E c \in Containers, u \in Units : Edit(c, u)) \/ OtherReload
           \/ (\E c \in Containers : Exit(c) \/ AutoRestart(c))
  BY <1>c, <1>1 DEF Edit, Exit, AutoRestart, OtherReload
<1>2. CASE Reboot
  BY <1>a, <1>2 DEF Reboot, NoTask, Item
<1>3. CASE StartRun \/ Interrupt
  BY <1>b, <1>3 DEF StartRun, Enter, Interrupt, Abort, NoTask
<1>4. CASE Step
  <2>1. ASSUME NEW c \in Containers, RemoveRequires(c) \/ Copy(c) \/ Restart(c) \/ EnsureStarted(c)
        PROVE  UNCHANGED <<missed, files, ticking>> /\ pc' \notin {"rmservice", "rmtimer"}
    BY <2>1 DEF RemoveRequires, Copy, Restart, EnsureStarted, Visited, Item
  <2>2. ASSUME NEW c \in Containers, AttemptFails(c)
        PROVE  UNCHANGED <<missed, files, ticking>> /\ pc' \notin {"rmservice", "rmtimer"}
    BY <2>2 DEF AttemptFails, Abort, NoTask, Item
  <2>3. CASE Reload \/ NextLoop \/ Succeed
    BY <1>b, <2>3 DEF Reload, NextLoop, Succeed, Enter, After, NoTask
  <2>4. ASSUME NEW c \in Containers, NoHealthcheck(c)
        PROVE  UNCHANGED <<files, ticking>> /\ pc' = "stat" /\ missed \subseteq missed'
    BY <2>4 DEF NoHealthcheck, Visited, Item
  <2>5. CASE \E c \in Containers : NoHealthcheck(c)
    BY <1>a, <2>4, <2>5 DEF Item
  <2>6. ASSUME NEW c \in Containers, StopTimer(c)
        PROVE  /\ files'[d] # {} \/ d \in ticking' => "timer" \in files'[d]
               /\ Item("rmservice", d)' \/ Item("rmtimer", d)' => d \notin ticking'
               /\ Item("rmtimer", d)' => "service" \notin files'[d]
    <3>1. pc' = "rmservice" /\ todo' = todo /\ Item("stat", c) /\ files' = files
      BY <2>6 DEF StopTimer, GoOn, NextPart, Item
    <3>2. Item("rmservice", d)' => d = c
      BY <3>1, OneItem DEF Item
    <3>3. /\ d \notin missed /\ ticking' \subseteq ticking
          /\ c \notin ticking' \/ c \in missed'
      BY <2>6 DEF StopTimer
    <3>4. ~Item("rmtimer", d)'
      BY <3>1 DEF Item
    <3> QED BY <1>a, <3>1, <3>2, <3>3, <3>4
  <2>7. ASSUME NEW c \in Containers, NEW part \in Parts, RemovePart(c, part)
        PROVE  /\ files'[d] # {} \/ d \in ticking' => "timer" \in files'[d]
               /\ Item("rmservice", d)' \/ Item("rmtimer", d)' => d \notin ticking'
               /\ Item("rmtimer", d)' => "service" \notin files'[d]
    <3>1. d \notin missed /\ ticking' = ticking
      BY <2>7 DEF RemovePart
    <3>2. \/ files' = [files EXCEPT ![c] = @ \ {part}] /\ missed' = missed
          \/ files' = files /\ c \in missed'
      BY <2>7 DEF RemovePart
    <3>3. CASE part = "service"
      <4>1. pc' = "rmtimer" /\ todo' = todo /\ Item("rmservice", c)
        BY <2>7, <3>3 DEF RemovePart, GoOn, NextPart, Item
      <4>2. Item("rmtimer", d)' => d = c
        BY <4>1, OneItem DEF Item
      <4>3. ~Item("rmservice", d)' /\ (d = c => d \notin ticking)
        BY <1>a, <3>1, <4>1 DEF Item
      <4>4. "timer" \in files[d] => "timer" \in files'[d]
        BY <3>2, <3>3 DEF TypeOK
      <4>5. d = c => "service" \notin files'[d]
        BY <3>2, <3>3 DEF TypeOK
      <4>6. files[d] = {} => files'[d] = {}
        BY <3>2 DEF TypeOK
      <4> QED BY <1>a, <3>1, <4>2, <4>3, <4>4, <4>5, <4>6
    <3>4. CASE part = "timer"
      <4>1. pc' = "stat" /\ Item("rmtimer", c)
        BY <2>7, <3>4 DEF RemovePart, GoOn, NextPart, Item
      <4>2. ~Item("rmservice", d)' /\ ~Item("rmtimer", d)'
        BY <4>1 DEF Item
      <4>3. CASE d = c
        <5>1. "service" \notin files[d] /\ d \notin ticking
          BY <1>a, <3>1, <4>1, <4>3
        <5>2. files'[d] = files[d] \ {"timer"}
          BY <3>2, <3>4, <4>3 DEF TypeOK
        <5> QED BY <3>1, <4>2, <5>1, <5>2 DEF TypeOK, Parts
      <4>4. CASE d # c
        <5>1. files'[d] = files[d]
          BY <3>2, <4>4 DEF TypeOK
        <5> QED BY <1>a, <3>1, <4>2, <5>1
      <4> QED BY <4>3, <4>4
    <3> QED BY <3>3, <3>4 DEF Parts
  <2> QED BY <1>b, <1>4, <2>1, <2>2, <2>3, <2>5, <2>6, <2>7 DEF Step
<1>5. CASE UNCHANGED vars
  BY <1>c, <1>5 DEF vars
<1> QED BY <1>1, <1>2, <1>3, <1>4, <1>5 DEF Next

\* Every step of a run without failures does its part.
LEMMA DeliveredNext ==
  TypeOK /\ Shape /\ Cleanup /\ Delivered /\ [Next]_vars => Delivered'
<1> SUFFICES ASSUME TypeOK, Shape, Cleanup, Delivered, [Next]_vars PROVE Delivered'
  OBVIOUS
<1> USE DEF systemd, old, task
<1>a. clean' = "no" => Delivered'
  BY DEF Delivered
<1>1. CASE \E c \in Containers, u \in Units : Edit(c, u)
  BY <1>a, <1>1 DEF Edit
<1>2. CASE (\E c \in Containers : Exit(c) \/ AutoRestart(c)) \/ OtherReload
  BY <1>2 DEF Exit, AutoRestart, OtherReload, Delivered
<1>3. CASE Reboot
  <2>1. CASE pc = "idle"
    BY <1>3, <2>1 DEF Reboot, NoTask, Delivered, Early
  <2> QED BY <1>a, <1>3, <2>1 DEF Reboot
<1>4. CASE StartRun
  BY <1>4 DEF StartRun, Enter, Delivered, TypeOK, Early
<1>5. CASE Interrupt
  BY <1>a, <1>5 DEF Interrupt, Abort
<1>6. CASE Step
  <2>1. ASSUME NEW c \in Containers, RemoveRequires(c) PROVE Delivered'
    BY <1>a, <2>1 DEF RemoveRequires, Visited, Item, PassedOver, Delivered, Early
  <2>2. ASSUME NEW c \in Containers, NoHealthcheck(c) PROVE Delivered'
    <3>1. CASE "timer" \notin files[c] /\ UNCHANGED <<missed, clean>>
      <4>1. c \notin missed => files[c] = {} /\ c \notin ticking
        BY <3>1 DEF Cleanup, CleanupResumes
      <4> QED BY <2>2, <3>1, <4>1 DEF NoHealthcheck, Visited, Item, Delivered, Early
    <3> QED BY <1>a, <2>2, <3>1 DEF NoHealthcheck, PassedOver
  <2>3. ASSUME NEW c \in Containers, StopTimer(c) PROVE Delivered'
    <3>1. CASE ticking' = ticking \ {c} /\ UNCHANGED <<missed, clean>>
      BY <2>3, <3>1 DEF StopTimer, GoOn, NextPart, Item, Delivered, Early
    <3> QED BY <1>a, <2>3, <3>1 DEF StopTimer, PassedOver
  <2>4. ASSUME NEW c \in Containers, NEW part \in Parts, RemovePart(c, part) PROVE Delivered'
    <3> SUFFICES ASSUME files' = [files EXCEPT ![c] = @ \ {part}], UNCHANGED <<missed, clean>>
                 PROVE  Delivered'
      BY <1>a, <2>4 DEF RemovePart, PassedOver
    <3>1. \A d \in Containers : files[d] = {} => files'[d] = {}
      BY DEF TypeOK
    <3>2. CASE part = "service"
      BY <2>4, <3>1, <3>2 DEF RemovePart, GoOn, NextPart, Item, Delivered, Early
    <3>3. CASE part = "timer"
      <4>1. c \notin missed => "service" \notin files[c] /\ c \notin ticking
        BY <2>4, <3>3 DEF RemovePart, Cleanup
      <4>2. c \notin missed => files'[c] = {}
        BY <3>3, <4>1 DEF TypeOK, Parts
      <4> QED BY <2>4, <3>1, <3>3, <4>1, <4>2
              DEF RemovePart, GoOn, NextPart, Item, Delivered, Early
    <3> QED BY <3>2, <3>3 DEF Parts
  <2>5. ASSUME NEW c \in Containers, Copy(c) PROVE Delivered'
    <3>1. CASE unit' = [unit EXCEPT ![c] = wanted[c]] /\ UNCHANGED clean
      BY <2>5, <3>1 DEF Copy, Visited, Item, Delivered, Early, TypeOK
    <3> QED BY <1>a, <2>5, <3>1 DEF Copy, PassedOver
  <2>6. ASSUME NEW c \in Containers, Restart(c) \/ EnsureStarted(c) PROVE Delivered'
    BY <2>6 DEF Restart, EnsureStarted, Visited, Item, Delivered, Early
  <2>7. ASSUME NEW c \in Containers, AttemptFails(c) PROVE Delivered'
    BY <1>a, <2>7 DEF AttemptFails, Abort
  <2>8. CASE Reload
    BY <1>a, <2>8 DEF Reload, Enter, DoReload, PassedOver, Delivered, Early
  <2>9. CASE NextLoop
    <3>1. UNCHANGED <<clean, requires, files, ticking, missed, unit, wanted>> /\ todo = {}
      BY <2>9 DEF NextLoop
    <3>2. CASE pc = "requires"
      <4>1. pc' = "stat" /\ todo' = Containers /\ (clean' # "no" => clean = "sofar")
        BY <2>9, <3>1, <3>2 DEF NextLoop, Enter, After, Shape, TypeOK
      <4> QED BY <3>1, <3>2, <4>1 DEF Delivered, Early
    <3>3. CASE pc = "stat"
      <4>1. pc' = "rmreload"
        BY <2>9, <3>3 DEF NextLoop, Enter, After
      <4> QED BY <3>1, <3>3, <4>1 DEF Delivered, Early
    <3>4. CASE pc \in {"copy", "restart"}
      <4>1. pc' \in {"reload", "ensure"}
        BY <2>9, <3>4 DEF NextLoop, Enter, After
      <4> QED BY <3>1, <3>4, <4>1 DEF Delivered, Early
    <3> QED BY <2>9, <3>2, <3>3, <3>4 DEF NextLoop
  <2>10. CASE Succeed
    BY <1>a, <2>10 DEF Succeed, NoTask, Delivered, Early
  <2> QED BY <1>6, <2>1, <2>2, <2>3, <2>4, <2>5, <2>6, <2>7, <2>8, <2>9, <2>10 DEF Step
<1>7. CASE UNCHANGED vars
  BY <1>7 DEF vars, Delivered
<1> QED BY <1>1, <1>2, <1>3, <1>4, <1>5, <1>6, <1>7 DEF Next

THEOREM InvNext == Inv /\ [Next]_vars => Inv'
  BY TypeNext, ShapeNext, DebtsNext, CleanupNext, DeliveredNext DEF Inv

THEOREM Invariance == Spec => []Inv
  BY InvInit, InvNext, PTL DEF Spec

-----------------------------------------------------------------------------
(* The properties.                                                         *)

\* Every reachable state has the types of TypeOK.
THEOREM TypeCorrect == Spec => []TypeOK
<1>1. Inv => TypeOK
  BY DEF Inv
<1> QED BY <1>1, Invariance, PTL

\* Between runs a service runs its unit file, unless a run was cut or a reload
\* failed between the copy and the restart.
THEOREM DriftOwed == Spec => []DriftOnlyIfOwed
<1>1. Inv => DriftOnlyIfOwed
  BY DEF Inv, Debts, DriftOnlyIfOwed, Shape, Early, Owing
<1> QED BY <1>1, Invariance, PTL

\* A run that met no failure has done all it is for.
THEOREM Delivers == Spec => []CleanRunDelivers
<1>1. Inv => CleanRunDelivers
  <2> SUFFICES ASSUME Inv, clean = "done" PROVE CleanRunDelivers
    BY DEF CleanRunDelivers
  <2>1. pc = "idle"
    BY DEF Inv, Shape
  <2>2. \A c \in Containers : c \notin owed => running[c] \in {Stopped, unit[c]}
    BY <2>1 DEF Inv, Debts, Follows, Shape, Early, Owing
  <2>3. \A c \in Containers : unit[c] = wanted[c]
    BY <2>1 DEF Inv, Delivered, Early
  <2> QED BY <2>1, <2>2, <2>3 DEF Inv, Delivered, CleanRunDelivers
<1> QED BY <1>1, Invariance, PTL

\* Wherever a cleanup is cut, the next one finds what it left.
THEOREM Resumes == Spec => []CleanupResumes
<1>1. Inv => CleanupResumes
  BY DEF Inv, Cleanup
<1> QED BY <1>1, Invariance, PTL

-----------------------------------------------------------------------------
(* The end of a run.                                                       *)

\* A loop that has visited an item has fewer left.
LEMMA FewerLeft ==
  ASSUME TypeOK, NEW c \in todo
  PROVE  Cardinality(todo \ {c}) < Cardinality(todo)
<1>1. IsFiniteSet(todo)
  <2>1. IsFiniteSet(1..N)
    BY CountsAssumption, FS_Interval
  <2> QED BY <2>1, FS_Subset DEF TypeOK, Containers
<1>2. Cardinality(todo \ {c}) = Cardinality(todo) - 1 /\ Cardinality(todo) \in Nat
  BY <1>1, FS_RemoveElement, FS_CardinalityType
<1> QED BY <1>2

\* Whatever fails, each step of the action brings the run nearer to its end.
THEOREM RunsDescend == Spec => StepsDescend
<1>1. ASSUME TypeOK, Step PROVE Lower(Ahead', Ahead)
  <2> DEFINE Sooner == Stage[pc'] < Stage[pc]
             Fewer == Stage[pc'] = Stage[pc] /\ Cardinality(todo') < Cardinality(todo)
             Left(p) == IF p \in DOMAIN FilesLeft THEN FilesLeft[p] ELSE 0
             Lesser == Stage[pc'] = Stage[pc] /\ todo' = todo /\ Left(pc') < Left(pc)
             Again == UNCHANGED <<pc, todo>> /\ Tries - tries' < Tries - tries
  <2>1. Sooner => Lower(Ahead', Ahead)
    BY DEF Lower, Ahead
  <2>2. Fewer => Lower(Ahead', Ahead)
    BY DEF Lower, Ahead
  <2>3. Lesser => Lower(Ahead', Ahead)
    BY DEF Lower, Ahead
  <2>4. Again => Lower(Ahead', Ahead)
    BY DEF Lower, Ahead
  <2>5. ASSUME NEW c \in Containers, c \in todo, Visited(c) PROVE Fewer
    BY <1>1, <2>5, FewerLeft DEF Visited
  <2>6. ASSUME NEW c \in Containers,
               RemoveRequires(c) \/ NoHealthcheck(c) \/ Copy(c) \/ Restart(c) \/ EnsureStarted(c)
        PROVE  Fewer
    BY <2>5, <2>6 DEF RemoveRequires, NoHealthcheck, Copy, Restart, EnsureStarted, Item
  <2>7. ASSUME NEW c \in Containers, StopTimer(c) PROVE Lesser
    BY <2>7 DEF StopTimer, Item, GoOn, NextPart, Stage, FilesLeft
  <2>8. ASSUME NEW c \in Containers, NEW part \in Parts, RemovePart(c, part) PROVE Fewer \/ Lesser
    <3>1. CASE part = "service"
      BY <2>8, <3>1 DEF RemovePart, Item, GoOn, NextPart, Stage, FilesLeft
    <3>2. CASE part = "timer"
      <4>1. pc = "rmtimer" /\ pc' = "stat" /\ todo' = todo \ {c} /\ c \in todo
        BY <2>8, <3>2 DEF RemovePart, Item, GoOn, NextPart
      <4> QED BY <1>1, <4>1, FewerLeft DEF Stage
    <3> QED BY <3>1, <3>2 DEF Parts
  <2>9. ASSUME NEW c \in Containers, AttemptFails(c) PROVE Again \/ Sooner
    <3>1. CASE MoreTries /\ UNCHANGED <<pc, todo>>
      BY <1>1, <3>1, CountsAssumption DEF MoreTries, TypeOK
    <3>2. CASE Abort
      BY <2>9, <3>2 DEF AttemptFails, Item, Abort, NoTask, Stage
    <3> QED BY <2>9, <3>1, <3>2 DEF AttemptFails
  <2>10. CASE Reload \/ Succeed
    <3>1. Sooner
      BY <2>10 DEF Reload, Succeed, Enter, NoTask, Stage
    <3> QED BY <2>1, <3>1
  <2>11. CASE NextLoop
    <3>1. Sooner
      BY <2>11 DEF NextLoop, Enter, After, Stage
    <3> QED BY <2>1, <3>1
  <2> HIDE DEF Sooner, Fewer, Lesser, Again
  <2> QED BY <1>1, <2>1, <2>2, <2>3, <2>4, <2>6, <2>7, <2>8, <2>9, <2>10, <2>11 DEF Step
<1>2. TypeOK /\ [Next]_vars => [Step => Lower(Ahead', Ahead)]_vars
  BY <1>1
<1> QED BY <1>2, TypeCorrect, PTL DEF Spec, StepsDescend

=============================================================================
