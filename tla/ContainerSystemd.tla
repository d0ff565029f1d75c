--------------------------- MODULE ContainerSystemd ---------------------------
(* The container_systemd action of edpm_container_manage: it clears what    *)
(* older releases left beside the units of the containers (the .requires    *)
(* directories and the healthcheck timers), writes one edpm_<name>.service  *)
(* per container, reloads systemd, restarts the services whose unit changed *)
(* and makes sure the others are started.                                   *)
(*                                                                          *)
(* The result of a module is read for "changed" and never for "failed": a   *)
(* removal, a copy or a reload that fails is passed over.  Only a service   *)
(* that does not come up after Tries attempts ends the run, and a lost      *)
(* connection may end it anywhere.  Containers are numbered in the order of *)
(* container_config.                                                        *)
EXTENDS Naturals, FiniteSets

CONSTANTS
  N,        \* how many containers
  Units,    \* what the template can render for a container
  Upgraded, \* containers of which an older release left unit and healthcheck
  Tries,    \* attempts at a restart or a start
  NoUnit,   \* no such file, nothing loaded
  Stopped   \* no process of the service

ASSUME CountsAssumption == N \in Nat \ {0} /\ Tries \in Nat \ {0}
ASSUME NoUnitAssumption == NoUnit \notin Units /\ Stopped \notin Units \cup {NoUnit}

Containers == 1..N

ASSUME UpgradedAssumption == Upgraded \subseteq Containers

Parts == {"service", "timer"}

VARIABLES
  wanted,    \* what the template renders for each container
  unit,      \* /etc/systemd/system/edpm_<name>.service
  loaded,    \* what systemd has loaded of it
  enabled,   \* services that start with the node
  running,   \* the unit each service was started from
  requires,  \* containers with an edpm_<name>.requires
  files,     \* edpm_<name>_healthcheck.service and .timer
  ticking    \* containers whose healthcheck timer is active

VARIABLES
  pc,        \* what the action is doing, "idle" between runs
  todo,      \* containers its loop has not visited yet
  tries,     \* failed attempts at the service the loop is at
  changed,   \* changed_services of the run
  removed    \* systemd_reload: a healthcheck file was removed

\* History, read by the properties and never by an action's guard.
VARIABLES
  owed,      \* containers whose restart a run lost, until something makes up for it
  missed,    \* containers for which a call of the healthcheck cleanup failed
  clean      \* the run, or the last one and what followed, met no failure and no edit

systemd == <<unit, loaded, enabled, running>>
old == <<requires, files, ticking>>
task == <<pc, todo, tries, changed, removed>>
vars == <<wanted, systemd, old, task, owed, missed, clean>>

Loops == {"requires", "stat", "rmservice", "rmtimer", "copy", "restart", "ensure"}

TypeOK ==
  /\ wanted \in [Containers -> Units]
  /\ unit \in [Containers -> Units \cup {NoUnit}]
  /\ loaded \in [Containers -> Units \cup {NoUnit}]
  /\ enabled \in SUBSET Containers
  /\ running \in [Containers -> Units \cup {Stopped}]
  /\ requires \in SUBSET Containers
  /\ files \in [Containers -> SUBSET Parts]
  /\ ticking \in SUBSET Containers
  /\ pc \in Loops \cup {"idle", "rmreload", "reload"}
  /\ todo \in SUBSET Containers
  /\ tries \in 0..(Tries - 1)
  /\ changed \in SUBSET Containers
  /\ removed \in BOOLEAN
  /\ owed \in SUBSET Containers
  /\ missed \in SUBSET Containers
  /\ clean \in {"no", "sofar", "done"}

\* What systemd has loaded and what runs are the unit on disk.
Follows(c) == loaded[c] = unit[c] /\ running[c] \in {Stopped, unit[c]}

Start(u) == IF u = NoUnit THEN Stopped ELSE u

-----------------------------------------------------------------------------
(* A node that runs what an older release deployed, if anything.           *)
Init ==
  /\ wanted \in [Containers -> Units]
  /\ \E before \in [Containers -> Units] :
       unit = [c \in Containers |-> IF c \in Upgraded THEN before[c] ELSE NoUnit]
  /\ loaded = unit
  /\ enabled = Upgraded
  /\ running = [c \in Containers |-> Start(unit[c])]
  /\ requires = Upgraded
  /\ files = [c \in Containers |-> IF c \in Upgraded THEN Parts ELSE {}]
  /\ ticking = Upgraded
  /\ pc = "idle"
  /\ todo = {}
  /\ tries = 0
  /\ changed = {}
  /\ removed = FALSE
  /\ owed = {}
  /\ missed = {}
  /\ clean = "no"

-----------------------------------------------------------------------------
(* The operator and the node, beside the action.                           *)

\* New container definitions or a new template, between two runs.
Edit(c, u) ==
  /\ pc = "idle"
  /\ wanted[c] # u
  /\ wanted' = [wanted EXCEPT ![c] = u]
  /\ clean' = "no"
  /\ UNCHANGED <<systemd, old, task, owed, missed>>

\* A service stops: its container exits, or is created anew by the task
\* before this one.
Exit(c) ==
  /\ running[c] # Stopped
  /\ running' = [running EXCEPT ![c] = Stopped]
  /\ UNCHANGED <<wanted, unit, loaded, enabled, old, task, owed, missed, clean>>

\* The containers of S that still need the restart they were owed.
StillOwed(S) == {c \in S : ~Follows(c)'}

\* Restart=always.
AutoRestart(c) ==
  /\ running[c] = Stopped
  /\ loaded[c] # NoUnit
  /\ running' = [running EXCEPT ![c] = loaded[c]]
  /\ UNCHANGED <<wanted, unit, loaded, enabled, old, task, missed, clean>>
  /\ owed' = StillOwed(owed)

\* Another role or a package reloads systemd.
OtherReload ==
  /\ loaded' = unit
  /\ UNCHANGED <<wanted, unit, enabled, running, old, task, missed, clean>>
  /\ owed' = StillOwed(owed)

NoTask ==
  /\ pc' = "idle"
  /\ todo' = {}
  /\ tries' = 0
  /\ changed' = {}
  /\ removed' = FALSE

\* Only what is enabled, and has its file, comes back.
Reboot ==
  /\ loaded' = unit
  /\ running' = [c \in Containers |-> IF c \in enabled THEN Start(unit[c]) ELSE Stopped]
  /\ ticking' = {c \in ticking : "timer" \in files[c]}
  /\ NoTask
  /\ clean' = IF pc = "idle" THEN clean ELSE "no"
  /\ UNCHANGED <<wanted, unit, enabled, requires, files, missed>>
  /\ owed' = {}

-----------------------------------------------------------------------------
(* The action.                                                             *)

Enter(t, items) ==
  /\ pc' = t
  /\ todo' = items
  /\ tries' = 0

\* The item a loop over container_names is at.
Item(t, c) == pc = t /\ c \in todo /\ \A d \in todo : c <= d

Visited(c) ==
  /\ todo' = todo \ {c}
  /\ tries' = 0
  /\ UNCHANGED pc

\* A module fails and its result is not looked at.
PassedOver == clean' = "no"

\* The services the run has copied and not restarted yet.
Owing == IF pc = "restart" THEN changed \cap todo
         ELSE IF pc = "ensure" THEN {} ELSE changed

StartRun ==
  /\ pc = "idle"
  /\ Enter("requires", Containers)
  /\ clean' = "sofar"
  /\ UNCHANGED <<wanted, systemd, old, changed, removed, owed, missed>>

\* _cleanup_requires, and the same with a file module that fails.
RemoveRequires(c) ==
  /\ Item("requires", c)
  /\ Visited(c)
  /\ \/ requires' = requires \ {c} /\ UNCHANGED clean
     \/ PassedOver /\ UNCHANGED requires
  /\ UNCHANGED <<wanted, systemd, files, ticking, changed, removed, owed, missed>>

\* Mutant: the timer is removed before the service it starts.
NextPart_TimerFirst == [stat |-> "rmtimer", rmtimer |-> "rmservice", rmservice |-> "stat"]
NextPart == [stat |-> "rmservice", rmservice |-> "rmtimer", rmtimer |-> "stat"]

\* The loop of _cleanup_healthchecks goes on with the next file of c, and
\* after the last one with the next container.
GoOn(c) ==
  /\ pc' = NextPart[pc]
  /\ todo' = IF NextPart[pc] = "stat" THEN todo \ {c} ELSE todo
  /\ UNCHANGED <<tries, changed>>

\* No timer file, or a stat that fails: the container is left alone.
NoHealthcheck(c) ==
  /\ Item("stat", c)
  /\ Visited(c)
  /\ \/ "timer" \notin files[c] /\ UNCHANGED <<missed, clean>>
     \/ missed' = missed \cup {c} /\ PassedOver
  /\ UNCHANGED <<wanted, systemd, old, changed, removed, owed>>

\* _delete_service stops and disables the timer; its result is dropped.
StopTimer(c) ==
  /\ Item("stat", c)
  /\ "timer" \in files[c]
  /\ GoOn(c)
  /\ \/ ticking' = ticking \ {c} /\ UNCHANGED <<missed, clean>>
     \/ missed' = missed \cup {c} /\ PassedOver /\ UNCHANGED ticking
  /\ UNCHANGED <<wanted, systemd, requires, files, removed, owed>>

RemovePart(c, part) ==
  /\ Item([service |-> "rmservice", timer |-> "rmtimer"][part], c)
  /\ GoOn(c)
  /\ \/ /\ files' = [files EXCEPT ![c] = @ \ {part}]
        /\ removed' = (removed \/ part \in files[c])
        /\ UNCHANGED <<missed, clean>>
     \/ missed' = missed \cup {c} /\ PassedOver /\ UNCHANGED <<files, removed>>
  /\ UNCHANGED <<wanted, systemd, requires, ticking, owed>>

\* _systemd_reload; when it fails the services about to be restarted start
\* from what systemd had loaded.
DoReload(S) ==
  \/ loaded' = unit /\ UNCHANGED clean /\ owed' = StillOwed(owed)
  \/ PassedOver /\ UNCHANGED loaded /\ owed' = owed \cup S

\* Mutant: systemd is not reloaded after the copies.
NeedsReload_Never == FALSE
NeedsReload == IF pc = "rmreload" THEN removed ELSE changed # {}

\* The reload after the removals, if a file was removed, and the one after
\* the copies, if a unit was copied.
Reload ==
  /\ \/ pc = "rmreload" /\ Enter("copy", Containers)
     \/ pc = "reload" /\ Enter("restart", changed)
  /\ UNCHANGED <<wanted, unit, enabled, running, old, changed, removed, missed>>
  /\ IF NeedsReload THEN DoReload(changed) ELSE UNCHANGED <<loaded, clean, owed>>

\* Mutant: the result of the copy is not kept.
ChangedWith_Nothing(c) == changed
ChangedWith(c) == IF unit[c] = wanted[c] THEN changed ELSE changed \cup {c}

\* _create_units: a copy that differs is a change, one that fails is none.
Copy(c) ==
  /\ Item("copy", c)
  /\ Visited(c)
  /\ \/ unit' = [unit EXCEPT ![c] = wanted[c]] /\ changed' = ChangedWith(c) /\ UNCHANGED clean
     \/ PassedOver /\ UNCHANGED <<unit, changed>>
  /\ UNCHANGED <<wanted, loaded, enabled, running, old, removed, owed, missed>>

\* state=restarted, enabled: a service systemd knows is stopped and started.
Restart(c) ==
  /\ Item("restart", c)
  /\ loaded[c] # NoUnit
  /\ Visited(c)
  /\ running' = [running EXCEPT ![c] = loaded[c]]
  /\ enabled' = enabled \cup {c}
  /\ UNCHANGED <<wanted, unit, loaded, old, changed, removed, missed, clean>>
  /\ owed' = StillOwed(owed)

\* state=started, enabled.
EnsureStarted(c) ==
  /\ Item("ensure", c)
  /\ loaded[c] # NoUnit
  /\ Visited(c)
  /\ running' = [running EXCEPT ![c] = IF @ = Stopped THEN loaded[c] ELSE @]
  /\ enabled' = enabled \cup {c}
  /\ UNCHANGED <<wanted, unit, loaded, old, changed, removed, missed, clean>>
  /\ owed' = StillOwed(owed)

\* The run ends without success.
Abort ==
  /\ NoTask
  /\ clean' = "no"
  /\ owed' = StillOwed(owed \cup Owing)

\* Mutants: a failed attempt is not counted; there is one attempt too many.
MoreTries_Endless == tries' = tries
MoreTries_OneTooMany == tries < Tries /\ tries' = tries + 1
MoreTries == tries + 1 < Tries /\ tries' = tries + 1

\* What a failed attempt leaves: the old process, none, or a new one whose
\* Result is not yet success; a start does nothing to a service that runs.
Leaves(c) == IF pc = "ensure" /\ running[c] # Stopped THEN {running[c]}
             ELSE {running[c], Stopped, Start(loaded[c])}

\* systemd reports no status or a Result other than success; after the last
\* attempt the exception leaves the action, whatever is left to visit.
AttemptFails(c) ==
  /\ Item("restart", c) \/ Item("ensure", c)
  /\ running' \in {[running EXCEPT ![c] = r] : r \in Leaves(c)}
  /\ enabled' \in {enabled, enabled \cup {c}}
  /\ UNCHANGED <<wanted, unit, loaded, old, missed>>
  /\ \/ /\ MoreTries
        /\ UNCHANGED <<pc, todo, changed, removed>>
        /\ clean' = "no"
        /\ owed' = StillOwed(owed)
     \/ tries + 1 = Tries /\ Abort

\* The loops in their order; "done" is the end of the run.
After == [requires |-> "stat", stat |-> "rmreload", copy |-> "reload",
          restart |-> "ensure", ensure |-> "done"]

NextLoop ==
  /\ pc \in {"requires", "stat", "copy", "restart"}
  /\ todo = {}
  /\ Enter(After[pc], IF pc = "restart" THEN Containers \ changed ELSE Containers)
  /\ UNCHANGED <<wanted, systemd, old, changed, removed, owed, missed, clean>>

Succeed ==
  /\ pc = "ensure"
  /\ todo = {}
  /\ NoTask
  /\ clean' = IF clean = "sofar" THEN "done" ELSE "no"
  /\ UNCHANGED <<wanted, systemd, old, owed, missed>>

\* The connection is lost, or the template does not render.
Interrupt ==
  /\ pc # "idle"
  /\ UNCHANGED <<wanted, systemd, old, missed>>
  /\ Abort

Step ==
  \/ \E c \in Containers :
       \/ RemoveRequires(c) \/ NoHealthcheck(c) \/ StopTimer(c)
       \/ \E part \in Parts : RemovePart(c, part)
       \/ Copy(c) \/ Restart(c) \/ EnsureStarted(c) \/ AttemptFails(c)
  \/ Reload \/ NextLoop \/ Succeed

Next ==
  \/ \E c \in Containers, u \in Units : Edit(c, u)
  \/ \E c \in Containers : Exit(c) \/ AutoRestart(c)
  \/ OtherReload \/ Reboot \/ StartRun \/ Interrupt
  \/ Step

Spec == Init /\ [][Next]_vars

-----------------------------------------------------------------------------
(* Properties.                                                             *)

\* Between two runs a service differs from its unit file only if a run ended,
\* or passed over a failed reload, between the copy and the restart: the next
\* run finds the file in place and owes it nothing.
DriftOnlyIfOwed == pc = "idle" => \A c \in Containers : Follows(c) \/ c \in owed

\* After a run without failures, and until something is edited, every unit is
\* the one called for, no .requires or healthcheck is left but where an
\* earlier cleanup failed, and every service that runs and was not owed a
\* restart runs it.
CleanRunDelivers ==
  clean = "done" =>
    /\ requires = {}
    /\ \A c \in Containers :
         /\ unit[c] = wanted[c]
         /\ c \notin owed => running[c] \in {Stopped, wanted[c]}
         /\ c \notin missed => files[c] = {} /\ c \notin ticking

\* Wherever a run is cut, what is left of a healthcheck is found again by the
\* next one: its timer's file, which is what the cleanup looks for, goes last.
CleanupResumes ==
  \A c \in Containers \ missed :
    files[c] # {} \/ c \in ticking => "timer" \in files[c]

\* How far the run is from its end: the loops ahead, the containers left to
\* this one, the files left of the healthcheck, the attempts left.
Stage == [requires |-> 7, stat |-> 6, rmservice |-> 6, rmtimer |-> 6, rmreload |-> 5,
          copy |-> 4, reload |-> 3, restart |-> 2, ensure |-> 1, idle |-> 0]
FilesLeft == [stat |-> 2, rmservice |-> 1]
Ahead == <<Stage[pc], Cardinality(todo),
           IF pc \in DOMAIN FilesLeft THEN FilesLeft[pc] ELSE 0, Tries - tries>>
Lower(r, s) == \E i \in 1..4 : r[i] < s[i] /\ \A j \in 1..(i - 1) : r[j] = s[j]

\* Whatever fails, each step of the action brings the run nearer to its end:
\* no order of failures and retries keeps it going for ever.
StepsDescend == [][Step => Lower(Ahead', Ahead)]_vars

=============================================================================
