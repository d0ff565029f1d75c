-------------------------- MODULE StatedirOwnership --------------------------
(***************************************************************************)
(* nova_statedir_ownership.py: gives /var/lib/nova to the nova user of the *)
(* container.  Directories always change hands; files only after an        *)
(* upgrade, which leaves a marker, and only from the nova user of the      *)
(* host.  libvirt, qemu and other NFS clients use the tree meanwhile, any  *)
(* call may fail, and the container may be killed and started again.       *)
(***************************************************************************)
EXTENDS Integers, Sequences

CONSTANTS
  Paths,        \* the names the tree may have, the top included
  Top,          \* the statedir
  Dirs,         \* those that name directories
  Parent,       \* the directory of a path
  Excluded,     \* NOVA_STATEDIR_OWNERSHIP_SKIP
  Unlabelled,   \* directories that are NFS mounts: no security contexts
  Uids, Gids,
  Target,       \* ids of nova in the container
  Previous,     \* ids of the marker: nova on the host
  Absent,       \* of a path: there is no such entry
  Contexts      \* the secontext marker is there

Owners == [uid : Uids, gid : Gids]

\* p and the directories it is under: what a set that has p must have, if it has
\* the directory of all it has.
Upward(S) == \A q \in S \ {Top} : Parent[q] \in S
Up == [p \in Paths |-> {q \in Paths : \A S \in SUBSET Paths : p \in S /\ Upward(S) => q \in S}]

ASSUME TreeAssumption ==
  /\ Top \in Dirs /\ Dirs \subseteq Paths /\ Unlabelled \subseteq Dirs
  /\ Parent \in [Paths \ {Top} -> Dirs]
  /\ \A p \in Paths : Top \in Up[p]
  /\ Top \notin Excluded
ASSUME ContextsAssumption == Contexts \in BOOLEAN
ASSUME OwnersAssumption ==
  Target \in Owners /\ Previous \in Owners /\ Absent \notin Owners

VARIABLES
  owner,      \* of each path
  marker,     \* the upgrade marker is there
  pc,         \* where the script is
  upgrade,    \* self.upgrade
  stack,      \* the calls of _walk, innermost first: entries left, and chcon
  cur         \* pathinfo

\* History: who was given each file by others, the files that changed while
\* the script held their stat, and those it cannot answer for.
VARIABLES given, raced, excused

script == <<pc, upgrade, stack, cur>>
vars == <<owner, marker, script, given, raced, excused>>

Files == Paths \ Dirs
PathInfo(p, o, c) == [path |-> p, owner |-> o, chcon |-> c]
NoInfo == PathInfo(Top, Target, FALSE)
PathInfos == [path : Paths, owner : Owners, chcon : BOOLEAN]
Frame(left, c) == [left |-> left, chcon |-> c]
Frames == [left : SUBSET Paths, chcon : BOOLEAN]
Steps == {"idle", "chown", "chcon", "list", "walk", "unmark"}

\* Every variable has its type.
TypeOK ==
  /\ owner \in [Paths -> Owners \cup {Absent}] /\ owner[Top] # Absent
  /\ marker \in BOOLEAN
  /\ pc \in Steps /\ upgrade \in BOOLEAN
  /\ stack \in Seq(Frames)
  /\ cur \in PathInfos
  /\ given \in [Files -> Owners \cup {Absent}]
  /\ raced \subseteq Files /\ excused \subseteq Paths

There == {p \in Paths : owner[p] # Absent}
Children(d) == {p \in There \ {Top} : Parent[p] = d}

Under(d) == {p \in Paths : d \in Up[p]}

Init ==
  /\ owner \in [Paths -> Owners \cup {Absent}]
  /\ Top \in There
  /\ \A p \in There \ {Top} : Parent[p] \in There
  /\ marker \in BOOLEAN
  /\ pc = "idle" /\ upgrade = FALSE /\ stack = <<>> /\ cur = NoInfo
  /\ given = [p \in Files |-> owner[p]] /\ raced = {} /\ excused = {}

-----------------------------------------------------------------------------
(* The script.                                                             *)

\* The ids a file changes from: those of nova in the container, without marker.
PreviousIds == IF upgrade THEN Previous ELSE Target

\* Mutant: both ids have to differ.
IdChange_Both == Target.uid # PreviousIds.uid /\ Target.gid # PreviousIds.gid
IdChange == Target # PreviousIds

Stat(p, c) == PathInfo(p, owner[p], c)

StartRun ==
  /\ pc = "idle"
  /\ upgrade' = marker
  /\ cur' = Stat(Top, Contexts)
  /\ pc' = "chown"
  /\ excused' = {}
  /\ UNCHANGED <<owner, marker, stack, given, raced>>

\* Mutant: the recursive chown the script replaces.
Wanted_All(i) == Target
\* What an entry's owner is to be, from its stat.
Wanted(i) ==
  IF i.path \in Dirs THEN Target
  ELSE [uid |-> IF i.owner.uid = PreviousIds.uid THEN Target.uid ELSE i.owner.uid,
        gid |-> IF i.owner.gid = PreviousIds.gid THEN Target.gid ELSE i.owner.gid]

\* Mutant: -1 is taken for an id.
Chowned_Raw(o, i) ==
  [uid |-> IF Wanted(i).uid = i.owner.uid THEN -1 ELSE Wanted(i).uid,
   gid |-> IF Wanted(i).gid = i.owner.gid THEN -1 ELSE Wanted(i).gid]
\* os.chown leaves an id alone that the stat says is right.
Chowned(o, i) ==
  [uid |-> IF Wanted(i).uid = i.owner.uid THEN o.uid ELSE Wanted(i).uid,
   gid |-> IF Wanted(i).gid = i.owner.gid THEN o.gid ELSE Wanted(i).gid]

\* After chown and chcon of an entry: a directory is walked, with chcon if c.
DoneWith(c) ==
  /\ pc' = IF cur.path \in Dirs THEN "list" ELSE "walk"
  /\ cur' = IF cur.path \in Dirs THEN [cur EXCEPT !.chcon = c] ELSE NoInfo

Chown ==
  /\ pc = "chown"
  /\ \/ Wanted(cur) = cur.owner /\ UNCHANGED owner
     \/ /\ Wanted(cur) # cur.owner /\ cur.path \in There
        /\ owner' = [owner EXCEPT ![cur.path] = Chowned(@, cur)]
  /\ IF cur.chcon THEN pc' = "chcon" /\ UNCHANGED cur ELSE DoneWith(FALSE)
  /\ UNCHANGED <<marker, upgrade, stack, given, raced, excused>>

\* Mutant: a directory without contexts does not end the labelling.
Chcon_r_Always == TRUE
Chcon_r == cur.path \notin Unlabelled

\* A directory that has no contexts is not an error: its tree is skipped.
Chcon ==
  /\ pc = "chcon" /\ cur.path \in There
  /\ DoneWith(cur.path = Top \/ Chcon_r)
  /\ UNCHANGED <<owner, marker, upgrade, stack, given, raced, excused>>

\* A call of _walk.
ListDir ==
  /\ pc = "list" /\ cur.path \in There
  /\ stack' = <<Frame(Children(cur.path), cur.chcon)>> \o stack
  /\ pc' = "walk" /\ cur' = NoInfo
  /\ UNCHANGED <<owner, marker, upgrade, given, raced, excused>>

Rest(p) == <<Frame(Head(stack).left \ {p}, Head(stack).chcon)>> \o Tail(stack)

\* The next entry is excluded, or a file and nothing has changed for files.
Skip(p) ==
  /\ pc = "walk" /\ stack # <<>> /\ p \in Head(stack).left
  /\ p \in Excluded \/ (p \in Files \cap There /\ ~IdChange)
  /\ stack' = Rest(p)
  /\ UNCHANGED <<owner, marker, pc, upgrade, cur, given, raced, excused>>

Visit(p) ==
  /\ pc = "walk" /\ stack # <<>> /\ p \in Head(stack).left
  /\ p \in There \ Excluded /\ (p \in Dirs \/ IdChange)
  /\ stack' = Rest(p)
  /\ cur' = Stat(p, Head(stack).chcon)
  /\ pc' = "chown"
  /\ UNCHANGED <<owner, marker, upgrade, given, raced, excused>>

\* The stat of an entry raises: it is gone, or the call fails.
StatFails(p) ==
  /\ pc = "walk" /\ stack # <<>> /\ p \in Head(stack).left \ Excluded
  /\ stack' = Rest(p)
  /\ excused' = excused \cup Under(p)
  /\ UNCHANGED <<owner, marker, pc, upgrade, cur, given, raced>>

\* A call for an entry raises: _walk goes on with the next one.
EntryFails ==
  /\ pc \in {"chown", "chcon", "list"} /\ stack # <<>>
  /\ pc' = "walk" /\ cur' = NoInfo
  /\ excused' = excused \cup Under(cur.path)
  /\ UNCHANGED <<owner, marker, upgrade, stack, given, raced>>

Return ==
  /\ pc = "walk" /\ stack # <<>> /\ Head(stack).left = {}
  /\ stack' = Tail(stack)
  /\ pc' = IF Len(stack) = 1 THEN "unmark" ELSE "walk"
  /\ UNCHANGED <<owner, marker, upgrade, cur, given, raced, excused>>

\* The marker goes only if this run has seen it.
RemoveMarker ==
  /\ pc = "unmark"
  /\ marker' = (marker /\ ~upgrade)
  /\ pc' = "idle" /\ cur' = NoInfo /\ upgrade' = FALSE
  /\ UNCHANGED <<owner, stack, given, raced, excused>>

\* What raises outside the loop ends the script, as does a kill.
Die ==
  /\ pc # "idle"
  /\ pc' = "idle" /\ cur' = NoInfo /\ stack' = <<>> /\ upgrade' = FALSE
  /\ UNCHANGED <<owner, marker, given, raced, excused>>

-----------------------------------------------------------------------------
(* Others: libvirt, qemu, NFS clients, the upgrade.                        *)

Held(p) == pc = "chown" /\ cur.path = p /\ p \in Files

\* An entry is created, is given to somebody, or goes.
Touch(p, o) ==
  /\ p # Top /\ Parent[p] \in There
  /\ o = Absent => \A q \in Paths \ {Top} : Parent[q] = p => q \notin There
  /\ o # owner[p]
  /\ owner' = [owner EXCEPT ![p] = o]
  /\ given' = [given EXCEPT ![p] = o]
  /\ raced' = IF Held(p) THEN raced \cup {p} ELSE raced \ {p}
  /\ excused' = IF pc = "idle" THEN excused ELSE excused \cup {p}
  /\ UNCHANGED <<marker, script>>

LayMarker ==
  /\ ~marker
  /\ marker' = TRUE
  /\ UNCHANGED <<owner, script, given, raced, excused>>

Next ==
  \/ StartRun \/ Chown \/ Chcon \/ ListDir
  \/ \E p \in Paths : Skip(p) \/ Visit(p)
  \/ Return \/ RemoveMarker
  \/ \E p \in Paths : StatFails(p)
  \/ EntryFails \/ Die
  \/ \E p \in Paths : \E o \in Owners \cup {Absent} : Touch(p, o)
  \/ LayMarker

Spec == Init /\ [][Next]_vars

-----------------------------------------------------------------------------
(* Properties.                                                             *)

\* An id a file may have after an id it was given: that one, or Target's in
\* place of Previous's.
Becomes(from, to, previous, target) == to = from \/ (from = previous /\ to = target)

\* Over any number of runs, kills and errors a file keeps the owner others gave
\* it, but for the ids of nova on the host, which become those of nova in the
\* container: what root and qemu own is left alone (class comment, 127-132).
\* A file given away between its stat and its chown is the exception.
FilesKeepOwners ==
  \A p \in There \cap (Files \ raced) :
    /\ given[p] # Absent
    /\ Becomes(given[p].uid, owner[p].uid, Previous.uid, Target.uid)
    /\ Becomes(given[p].gid, owner[p].gid, Previous.gid, Target.gid)

\* A run that is about to remove the marker leaves nothing to nova of the host
\* and every directory to nova of the container, in what it may touch, but for
\* what raised or others changed while it ran.
InReach(p) == p \in There \ excused /\ Up[p] \cap Excluded = {}
MarkerOutlivesWork ==
  pc = "unmark" =>
    \A p \in Paths : InReach(p) =>
      IF p \in Dirs THEN owner[p] = Target
      ELSE upgrade => /\ owner[p].uid = Previous.uid => Previous.uid = Target.uid
                      /\ owner[p].gid = Previous.gid => Previous.gid = Target.gid

\* No context is set under a directory below the statedir that has none.  For
\* the statedir itself run() passes over what chcon answers and labels what is
\* in it, even if it is a mount without contexts.
LabelsStayOff == pc = "chcon" => \A d \in Up[cur.path] \ {cur.path, Top} : d \notin Unlabelled
=============================================================================
