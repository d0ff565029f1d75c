----------------------- MODULE StatedirOwnershipProofs -----------------------
(***************************************************************************)
(* Proofs about StatedirOwnership, for every tree, all ids and exclusions, *)
(* any number of runs, kills and errors and anything others do meanwhile.  *)
(* FilesKeepOwners is not inductive: the owner a chown replaces is the one *)
(* the stat has seen, which StatFits says is still there.  For the marker  *)
(* and the labels the invariant says of every entry that it is done,       *)
(* waits on the stack, or cannot be answered for, and of every frame that  *)
(* labels that no directory between the statedir and it is without         *)
(* contexts.                                                               *)
(***************************************************************************)
EXTENDS StatedirOwnership, TLAPS

\* The stat the script holds of a file is that of the file, unless others have
\* given the file away since.
StatFits ==
  pc = "chown" /\ cur.path \in Files \ raced => cur.owner = owner[cur.path]

Inv == TypeOK /\ FilesKeepOwners /\ StatFits

\* No entry is without its directory.
TreeKept == \A p \in There \ {Top} : Parent[p] \in There

\* The stat the script holds of any entry is that of the entry, unless it has
\* changed hands since, which excuses the run.
StatFresh ==
  pc = "chown" /\ cur.path \in There \ excused => cur.owner = owner[cur.path]

\* What MarkerOutlivesWork says of an entry.
Done(p) ==
  IF p \in Dirs THEN owner[p] = Target
  ELSE upgrade => /\ owner[p].uid = Previous.uid => Previous.uid = Target.uid
                  /\ owner[p].gid = Previous.gid => Previous.gid = Target.gid

\* The entry, or a directory it is under, is still to be visited: a listing has
\* it left, or the script is at it.
Listed(p) == \E i \in 1..Len(stack) : Up[p] \cap stack[i].left # {}
Pending(p) ==
  \/ Listed(p)
  \/ pc = "chown" /\ cur.path \in Up[p]
  \/ pc \in {"chcon", "list"} /\ cur.path \in Up[p] \ {p}

\* A run has done what it may touch, or still has it before it.
WorkDone ==
  /\ pc # "idle" => \A p \in Paths : InReach(p) => Done(p) \/ Pending(p)
  /\ pc = "unmark" => stack = <<>>

Work == TreeKept /\ StatFresh /\ WorkDone

\* No directory between the statedir and the entry is without contexts.
Labelled(p) == \A d \in Up[p] \ {p, Top} : d \notin Unlabelled

\* Entries whose contexts are to be set: that of the script, those of a listing.
Labels ==
  /\ pc = "chcon" => cur.chcon
  /\ pc \in {"chown", "chcon", "list"} /\ cur.chcon => Labelled(cur.path)
  /\ pc = "list" /\ cur.chcon => cur.path \in {Top} \cup (Paths \ Unlabelled)
  /\ \A i \in 1..Len(stack) : stack[i].chcon => \A p \in stack[i].left : Labelled(p)

LEMMA StatType ==
  ASSUME TypeOK, NEW p \in There, NEW c \in BOOLEAN
  PROVE  Stat(p, c) \in PathInfos /\ Stat(p, c).path = p /\ Stat(p, c).owner = owner[p]
  BY DEF TypeOK, Stat, PathInfo, PathInfos, There

LEMMA NoInfoType == NoInfo \in PathInfos
  BY TreeAssumption, OwnersAssumption DEF NoInfo, PathInfo, PathInfos

LEMMA DoneWithType ==
  ASSUME TypeOK, NEW c \in BOOLEAN, DoneWith(c)
  PROVE  pc' \in Steps \ {"chown"} /\ cur' \in PathInfos
<1>1. CASE cur.path \in Dirs
  BY <1>1 DEF TypeOK, DoneWith, Steps, PathInfos
<1>2. CASE cur.path \notin Dirs
  BY <1>2, NoInfoType DEF DoneWith, Steps
<1> QED BY <1>1, <1>2

\* The rest of the innermost listing is a stack again.
LEMMA RestType ==
  ASSUME TypeOK, stack # <<>>, NEW p
  PROVE  Rest(p) \in Seq(Frames)
<1>1. Head(stack) \in Frames /\ Tail(stack) \in Seq(Frames)
  BY DEF TypeOK
<1>2. Frame(Head(stack).left \ {p}, Head(stack).chcon) \in Frames
  BY <1>1 DEF Frame, Frames
<1> QED BY <1>1, <1>2 DEF Rest

\* What a chown makes of an owner.
LEMMA ChownedType ==
  ASSUME NEW o \in Owners, NEW i \in PathInfos
  PROVE  Chowned(o, i) \in Owners
  BY OwnersAssumption DEF Chowned, Wanted, Owners, PathInfos

\* With a stat that fits, a chown of a file turns ids of Previous into ids of
\* Target and no others.
LEMMA ChownedFile ==
  ASSUME NEW i \in PathInfos, i.path \notin Dirs,
         NEW g \in Owners,
         Becomes(g.uid, i.owner.uid, Previous.uid, Target.uid),
         Becomes(g.gid, i.owner.gid, Previous.gid, Target.gid)
  PROVE  /\ Becomes(g.uid, Chowned(i.owner, i).uid, Previous.uid, Target.uid)
         /\ Becomes(g.gid, Chowned(i.owner, i).gid, Previous.gid, Target.gid)
<1>1. PreviousIds = Previous \/ PreviousIds = Target
  BY DEF PreviousIds
<1>2. CASE PreviousIds = Previous
  BY <1>2 DEF Becomes, Chowned, Wanted
<1>3. CASE PreviousIds = Target
  BY <1>3 DEF Becomes, Chowned, Wanted
<1> QED BY <1>1, <1>2, <1>3

\* Before the first run every file has the owner it was given.
THEOREM InvInit == Init => Inv
<1> SUFFICES ASSUME Init PROVE Inv
  OBVIOUS
<1>1. TypeOK
  <2>1. /\ owner \in [Paths -> Owners \cup {Absent}] /\ owner[Top] # Absent
        /\ given \in [Files -> Owners \cup {Absent}]
    BY DEF Init, Files, There
  <2>2. stack \in Seq(Frames) /\ pc \in Steps
    BY DEF Init, Steps
  <2>3. cur \in PathInfos
    BY NoInfoType DEF Init
  <2> QED BY <2>1, <2>2, <2>3 DEF Init, TypeOK
<1>2. FilesKeepOwners
  BY DEF Init, FilesKeepOwners, Becomes, There, Files
<1>3. StatFits
  BY DEF Init, StatFits
<1> QED BY <1>1, <1>2, <1>3 DEF Inv

\* Every step keeps it.
THEOREM InvNext == Inv /\ [Next]_vars => Inv'
<1> SUFFICES ASSUME Inv, [Next]_vars PROVE Inv'
  OBVIOUS
<1> USE DEF Inv
<1>1. CASE StartRun
  <2>1. TypeOK'
    <3>1. Top \in There
      BY TreeAssumption DEF TypeOK, There
    <3>2. cur' \in PathInfos
      BY <1>1, <3>1, ContextsAssumption, StatType DEF StartRun
    <3>3. "chown" \in Steps
      BY DEF Steps
    <3> QED BY <1>1, <3>2, <3>3 DEF StartRun, TypeOK
  <2>2. Top \notin Files
    BY TreeAssumption DEF Files
  <2>3. cur'.path = Top
    BY <1>1 DEF StartRun, Stat, PathInfo
  <2> QED BY <1>1, <2>1, <2>2, <2>3 DEF StartRun, FilesKeepOwners, StatFits, There
<1>2. CASE Chown
  <2>1. owner' \in [Paths -> Owners \cup {Absent}] /\ owner'[Top] # Absent
    <3>1. CASE cur.path \in There
      <4>1. owner[cur.path] \in Owners
        BY <3>1 DEF TypeOK, There
      <4>2. Chowned(owner[cur.path], cur) \in Owners
        BY <4>1, ChownedType DEF TypeOK
      <4> QED BY <1>2, <4>2, TreeAssumption, OwnersAssumption DEF Chown, TypeOK
    <3> QED BY <1>2, <3>1 DEF Chown, TypeOK
  <2>2. pc' \in Steps \ {"chown"} /\ cur' \in PathInfos
    <3>1. CASE cur.chcon
      BY <1>2, <3>1 DEF Chown, TypeOK, Steps
    <3> QED BY <1>2, <3>1, DoneWithType DEF Chown
  <2>3. TypeOK'
    BY <1>2, <2>1, <2>2 DEF Chown, TypeOK
  <2>4. FilesKeepOwners'
    <3> SUFFICES ASSUME NEW p \in There' \cap (Files \ raced')
        PROVE (/\ given[p] # Absent
               /\ Becomes(given[p].uid, owner[p].uid, Previous.uid, Target.uid)
               /\ Becomes(given[p].gid, owner[p].gid, Previous.gid, Target.gid))'
      BY DEF FilesKeepOwners
    <3>1. given' = given /\ raced' = raced /\ p \in There
      BY <1>2 DEF Chown, There, TypeOK
    <3>2. /\ given[p] # Absent
          /\ Becomes(given[p].uid, owner[p].uid, Previous.uid, Target.uid)
          /\ Becomes(given[p].gid, owner[p].gid, Previous.gid, Target.gid)
      BY <3>1 DEF FilesKeepOwners
    <3>3. CASE owner'[p] = owner[p]
      BY <3>1, <3>2, <3>3
    <3>4. CASE owner'[p] # owner[p]
      <4>1. p = cur.path /\ owner'[p] = Chowned(owner[p], cur)
        <5>1. p \in Paths
          BY DEF Files
        <5>2. cur.path \in There /\ owner' = [owner EXCEPT ![cur.path] = Chowned(owner[cur.path], cur)]
          BY <1>2, <3>4 DEF Chown
        <5> QED BY <3>4, <5>1, <5>2 DEF TypeOK
      <4>2. cur.owner = owner[p] /\ cur.path \notin Dirs
        BY <1>2, <3>1, <4>1 DEF Chown, StatFits, Files
      <4>3. given[p] \in Owners /\ cur \in PathInfos
        BY <3>1, <3>2 DEF TypeOK
      <4> QED BY <3>1, <3>2, <4>1, <4>2, <4>3, ChownedFile
    <3> QED BY <3>3, <3>4
  <2> QED BY <2>2, <2>3, <2>4 DEF StatFits
<1>3. CASE Chcon
  <2>1. pc' \in Steps \ {"chown"} /\ cur' \in PathInfos
    BY <1>3, DoneWithType DEF Chcon
  <2>2. TypeOK'
    BY <1>3, <2>1 DEF Chcon, TypeOK
  <2> QED BY <1>3, <2>1, <2>2 DEF Chcon, FilesKeepOwners, StatFits, There
<1>4. CASE ListDir
  <2>1. Frame(Children(cur.path), cur.chcon) \in Frames
    BY DEF TypeOK, Frame, Frames, Children, There, PathInfos
  <2>2. TypeOK'
    BY <1>4, <2>1, NoInfoType DEF ListDir, TypeOK, Steps
  <2> QED BY <1>4, <2>2 DEF ListDir, FilesKeepOwners, StatFits, There
<1>5. CASE \E p \in Paths : Skip(p)
  <2> PICK p \in Paths : Skip(p)
    BY <1>5
  <2>1. TypeOK'
    BY RestType DEF Skip, TypeOK
  <2> QED BY <2>1 DEF Skip, FilesKeepOwners, StatFits, There
<1>6. CASE \E p \in Paths : Visit(p)
  <2> PICK p \in Paths : Visit(p)
    BY <1>6
  <2>1. Head(stack).chcon \in BOOLEAN /\ p \in There
    <3>1. Head(stack) \in Frames
      BY DEF TypeOK, Visit
    <3> QED BY <3>1 DEF Frames, Visit
  <2>2. cur' \in PathInfos /\ cur'.path = p /\ cur'.owner = owner[p]
    BY <2>1, StatType DEF Visit
  <2>3. TypeOK'
    BY <2>2, RestType DEF Visit, TypeOK, Steps
  <2> QED BY <2>2, <2>3 DEF Visit, FilesKeepOwners, StatFits, There
<1>7. CASE \E p \in Paths : StatFails(p)
  <2> PICK p \in Paths : StatFails(p)
    BY <1>7
  <2>1. TypeOK'
    BY RestType DEF StatFails, TypeOK, Under
  <2> QED BY <2>1 DEF StatFails, FilesKeepOwners, StatFits, There
<1>8. CASE EntryFails
  <2>1. TypeOK'
    BY <1>8, NoInfoType DEF EntryFails, TypeOK, Steps, Under
  <2> QED BY <1>8, <2>1 DEF EntryFails, FilesKeepOwners, StatFits, There
<1>9. CASE Return
  <2>1. Tail(stack) \in Seq(Frames)
    BY <1>9 DEF Return, TypeOK
  <2>2. TypeOK'
    BY <1>9, <2>1 DEF Return, TypeOK, Steps
  <2> QED BY <1>9, <2>2 DEF Return, FilesKeepOwners, StatFits, There
<1>10. CASE RemoveMarker
  <2>1. TypeOK'
    BY <1>10, NoInfoType DEF RemoveMarker, TypeOK, Steps
  <2> QED BY <1>10, <2>1 DEF RemoveMarker, FilesKeepOwners, StatFits, There
<1>11. CASE Die
  <2>1. TypeOK'
    <3>1. <<>> \in Seq(Frames) /\ "idle" \in Steps
      BY DEF Steps
    <3> QED BY <1>11, <3>1, NoInfoType DEF Die, TypeOK
  <2> QED BY <1>11, <2>1 DEF Die, FilesKeepOwners, StatFits, There
<1>12. CASE \E p \in Paths : \E o \in Owners \cup {Absent} : Touch(p, o)
  <2> PICK p \in Paths, o \in Owners \cup {Absent} : Touch(p, o)
    BY <1>12
  <2>1. TypeOK'
    <3>1. owner' \in [Paths -> Owners \cup {Absent}] /\ owner'[Top] # Absent
      BY TreeAssumption DEF Touch, TypeOK
    <3>2. given' \in [Files -> Owners \cup {Absent}]
      BY DEF Touch, TypeOK
    <3>3. raced' \subseteq Files /\ excused' \subseteq Paths
      BY DEF Touch, TypeOK, Held
    <3> QED BY <3>1, <3>2, <3>3 DEF Touch, TypeOK, script
  <2>2. FilesKeepOwners'
    <3> SUFFICES ASSUME NEW q \in There' \cap (Files \ raced')
        PROVE (/\ given[q] # Absent
               /\ Becomes(given[q].uid, owner[q].uid, Previous.uid, Target.uid)
               /\ Becomes(given[q].gid, owner[q].gid, Previous.gid, Target.gid))'
      BY DEF FilesKeepOwners
    <3>1. CASE q = p
      <4>1. owner'[q] = o /\ given'[q] = o /\ o # Absent
        BY <3>1 DEF Touch, TypeOK, There
      <4> QED BY <4>1 DEF Becomes
    <3>2. CASE q # p
      <4>1. owner'[q] = owner[q] /\ given'[q] = given[q]
        BY <3>2 DEF Touch, TypeOK
      <4>2. q \in There /\ q \in Files \ raced
        BY <3>2, <4>1 DEF Touch, There
      <4> QED BY <4>1, <4>2 DEF FilesKeepOwners
    <3> QED BY <3>1, <3>2
  <2>3. StatFits'
    <3> SUFFICES ASSUME pc = "chown", cur.path \in Files \ raced'
        PROVE cur.owner = owner'[cur.path]
      BY DEF StatFits, Touch, script
    <3>1. cur.path # p
      BY DEF Touch, Held
    <3>2. cur.path \in Files \ raced
      BY <3>1 DEF Touch
    <3> QED BY <3>1, <3>2 DEF StatFits, Touch, TypeOK
  <2> QED BY <2>1, <2>2, <2>3
<1>13. CASE LayMarker
  <2>1. TypeOK'
    BY <1>13 DEF LayMarker, TypeOK, script
  <2> QED BY <1>13, <2>1 DEF LayMarker, FilesKeepOwners, StatFits, There, script
<1>14. CASE UNCHANGED vars
  <2>1. TypeOK'
    BY <1>14 DEF vars, script, TypeOK
  <2> QED BY <1>14, <2>1 DEF vars, script, FilesKeepOwners, StatFits, There
<1> QED
  BY <1>1, <1>2, <1>3, <1>4, <1>5, <1>6, <1>7, <1>8, <1>9, <1>10, <1>11, <1>12, <1>13, <1>14
     DEF Next

\* Every reachable state has the types of TypeOK.
THEOREM TypeCorrect == Spec => []TypeOK
<1>1. Spec => []Inv
  BY InvInit, InvNext, PTL DEF Spec
<1>2. Inv => TypeOK
  BY DEF Inv
<1> QED BY <1>1, <1>2, PTL

\* No history of runs, kills, errors and changes by others gives the script's
\* hand to a file that nova of the host did not own.
THEOREM OwnersKept == Spec => []FilesKeepOwners
<1>1. Spec => []Inv
  BY InvInit, InvNext, PTL DEF Spec
<1>2. Inv => FilesKeepOwners
  BY DEF Inv
<1> QED BY <1>1, <1>2, PTL

-----------------------------------------------------------------------------
(* The way up the tree and the stack of listings.                          *)

LEMMA UpIs ==
  ASSUME NEW p \in Paths
  PROVE  /\ p \in Up[p] /\ Up[p] \subseteq Paths
         /\ Upward(Up[p])
         /\ \A S \in SUBSET Paths : p \in S /\ Upward(S) => Up[p] \subseteq S
<1>1. Up[p] = {q \in Paths : \A S \in SUBSET Paths : p \in S /\ Upward(S) => q \in S}
  BY DEF Up
<1>2. p \in Up[p] /\ Up[p] \subseteq Paths
  BY <1>1
<1>3. \A S \in SUBSET Paths : p \in S /\ Upward(S) => Up[p] \subseteq S
  BY <1>1
<1>4. ASSUME NEW q \in Up[p] \ {Top} PROVE Parent[q] \in Up[p]
  <2>1. Parent[q] \in Paths
    BY <1>2, TreeAssumption
  <2>2. ASSUME NEW S \in SUBSET Paths, p \in S, Upward(S) PROVE Parent[q] \in S
    <3>1. q \in S
      BY <1>3, <2>2
    <3> QED BY <2>2, <3>1 DEF Upward
  <2> QED BY <1>1, <2>1, <2>2
<1> QED BY <1>2, <1>3, <1>4 DEF Upward

\* The way up from an entry goes through its directory.
LEMMA UpStep ==
  ASSUME NEW p \in Paths \ {Top}
  PROVE  Up[p] = {p} \cup Up[Parent[p]]
<1>1. Parent[p] \in Paths
  BY TreeAssumption
<1>2. Up[Parent[p]] \subseteq Up[p]
  <2>1. Parent[p] \in Up[p]
    BY UpIs DEF Upward
  <2> QED BY <1>1, <2>1, UpIs
<1>3. Upward({p} \cup Up[Parent[p]])
  BY <1>1, UpIs DEF Upward
<1>4. Up[p] \subseteq {p} \cup Up[Parent[p]]
  <2>1. {p} \cup Up[Parent[p]] \in SUBSET Paths
    BY <1>1, UpIs
  <2> QED BY <1>3, <2>1, UpIs
<1> QED BY <1>2, <1>4, UpIs

\* What an entry is under is the directory of something on the way.
LEMMA UpFrom ==
  ASSUME NEW p \in Paths, NEW q \in Up[p] \ {p}
  PROVE  q \in Dirs /\ \E c \in Up[p] \ {Top} : Parent[c] = q
<1> DEFINE S == {p} \cup {Parent[c] : c \in Up[p] \ {Top}}
<1>1. S \subseteq Up[p] /\ p \in S
  BY UpIs DEF Upward
<1>2. Upward(S)
  <2> SUFFICES ASSUME NEW r \in S \ {Top} PROVE Parent[r] \in S
    BY DEF Upward
  <2> QED BY <1>1
<1>3. S \in SUBSET Paths
  BY <1>1, UpIs
<1>4. Up[p] \subseteq S
  <2> HIDE DEF S
  <2> QED BY <1>1, <1>2, <1>3, UpIs
<1>5. PICK c \in Up[p] \ {Top} : Parent[c] = q
  BY <1>4
<1>6. c \in Paths \ {Top}
  BY UpIs
<1> QED BY <1>5, <1>6, TreeAssumption

LEMMA UpTop == \A p \in Paths : Top \in Up[p]
  BY TreeAssumption

\* What is there is under what is there.
LEMMA UpThere ==
  ASSUME TypeOK, TreeKept, NEW p \in There
  PROVE  Up[p] \subseteq There
<1>1. There \in SUBSET Paths /\ Upward(There)
  BY DEF There, TreeKept, Upward
<1> QED BY <1>1, UpIs DEF There

LEMMA ListingAdded ==
  ASSUME TypeOK, ListDir
  PROVE  LET F == Frame(Children(cur.path), cur.chcon) IN
         /\ Len(stack') = Len(stack) + 1 /\ stack'[1] = F
         /\ \A i \in 1..Len(stack) : stack'[i + 1] = stack[i]
         /\ \A i \in 2..Len(stack') : i - 1 \in 1..Len(stack) /\ stack'[i] = stack[i - 1]
<1> DEFINE F == Frame(Children(cur.path), cur.chcon)
<1>1. stack \in Seq(Frames) /\ F \in Frames
  BY DEF TypeOK, Frame, Frames, Children, There, PathInfos
<1>2. stack' = <<F>> \o stack
  BY DEF ListDir
<1> HIDE DEF F
<1>3. Len(stack') = Len(stack) + 1 /\ stack'[1] = F
  BY <1>1, <1>2
<1>4. \A i \in 1..Len(stack) : stack'[i + 1] = stack[i]
  BY <1>1, <1>2
<1>5. \A i \in 2..Len(stack') : i - 1 \in 1..Len(stack) /\ stack'[i] = stack[i - 1]
  BY <1>1, <1>3, <1>4
<1> QED BY <1>3, <1>4, <1>5 DEF F

\* The innermost listing loses one entry and the others stay.
LEMMA EntryTaken ==
  ASSUME TypeOK, stack # <<>>, NEW p, stack' = Rest(p)
  PROVE  /\ Len(stack') = Len(stack) /\ 1 \in 1..Len(stack)
         /\ stack'[1].left = stack[1].left \ {p} /\ stack'[1].chcon = stack[1].chcon
         /\ \A i \in 2..Len(stack) : stack'[i] = stack[i]
<1> DEFINE F == Frame(Head(stack).left \ {p}, Head(stack).chcon)
<1>1. stack \in Seq(Frames) /\ Head(stack) = stack[1] /\ Tail(stack) \in Seq(Frames)
  BY DEF TypeOK
<1>2. Head(stack) \in Frames
  BY <1>1
<1>3. F \in Frames /\ F.left = stack[1].left \ {p} /\ F.chcon = stack[1].chcon
  BY <1>1, <1>2 DEF Frame, Frames
<1>4. stack' = <<F>> \o Tail(stack)
  BY DEF Rest
<1> HIDE DEF F
<1>5. Len(Tail(stack)) = Len(stack) - 1 /\ \A i \in 1..Len(Tail(stack)) : Tail(stack)[i] = stack[i + 1]
  BY <1>1
<1>6. Len(stack') = Len(stack) /\ stack'[1] = F
  BY <1>1, <1>3, <1>4, <1>5
<1>7. ASSUME NEW i \in 2..Len(stack) PROVE stack'[i] = stack[i]
  <2>1. stack'[i] = Tail(stack)[i - 1]
    BY <1>1, <1>3, <1>4, <1>5
  <2> QED BY <1>1, <1>5, <2>1
<1>8. 1 \in 1..Len(stack)
  BY <1>1
<1> QED BY <1>3, <1>6, <1>7, <1>8

\* What was listed still is, but for what has the entry taken on its way.
LEMMA ListedTaken ==
  ASSUME TypeOK, stack # <<>>, NEW p, stack' = Rest(p), NEW q, Listed(q), p \notin Up[q]
  PROVE  Listed(q)'
<1>1. PICK i \in 1..Len(stack) : Up[q] \cap stack[i].left # {}
  BY DEF Listed
<1>2. i \in 1..Len(stack') /\ Up[q] \cap stack'[i].left # {}
  <2>1. CASE i = 1
    BY <1>1, <2>1, EntryTaken
  <2>2. CASE i # 1
    BY <1>1, <2>2, EntryTaken
  <2> QED BY <2>1, <2>2
<1> QED BY <1>2 DEF Listed

-----------------------------------------------------------------------------
(* The work of a run.                                                      *)

\* With a stat that fits, a chown leaves an entry as it is to be.
LEMMA ChownDoes ==
  ASSUME TypeOK, NEW p \in There, p = cur.path, cur.owner = owner[cur.path],
         \/ Wanted(cur) = cur.owner /\ UNCHANGED owner
         \/ owner' = [owner EXCEPT ![cur.path] = Chowned(owner[cur.path], cur)],
         upgrade' = upgrade
  PROVE  Done(p)'
<1> DEFINE o == owner[cur.path]
<1>1. o \in Owners /\ cur \in PathInfos /\ owner \in [Paths -> Owners \cup {Absent}]
  BY DEF There, TypeOK
<1>2. owner'[cur.path] = Wanted(cur)
  <2>1. Wanted(cur) \in Owners
    BY <1>1, OwnersAssumption DEF Wanted, Owners, PathInfos
  <2>2. Chowned(o, cur) = Wanted(cur)
    BY <1>1, <2>1 DEF Chowned, Owners
  <2>3. CASE owner' = [owner EXCEPT ![cur.path] = Chowned(owner[cur.path], cur)]
    BY <1>1, <2>2, <2>3 DEF There
  <2>4. CASE Wanted(cur) = cur.owner /\ UNCHANGED owner
    BY <2>4
  <2> QED BY <2>3, <2>4
<1>3. CASE cur.path \in Dirs
  BY <1>2, <1>3 DEF Done, Wanted
<1>4. CASE cur.path \notin Dirs
  <2>1. Wanted(cur).uid = (IF o.uid = PreviousIds.uid THEN Target.uid ELSE o.uid)
    BY <1>4 DEF Wanted
  <2>2. Wanted(cur).gid = (IF o.gid = PreviousIds.gid THEN Target.gid ELSE o.gid)
    BY <1>4 DEF Wanted
  <2>3. upgrade => PreviousIds = Previous
    BY DEF PreviousIds
  <2> QED BY <1>2, <1>4, <2>1, <2>2, <2>3 DEF Done
<1> QED BY <1>3, <1>4

\* A chown neither makes an entry nor removes one, and changes one at most.
LEMMA OwnerStays ==
  ASSUME TypeOK, Chown
  PROVE  There' = There /\ \A p \in Paths \ {cur.path} : owner'[p] = owner[p]
<1>1. CASE UNCHANGED owner
  BY <1>1 DEF There
<1>2. CASE cur.path \in There /\ owner' = [owner EXCEPT ![cur.path] = Chowned(owner[cur.path], cur)]
  <2>1. owner[cur.path] \in Owners
    BY <1>2 DEF TypeOK, There
  <2>2. Chowned(owner[cur.path], cur) # Absent
    BY <2>1, ChownedType, OwnersAssumption DEF TypeOK
  <2>3. \A p \in Paths : owner'[p] # Absent <=> owner[p] # Absent
    BY <1>2, <2>1, <2>2, OwnersAssumption DEF TypeOK
  <2> QED BY <1>2, <2>3 DEF There, TypeOK
<1> QED BY <1>1, <1>2 DEF Chown

\* The tree stays one.
LEMMA TreeNext == TypeOK /\ TreeKept /\ [Next]_vars => TreeKept'
<1> SUFFICES ASSUME TypeOK, TreeKept, [Next]_vars PROVE TreeKept'
  OBVIOUS
<1>1. CASE There' = There
  BY <1>1 DEF TreeKept
<1>2. CASE Chown
  BY <1>1, <1>2, OwnerStays
<1>3. ASSUME NEW p \in Paths, NEW o \in Owners \cup {Absent}, Touch(p, o) PROVE TreeKept'
  <2>1. p # Top /\ Parent[p] \in There /\ owner' = [owner EXCEPT ![p] = o]
    BY <1>3 DEF Touch
  <2>2. CASE o = Absent
    <3>1. There' = There \ {p}
      BY <2>1, <2>2 DEF There, TypeOK
    <3>2. \A q \in Paths \ {Top} : Parent[q] = p => q \notin There
      BY <1>3, <2>2 DEF Touch
    <3>3. There \subseteq Paths
      BY DEF There
    <3> QED BY <3>1, <3>2, <3>3 DEF TreeKept
  <2>3. CASE o # Absent
    <3>1. There' = There \cup {p}
      BY <2>1, <2>3 DEF There, TypeOK
    <3> QED BY <2>1, <3>1 DEF TreeKept
  <2> QED BY <2>2, <2>3
<1>4. CASE UNCHANGED owner
  BY <1>1, <1>4 DEF There
<1>5. CASE UNCHANGED vars
  BY <1>4, <1>5 DEF vars
<1> QED BY <1>2, <1>3, <1>4, <1>5
        DEF Next, StartRun, Chcon, ListDir, Skip, Visit, Return, RemoveMarker, StatFails, EntryFails,
            Die, LayMarker

\* While a run is on, a step of the script that leaves owners, upgrade and what is
\* excused alone disturbs only what is pending.
LEMMA WorkStays ==
  ASSUME WorkDone, UNCHANGED <<owner, upgrade, excused>>, pc # "idle",
         \A p \in Paths : InReach(p) /\ Pending(p) => Pending(p)' \/ Done(p)'
  PROVE  \A p \in Paths : InReach(p)' => Done(p)' \/ Pending(p)'
<1> SUFFICES ASSUME NEW p \in Paths, InReach(p)' PROVE Done(p)' \/ Pending(p)'
  OBVIOUS
<1>1. InReach(p) /\ (Done(p) => Done(p)')
  BY DEF InReach, There, Done
<1> QED BY <1>1 DEF WorkDone

\* An excluded entry has nothing in reach below it.
LEMMA ReachKept ==
  ASSUME NEW p \in Paths, InReach(p), NEW q \in Up[p]
  PROVE  q \notin Excluded
  BY DEF InReach

LEMMA ReachExcused ==
  ASSUME NEW p \in Paths, NEW q, excused' = excused \cup Under(q), InReach(p)'
  PROVE  q \notin Up[p] /\ p \notin excused
  BY DEF InReach, Under

\* A run keeps sight of its work, whatever fails and whatever others do.
LEMMA WorkNext == TypeOK /\ Work /\ [Next]_vars => Work'
<1> SUFFICES ASSUME TypeOK, Work, [Next]_vars PROVE Work'
  OBVIOUS
<1>0. TreeKept /\ StatFresh /\ WorkDone /\ TreeKept'
  BY TreeNext DEF Work
<1>1. CASE StartRun
  <2>1. cur'.path = Top /\ cur'.owner = owner[Top]
    BY <1>1 DEF StartRun, Stat, PathInfo
  <2>2. \A p \in Paths : Pending(p)'
    BY <1>1, <2>1, UpTop DEF StartRun, Pending
  <2>3. StatFresh'
    BY <1>1, <2>1 DEF StartRun, StatFresh
  <2>4. WorkDone'
    BY <1>1, <2>2 DEF StartRun, WorkDone
  <2> QED BY <1>0, <2>3, <2>4 DEF Work
<1>2. CASE Chown
  <2>1. pc = "chown" /\ upgrade' = upgrade /\ excused' = excused /\ stack' = stack
    BY <1>2 DEF Chown
  <2>2. cur.path \in Dirs => pc' \in {"chcon", "list"} /\ cur'.path = cur.path
    BY <1>2 DEF Chown, DoneWith, TypeOK, PathInfos
  <2>3. pc' \in {"chcon", "list", "walk"}
    BY <1>2 DEF Chown, DoneWith
  <2>4. ASSUME NEW p \in Paths, InReach(p)' PROVE Done(p)' \/ Pending(p)'
    <3>1. InReach(p) /\ p \in There
      BY <2>1, <2>4, <1>2, OwnerStays DEF InReach
    <3>2. CASE p = cur.path
      <4>1. cur.owner = owner[cur.path]
        BY <1>0, <2>1, <3>1, <3>2 DEF StatFresh, InReach
      <4> QED BY <1>2, <2>1, <3>1, <3>2, <4>1, ChownDoes DEF Chown
    <3>3. CASE p # cur.path /\ Done(p)
      <4>1. owner'[p] = owner[p]
        BY <1>2, <3>3, OwnerStays
      <4> QED BY <2>1, <3>3, <4>1 DEF Done
    <3>4. CASE p # cur.path /\ Pending(p)
      <4>1. CASE Listed(p)
        BY <2>1, <4>1 DEF Pending, Listed
      <4>2. CASE cur.path \in Up[p] \ {p}
        <5>1. cur.path \in Dirs
          BY <4>2, UpFrom
        <5> QED BY <2>2, <4>2, <5>1 DEF Pending
      <4> QED BY <3>4, <4>1, <4>2 DEF Pending
    <3> QED BY <1>0, <2>1, <3>1, <3>2, <3>3, <3>4 DEF WorkDone
  <2> QED BY <1>0, <2>3, <2>4 DEF Work, StatFresh, WorkDone
<1>3. CASE Chcon
  <2>1. pc = "chcon" /\ UNCHANGED <<owner, upgrade, excused, stack>>
    BY <1>3 DEF Chcon
  <2>2. cur.path \in Dirs => pc' = "list" /\ cur'.path = cur.path
    BY <1>3 DEF Chcon, DoneWith, TypeOK, PathInfos
  <2>3. pc' \in {"list", "walk"}
    BY <1>3 DEF Chcon, DoneWith
  <2>4. ASSUME NEW p \in Paths, Pending(p) PROVE Pending(p)'
    <3>1. CASE Listed(p)
      BY <2>1, <3>1 DEF Pending, Listed
    <3>2. CASE cur.path \in Up[p] \ {p}
      <4>1. cur.path \in Dirs
        BY <3>2, UpFrom
      <4> QED BY <2>2, <3>2, <4>1 DEF Pending
    <3> QED BY <2>1, <2>4, <3>1, <3>2 DEF Pending
  <2> QED BY <1>0, <2>1, <2>3, <2>4, WorkStays DEF Work, StatFresh, WorkDone
<1>4. CASE ListDir
  <2>1. pc = "list" /\ pc' = "walk" /\ UNCHANGED <<owner, upgrade, excused>>
    BY <1>4 DEF ListDir
  <2>2. ASSUME NEW p \in Paths, InReach(p), Pending(p) PROVE Pending(p)'
    <3>1. CASE Listed(p)
      <4>1. PICK i \in 1..Len(stack) : Up[p] \cap stack[i].left # {}
        BY <3>1 DEF Listed
      <4>2. Len(stack) \in Nat
        BY DEF TypeOK
      <4>3. i + 1 \in 1..Len(stack') /\ stack'[i + 1] = stack[i]
        BY <1>4, <4>2, ListingAdded
      <4> QED BY <4>1, <4>3 DEF Pending, Listed
    <3>2. CASE cur.path \in Up[p] \ {p}
      <4>1. PICK c \in Up[p] \ {Top} : Parent[c] = cur.path
        BY <3>2, UpFrom
      <4>2. c \in There
        BY <1>0, <2>2, UpThere DEF InReach
      <4>3. c \in stack'[1].left
        BY <1>4, <4>1, <4>2, ListingAdded DEF Children, Frame
      <4>4. 1 \in 1..Len(stack')
        BY <1>4, ListingAdded DEF TypeOK
      <4> QED BY <4>1, <4>3, <4>4 DEF Pending, Listed
    <3> QED BY <2>1, <2>2, <3>1, <3>2 DEF Pending
  <2> QED BY <1>0, <2>1, <2>2, WorkStays DEF Work, StatFresh, WorkDone
<1>5. ASSUME NEW q \in Paths, Skip(q) PROVE Work'
  <2>1. /\ pc = "walk" /\ pc' = "walk" /\ UNCHANGED <<owner, upgrade, excused, cur>>
        /\ stack # <<>> /\ stack' = Rest(q)
    BY <1>5 DEF Skip
  <2>2. ASSUME NEW p \in Paths, InReach(p), Pending(p) PROVE Pending(p)' \/ Done(p)'
    <3>1. Listed(p)
      BY <2>1, <2>2 DEF Pending
    <3>2. CASE q \notin Up[p]
      BY <2>1, <3>1, <3>2, ListedTaken DEF Pending
    <3>3. CASE q \in Up[p]
      <4>1. q \in Files \cap There /\ ~IdChange
        BY <1>5, <2>2, <3>3, ReachKept DEF Skip
      <4>2. p = q
        BY <3>3, <4>1, UpFrom DEF Files
      <4>3. upgrade => Target = Previous
        BY <4>1 DEF IdChange, PreviousIds
      <4> QED BY <2>1, <4>1, <4>2, <4>3 DEF Done, Files
    <3> QED BY <3>2, <3>3
  <2> QED BY <1>0, <2>1, <2>2, WorkStays DEF Work, StatFresh, WorkDone
<1>6. ASSUME NEW q \in Paths, Visit(q) PROVE Work'
  <2>1. /\ pc = "walk" /\ pc' = "chown" /\ UNCHANGED <<owner, upgrade, excused>>
        /\ stack # <<>> /\ stack' = Rest(q)
    BY <1>6 DEF Visit
  <2>2. cur'.path = q /\ cur'.owner = owner[q]
    BY <1>6 DEF Visit, Stat, PathInfo
  <2>3. ASSUME NEW p \in Paths, InReach(p), Pending(p) PROVE Pending(p)'
    <3>1. Listed(p)
      BY <2>1, <2>3 DEF Pending
    <3>2. CASE q \notin Up[p]
      BY <2>1, <3>1, <3>2, ListedTaken DEF Pending
    <3> QED BY <2>1, <2>2, <3>2 DEF Pending
  <2>4. StatFresh'
    BY <2>1, <2>2 DEF StatFresh
  <2>5. WorkDone'
    BY <1>0, <2>1, <2>3, WorkStays DEF WorkDone
  <2> QED BY <1>0, <2>4, <2>5 DEF Work
<1>7. ASSUME NEW q \in Paths, StatFails(q) PROVE Work'
  <2>1. /\ pc = "walk" /\ pc' = "walk" /\ UNCHANGED <<owner, upgrade, cur>>
        /\ stack # <<>> /\ stack' = Rest(q) /\ excused' = excused \cup Under(q)
    BY <1>7 DEF StatFails
  <2>2. ASSUME NEW p \in Paths, InReach(p)' PROVE Done(p)' \/ Pending(p)'
    <3>1. q \notin Up[p] /\ p \notin excused
      BY <2>1, <2>2, ReachExcused
    <3>2. InReach(p)
      BY <2>1, <2>2, <3>1 DEF InReach, There
    <3>3. CASE Done(p)
      BY <2>1, <3>3 DEF Done
    <3>4. CASE Pending(p)
      <4>1. Listed(p)
        BY <2>1, <3>4 DEF Pending
      <4> QED BY <2>1, <3>1, <4>1, ListedTaken DEF Pending
    <3> QED BY <1>0, <2>1, <3>2, <3>3, <3>4 DEF WorkDone
  <2> QED BY <1>0, <2>1, <2>2 DEF Work, StatFresh, WorkDone
<1>8. CASE EntryFails
  <2>1. /\ pc \in {"chown", "chcon", "list"} /\ pc' = "walk" /\ UNCHANGED <<owner, upgrade, stack>>
        /\ excused' = excused \cup Under(cur.path)
    BY <1>8 DEF EntryFails
  <2>2. ASSUME NEW p \in Paths, InReach(p)' PROVE Done(p)' \/ Pending(p)'
    <3>1. cur.path \notin Up[p] /\ p \notin excused
      BY <2>1, <2>2, ReachExcused
    <3>2. InReach(p)
      BY <2>1, <2>2, <3>1 DEF InReach, There
    <3>3. CASE Done(p)
      BY <2>1, <3>3 DEF Done
    <3>4. CASE Pending(p)
      <4>1. Listed(p)
        BY <3>1, <3>4 DEF Pending
      <4> QED BY <2>1, <4>1 DEF Pending, Listed
    <3> QED BY <1>0, <2>1, <3>2, <3>3, <3>4 DEF WorkDone
  <2> QED BY <1>0, <2>1, <2>2 DEF Work, StatFresh, WorkDone
<1>9. CASE Return
  <2>1. /\ pc = "walk" /\ pc' \in {"walk", "unmark"} /\ UNCHANGED <<owner, upgrade, excused, cur>>
        /\ stack # <<>> /\ stack' = Tail(stack) /\ Head(stack).left = {}
        /\ pc' = "unmark" => Len(stack) = 1
    BY <1>9 DEF Return
  <2>2. stack \in Seq(Frames)
    BY DEF TypeOK
  <2>3. ASSUME NEW p \in Paths, Pending(p) PROVE Pending(p)'
    <3>1. PICK i \in 1..Len(stack) : Up[p] \cap stack[i].left # {}
      BY <2>1, <2>3 DEF Pending, Listed
    <3>2. i # 1
      BY <2>1, <2>2, <3>1
    <3>3. i - 1 \in 1..Len(stack') /\ stack'[i - 1] = stack[i]
      BY <2>1, <2>2, <3>1, <3>2
    <3> QED BY <3>1, <3>3 DEF Pending, Listed
  <2>4. pc' = "unmark" => stack' = <<>>
    BY <2>1, <2>2
  <2> QED BY <1>0, <2>1, <2>3, <2>4, WorkStays DEF Work, StatFresh, WorkDone
<1>10. CASE RemoveMarker \/ Die
  BY <1>0, <1>10 DEF RemoveMarker, Die, Work, StatFresh, WorkDone
<1>11. ASSUME NEW q \in Paths, NEW o \in Owners \cup {Absent}, Touch(q, o) PROVE Work'
  <2>1. UNCHANGED <<pc, upgrade, stack, cur>> /\ owner' = [owner EXCEPT ![q] = o]
    BY <1>11 DEF Touch, script
  <2>2. pc # "idle" => excused' = excused \cup {q}
    BY <1>11 DEF Touch
  <2>3. \A p \in Paths \ {q} : owner'[p] = owner[p] /\ (p \in There <=> p \in There')
    BY <2>1 DEF TypeOK, There
  <2>4. ASSUME pc # "idle", NEW p \in Paths, InReach(p)' PROVE Done(p)' \/ Pending(p)'
    <3>1. p # q /\ InReach(p)
      BY <2>2, <2>3, <2>4 DEF InReach
    <3>2. Done(p) => Done(p)'
      BY <2>1, <2>3, <3>1 DEF Done
    <3>3. Pending(p) => Pending(p)'
      BY <2>1 DEF Pending, Listed
    <3> QED BY <1>0, <2>4, <3>1, <3>2, <3>3 DEF WorkDone
  <2>5. StatFresh'
    <3> SUFFICES ASSUME pc = "chown", cur.path \in There' \ excused' PROVE cur.owner = owner'[cur.path]
      BY <2>1 DEF StatFresh
    <3>1. cur.path # q /\ cur.path \in Paths
      BY <2>2 DEF TypeOK, PathInfos
    <3> QED BY <1>0, <2>2, <2>3, <3>1 DEF StatFresh
  <2> QED BY <1>0, <2>1, <2>4, <2>5 DEF Work, WorkDone
<1>12. CASE LayMarker \/ UNCHANGED vars
  <2>1. UNCHANGED <<owner, pc, upgrade, stack, cur, excused>>
    BY <1>12 DEF LayMarker, vars, script
  <2> QED BY <1>0, <2>1 DEF Work, StatFresh, WorkDone, InReach, There, Done, Pending, Listed
<1> QED
  BY <1>1, <1>2, <1>3, <1>4, <1>5, <1>6, <1>7, <1>8, <1>9, <1>10, <1>11, <1>12 DEF Next

\* A run that is about to remove the marker has finished: nothing is listed.
THEOREM MarkerOutlives == Spec => []MarkerOutlivesWork
<1>1. Init => TypeOK /\ Work
  <2>1. Init => TypeOK
    BY InvInit DEF Inv
  <2>2. Init => Work
    BY DEF Init, Work, TreeKept, StatFresh, WorkDone
  <2> QED BY <2>1, <2>2
<1>2. TypeOK /\ Work => MarkerOutlivesWork
  <2> SUFFICES ASSUME TypeOK, Work, pc = "unmark", NEW p \in Paths, InReach(p) PROVE Done(p)
    BY DEF MarkerOutlivesWork, Done
  <2>1. stack = <<>> /\ (Done(p) \/ Pending(p))
    BY DEF Work, WorkDone
  <2>2. ~Pending(p)
    BY <2>1 DEF Pending, Listed
  <2> QED BY <2>1, <2>2
<1> QED BY <1>1, <1>2, WorkNext, TypeCorrect, PTL DEF Spec

-----------------------------------------------------------------------------
(* Where contexts are set.                                                 *)

LEMMA ChildLabelled ==
  ASSUME NEW d \in Paths, Labelled(d), d \in {Top} \cup (Paths \ Unlabelled),
         NEW p \in Paths \ {Top}, Parent[p] = d
  PROVE  Labelled(p)
<1>1. Up[p] = {p} \cup Up[d]
  BY UpStep
<1> QED BY <1>1 DEF Labelled

LEMMA LabelsTaken ==
  ASSUME TypeOK, Labels, stack # <<>>, NEW p, stack' = Rest(p)
  PROVE  \A i \in 1..Len(stack') : stack'[i].chcon => \A q \in stack'[i].left : Labelled(q)
<1> SUFFICES ASSUME NEW i \in 1..Len(stack'), stack'[i].chcon, NEW q \in stack'[i].left
             PROVE  Labelled(q)
  OBVIOUS
<1>1. i \in 1..Len(stack) /\ stack[i].chcon /\ q \in stack[i].left
  <2>1. CASE i = 1
    BY <2>1, EntryTaken
  <2>2. CASE i # 1
    BY <2>2, EntryTaken
  <2> QED BY <2>1, <2>2
<1> QED BY <1>1 DEF Labels

\* The labelling of a listing goes on only where every directory above has
\* contexts, the statedir apart.
LEMMA LabelsNext == TypeOK /\ Labels /\ [Next]_vars => Labels'
<1> SUFFICES ASSUME TypeOK, Labels, [Next]_vars PROVE Labels'
  OBVIOUS
<1>0. cur.path \in Paths
  BY DEF TypeOK, PathInfos
<1>1. CASE StartRun
  <2>1. cur'.path = Top /\ pc' = "chown" /\ stack' = stack
    BY <1>1 DEF StartRun, Stat, PathInfo
  <2>2. Labelled(Top)
    <3>1. Up[Top] \subseteq {Top}
      BY UpIs, TreeAssumption DEF Upward
    <3> QED BY <3>1 DEF Labelled
  <2> QED BY <2>1, <2>2 DEF Labels
<1>2. CASE Chown
  <2>1. stack' = stack /\ pc = "chown"
    BY <1>2 DEF Chown
  <2>2. CASE cur.chcon
    BY <1>2, <2>1, <2>2 DEF Chown, Labels
  <2>3. CASE ~cur.chcon
    <3>1. pc' \in {"list", "walk"} /\ (pc' = "list" => ~cur'.chcon)
      BY <1>2, <2>3 DEF Chown, DoneWith, TypeOK, PathInfos
    <3> QED BY <2>1, <3>1 DEF Labels
  <2> QED BY <2>2, <2>3
<1>3. CASE Chcon
  <2>1. stack' = stack /\ pc = "chcon" /\ cur.chcon
    BY <1>3 DEF Chcon, Labels
  <2>2. pc' \in {"list", "walk"}
    BY <1>3 DEF Chcon, DoneWith
  <2>3. pc' = "list" => cur'.path = cur.path /\ cur'.chcon = (cur.path = Top \/ Chcon_r)
    BY <1>3 DEF Chcon, DoneWith, TypeOK, PathInfos
  <2>4. Chcon_r => cur.path \in Paths \ Unlabelled
    BY <1>0 DEF Chcon_r
  <2> QED BY <2>1, <2>2, <2>3, <2>4 DEF Labels
<1>4. CASE ListDir
  <2>1. pc = "list" /\ pc' = "walk"
    BY <1>4 DEF ListDir
  <2>2. ASSUME cur.chcon, NEW p \in Children(cur.path) PROVE Labelled(p)
    <3>1. p \in Paths \ {Top} /\ Parent[p] = cur.path
      BY DEF Children, There
    <3>2. Labelled(cur.path) /\ cur.path \in {Top} \cup (Paths \ Unlabelled)
      BY <2>1, <2>2 DEF Labels
    <3> QED BY <1>0, <3>1, <3>2, ChildLabelled
  <2>3. ASSUME NEW i \in 1..Len(stack'), stack'[i].chcon, NEW p \in stack'[i].left PROVE Labelled(p)
    <3>1. CASE i = 1
      BY <1>4, <2>2, <2>3, <3>1, ListingAdded DEF Frame
    <3>2. CASE i # 1
      <4>1. i \in 2..Len(stack')
        BY <1>4, <3>2, ListingAdded DEF TypeOK
      <4>2. i - 1 \in 1..Len(stack) /\ stack'[i] = stack[i - 1]
        BY <1>4, <4>1, ListingAdded
      <4> QED BY <2>3, <4>2 DEF Labels
    <3> QED BY <3>1, <3>2
  <2> QED BY <2>1, <2>3 DEF Labels
<1>5. ASSUME NEW q \in Paths, Skip(q) \/ StatFails(q) PROVE Labels'
  BY <1>5, LabelsTaken DEF Skip, StatFails, Labels
<1>6. ASSUME NEW q \in Paths, Visit(q) PROVE Labels'
  <2>1. pc' = "chown" /\ stack # <<>> /\ stack' = Rest(q) /\ q \in Head(stack).left
    BY <1>6 DEF Visit
  <2>2. cur'.path = q /\ cur'.chcon = Head(stack).chcon
    BY <1>6 DEF Visit, Stat, PathInfo
  <2>3. Head(stack) = stack[1] /\ 1 \in 1..Len(stack)
    BY <2>1 DEF TypeOK
  <2>4. cur'.chcon => Labelled(q)
    BY <2>1, <2>2, <2>3 DEF Labels
  <2> QED BY <2>1, <2>2, <2>4, LabelsTaken DEF Labels
<1>7. CASE EntryFails
  BY <1>7 DEF EntryFails, Labels
<1>8. CASE Return
  <2>1. pc' \in {"walk", "unmark"} /\ stack # <<>> /\ stack' = Tail(stack)
    BY <1>8 DEF Return
  <2>2. \A i \in 1..Len(stack') : i + 1 \in 1..Len(stack) /\ stack'[i] = stack[i + 1]
    BY <2>1 DEF TypeOK
  <2> QED BY <2>1, <2>2 DEF Labels
<1>9. CASE RemoveMarker
  BY <1>9 DEF RemoveMarker, Labels
<1>10. CASE Die
  <2>1. pc' = "idle" /\ 1..Len(stack') = {}
    BY <1>10 DEF Die
  <2> QED BY <2>1 DEF Labels
<1>11. CASE UNCHANGED script
  BY <1>11 DEF script, Labels
<1> QED
  BY <1>1, <1>2, <1>3, <1>4, <1>5, <1>6, <1>7, <1>8, <1>9, <1>10, <1>11
     DEF Next, Touch, LayMarker, vars

\* No label is set under a mount below the statedir that has none, however deep.
\* Nothing is said of a statedir that is such a mount: the script labels what is
\* in it.
THEOREM LabelsOff == Spec => []LabelsStayOff
<1>1. Init => Labels
  <2> SUFFICES ASSUME Init PROVE Labels
    OBVIOUS
  <2>1. pc = "idle" /\ 1..Len(stack) = {}
    BY DEF Init
  <2> QED BY <2>1 DEF Labels
<1>2. Labels => LabelsStayOff
  BY DEF Labels, LabelsStayOff, Labelled
<1> QED BY <1>1, <1>2, LabelsNext, TypeCorrect, PTL DEF Spec

=============================================================================
