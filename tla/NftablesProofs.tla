---------------------------- MODULE NftablesProofs ----------------------------
(***************************************************************************)
(* Proofs about Nftables, for any chains and rules and any order of plays, *)
(* cuts, boots, cleanups and edits.  The properties are about the kernel;  *)
(* what makes them hold is what is on disk: which of the generated files   *)
(* were written in one play, and whether edpm-update-jumps.nft is still    *)
(* about the jumps the kernel has.                                         *)
(***************************************************************************)
EXTENDS Nftables, TLAPS

Written == {"flushes", "chains", "rules"}     \* tasks after edpm-update-jumps.nft

\* Without the unit nothing has been generated; its start comes before.
Bootstrapped ==
  /\ ~enabled => pc \in {"idle", "unfile", "unboot"}
  /\ ~enabled \/ pc = "flush" => files = <<>> /\ compat = "absent"

\* Chains that hook nowhere are not jumped to, nor anything dropped.
BareIdle == kernel.tables # "hooked" => ~kernel.drop /\ \A c \in Chains : kernel.jumps[c] = 0

\* INPUT always has rules: in the snippets of a play, in what it has read, in
\* the files; and the kernel drops only if there is a file of rules.
InputRuled ==
  /\ pc \in {"compat", "load", "retry", "list"} => snippets[Input].rules # NoRules
  /\ pc \in {"jumps", "updates"} \cup Written => facts.rules[Input].rules # NoRules
  /\ "jumps" \in DOMAIN files => Input \in files.jumps
  /\ "rules" \in DOMAIN files => files.rules[Input] # NoRules
  /\ kernel.drop => "rules" \in DOMAIN files /\ pc # "unfile"

\* The jumps that were listed are those of the kernel.
ListedJumps == pc \in {"jumps", "updates"} => facts.jumped = Jumped

\* edpm-update-jumps.nft is of this play once the play has written it, and as
\* long as it is not known to be old it holds jumps the kernel does not have,
\* the one of INPUT if need be.
UpdatesFit ==
  /\ pc \in Written => files.updates = Missing(facts.rules, facts.jumped)
  /\ pc \in Written \/ "rules" \in DOMAIN files => "updates" \in DOMAIN files
  /\ "updates" \in DOMAIN files \ lost =>
       /\ \A c \in files.updates : kernel.jumps[c] = 0
       /\ Input \in files.updates \/ kernel.jumps[Input] > 0
  /\ pc \in Written => "updates" \notin lost /\ facts.jumped = Jumped

\* The files of one version: every chain with rules is jumped to at boot, and
\* from the update or, as long as it has not lost its ruleset, from the kernel.
OneVersion ==
  /\ pc \in {"updates"} \cup Written => "jumps" \in DOMAIN files /\ files.jumps = Present(facts.rules)
  /\ "rules" \in DOMAIN files => "jumps" \in DOMAIN files
  /\ "rules" \in DOMAIN files /\ "files" \notin lost /\ pc \notin {"updates"} \cup Written =>
       \A c \in Ruled(files) :
         /\ c \in files.jumps
         /\ "emptied" \in lost \/ c \in files.updates \/ kernel.jumps[c] > 0

\* No sentinel: the kernel has what the files say, or it is on record.
Trusted ==
  "rules" \in DOMAIN files \ lost /\ (pc = "always" \/ (~sentinel /\ pc # "touch")) => Enforced

\* The iptables layout is loaded after its copy, or it is on record.
CompatLoaded ==
  /\ pc \in {"load", "retry", "list", "jumps", "updates", "touch", "validate"} \cup Written
       => compat = "current"
  /\ compat = "current" /\ "compat" \notin lost /\ pc \notin {"load", "retry", "unfile"}
       => kernel.tables = "hooked"

Inv == /\ TypeOK /\ Bootstrapped /\ BareIdle /\ InputRuled /\ ListedJumps
       /\ UpdatesFit /\ OneVersion /\ Trusted /\ CompatLoaded
       /\ LockedOutOnlyByOldJumps /\ JumpTwiceOnlyByOldJumps

\* A file is added to those there are, in place of an older one.
LEMMA FileAdded ==
  ASSUME NEW name, NEW content, Generate(name, content)
  PROVE  /\ DOMAIN files' = {name} \cup DOMAIN files
         /\ files'[name] = content
         /\ \A f \in DOMAIN files \ {name} : files'[f] = files[f]
  BY DEF Generate

\* The types of the generated files.
FilesOK(fs) ==
  /\ DOMAIN fs \subseteq DOMAIN Blank
  /\ \A f \in DOMAIN fs :
       IF f = "rules" THEN fs[f] \in [Chains -> Rules \cup {NoRules}] ELSE fs[f] \subseteq Chains

\* A file of the right type is added to files of the right types.
LEMMA GeneratedOK ==
  ASSUME TypeOK, NEW name \in DOMAIN Blank, NEW content, Generate(name, content),
         IF name = "rules" THEN content \in [Chains -> Rules \cup {NoRules}] ELSE content \subseteq Chains
  PROVE  FilesOK(files')
<1>1. FilesOK(files)
  BY DEF TypeOK, FilesOK
<1>2. DOMAIN files' = {name} \cup DOMAIN files
  BY FileAdded
<1>3. DOMAIN files' \subseteq DOMAIN Blank
  BY <1>1, <1>2 DEF FilesOK
<1>4. ASSUME NEW f \in DOMAIN files'
      PROVE  IF f = "rules" THEN files'[f] \in [Chains -> Rules \cup {NoRules}] ELSE files'[f] \subseteq Chains
  <2>1. CASE f = name
    BY <2>1, FileAdded
  <2>2. CASE f # name
    <3>1. f \in DOMAIN files /\ files'[f] = files[f]
      BY <1>2, <1>4, <2>2, FileAdded
    <3> QED BY <1>1, <3>1 DEF FilesOK
  <2> QED BY <2>1, <2>2
<1> QED BY <1>3, <1>4 DEF FilesOK

LEMMA ContentsAre ==
  /\ Contents.rules = IF "rules" \in DOMAIN files THEN files.rules ELSE [c \in Chains |-> NoRules]
  /\ Contents.chains = IF "chains" \in DOMAIN files THEN files.chains ELSE {}
  /\ Contents.flushes = IF "flushes" \in DOMAIN files THEN files.flushes ELSE {}
  /\ Contents.jumps = IF "jumps" \in DOMAIN files THEN files.jumps ELSE {}
  /\ Contents.updates = IF "updates" \in DOMAIN files THEN files.updates ELSE {}
  BY DEF Contents, Blank

LEMMA NoFiles == DOMAIN <<>> = {}
  OBVIOUS

LEMMA NothingType == Nothing \in Snippets
  BY DEF Nothing, Snippets

LEMMA FactsType == NoFacts \in Facts
  BY NothingType DEF NoFacts, Facts

LEMMA FlushedType == Flushed \in Kernels
  BY DEF Flushed, Kernels

LEMMA ContentsType ==
  ASSUME TypeOK
  PROVE  /\ Contents.rules \in [Chains -> Rules \cup {NoRules}]
         /\ Contents.chains \subseteq Chains /\ Contents.flushes \subseteq Chains
         /\ Contents.jumps \subseteq Chains /\ Contents.updates \subseteq Chains
  BY ContentsAre DEF TypeOK

LEMMA BootedType ==
  ASSUME TypeOK
  PROVE  Booted \in Kernels
<1>1. CASE boot /\ BootLoads
  <2>1. {"chains", "rules", "jumps"} \subseteq DOMAIN files
    BY <1>1 DEF BootLoads
  <2>2. /\ files.chains \subseteq Chains /\ files.jumps \subseteq Chains
        /\ files.rules \in [Chains -> Rules \cup {NoRules}]
    BY <2>1 DEF TypeOK
  <2>3. /\ [c \in Chains |-> {files.rules[c]} \ {NoRules}] \in [Chains -> SUBSET Rules]
        /\ [c \in Chains |-> IF c \in files.jumps THEN 1 ELSE 0] \in [Chains -> 0..2]
    BY <2>2
  <2> QED BY <1>1, <2>2, <2>3 DEF Booted, Kernels
<1>2. CASE ~(boot /\ BootLoads)
  BY <1>2, FlushedType DEF Booted
<1> QED BY <1>1, <1>2

LEMMA ReloadedType ==
  ASSUME TypeOK
  PROVE  Reloaded(Contents) \in Kernels
<1>1. /\ kernel.chains \subseteq Chains /\ kernel.rules \in [Chains -> SUBSET Rules]
      /\ kernel.jumps \in [Chains -> 0..2] /\ kernel.drop \in BOOLEAN
  BY DEF TypeOK, Kernels
<1>2. [c \in Chains |-> LiveRules(Contents, c)] \in [Chains -> SUBSET Rules]
  BY <1>1, ContentsType DEF LiveRules
<1>3. [c \in Chains |-> IF c \in Contents.updates /\ kernel.jumps[c] < 2
                        THEN kernel.jumps[c] + 1 ELSE kernel.jumps[c]] \in [Chains -> 0..2]
  BY <1>1
<1> QED BY <1>1, <1>2, <1>3 DEF Reloaded, Kernels, TypeOK

LEMMA FileWriteOK ==
  ASSUME TypeOK, WriteFile
  PROVE  FilesOK(files')
<1>1. pc \in DOMAIN Rendered /\ Generate(pc, Rendered[pc])
  BY DEF WriteFile
<1>2. pc \in {"jumps", "updates", "flushes", "chains"}
  BY <1>1 DEF Rendered
<1>3. /\ Present(facts.rules) \subseteq Chains /\ Declared(facts.rules) \subseteq Chains
      /\ Missing(facts.rules, facts.jumped) \subseteq Chains
  BY DEF Present, Missing, Mentioned, Declared
<1>4. Rendered[pc] \subseteq Chains
  BY <1>2, <1>3 DEF Rendered
<1>5. pc \in DOMAIN Blank /\ pc # "rules"
  BY <1>2 DEF Blank
<1> QED BY <1>1, <1>4, <1>5, GeneratedOK

LEMMA RulesWriteOK ==
  ASSUME TypeOK, WriteRules
  PROVE  FilesOK(files')
<1> DEFINE new == [c \in Chains |-> facts.rules[c].rules]
<1>1. Generate("rules", new)
  BY DEF WriteRules
<1>2. new \in [Chains -> Rules \cup {NoRules}]
  BY DEF TypeOK, Facts, Snippets
<1>3. "rules" \in DOMAIN Blank
  BY DEF Blank
<1> HIDE DEF new
<1> QED BY <1>1, <1>2, <1>3, GeneratedOK

\* Every step keeps the types.
LEMMA TypeNext == TypeOK /\ [Next]_vars => TypeOK'
<1> SUFFICES ASSUME TypeOK, [Next]_vars PROVE TypeOK'
  OBVIOUS
<1> USE DEF TypeOK, disk, play
<1>1. CASE StartBootstrap \/ StartRun
  BY <1>1 DEF StartBootstrap, StartRun, Goto, Tasks
<1>2. CASE EmptyRuleset
  BY <1>2, FactsType, FlushedType DEF EmptyRuleset, EndPlay
<1>3. CASE StartConfigure
  <2>1. snippets' \in [Chains -> Snippets]
    <3>1. snippets[Input] \in Snippets
      BY ConstantsAssumption
    <3>2. [snippets[Input] EXCEPT !.rules = IF snippets[Input].rules = NoRules THEN Base ELSE snippets[Input].rules] \in Snippets
      BY <3>1, ConstantsAssumption DEF Snippets
    <3> QED BY <1>3, <3>2 DEF StartConfigure
  <2> QED BY <1>3, <2>1 DEF StartConfigure, Goto, Tasks
<1>4. CASE PushCompat
  BY <1>4 DEF PushCompat, Goto, Tasks
<1>5. CASE LoadCompat
  <2>1. kernel' \in Kernels
    <3>1. kernel \in Kernels
      OBVIOUS
    <3>2. [kernel EXCEPT !.tables = "hooked", !.drop = FALSE] \in Kernels
      BY <3>1 DEF Kernels
    <3> QED BY <1>5, <3>2, FlushedType DEF LoadCompat
  <2>2. pc' \in Tasks /\ lost' \subseteq Losses
    BY <1>5 DEF LoadCompat, Goto, Tasks, Losses
  <2> QED BY <1>5, <2>1, <2>2 DEF LoadCompat
<1>6. CASE RetryCompat
  <2>1. kernel' \in Kernels
    BY <1>6 DEF RetryCompat, Kernels
  <2> QED BY <1>6, <2>1 DEF RetryCompat, Goto, Tasks
<1>7. CASE ReadState
  <2>1. facts' \in Facts
    BY <1>7 DEF ReadState, Facts, Jumped
  <2> QED BY <1>7, <2>1 DEF ReadState, Goto, Tasks
<1>8. CASE WriteFile
  <2>1. pc \in {"jumps", "updates", "flushes", "chains"}
    BY <1>8 DEF WriteFile, Rendered
  <2>2. FilesOK(files')
    BY <1>8, FileWriteOK
  <2>4. pc' \in Tasks
    BY <1>8, <2>1 DEF WriteFile, NextFile, Goto, Tasks
  <2>5. lost' \subseteq Losses
    BY <1>8 DEF WriteFile
  <2>6. {boot', enabled', sentinel', validated'} \subseteq BOOLEAN
    BY <1>8 DEF WriteFile
  <2> QED BY <1>8, <2>2, <2>4, <2>5, <2>6 DEF WriteFile, FilesOK
<1>9. CASE WriteRules
  <2>1. FilesOK(files')
    BY <1>9, RulesWriteOK
  <2> QED BY <1>9, <2>1 DEF WriteRules, Goto, Tasks, FilesOK
<1>10. CASE TouchSentinel \/ TrustRules
  BY <1>10 DEF TouchSentinel, TrustRules, Goto, Tasks
<1>11. CASE ValidateFiles
  BY <1>11, FactsType DEF ValidateFiles, Goto, EndPlay, Tasks
<1>12. CASE IncludeOnBoot
  BY <1>12, FactsType DEF IncludeOnBoot, EndPlay
<1>13. CASE InjectChains
  <2>1. kernel' \in Kernels
    BY <1>13 DEF InjectChains, Kernels
  <2> QED BY <1>13, <2>1, FactsType DEF InjectChains, Goto, EndPlay, Tasks
<1>14. CASE ReloadRules
  <2>1. kernel' \in Kernels /\ facts' \in Facts
    BY <1>14, ReloadedType DEF ReloadRules, Facts
  <2> QED BY <1>14, <2>1 DEF ReloadRules, Goto, Tasks, Losses
<1>15. CASE DeleteSentinel
  BY <1>15, FactsType DEF DeleteSentinel, EndPlay
<1>16. CASE RemoveFiles
  BY <1>16, NoFiles DEF RemoveFiles, Goto, Tasks
<1>17. CASE RemoveBoot
  BY <1>17, FactsType, NothingType DEF RemoveBoot, EndPlay
<1>18. CASE \E c \in Chains : \E s \in Snippets : EditSnippets(c, s)
  BY <1>18 DEF EditSnippets
<1>19. CASE UpgradeCollection
  BY <1>19 DEF UpgradeCollection
<1>20. CASE StartCleanup
  BY <1>20, FlushedType DEF StartCleanup, Goto, Tasks, Losses
<1>21. CASE Cut
  BY <1>21, FactsType DEF Cut, EndPlay, Undone, Losses
<1>22. CASE Reboot
  <2>1. kernel' \in Kernels
    BY <1>22, FlushedType, BootedType DEF Reboot
  <2> QED BY <1>22, <2>1, FactsType DEF Reboot, EndPlay, Undone, Losses
<1>23. CASE UNCHANGED vars
  BY <1>23 DEF vars
<1> QED BY <1>1, <1>2, <1>3, <1>4, <1>5, <1>6, <1>7, <1>8, <1>9, <1>10, <1>11, <1>12, <1>13, <1>14,
           <1>15, <1>16, <1>17, <1>18, <1>19, <1>20, <1>21, <1>22, <1>23 DEF Next, Play, Event

-----------------------------------------------------------------------------
(* What the tasks that touch the files or the kernel do.                   *)

LEMMA FileWritten ==
  ASSUME WriteFile
  PROVE  /\ \/ pc = "jumps" /\ pc' = "updates" /\ files'.jumps = Present(facts.rules)
            \/ pc = "updates" /\ pc' = "flushes" /\ files'.updates = Missing(facts.rules, facts.jumped)
            \/ pc = "flushes" /\ pc' = "chains"
            \/ pc = "chains" /\ pc' = "rules"
         /\ DOMAIN files' = {pc} \cup DOMAIN files
         /\ \A f \in DOMAIN files \ {pc} : files'[f] = files[f]
         /\ lost' = IF pc = "updates" THEN lost \ {"updates", "emptied"} ELSE lost
         /\ UNCHANGED <<snippets, compat, boot, enabled, sentinel, kernel, facts>>
<1>1. pc \in {"jumps", "updates", "flushes", "chains"}
  BY DEF WriteFile, Rendered
<1>2. /\ pc = "jumps" => pc' = "updates" /\ Rendered[pc] = Present(facts.rules)
      /\ pc = "updates" => pc' = "flushes" /\ Rendered[pc] = Missing(facts.rules, facts.jumped)
      /\ pc = "flushes" => pc' = "chains"
      /\ pc = "chains" => pc' = "rules"
  BY DEF WriteFile, Rendered, NextFile, Goto
<1>3. /\ DOMAIN files' = {pc} \cup DOMAIN files
      /\ files'[pc] = Rendered[pc]
      /\ \A f \in DOMAIN files \ {pc} : files'[f] = files[f]
  BY FileAdded DEF WriteFile
<1> QED BY <1>1, <1>2, <1>3 DEF WriteFile

LEMMA RulesWritten ==
  ASSUME TypeOK, WriteRules
  PROVE  /\ pc = "rules" /\ pc' \in {"touch", "validate"}
         /\ DOMAIN files' = {"rules"} \cup DOMAIN files
         /\ \A f \in DOMAIN files \ {"rules"} : files'[f] = files[f]
         /\ \A c \in Chains : files'.rules[c] = facts.rules[c].rules
         /\ Ruled(files') = Present(facts.rules)
         /\ pc' = "validate" => "rules" \in DOMAIN files /\ files'.rules = files.rules
         /\ lost' = lost \ {"files"}
         /\ UNCHANGED <<snippets, compat, boot, enabled, sentinel, kernel, facts>>
<1> DEFINE new == [c \in Chains |-> facts.rules[c].rules]
<1>1. /\ DOMAIN files' = {"rules"} \cup DOMAIN files
      /\ files'["rules"] = new
      /\ \A f \in DOMAIN files \ {"rules"} : files'[f] = files[f]
  BY FileAdded DEF WriteRules
<1>2. \A c \in Chains : files'.rules[c] = facts.rules[c].rules
  BY <1>1
<1>3. Ruled(files') = Present(facts.rules)
  BY <1>2 DEF Ruled, Present
<1>4. pc' = "validate" => "rules" \in DOMAIN files /\ files["rules"] = new
  BY DEF WriteRules, Goto, RulesChanged
<1> HIDE DEF new
<1> QED BY <1>1, <1>2, <1>3, <1>4 DEF WriteRules, Goto

LEMMA BootsAre ==
  ASSUME TypeOK
  PROVE  \/ Booted = Flushed
         \/ /\ {"chains", "rules", "jumps"} \subseteq DOMAIN files
            /\ Booted.tables = "hooked" /\ Booted.drop = TRUE
            /\ \A c \in Chains : Booted.rules[c] = {files.rules[c]} \ {NoRules}
            /\ \A c \in Chains : Booted.jumps[c] = IF c \in files.jumps THEN 1 ELSE 0
  BY DEF Booted, BootLoads

LEMMA FlushedIs ==
  /\ Flushed.tables = "none" /\ Flushed.drop = FALSE
  /\ \A c \in Chains : Flushed.jumps[c] = 0
  BY DEF Flushed

LEMMA ReloadsAre ==
  ASSUME TypeOK
  PROVE  /\ Reloaded(Contents).tables = kernel.tables
         /\ Reloaded(Contents).drop = (kernel.drop \/ "rules" \in DOMAIN files)
         /\ \A c \in Chains : Reloaded(Contents).rules[c] = LiveRules(Contents, c)
         /\ \A c \in Chains : Reloaded(Contents).jumps[c] =
              IF c \in Contents.updates /\ kernel.jumps[c] < 2 THEN kernel.jumps[c] + 1 ELSE kernel.jumps[c]
  BY DEF Reloaded, TypeOK, Kernels

\* The reload, if nft accepts it and if not.
LEMMA Reloads ==
  ASSUME TypeOK, ReloadRules
  PROVE  /\ \/ /\ Accepted(Contents) /\ kernel' = Reloaded(Contents)
               /\ "updates" \in lost'
               /\ "updates" \in lost => "jumps" \in lost'
               /\ "rules" \notin lost' => /\ lost \cap {"files", "emptied"} = {}
                                         /\ "rules" \in DOMAIN files
            \/ ~Accepted(Contents) /\ kernel' = kernel /\ "rules" \in lost'
         /\ lost \ {"rules"} \subseteq lost' /\ lost' \subseteq lost \cup {"rules", "updates", "jumps"}
         /\ pc = "reload" /\ pc' = "always"
         /\ UNCHANGED <<disk, validated>>
  BY DEF ReloadRules, Goto

-----------------------------------------------------------------------------
(* Every step keeps the invariant.                                         *)

\* Nothing is generated before the unit is there.
LEMMA BootstrappedNext == TypeOK /\ Bootstrapped /\ [Next]_vars => Bootstrapped'
<1> SUFFICES ASSUME TypeOK, Bootstrapped, [Next]_vars PROVE Bootstrapped'
  OBVIOUS
<1> USE DEF disk, play, Bootstrapped
<1>1. CASE StartBootstrap \/ StartConfigure \/ StartRun
  BY <1>1 DEF StartBootstrap, StartConfigure, StartRun, Goto
<1>2. CASE EmptyRuleset
  BY <1>2, FlushedIs DEF EmptyRuleset, EndPlay
<1>3. CASE PushCompat \/ RetryCompat
  BY <1>3 DEF PushCompat, RetryCompat, Goto
<1>4. CASE LoadCompat
  BY <1>4, FlushedIs DEF LoadCompat, Goto
<1>5. CASE ReadState
  BY <1>5 DEF ReadState, Goto
<1>6. CASE WriteFile
  BY <1>6, FileWritten
<1>7. CASE WriteRules
  BY <1>7, RulesWritten
<1>8. CASE TouchSentinel \/ ValidateFiles \/ IncludeOnBoot \/ TrustRules \/ DeleteSentinel
  BY <1>8 DEF TouchSentinel, ValidateFiles, IncludeOnBoot, TrustRules, DeleteSentinel, Goto, EndPlay
<1>9. CASE InjectChains
  BY <1>9 DEF InjectChains, Goto, EndPlay
<1>10. CASE ReloadRules
  BY <1>10, Reloads, ReloadsAre
<1>11. CASE StartCleanup
  BY <1>11, FlushedIs DEF StartCleanup, Goto
<1>12. CASE RemoveFiles \/ RemoveBoot
  BY <1>12, NoFiles DEF RemoveFiles, RemoveBoot, Goto, EndPlay
<1>13. CASE (\E c \in Chains : \E s \in Snippets : EditSnippets(c, s)) \/ UpgradeCollection
  BY <1>13 DEF EditSnippets, UpgradeCollection
<1>14. CASE Cut
  BY <1>14 DEF Cut, EndPlay, Undone
<1>15. CASE Reboot
  BY <1>15, BootsAre, FlushedIs DEF Reboot, EndPlay, Undone
<1>16. CASE UNCHANGED vars
  BY <1>16 DEF vars
<1> QED BY <1>1, <1>2, <1>3, <1>4, <1>5, <1>6, <1>7, <1>8, <1>9, <1>10, <1>11, <1>12, <1>13, <1>14, <1>15, <1>16
        DEF Next, Play, Event

\* Bare chains are not jumped to.
LEMMA BareIdleNext == TypeOK /\ BareIdle /\ [Next]_vars => BareIdle'
<1> SUFFICES ASSUME TypeOK, BareIdle, [Next]_vars PROVE BareIdle'
  OBVIOUS
<1> USE DEF disk, play, BareIdle
<1>1. CASE StartBootstrap \/ StartConfigure \/ StartRun
  BY <1>1 DEF StartBootstrap, StartConfigure, StartRun, Goto
<1>2. CASE EmptyRuleset
  BY <1>2, FlushedIs DEF EmptyRuleset, EndPlay
<1>3. CASE PushCompat \/ RetryCompat
  BY <1>3 DEF PushCompat, RetryCompat, TypeOK, Kernels
<1>4. CASE LoadCompat
  BY <1>4, FlushedIs DEF LoadCompat, TypeOK, Kernels
<1>5. CASE ReadState
  BY <1>5 DEF ReadState, Goto
<1>6. CASE WriteFile
  BY <1>6, FileWritten
<1>7. CASE WriteRules
  BY <1>7, RulesWritten
<1>8. CASE TouchSentinel \/ ValidateFiles \/ IncludeOnBoot \/ TrustRules \/ DeleteSentinel
  BY <1>8 DEF TouchSentinel, ValidateFiles, IncludeOnBoot, TrustRules, DeleteSentinel, Goto, EndPlay
<1>9. CASE InjectChains
  BY <1>9 DEF InjectChains, TypeOK, Kernels
<1>10. CASE ReloadRules
  BY <1>10, Reloads, ReloadsAre DEF Accepted
<1>11. CASE StartCleanup
  BY <1>11, FlushedIs DEF StartCleanup, Goto
<1>12. CASE RemoveFiles \/ RemoveBoot
  BY <1>12, NoFiles DEF RemoveFiles, RemoveBoot, Goto, EndPlay
<1>13. CASE (\E c \in Chains : \E s \in Snippets : EditSnippets(c, s)) \/ UpgradeCollection
  BY <1>13 DEF EditSnippets, UpgradeCollection
<1>14. CASE Cut
  BY <1>14 DEF Cut, EndPlay, Undone
<1>15. CASE Reboot
  BY <1>15, BootsAre, FlushedIs DEF Reboot, EndPlay, Undone
<1>16. CASE UNCHANGED vars
  BY <1>16 DEF vars
<1> QED BY <1>1, <1>2, <1>3, <1>4, <1>5, <1>6, <1>7, <1>8, <1>9, <1>10, <1>11, <1>12, <1>13, <1>14, <1>15, <1>16
        DEF Next, Play, Event

\* INPUT keeps its rules.
LEMMA InputRuledNext == TypeOK /\ Bootstrapped /\ InputRuled /\ [Next]_vars => InputRuled'
<1> SUFFICES ASSUME TypeOK, Bootstrapped, InputRuled, [Next]_vars PROVE InputRuled'
  OBVIOUS
<1> USE DEF disk, play, InputRuled, Written
<1>1. CASE StartBootstrap \/ StartConfigure \/ StartRun
  <2>1. CASE StartConfigure
    <3>1. snippets'[Input].rules # NoRules
      BY <2>1, ConstantsAssumption DEF StartConfigure, TypeOK, Snippets
    <3> QED BY <2>1, <3>1 DEF StartConfigure, Goto
  <2> QED BY <1>1, <2>1 DEF StartBootstrap, StartRun, Goto
<1>2. CASE EmptyRuleset
  BY <1>2, FlushedIs DEF EmptyRuleset, EndPlay
<1>3. CASE PushCompat \/ RetryCompat
  BY <1>3 DEF PushCompat, RetryCompat, Goto, TypeOK, Kernels
<1>4. CASE LoadCompat
  BY <1>4, FlushedIs DEF LoadCompat, Goto, TypeOK, Kernels
<1>5. CASE ReadState
  BY <1>5 DEF ReadState, Goto
<1>6. CASE WriteFile
  <2>1. facts.rules[Input].rules # NoRules => Input \in Present(facts.rules)
    BY ConstantsAssumption DEF Present
  <2>2. pc \in {"jumps", "updates", "flushes", "chains"} /\ pc' \in {"updates", "flushes", "chains", "rules"}
    BY <1>6, FileWritten
  <2>3. "jumps" \in DOMAIN files' => Input \in files'.jumps
    BY <1>6, <2>1, FileWritten
  <2>4. "rules" \in DOMAIN files' => "rules" \in DOMAIN files /\ files'.rules = files.rules
    BY <1>6, <2>2, FileWritten
  <2>5. DOMAIN files \subseteq DOMAIN files' /\ UNCHANGED <<kernel, facts>>
    BY <1>6, FileWritten
  <2> QED BY <2>2, <2>3, <2>4, <2>5
<1>7. CASE WriteRules
  <2>1. files'.rules[Input] # NoRules
    BY <1>7, RulesWritten, ConstantsAssumption
  <2> QED BY <1>7, <2>1, RulesWritten
<1>8. CASE TouchSentinel \/ ValidateFiles \/ IncludeOnBoot \/ TrustRules \/ DeleteSentinel
  BY <1>8 DEF TouchSentinel, ValidateFiles, IncludeOnBoot, TrustRules, DeleteSentinel, Goto, EndPlay
<1>9. CASE InjectChains
  BY <1>9 DEF InjectChains, Goto, EndPlay, TypeOK, Kernels
<1>10. CASE ReloadRules
  BY <1>10, Reloads, ReloadsAre
<1>11. CASE StartCleanup
  BY <1>11, FlushedIs DEF StartCleanup, Goto
<1>12. CASE RemoveFiles \/ RemoveBoot
  BY <1>12, NoFiles DEF RemoveFiles, RemoveBoot, Goto, EndPlay
<1>13. CASE (\E c \in Chains : \E s \in Snippets : EditSnippets(c, s)) \/ UpgradeCollection
  BY <1>13 DEF EditSnippets, UpgradeCollection
<1>14. CASE Cut
  BY <1>14 DEF Cut, EndPlay, Undone
<1>15. CASE Reboot
  BY <1>15, BootsAre, FlushedIs DEF Reboot, EndPlay, Undone
<1>16. CASE UNCHANGED vars
  BY <1>16 DEF vars
<1> QED BY <1>1, <1>2, <1>3, <1>4, <1>5, <1>6, <1>7, <1>8, <1>9, <1>10, <1>11, <1>12, <1>13, <1>14, <1>15, <1>16
        DEF Next, Play, Event

\* The jumps that were listed stay those of the kernel.
LEMMA ListedJumpsNext == TypeOK /\ ListedJumps /\ [Next]_vars => ListedJumps'
<1> SUFFICES ASSUME TypeOK, ListedJumps, [Next]_vars PROVE ListedJumps'
  OBVIOUS
<1> USE DEF disk, play, ListedJumps, Jumped
<1>1. CASE StartBootstrap \/ StartConfigure \/ StartRun
  BY <1>1 DEF StartBootstrap, StartConfigure, StartRun, Goto
<1>2. CASE EmptyRuleset
  BY <1>2, FlushedIs DEF EmptyRuleset, EndPlay
<1>3. CASE PushCompat \/ RetryCompat
  BY <1>3 DEF PushCompat, RetryCompat, Goto
<1>4. CASE LoadCompat
  BY <1>4, FlushedIs DEF LoadCompat, Goto
<1>5. CASE ReadState
  BY <1>5 DEF ReadState, Goto
<1>6. CASE WriteFile
  BY <1>6, FileWritten
<1>7. CASE WriteRules
  BY <1>7, RulesWritten
<1>8. CASE TouchSentinel \/ ValidateFiles \/ IncludeOnBoot \/ TrustRules \/ DeleteSentinel
  BY <1>8 DEF TouchSentinel, ValidateFiles, IncludeOnBoot, TrustRules, DeleteSentinel, Goto, EndPlay
<1>9. CASE InjectChains
  BY <1>9 DEF InjectChains, Goto, EndPlay
<1>10. CASE ReloadRules
  BY <1>10, Reloads, ReloadsAre
<1>11. CASE StartCleanup
  BY <1>11, FlushedIs DEF StartCleanup, Goto
<1>12. CASE RemoveFiles \/ RemoveBoot
  BY <1>12, NoFiles DEF RemoveFiles, RemoveBoot, Goto, EndPlay
<1>13. CASE (\E c \in Chains : \E s \in Snippets : EditSnippets(c, s)) \/ UpgradeCollection
  BY <1>13 DEF EditSnippets, UpgradeCollection
<1>14. CASE Cut
  BY <1>14 DEF Cut, EndPlay, Undone
<1>15. CASE Reboot
  BY <1>15, BootsAre, FlushedIs DEF Reboot, EndPlay, Undone
<1>16. CASE UNCHANGED vars
  BY <1>16 DEF vars
<1> QED BY <1>1, <1>2, <1>3, <1>4, <1>5, <1>6, <1>7, <1>8, <1>9, <1>10, <1>11, <1>12, <1>13, <1>14, <1>15, <1>16
        DEF Next, Play, Event

\* The update holds the jumps the kernel lacks, until one is loaded.
LEMMA UpdatesFitNext == TypeOK /\ Bootstrapped /\ BareIdle /\ InputRuled /\ ListedJumps /\ UpdatesFit /\ [Next]_vars => UpdatesFit'
<1> SUFFICES ASSUME TypeOK, Bootstrapped, BareIdle, InputRuled, ListedJumps, UpdatesFit, [Next]_vars PROVE UpdatesFit'
  OBVIOUS
<1> USE DEF disk, play, UpdatesFit, Jumped, Written
<1>1. CASE StartBootstrap \/ StartConfigure \/ StartRun
  BY <1>1 DEF StartBootstrap, StartConfigure, StartRun, Goto
<1>2. CASE EmptyRuleset
  BY <1>2, NoFiles DEF EmptyRuleset, EndPlay, Bootstrapped
<1>3. CASE PushCompat \/ RetryCompat
  BY <1>3 DEF PushCompat, RetryCompat, Goto, TypeOK, Kernels
<1>4. CASE LoadCompat
  <2>1. \A c \in Chains : kernel'.jumps[c] = kernel.jumps[c]
    BY <1>4, FlushedIs DEF LoadCompat, BareIdle, TypeOK, Kernels
  <2>2. "updates" \in DOMAIN files => files.updates \subseteq Chains
    BY DEF TypeOK
  <2> QED BY <1>4, <2>1, <2>2, ConstantsAssumption DEF LoadCompat, Goto
<1>5. CASE ReadState
  BY <1>5 DEF ReadState, Goto
<1>6. CASE WriteFile
  <2>1. CASE pc = "updates"
    <3>1. files'.updates = Missing(facts.rules, Jumped) /\ facts.jumped = Jumped /\ pc' = "flushes"
      BY <1>6, <2>1, FileWritten DEF ListedJumps
    <3>2. \A c \in Missing(facts.rules, Jumped) : kernel.jumps[c] = 0
      BY DEF Missing, Mentioned, TypeOK, Kernels
    <3>3. Input \in Missing(facts.rules, Jumped) \/ kernel.jumps[Input] > 0
      <4>1. facts.rules[Input].rules # NoRules
        BY <2>1 DEF InputRuled
      <4>2. facts.rules[Input] # Nothing
        BY <4>1 DEF Nothing
      <4> QED BY <4>2, ConstantsAssumption DEF Missing, Mentioned
    <3> QED BY <1>6, <2>1, <3>1, <3>2, <3>3, FileWritten
  <2>2. CASE pc # "updates"
    <3>1. "updates" \in DOMAIN files' <=> "updates" \in DOMAIN files
      BY <1>6, <2>2, FileWritten
    <3>2. "updates" \in DOMAIN files => files'.updates = files.updates
      BY <1>6, <2>2, FileWritten
    <3>3. "rules" \in DOMAIN files' <=> "rules" \in DOMAIN files
      BY <1>6, FileWritten
    <3>4. pc' \in Written => pc \in Written
      BY <1>6, <2>2, FileWritten
    <3> QED BY <1>6, <2>2, <3>1, <3>2, <3>3, <3>4, FileWritten
  <2> QED BY <2>1, <2>2
<1>7. CASE WriteRules
  <2>1. pc \in Written /\ pc' \notin Written /\ "updates" \in DOMAIN files
    BY <1>7, RulesWritten
  <2>2. files'.updates = files.updates /\ "updates" \in DOMAIN files' /\ "updates" \notin lost'
    BY <1>7, <2>1, RulesWritten
  <2> QED BY <1>7, <2>1, <2>2, RulesWritten
<1>8. CASE TouchSentinel \/ ValidateFiles \/ IncludeOnBoot \/ TrustRules \/ DeleteSentinel
  BY <1>8 DEF TouchSentinel, ValidateFiles, IncludeOnBoot, TrustRules, DeleteSentinel, Goto, EndPlay
<1>9. CASE InjectChains
  <2>1. kernel'.jumps = kernel.jumps
    BY <1>9 DEF InjectChains, TypeOK, Kernels
  <2> QED BY <1>9, <2>1 DEF InjectChains, Goto, EndPlay
<1>10. CASE ReloadRules
  BY <1>10, Reloads, ReloadsAre
<1>11. CASE StartCleanup
  BY <1>11, FlushedIs DEF StartCleanup, Goto
<1>12. CASE RemoveFiles \/ RemoveBoot
  BY <1>12, NoFiles DEF RemoveFiles, RemoveBoot, Goto, EndPlay
<1>13. CASE (\E c \in Chains : \E s \in Snippets : EditSnippets(c, s)) \/ UpgradeCollection
  BY <1>13 DEF EditSnippets, UpgradeCollection
<1>14. CASE Cut
  BY <1>14 DEF Cut, EndPlay, Undone
<1>15. CASE Reboot
  BY <1>15, BootsAre, FlushedIs DEF Reboot, EndPlay, Undone
<1>16. CASE UNCHANGED vars
  BY <1>16 DEF vars
<1> QED BY <1>1, <1>2, <1>3, <1>4, <1>5, <1>6, <1>7, <1>8, <1>9, <1>10, <1>11, <1>12, <1>13, <1>14, <1>15, <1>16
        DEF Next, Play, Event

\* Files of two versions are on record.
LEMMA OneVersionNext == TypeOK /\ Bootstrapped /\ BareIdle /\ UpdatesFit /\ OneVersion /\ [Next]_vars => OneVersion'
<1> SUFFICES ASSUME TypeOK, Bootstrapped, BareIdle, UpdatesFit, OneVersion, [Next]_vars PROVE OneVersion'
  OBVIOUS
<1> USE DEF disk, play, OneVersion, Written
<1>1. CASE StartBootstrap \/ StartConfigure \/ StartRun
  BY <1>1 DEF StartBootstrap, StartConfigure, StartRun, Goto
<1>2. CASE EmptyRuleset
  BY <1>2, NoFiles DEF EmptyRuleset, EndPlay, Bootstrapped
<1>3. CASE PushCompat \/ RetryCompat
  <2>1. kernel'.jumps = kernel.jumps
    BY <1>3 DEF PushCompat, RetryCompat, TypeOK, Kernels
  <2> QED BY <1>3, <2>1 DEF PushCompat, RetryCompat, Goto
<1>4. CASE LoadCompat
  <2>1. \A c \in Chains : kernel'.jumps[c] = kernel.jumps[c]
    BY <1>4, FlushedIs DEF LoadCompat, BareIdle, TypeOK, Kernels
  <2> QED BY <1>4, <2>1 DEF LoadCompat, Goto, Ruled
<1>5. CASE ReadState
  BY <1>5 DEF ReadState, Goto
<1>6. CASE WriteFile
  <2>1. pc' \in {"updates"} \cup Written
    BY <1>6, FileWritten
  <2>2. "jumps" \in DOMAIN files' /\ files'.jumps = Present(facts.rules) /\ facts' = facts
    BY <1>6, FileWritten
  <2> QED BY <2>1, <2>2
<1>7. CASE WriteRules
  <2>1. /\ files.jumps = Present(facts.rules) /\ "jumps" \in DOMAIN files
        /\ files.updates = Missing(facts.rules, Jumped) /\ "updates" \in DOMAIN files
    BY <1>7, RulesWritten DEF UpdatesFit
  <2>2. files'.jumps = files.jumps /\ files'.updates = files.updates /\ "jumps" \in DOMAIN files'
    BY <1>7, <2>1, RulesWritten
  <2>3. \A c \in Present(facts.rules) : c \in Missing(facts.rules, Jumped) \/ kernel.jumps[c] > 0
    BY DEF Present, Missing, Mentioned, Nothing, Jumped
  <2>4. Ruled(files') = Present(facts.rules) /\ kernel' = kernel /\ pc' \notin {"updates"} \cup Written
    BY <1>7, RulesWritten
  <2> QED BY <2>1, <2>2, <2>3, <2>4
<1>8. CASE TouchSentinel \/ ValidateFiles \/ IncludeOnBoot \/ TrustRules \/ DeleteSentinel
  BY <1>8 DEF TouchSentinel, ValidateFiles, IncludeOnBoot, TrustRules, DeleteSentinel, Goto, EndPlay
<1>9. CASE InjectChains
  <2>1. kernel'.jumps = kernel.jumps
    BY <1>9 DEF InjectChains, TypeOK, Kernels
  <2> QED BY <1>9, <2>1 DEF InjectChains, Goto, EndPlay
<1>10. CASE ReloadRules
  <2>1. \A c \in Chains : kernel.jumps[c] > 0 => kernel'.jumps[c] > 0
    BY <1>10, Reloads, ReloadsAre DEF TypeOK, Kernels
  <2> QED BY <1>10, <2>1, Reloads DEF Ruled
<1>11. CASE StartCleanup
  BY <1>11, FlushedIs DEF StartCleanup, Goto
<1>12. CASE RemoveFiles \/ RemoveBoot
  BY <1>12, NoFiles DEF RemoveFiles, RemoveBoot, Goto, EndPlay
<1>13. CASE (\E c \in Chains : \E s \in Snippets : EditSnippets(c, s)) \/ UpgradeCollection
  BY <1>13 DEF EditSnippets, UpgradeCollection
<1>14. CASE Cut
  BY <1>14 DEF Cut, EndPlay, Undone
<1>15. CASE Reboot
  <2>1. pc' \notin {"updates"} \cup Written /\ files' = files
    BY <1>15 DEF Reboot, EndPlay
  <2>2. ASSUME "rules" \in DOMAIN files, "files" \notin lost', NEW c \in Ruled(files)
        PROVE  c \in files.jumps /\ ("emptied" \in lost' \/ kernel'.jumps[c] > 0)
    <3>1. "files" \notin lost /\ pc \notin {"updates"} \cup Written
      BY <1>15, <2>2 DEF Reboot, Undone
    <3>2. c \in Chains /\ c \in files.jumps
      BY <2>2, <3>1 DEF Ruled
    <3>3. "emptied" \in lost' \/ (kernel' = Booted /\ Booted.drop)
      BY <1>15, FlushedIs DEF Reboot
    <3>4. Booted.drop => Booted.jumps[c] = IF c \in files.jumps THEN 1 ELSE 0
      BY <3>2, BootsAre, FlushedIs
    <3> QED BY <3>2, <3>3, <3>4
  <2> QED BY <1>15, <2>1, <2>2 DEF Reboot
<1>16. CASE UNCHANGED vars
  BY <1>16 DEF vars
<1> QED BY <1>1, <1>2, <1>3, <1>4, <1>5, <1>6, <1>7, <1>8, <1>9, <1>10, <1>11, <1>12, <1>13, <1>14, <1>15, <1>16
        DEF Next, Play, Event

\* An iptables layout that is not loaded is on record.
LEMMA CompatLoadedNext == TypeOK /\ Bootstrapped /\ CompatLoaded /\ [Next]_vars => CompatLoaded'
<1> SUFFICES ASSUME TypeOK, Bootstrapped, CompatLoaded, [Next]_vars PROVE CompatLoaded'
  OBVIOUS
<1> USE DEF disk, play, CompatLoaded, Written
<1>1. CASE StartBootstrap \/ StartConfigure \/ StartRun
  BY <1>1 DEF StartBootstrap, StartConfigure, StartRun, Goto
<1>2. CASE EmptyRuleset
  BY <1>2 DEF EmptyRuleset, EndPlay, Bootstrapped
<1>3. CASE PushCompat \/ RetryCompat
  BY <1>3 DEF PushCompat, RetryCompat, Goto, TypeOK, Kernels
<1>4. CASE LoadCompat
  BY <1>4 DEF LoadCompat, Goto, TypeOK, Kernels
<1>5. CASE ReadState
  BY <1>5 DEF ReadState, Goto
<1>6. CASE WriteFile
  BY <1>6, FileWritten
<1>7. CASE WriteRules
  BY <1>7, RulesWritten
<1>8. CASE TouchSentinel \/ ValidateFiles \/ IncludeOnBoot \/ TrustRules \/ DeleteSentinel
  BY <1>8 DEF TouchSentinel, ValidateFiles, IncludeOnBoot, TrustRules, DeleteSentinel, Goto, EndPlay
<1>9. CASE InjectChains
  BY <1>9 DEF InjectChains, Goto, EndPlay, TypeOK, Kernels
<1>10. CASE ReloadRules
  BY <1>10, Reloads, ReloadsAre
<1>11. CASE StartCleanup
  BY <1>11, FlushedIs DEF StartCleanup, Goto
<1>12. CASE RemoveFiles \/ RemoveBoot
  BY <1>12, NoFiles DEF RemoveFiles, RemoveBoot, Goto, EndPlay
<1>13. CASE (\E c \in Chains : \E s \in Snippets : EditSnippets(c, s)) \/ UpgradeCollection
  BY <1>13 DEF EditSnippets, UpgradeCollection
<1>14. CASE Cut
  BY <1>14 DEF Cut, EndPlay, Undone
<1>15. CASE Reboot
  BY <1>15, BootsAre, FlushedIs DEF Reboot, EndPlay, Undone
<1>16. CASE UNCHANGED vars
  BY <1>16 DEF vars
<1> QED BY <1>1, <1>2, <1>3, <1>4, <1>5, <1>6, <1>7, <1>8, <1>9, <1>10, <1>11, <1>12, <1>13, <1>14, <1>15, <1>16
        DEF Next, Play, Event

\* A kernel drops, has the rules of a file and jumps to them.
Has(k, rules) ==
  /\ k.drop
  /\ \A c \in Chains : rules[c] # NoRules => rules[c] \in k.rules[c] /\ k.jumps[c] > 0

LEMMA EnforcedHas ==
  /\ "rules" \in DOMAIN files => (Enforced <=> Has(kernel, files.rules))
  /\ "rules" \in DOMAIN files' => (Enforced' <=> Has(kernel', files'.rules))
  BY DEF Enforced, Has, Contents, Blank, Ruled

\* What is trusted is enforced, with the file of rules spelt out.
LEMMA TrustedHas ==
  ASSUME Trusted, "rules" \in DOMAIN files \ lost, pc = "always" \/ (~sentinel /\ pc # "touch")
  PROVE  Has(kernel, files.rules)
  BY EnforcedHas DEF Trusted

\* What no sentinel marks is enforced, or on record.
LEMMA TrustedNext == TypeOK /\ Bootstrapped /\ BareIdle /\ UpdatesFit /\ OneVersion /\ Trusted /\ [Next]_vars => Trusted'
<1> SUFFICES ASSUME TypeOK, Bootstrapped, BareIdle, UpdatesFit, OneVersion, Trusted, [Next]_vars PROVE Trusted'
  OBVIOUS
<1> SUFFICES ASSUME "rules" \in DOMAIN files' \ lost',
                    pc' = "always" \/ (~sentinel' /\ pc' # "touch")
             PROVE  Has(kernel', files'.rules)
  BY EnforcedHas DEF Trusted
<1> USE DEF disk, play
<1>a. UNCHANGED <<kernel, files>> /\ "rules" \notin lost /\ (pc = "always" \/ (~sentinel /\ pc # "touch"))
      => Has(kernel', files'.rules)
  BY TrustedHas
<1>1. CASE StartBootstrap \/ StartConfigure \/ StartRun
  BY <1>a, <1>1 DEF StartBootstrap, StartConfigure, StartRun, Goto
<1>2. CASE EmptyRuleset
  BY <1>2, NoFiles DEF EmptyRuleset, EndPlay, Bootstrapped
<1>3. CASE PushCompat \/ RetryCompat
  BY <1>3, TrustedHas DEF PushCompat, RetryCompat, Goto, TypeOK, Kernels, Has
<1>4. CASE LoadCompat
  <2>1. Has(kernel, files.rules)
    BY <1>4, TrustedHas DEF LoadCompat, Goto
  <2> QED BY <1>4, <2>1 DEF LoadCompat, BareIdle, Has
<1>5. CASE ReadState
  BY <1>a, <1>5 DEF ReadState, Goto
<1>6. CASE WriteFile
  <2>1. "rules" \in DOMAIN files /\ files'.rules = files.rules
    BY <1>6, FileWritten
  <2>2. "rules" \notin lost /\ kernel' = kernel /\ ~sentinel /\ pc # "touch"
    BY <1>6, FileWritten
  <2> QED BY <2>1, <2>2, TrustedHas
<1>7. CASE WriteRules
  <2>1. "rules" \in DOMAIN files /\ files'.rules = files.rules
    BY <1>7, RulesWritten
  <2>2. "rules" \notin lost /\ kernel' = kernel /\ ~sentinel /\ pc # "touch"
    BY <1>7, RulesWritten
  <2> QED BY <2>1, <2>2, TrustedHas
<1>8. CASE TouchSentinel \/ ValidateFiles \/ IncludeOnBoot \/ TrustRules \/ DeleteSentinel
  BY <1>a, <1>8 DEF TouchSentinel, ValidateFiles, IncludeOnBoot, TrustRules, DeleteSentinel, Goto, EndPlay
<1>9. CASE InjectChains
  <2>1. kernel'.drop = kernel.drop /\ kernel'.rules = kernel.rules /\ kernel'.jumps = kernel.jumps
    BY <1>9 DEF InjectChains, TypeOK, Kernels
  <2>2. Has(kernel, files.rules)
    BY <1>9, TrustedHas DEF InjectChains, Goto, EndPlay
  <2> QED BY <1>9, <2>1, <2>2 DEF InjectChains, Has
<1>10. CASE ReloadRules
  <2>1. /\ kernel' = Reloaded(Contents) /\ lost \cap {"files", "emptied"} = {}
        /\ "rules" \in DOMAIN files /\ files' = files /\ pc = "reload"
    BY <1>10, Reloads
  <2>2. kernel'.drop
    BY <2>1, ReloadsAre
  <2>3. ASSUME NEW c \in Chains, files.rules[c] # NoRules
        PROVE  files.rules[c] \in kernel'.rules[c] /\ kernel'.jumps[c] > 0
    <3>1. c \in Ruled(files) /\ "updates" \in DOMAIN files
      BY <2>1, <2>3 DEF Ruled, UpdatesFit
    <3>2. c \in files.updates \/ kernel.jumps[c] > 0
      BY <2>1, <3>1 DEF OneVersion, Written
    <3>3. kernel.jumps[c] \in 0..2
      BY DEF TypeOK, Kernels
    <3>4. kernel'.jumps[c] > 0
      BY <2>1, <3>1, <3>2, <3>3, ReloadsAre, ContentsAre
    <3>5. files.rules[c] \in LiveRules(Contents, c)
      BY <2>1, <2>3, ContentsAre DEF LiveRules
    <3> QED BY <2>1, <3>4, <3>5, ReloadsAre
  <2> QED BY <2>1, <2>2, <2>3 DEF Has
<1>11. CASE StartCleanup
  BY <1>11 DEF StartCleanup
<1>12. CASE RemoveFiles \/ RemoveBoot
  BY <1>a, <1>12, NoFiles DEF RemoveFiles, RemoveBoot, EndPlay
<1>13. CASE (\E c \in Chains : \E s \in Snippets : EditSnippets(c, s)) \/ UpgradeCollection
  BY <1>a, <1>13 DEF EditSnippets, UpgradeCollection
<1>14. CASE Cut
  BY <1>a, <1>14 DEF Cut, EndPlay, Undone
<1>15. CASE Reboot
  <2>1. kernel'.drop /\ kernel' = Booted /\ files' = files
    BY <1>15, FlushedIs DEF Reboot
  <2>2. "files" \notin lost /\ pc \notin {"updates"} \cup Written
    BY <1>15 DEF Reboot, Undone, Written
  <2>3. \A c \in Chains : files.rules[c] # NoRules => c \in files.jumps
    BY <2>1, <2>2 DEF OneVersion, Ruled
  <2>4. /\ \A c \in Chains : kernel'.rules[c] = {files.rules[c]} \ {NoRules}
        /\ \A c \in Chains : kernel'.jumps[c] = IF c \in files.jumps THEN 1 ELSE 0
    BY <2>1, BootsAre, FlushedIs
  <2>5. \A c \in Chains : files.rules[c] # NoRules => files.rules[c] \in kernel'.rules[c] /\ kernel'.jumps[c] > 0
    BY <2>3, <2>4
  <2> QED BY <2>1, <2>5 DEF Has
<1>16. CASE UNCHANGED vars
  BY <1>a, <1>16 DEF vars
<1> QED BY <1>1, <1>2, <1>3, <1>4, <1>5, <1>6, <1>7, <1>8, <1>9, <1>10, <1>11, <1>12, <1>13, <1>14, <1>15, <1>16
        DEF Next, Play, Event

\* Nobody is locked out and no jump doubled, or it is on record.
LEMMA DropsNext == TypeOK /\ BareIdle /\ InputRuled /\ UpdatesFit /\ LockedOutOnlyByOldJumps /\ JumpTwiceOnlyByOldJumps /\ [Next]_vars => (LockedOutOnlyByOldJumps /\ JumpTwiceOnlyByOldJumps)'
<1> SUFFICES ASSUME TypeOK, BareIdle, InputRuled, UpdatesFit, LockedOutOnlyByOldJumps, JumpTwiceOnlyByOldJumps, [Next]_vars PROVE (LockedOutOnlyByOldJumps /\ JumpTwiceOnlyByOldJumps)'
  OBVIOUS
<1> USE DEF disk, play, LockedOutOnlyByOldJumps, NeverLockedOut, JumpTwiceOnlyByOldJumps, JumpOnce
<1>1. CASE StartBootstrap \/ StartConfigure \/ StartRun
  BY <1>1 DEF StartBootstrap, StartConfigure, StartRun, Goto
<1>2. CASE EmptyRuleset
  BY <1>2, FlushedIs DEF EmptyRuleset
<1>3. CASE PushCompat \/ RetryCompat
  BY <1>3 DEF PushCompat, RetryCompat, TypeOK, Kernels
<1>4. CASE LoadCompat
  <2>1. /\ "jumps" \in lost => "jumps" \in lost'
        /\ ~kernel'.drop
        /\ \A c \in Chains : kernel'.jumps[c] = 0 \/ kernel'.jumps[c] = kernel.jumps[c]
    BY <1>4, FlushedIs DEF LoadCompat, TypeOK, Kernels
  <2> QED BY <2>1
<1>5. CASE ReadState
  BY <1>5 DEF ReadState, Goto
<1>6. CASE WriteFile
  BY <1>6, FileWritten
<1>7. CASE WriteRules
  BY <1>7, RulesWritten
<1>8. CASE TouchSentinel \/ ValidateFiles \/ IncludeOnBoot \/ TrustRules \/ DeleteSentinel
  BY <1>8 DEF TouchSentinel, ValidateFiles, IncludeOnBoot, TrustRules, DeleteSentinel, Goto, EndPlay
<1>9. CASE InjectChains
  BY <1>9 DEF InjectChains, TypeOK, Kernels
<1>10. CASE ReloadRules
  <2>1. CASE kernel' = kernel
    BY <1>10, <2>1, Reloads
  <2>2. CASE kernel' = Reloaded(Contents) /\ ("updates" \in lost => "jumps" \in lost')
    <3> SUFFICES ASSUME "jumps" \notin lost' PROVE NeverLockedOut' /\ JumpOnce'
      OBVIOUS
    <3>1. "updates" \notin lost /\ "jumps" \notin lost
      BY <1>10, <2>2, Reloads
    <3>2. \A c \in Chains : kernel.jumps[c] \in 0..1
      BY <3>1 DEF TypeOK, Kernels
    <3>3. \A c \in Contents.updates : kernel.jumps[c] = 0
      BY <3>1, ContentsAre DEF UpdatesFit
    <3>4. JumpOnce'
      BY <2>2, <3>2, <3>3, ReloadsAre
    <3>5. CASE "rules" \in DOMAIN files
      <4>1. "updates" \in DOMAIN files /\ files.rules[Input] # NoRules
        BY <3>5 DEF UpdatesFit, InputRuled
      <4>2. kernel'.jumps[Input] > 0
        BY <2>2, <3>1, <3>2, <4>1, ReloadsAre, ContentsAre, ConstantsAssumption DEF UpdatesFit
      <4>3. kernel'.rules[Input] # {}
        BY <2>2, <3>5, <4>1, ReloadsAre, ContentsAre, ConstantsAssumption DEF LiveRules
      <4> QED BY <3>4, <4>2, <4>3
    <3>6. CASE "rules" \notin DOMAIN files
      <4>1. ~kernel'.drop
        BY <2>2, <3>6, ReloadsAre DEF InputRuled
      <4> QED BY <3>4, <4>1
    <3> QED BY <3>5, <3>6
  <2> QED BY <1>10, <2>1, <2>2, Reloads
<1>11. CASE StartCleanup
  BY <1>11, FlushedIs DEF StartCleanup, Goto
<1>12. CASE RemoveFiles \/ RemoveBoot
  BY <1>12, NoFiles DEF RemoveFiles, RemoveBoot, Goto, EndPlay
<1>13. CASE (\E c \in Chains : \E s \in Snippets : EditSnippets(c, s)) \/ UpgradeCollection
  BY <1>13 DEF EditSnippets, UpgradeCollection
<1>14. CASE Cut
  BY <1>14 DEF Cut, EndPlay, Undone
<1>15. CASE Reboot
  <2>1. CASE kernel' = Flushed
    BY <2>1, FlushedIs
  <2>2. CASE kernel' = Booted /\ Booted # Flushed
    <3>1. Input \in files.jumps /\ files.rules[Input] # NoRules
      BY <2>2, BootsAre DEF InputRuled
    <3>2. /\ \A c \in Chains : kernel'.rules[c] = {files.rules[c]} \ {NoRules}
          /\ \A c \in Chains : kernel'.jumps[c] = IF c \in files.jumps THEN 1 ELSE 0
      BY <2>2, BootsAre
    <3>3. kernel'.jumps[Input] > 0 /\ files.rules[Input] \in kernel'.rules[Input]
      BY <3>1, <3>2, ConstantsAssumption
    <3>4. \A c \in Chains : kernel'.jumps[c] <= 1
      BY <3>2
    <3> QED BY <3>3, <3>4
  <2> QED BY <1>15, <2>1, <2>2 DEF Reboot
<1>16. CASE UNCHANGED vars
  BY <1>16 DEF vars
<1> QED BY <1>1, <1>2, <1>3, <1>4, <1>5, <1>6, <1>7, <1>8, <1>9, <1>10, <1>11, <1>12, <1>13, <1>14, <1>15, <1>16
        DEF Next, Play, Event

\* A node nobody has deployed yet.
THEOREM InvInit == Init => Inv
<1> SUFFICES ASSUME Init PROVE Inv
  OBVIOUS
<1>1. kernel \in Kernels /\ kernel.tables # "hooked" /\ ~kernel.drop /\ \A c \in Chains : kernel.jumps[c] = 0
  BY FlushedType, FlushedIs DEF Init, Kernels, Flushed
<1>2. TypeOK
  BY <1>1, NothingType, FactsType, NoFiles DEF Init, TypeOK
<1>3. Bootstrapped /\ BareIdle /\ InputRuled /\ ListedJumps
  BY <1>1, NoFiles DEF Init, Bootstrapped, BareIdle, InputRuled, ListedJumps, Written
<1>4. UpdatesFit /\ OneVersion /\ Trusted /\ CompatLoaded
  BY <1>1, NoFiles DEF Init, UpdatesFit, OneVersion, Trusted, CompatLoaded, Written
<1>5. LockedOutOnlyByOldJumps /\ JumpTwiceOnlyByOldJumps
  BY <1>1 DEF LockedOutOnlyByOldJumps, NeverLockedOut, JumpTwiceOnlyByOldJumps, JumpOnce
<1> QED BY <1>2, <1>3, <1>4, <1>5 DEF Inv

THEOREM InvNext == Inv /\ [Next]_vars => Inv'
  BY TypeNext, BootstrappedNext, BareIdleNext, InputRuledNext, ListedJumpsNext, UpdatesFitNext,
     OneVersionNext, TrustedNext, CompatLoadedNext, DropsNext DEF Inv

THEOREM Invariance == Spec => []Inv
  BY InvInit, InvNext, PTL DEF Spec

-----------------------------------------------------------------------------
(* The properties.                                                         *)

\* Every reachable state has the types of TypeOK.
THEOREM TypeCorrect == Spec => []TypeOK
<1>1. Inv => TypeOK
  BY DEF Inv
<1> QED BY <1>1, Invariance, PTL

\* No order of plays, cuts, boots and edits locks anybody out, unless an old
\* edpm-update-jumps.nft is loaded.
THEOREM NobodyLockedOut == Spec => []LockedOutOnlyByOldJumps
<1>1. Inv => LockedOutOnlyByOldJumps
  BY DEF Inv
<1> QED BY <1>1, Invariance, PTL

\* Nor does it jump to a chain twice.
THEOREM NoSecondJump == Spec => []JumpTwiceOnlyByOldJumps
<1>1. Inv => JumpTwiceOnlyByOldJumps
  BY DEF Inv
<1> QED BY <1>1, Invariance, PTL

\* A run.yml that succeeds leaves the kernel with the rules of the files, but
\* for the exceptions RunEnforces names: changes that left no sentinel behind, a
\* ruleset emptied by a cleanup or a boot until edpm-update-jumps.nft is written
\* anew and reloaded, and files of two versions.
THEOREM RunsEnforce == Spec => []RunEnforces
<1>1. Inv => RunEnforces
  BY DEF Inv, Trusted, RunEnforces
<1> QED BY <1>1, Invariance, PTL

\* A validation finds the iptables layout loaded, but for what is on record.
THEOREM LayoutLoaded == Spec => []CompatLoadedUnlessLost
<1>1. Inv => CompatLoadedUnlessLost
  BY DEF Inv, CompatLoaded, CompatLoadedUnlessLost
<1> QED BY <1>1, Invariance, PTL

=============================================================================
