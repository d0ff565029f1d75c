------------------------------ MODULE Nftables ------------------------------
(***************************************************************************)
(* The firewall of a compute node (role edpm_nftables).  Roles leave       *)
(* snippets with rules in a directory; configure.yml generates the nft     *)
(* files from all of them and touches a sentinel when the rules changed;   *)
(* run.yml injects the chains in the kernel and, if the sentinel is there, *)
(* flushes the chains and loads the rules and the missing jumps.  A boot   *)
(* loads the files.  A play may fail or be cut off after any task.         *)
(***************************************************************************)
EXTENDS Naturals

CONSTANTS
  Chains,     \* chains of the inet tables with rules in some snippet
  Input,      \* the chain whose policy becomes drop; the base rules are in it
  Rules,      \* contents a chain's rules may have
  Base,       \* those of base-rules.yaml.j2
  Invalid,    \* those that nft rejects
  NoRules

ASSUME ConstantsAssumption ==
  /\ Input \in Chains
  /\ Base \in Rules \ Invalid
  /\ Invalid \subseteq Rules
  /\ NoRules \notin Rules

\* What the snippets say of a chain: its rules, and whether the first of all
\* its rules, by name, is one that is to be absent (extras: ensure: absent).
Nothing == [rules |-> NoRules, hidden |-> FALSE]
Snippets == [rules : Rules \cup {NoRules}, hidden : BOOLEAN]

VARIABLES
  snippets,   \* the snippets directory
  files,      \* the generated files that are in /etc/nftables
  compat,     \* /etc/nftables/iptables.nft, as against the one of the collection
  boot,       \* /etc/sysconfig/nftables.conf includes the files
  enabled,    \* the unit nftables.service is enabled
  sentinel,   \* edpm-rules.nft.changed
  kernel,     \* what nft list ruleset shows
  pc,         \* the task the play is at
  facts       \* what the play has registered

\* History, read by the properties only: what a cut or a boot has cost so far,
\* and whether the files are those a configure.yml validated to its end.
VARIABLES lost, validated

disk == <<snippets, files, compat, boot, enabled, sentinel>>
play == <<pc, facts>>
vars == <<disk, kernel, play, lost, validated>>

Blank == [rules |-> [c \in Chains |-> NoRules], chains |-> {}, flushes |-> {},
          jumps |-> {}, updates |-> {}]

\* The tables are missing, there with chains that hook nowhere, or as
\* iptables.nft declares them; jumps are counted up to 2.
Kernels == [tables : {"none", "bare", "hooked"}, chains : SUBSET Chains,
            rules : [Chains -> SUBSET Rules], jumps : [Chains -> 0..2], drop : BOOLEAN]
Flushed == [tables |-> "none", chains |-> {}, rules |-> [c \in Chains |-> {}],
            jumps |-> [c \in Chains |-> 0], drop |-> FALSE]

Facts == [rules : [Chains -> Snippets], jumped : SUBSET Chains, failed : BOOLEAN]
NoFacts == [rules |-> [c \in Chains |-> Nothing], jumped |-> {}, failed |-> FALSE]

\* "rules": the kernel lacks rules of the files and no sentinel says so; "files":
\* the files are of two versions; "compat": iptables.nft is there and not
\* loaded; "updates": edpm-update-jumps.nft is older than the jumps it is
\* about; "jumps": such a file has been loaded; "emptied": the jumps it took for
\* granted are gone with the ruleset.
Losses == {"rules", "files", "compat", "updates", "jumps", "emptied"}

Tasks == {"flush", "compat", "load", "retry", "list", "jumps", "updates", "flushes",
          "chains", "rules", "touch", "validate", "boot", "inject", "reload",
          "always", "unfile", "unboot"}

\* Every variable has its type.
TypeOK ==
  /\ snippets \in [Chains -> Snippets]
  /\ DOMAIN files \subseteq DOMAIN Blank
  /\ \A f \in DOMAIN files :
       IF f = "rules" THEN files[f] \in [Chains -> Rules \cup {NoRules}] ELSE files[f] \subseteq Chains
  /\ compat \in {"absent", "old", "current"}
  /\ {boot, enabled, sentinel, validated} \subseteq BOOLEAN
  /\ kernel \in Kernels
  /\ pc \in Tasks \cup {"idle"}
  /\ facts \in Facts
  /\ lost \subseteq Losses

\* A node nobody has deployed yet; whoever tested nft by hand left bare tables.
Init ==
  /\ snippets = [c \in Chains |-> Nothing]
  /\ files = <<>>
  /\ compat = "absent" /\ boot = FALSE /\ sentinel = FALSE
  /\ enabled \in BOOLEAN
  /\ kernel \in {Flushed, [Flushed EXCEPT !.tables = "bare"]}
  /\ pc = "idle" /\ facts = NoFacts
  /\ lost = {} /\ validated = FALSE

-----------------------------------------------------------------------------
(* What nft does with the files.                                           *)

\* cat goes on without a file that is missing.
Contents == [f \in DOMAIN Blank |-> IF f \in DOMAIN files THEN files[f] ELSE Blank[f]]
Ruled(f) == {c \in Chains : f.rules[c] # NoRules}

\* The files name only chains that are in C and rules that nft accepts.
Consistent(f, C) ==
  /\ Ruled(f) \cup f.flushes \subseteq C
  /\ \A c \in Ruled(f) : f.rules[c] \notin Invalid

\* nft -c of the generated files together, on top of what is live.
Validates(f) ==
  LET C == kernel.chains \cup f.chains IN
  kernel.tables = "hooked" /\ Consistent(f, C) /\ f.jumps \cup f.updates \subseteq C

\* The reload is one transaction: flushes, rules, missing jumps.
Accepted(f) ==
  kernel.tables = "hooked" /\ Consistent(f, kernel.chains) /\ f.updates \subseteq kernel.chains

\* Mutant: a chain without rules gets an empty one.
LiveRules_Empty(f, c) == (IF c \in f.flushes THEN {} ELSE kernel.rules[c]) \cup {f.rules[c]}
LiveRules(f, c) ==
  (IF c \in f.flushes THEN {} ELSE kernel.rules[c]) \cup ({f.rules[c]} \ {NoRules})
Reloaded(f) ==
  [kernel EXCEPT
     !.rules = [c \in Chains |-> LiveRules(f, c)],
     !.jumps = [c \in Chains |-> IF c \in f.updates /\ @[c] < 2 THEN @[c] + 1 ELSE @[c]],
     !.drop = @ \/ "rules" \in DOMAIN files]

\* A boot starts from nothing and loads the included files, or none of them.
BootLoads ==
  /\ compat # "absent" /\ {"chains", "rules", "jumps"} \subseteq DOMAIN files
  /\ Consistent([files EXCEPT !.flushes = {}], files.chains)
  /\ files.jumps \subseteq files.chains
Booted ==
  IF boot /\ BootLoads
    THEN [tables |-> "hooked", chains |-> files.chains,
          rules |-> [c \in Chains |-> {files.rules[c]} \ {NoRules}],
          jumps |-> [c \in Chains |-> IF c \in files.jumps THEN 1 ELSE 0], drop |-> TRUE]
    ELSE Flushed

-----------------------------------------------------------------------------
(* service-bootstrap.yml                                                   *)

Goto(t) == pc' = t
EndPlay == pc' = "idle" /\ facts' = NoFacts

\* Starting the unit loads the boot file, which nothing has written yet.
StartBootstrap ==
  /\ pc = "idle" /\ ~enabled
  /\ enabled' = TRUE
  /\ Goto("flush")
  /\ UNCHANGED <<snippets, files, compat, boot, sentinel, kernel, facts, lost, validated>>

EmptyRuleset ==
  /\ pc = "flush"
  /\ kernel' = Flushed
  /\ EndPlay
  /\ UNCHANGED <<disk, lost, validated>>

-----------------------------------------------------------------------------
(* configure.yml                                                           *)

StartConfigure ==
  /\ pc = "idle" /\ enabled
  /\ snippets' = [snippets EXCEPT ![Input].rules = IF @ = NoRules THEN Base ELSE @]
  /\ Goto("compat")
  /\ UNCHANGED <<files, compat, boot, enabled, sentinel, kernel, facts, lost, validated>>

\* The ruleset is loaded only if the copy has changed the file.
PushCompat ==
  /\ pc = "compat"
  /\ compat' = "current"
  /\ Goto(IF compat = "current" THEN "list" ELSE "load")
  /\ UNCHANGED <<snippets, files, boot, enabled, sentinel, kernel, facts, lost, validated>>

\* Mutant: a load that fails is not tried again.
LoadCompat_Once ==
  /\ pc = "load"
  /\ kernel' = IF kernel.tables = "bare" THEN kernel
                ELSE [kernel EXCEPT !.tables = "hooked", !.drop = FALSE]
  /\ lost' = lost \ {"compat"}
  /\ Goto("list")
  /\ UNCHANGED <<disk, facts, validated>>
\* Over hooked chains the load resets the policy of INPUT to accept; over bare
\* ones it fails, and the tables are deleted.
LoadCompat ==
  /\ pc = "load"
  /\ IF kernel.tables = "bare"
       THEN kernel' = Flushed /\ Goto("retry") /\ UNCHANGED lost
       ELSE /\ kernel' = [kernel EXCEPT !.tables = "hooked", !.drop = FALSE]
            /\ lost' = (lost \ {"compat"}) \cup IF kernel.drop THEN {"rules"} ELSE {}
            /\ Goto("list")
  /\ UNCHANGED <<disk, facts, validated>>

RetryCompat ==
  /\ pc = "retry"
  /\ kernel' = [kernel EXCEPT !.tables = "hooked"]
  /\ lost' = lost \ {"compat"}
  /\ Goto("list")
  /\ UNCHANGED <<disk, facts, validated>>

\* Mutant: a chain that is there is taken for one that is jumped to.
Jumped_Chains == kernel.chains
\* Chains whose jump the live ruleset has.
Jumped == {c \in Chains : kernel.jumps[c] > 0}

ReadState ==
  /\ pc = "list"
  /\ facts' = [facts EXCEPT !.rules = snippets, !.jumped = Jumped]
  /\ Goto("jumps")
  /\ UNCHANGED <<disk, kernel, lost, validated>>

Present(s) == {c \in Chains : s[c].rules # NoRules}
Mentioned(s) == {c \in Chains : s[c] # Nothing}
\* A chain is declared, and flushed, for its first rule only.
Declared(s) == {c \in Present(s) : ~s[c].hidden}
\* Mutant: the update jumps are all the jumps.
Missing_All(s, jumped) == Mentioned(s)
Missing(s, jumped) == Mentioned(s) \ jumped

Rendered ==
  [jumps |-> Present(facts.rules), updates |-> Missing(facts.rules, facts.jumped),
   flushes |-> Declared(facts.rules), chains |-> Declared(facts.rules)]
NextFile == [jumps |-> "updates", updates |-> "flushes", flushes |-> "chains", chains |-> "rules"]

\* A file is generated, in place of an older one.
Generate(name, content) ==
  files' = [f \in {name} \cup DOMAIN files |-> IF f = name THEN content ELSE files[f]]

WriteFile ==
  /\ pc \in DOMAIN Rendered
  /\ Generate(pc, Rendered[pc])
  /\ Goto(NextFile[pc])
  /\ validated' = FALSE
  /\ lost' = IF pc = "updates" THEN lost \ {"updates", "emptied"} ELSE lost
  /\ UNCHANGED <<snippets, compat, boot, enabled, sentinel, kernel, facts>>

\* Mutant: only the first ruleset counts as changed.
RulesChanged_First(new) == "rules" \notin DOMAIN files
RulesChanged(new) == "rules" \notin DOMAIN files \/ files["rules"] # new
WriteRules ==
  LET new == [c \in Chains |-> facts.rules[c].rules] IN
  /\ pc = "rules"
  /\ Generate("rules", new)
  /\ Goto(IF RulesChanged(new) THEN "touch" ELSE "validate")
  /\ lost' = lost \ {"files"}
  /\ UNCHANGED <<snippets, compat, boot, enabled, sentinel, kernel, facts, validated>>

TouchSentinel ==
  /\ pc = "touch"
  /\ sentinel' = TRUE
  /\ Goto("validate")
  /\ UNCHANGED <<snippets, files, compat, boot, enabled, kernel, facts, lost, validated>>

ValidateFiles ==
  /\ pc = "validate"
  /\ IF Validates(Contents) THEN Goto("boot") /\ UNCHANGED facts ELSE EndPlay
  /\ UNCHANGED <<disk, kernel, lost, validated>>

IncludeOnBoot ==
  /\ pc = "boot"
  /\ boot' = TRUE
  /\ validated' = TRUE
  /\ EndPlay
  /\ UNCHANGED <<snippets, files, compat, enabled, sentinel, kernel, lost>>

-----------------------------------------------------------------------------
(* run.yml                                                                 *)

StartRun ==
  /\ pc = "idle" /\ enabled
  /\ Goto("inject")
  /\ UNCHANGED <<disk, kernel, facts, lost, validated>>

InjectChains ==
  /\ pc = "inject"
  /\ IF kernel.tables # "none" /\ "chains" \in DOMAIN files
       THEN /\ kernel' = [kernel EXCEPT !.chains = @ \cup files.chains]
            /\ Goto("reload") /\ UNCHANGED facts
       ELSE EndPlay /\ UNCHANGED kernel
  /\ UNCHANGED <<disk, lost, validated>>

\* Without a file the pipe fails, after nft has loaded the others.
ReloadRules ==
  /\ pc = "reload" /\ sentinel
  /\ LET ok == Accepted(Contents)
         whole == ok /\ "rules" \in DOMAIN files IN
     /\ kernel' = IF ok THEN Reloaded(Contents) ELSE kernel
     /\ facts' = [facts EXCEPT !.failed = ~whole]
     /\ lost' = (IF whole /\ lost \cap {"files", "emptied"} = {}
                  THEN lost \ {"rules"} ELSE lost \cup {"rules"})
                \cup (IF ok THEN {"updates"} ELSE {})
                \cup (IF ok /\ "updates" \in lost THEN {"jumps"} ELSE {})
  /\ Goto("always")
  /\ UNCHANGED <<disk, validated>>

TrustRules ==
  /\ pc = "reload" /\ ~sentinel
  /\ Goto("always")
  /\ UNCHANGED <<disk, kernel, facts, lost, validated>>

\* The always section: also if the reload has failed.
DeleteSentinel ==
  /\ pc = "always"
  /\ sentinel' = FALSE
  /\ EndPlay
  /\ UNCHANGED <<snippets, files, compat, boot, enabled, kernel, lost, validated>>

-----------------------------------------------------------------------------
(* cleanup.yml                                                             *)

StartCleanup ==
  /\ pc = "idle"
  /\ kernel' = Flushed
  /\ lost' = (lost \ {"jumps"}) \cup {"rules", "updates", "emptied"}
  /\ Goto("unfile")
  /\ UNCHANGED <<disk, facts, validated>>

RemoveFiles ==
  /\ pc = "unfile"
  /\ files' = <<>> /\ compat' = "absent"
  /\ validated' = FALSE
  /\ Goto("unboot")
  /\ UNCHANGED <<snippets, boot, enabled, sentinel, kernel, facts, lost>>

RemoveBoot ==
  /\ pc = "unboot"
  /\ boot' = FALSE
  /\ snippets' = [c \in Chains |-> Nothing]
  /\ EndPlay
  /\ UNCHANGED <<files, compat, enabled, sentinel, kernel, lost, validated>>

-----------------------------------------------------------------------------
(* What happens around the plays.                                          *)

\* A role writes or removes a snippet.
EditSnippets(c, s) ==
  /\ pc = "idle"
  /\ snippets' = [snippets EXCEPT ![c] = s]
  /\ UNCHANGED <<files, compat, boot, enabled, sentinel, kernel, play, lost, validated>>

\* Another version of the collection, with another iptables.nft.
UpgradeCollection ==
  /\ pc = "idle" /\ compat = "current"
  /\ compat' = "old"
  /\ UNCHANGED <<snippets, files, boot, enabled, sentinel, kernel, play, lost, validated>>

\* What a play that ends before task t leaves undone for good.
Undone(t) ==
  CASE t = "touch" -> {"rules"}
    [] t \in {"updates", "flushes", "chains", "rules"} -> {"files"}
    [] t \in {"load", "retry", "unfile"} -> {"compat"}
    [] OTHER -> {}

\* The connection is lost, or the operator stops the play.
Cut ==
  /\ pc # "idle"
  /\ lost' = lost \cup Undone(pc)
  /\ EndPlay
  /\ UNCHANGED <<disk, kernel, validated>>

\* What a boot costs depends on whether it could load the files.
Reboot ==
  /\ kernel' = IF enabled THEN Booted ELSE Flushed
  /\ lost' = LET kept == (lost \ {"jumps"}) \cup Undone(pc) \cup {"updates"} IN
       IF kernel'.drop /\ "files" \notin kept
         THEN kept \ {"rules", "compat", "emptied"}
         ELSE kept \cup {"rules", "compat", "emptied"}
  /\ EndPlay
  /\ UNCHANGED <<disk, validated>>

Play ==
  \/ StartBootstrap \/ EmptyRuleset
  \/ StartConfigure \/ PushCompat \/ LoadCompat \/ RetryCompat \/ ReadState
  \/ WriteFile \/ WriteRules \/ TouchSentinel \/ ValidateFiles \/ IncludeOnBoot
  \/ StartRun \/ InjectChains \/ ReloadRules \/ TrustRules \/ DeleteSentinel
  \/ RemoveFiles \/ RemoveBoot

Event ==
  \/ \E c \in Chains : \E s \in Snippets : EditSnippets(c, s)
  \/ UpgradeCollection \/ StartCleanup \/ Cut \/ Reboot

Next == Play \/ Event
Spec == Init /\ [][Next]_vars

-----------------------------------------------------------------------------
(* Properties.                                                             *)

\* INPUT drops what no rule accepts only while it jumps to a chain that has
\* the rules: nobody is locked out.
NeverLockedOut == kernel.drop => kernel.jumps[Input] > 0 /\ kernel.rules[Input] # {}

\* So it is, whatever order configure.yml, run.yml, failures and boots come in,
\* as long as run.yml never loads an edpm-update-jumps.nft that was written
\* before the last reload or boot.
LockedOutOnlyByOldJumps == NeverLockedOut \/ "jumps" \in lost

\* The kernel has every rule of the files, and goes to it.
Enforced ==
  /\ kernel.drop
  /\ \A c \in Ruled(Contents) : Contents.rules[c] \in kernel.rules[c] /\ kernel.jumps[c] > 0

\* A run.yml that does not fail leaves the kernel with the rules of the files,
\* whether it reloads them or trusts the missing sentinel.  The exceptions:
\* - changes that leave no sentinel behind, until a later reload: a play cut
\*   between the file and the touch, a reload that failed, a new iptables.nft
\*   over a policy of drop;
\* - a ruleset emptied by a cleanup or by a boot that loads nothing, until
\*   edpm-update-jumps.nft is written anew and reloaded: the older one lacks
\*   the jumps that were there before;
\* - a configure.yml cut off among its files, which leaves them of two
\*   versions: until a later one has written them all, and if such files were
\*   reloaded or booted in the meantime, until the next reload of whole ones.
RunEnforces ==
  pc = "always" /\ ~facts.failed /\ "rules" \in DOMAIN files \ lost /\ "files" \notin lost => Enforced

\* When the files are validated the iptables layout is loaded, unless a play
\* was cut off between the push and the load of iptables.nft, or the ruleset
\* was emptied since: then no configure.yml loads it again.
CompatLoadedUnlessLost == pc = "validate" /\ "compat" \notin lost => kernel.tables = "hooked"

\* And only then does a chain get a second jump.
JumpOnce == \A c \in Chains : kernel.jumps[c] <= 1
JumpTwiceOnlyByOldJumps == JumpOnce \/ "jumps" \in lost

\* What configure.yml has validated and included in the boot file can be
\* loaded by a boot.
ValidatedBoots == validated => BootLoads

=============================================================================
