SPECIFICATION MCSpec
CONSTANTS
  Chains = {inputChain, rawChain}
  Input = inputChain
  Rules = {base, bad}
  Base = base
  Invalid = {bad}
  NoRules = NoRules
  MaxEvents = 5
INVARIANTS
  TypeOK
  LockedOutOnlyByOldJumps
  RunEnforces
  CompatLoadedUnlessLost
  JumpTwiceOnlyByOldJumps
