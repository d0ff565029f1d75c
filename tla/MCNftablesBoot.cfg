SPECIFICATION MCSpec
CONSTANTS
  Chains = {inputChain, rawChain}
  Input = inputChain
  Rules = {base, bad}
  Base = base
  Invalid = {bad}
  NoRules = NoRules
  MaxEvents = 2
INVARIANTS
  ValidatedBoots
