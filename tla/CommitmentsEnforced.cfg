SPECIFICATION CMSpec
CONSTANTS
  Accounts = {proposer, other}
  Committers = {proposer}
  Recipients = {vault, elsewhere}
  Coinbases = {vault}
  Proposer = proposer
  None = None
  Verifiers = {v1}
  Sequencer = sequencer
  proposer = proposer
  other = other
  vault = vault
  elsewhere = elsewhere
  v1 = v1
  ChannelCap = 1
  MaxBlock = 1
  MaxL1 = 2
INVARIANT
  EnforcedOnBlocks
