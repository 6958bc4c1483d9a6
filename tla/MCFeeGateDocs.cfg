\* A bypass transaction with a small fee, and a fee in a denomination that only
\* the node has a price for; both invariants fail (-continue).
CONSTANTS
  send = send
  exec = exec
  Nodes = {n1}
  Denoms = {uxion, ibc}
  BondDenom = uxion
  Unit = 2
  Txs <- MCTxs
  PriceInputs <- MCPriceInputs
  LocalInputs <- MCLocalInputs
  BypassInputs <- MCBypassInputs
  GasInputs <- MCGasInputs
  DefaultBypass <- MCDefaultBypass
  DefaultMaxGas = 1
  Unset = unset
  Versions = {2}
SPECIFICATION Spec
INVARIANTS FeeInGlobalDenoms BypassBelowMinimum
CHECK_DEADLOCK FALSE
