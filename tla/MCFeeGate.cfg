\* Transactions, proposals, an upgrade and nodes that restart.
CONSTANTS
  send = send
  exec = exec
  Nodes = {n1, n2}
  Denoms = {uxion, ibc}
  BondDenom = uxion
  Unit = 2
  Txs <- MCTxs
  PriceInputs <- MCPriceInputs
  LocalInputs <- MCLocalInputs
  BypassInputs <- MCBypassInputs
  GasInputs <- MCGasInputs
  DefaultBypass <- MCDefaultBypass
  DefaultMaxGas = 1
  Unset = unset
  Versions = {1, 2}
SPECIFICATION Spec
SYMMETRY NodeSymmetry
INVARIANTS MempoolPays FreeExactlyBypass WaitingExecutes
CHECK_DEADLOCK FALSE
