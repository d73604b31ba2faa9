CONSTANTS
  Sender = Sender
  Miner = Miner
  Called = Called
  Away = Away
  Acc = {Sender, Miner, Called, Away}
  None = None
  Deployed = Deployed
  W = 32
  MaxNonce = 4
  Coinbase = Miner
  BaseFee = 2
  BlockGas = 8
  Tx <- MCTx
  AuthCost = 1
  AuthRefund = 1
  Quotient = 2
  Refunds = {0, 2}
  Genesis <- MCGenesis
  MaxTxs = 2
  q1 = q1
  q2 = q2
  Request = {q1, q2}
  MaxPerBlock = 1
  Target = 1
  Inhibitor = Inhibitor
  Slots = 2
  Window = 2
  Credit <- MCCredit
  Gap = 2
  MaxBlocks = 3
SPECIFICATION Spec
INVARIANTS
  EtherAddsUp
  NoncesUsedOnce
  ReceiptIsFair
  HistoryIsServed
  ExcessIsBacklog
PROPERTIES
  RequestsAreTakenInOrder
