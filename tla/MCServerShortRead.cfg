SPECIFICATION Spec
CONSTANTS
  a1 = a1  a2 = a2  b2 = b2  b3 = b3  NoBlock = NoBlock
  Txids = {2, 4, 5, 6, 7, 8, 9, 10, 11}
  BadSum = {11}
  Ins <- MCIns
  Outs <- MCOuts
  Blocks <- MCBlocks
  Parent <- MCParent
  Height <- MCHeight
  TxsOf <- MCTxsOf
  MaxUint32 = 5
  Dusts = {0, 5}
  MaxRangeBlocks = 4
  MaxUint64 = 11
  MaxEntries = 3
  Requests <- MCRequests
INVARIANT NoSilentLoss
CHECK_DEADLOCK FALSE
