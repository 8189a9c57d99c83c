SPECIFICATION FairSpec
CONSTANTS
  m1 = m1
  c1 = c1
  d1 = d1
  r1 = r1
  Merchants = {m1}
  Txns = {c1, d1, r1}
  Sessions = {sA, sB}
  NoSession = NoSession
  Platform = Platform
  MaxPosts = 1
  TxnMerchant <- MCTxnMerchant
  TxnType <- MCTxnType
  Net <- MCNet
  Fee <- MCFee
INVARIANTS TypeOK WalletNeverNegative SnapshotsChain
PROPERTIES ImplementsBooks PostingEnds
\* Every posting allowed by MaxPosts may have been made: nothing is left to do.
CHECK_DEADLOCK FALSE
