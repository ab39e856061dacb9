CONSTANTS
  t1 = t1
  t2 = t2
  t3 = t3
  b1 = b1
  b2 = b2
  Settlement <- MCSettlement
  Bill <- MCBill
  BillOf <- MCBillOf
  Series <- MCSeries
  Limit = 2
  NoInvoice = NoInvoice
  Nobody = Nobody
SPECIFICATION FairSpec
INVARIANTS
  UniqueNumbers
PROPERTY SettlementsEnd
