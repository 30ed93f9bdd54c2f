SPECIFICATION Spec
CONSTANTS
  Table = {a, b}
  Null = Null
  Field = {"x"}
  Payload = {n}
  Signature = {"TS-N", "TN-N", "TSN-", "TNN-"}
  Nil = Nil
  Absent = Absent
  MaxIndex = 1
  Hops = 2
  MaxSet = 4
INVARIANT TypeOK
PROPERTY ImplementsLuaIndex
PROPERTY WalksEnd
