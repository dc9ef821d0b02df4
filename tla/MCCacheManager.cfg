CONSTANTS
  k1 = k1
  k2 = k2
  k3 = k3
  f1 = f1
  f2 = f2
  short = short
  long = long
  huge = huge
  Key = {k1, k2, k3}
  Value = {short, long, huge}
  File = {f1, f2}
  file_of <- MCFileOf
  Size <- MCSize
  KeyBytes <- MCKeyBytes
  MaxKeyBytes = 2
  max_bytes = 8
  Absent = Absent
SPECIFICATION ManagerSpec
INVARIANTS TypeOK FilesIndexed BudgetHolds
PROPERTY ImplementsLossyCache
