CONSTANTS
  Symbol = {A, B}
  Price = {2, 3}
  Qty = {1, 2}
  Fee = {1}
  InitialCash = 10
  MaxEntries = 4
SPECIFICATION Spec
SYMMETRY Symbols
INVARIANTS TypeOK LotsMatchPosition NavIdentity ReportAgreesWithNav RealizedProfitsAgree
PROPERTIES ImplementsFifo
