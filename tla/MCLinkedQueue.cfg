SPECIFICATION Spec
CONSTANTS
  small = small
  other = other
  large = large
  a1 = a1
  a2 = a2
  a3 = a3
  a4 = a4
  NULL = NULL
  Packets <- Three
  SizeOf <- Bytes
  MaxBytes = 4
  Addresses <- Cells
INVARIANTS
  TypeOK
  WellLinked
PROPERTY
  ImplementsFifo
