\* Trace records added, cloned and cleared, with any allocation failing.
CONSTANTS
  MaxAllocs = 16
  MaxRecords = 3

SPECIFICATION Spec
INVARIANT StringsOwnedOnce
INVARIANT NoDoubleFree
