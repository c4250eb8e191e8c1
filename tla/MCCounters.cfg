CONSTANTS
  Threads = {t1, t2, t3}
  THREADS_RANGE = 4
  JEC_RANGE = 4
SPECIFICATION Spec
INVARIANT TypeOK
INVARIANT FieldsExact
PROPERTY FieldsIsolated
