\* Three threads, one edit, two starts, two embedding models.
SPECIFICATION FairSpec
CONSTANTS
  Thread = {t1, t2, t3}
  Model = {ko, multi}
  MaxEdits = 2
  MaxStarts = 2
  None = None
INVARIANTS
  TypeOK
  CheckedWhenQuiet
PROPERTY
  OutdatedReplaced
