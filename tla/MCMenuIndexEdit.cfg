\* One thread is enough: one edit, one restart, one model.
SPECIFICATION Spec
CONSTANTS
  Thread = {t1}
  Model = {ko}
  MaxEdits = 2
  MaxStarts = 2
  None = None
INVARIANT
  EditNoticed
