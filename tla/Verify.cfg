\* Two threads, and labels of up to three files in any condition.
CONSTANTS
  Threads = {t1, t2}
  Files = {f1, f2, f3}
  None = None
SPECIFICATION Spec
INVARIANTS BadFileAccounted VerdictIsFounded
PROPERTY GoEnds
