SPECIFICATION Spec
CONSTANTS
  Keys = {1, 2, 3, 4}
  short = short
  long = long
  Values = {short, long}
  Stamps = {0, 1, 2}
  Nil = Nil
  Torn = Torn
  Word = 256
  probe_for <- MCProbe
  Inputs <- MCInputs
  ValueSize <- MCValueSize
  HeaderSize = 3
  KeySize = 1
  StampSize = 2
  kIndexInterval = 8
  kCursorWindow = 8
  bits_per_key = 17
  Now = 1
INVARIANTS LookupExact MergeExact NothingSkipped WindowCoversEntry
CHECK_DEADLOCK FALSE
