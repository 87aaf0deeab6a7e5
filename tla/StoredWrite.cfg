CONSTANTS
  a = a
  b = b
  w1 = w1
  w2 = w2
  w3 = w3
  Field = {a, b}
  Coerced = {b}
  Datum = {w1, w2, w3}
  Null = Null
  Zero = Zero
  Request <- MCRequest
  Kept = {{a, b}, {b}}
  Starts = {TRUE, FALSE}
  MaxFailures = 1
SPECIFICATION Spec
INVARIANTS LoneNewestWriteStays TimeIsOfItsValue SubscriberHasTheRow HeardWasStored
PROPERTY TimesGoOn
SYMMETRY Symmetry
\* Each request is handled once.
CHECK_DEADLOCK FALSE
