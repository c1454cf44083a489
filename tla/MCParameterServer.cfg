SPECIFICATION Spec
CONSTANTS
  Caller = {c1, c2}
  Listener = {l1, l2}
  MaxStores = 2
PROPERTIES ListenersHearTheValue
