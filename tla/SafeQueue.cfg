CONSTANTS
  Elements = {e1, e2, e3, e4}
  Consumers = {c1}
SPECIFICATION Spec
INVARIANTS
  NoLostWakeup
PROPERTIES
  ElementsHaveOneOwner
