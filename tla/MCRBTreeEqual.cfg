\* Nodes that share keys.
SPECIFICATION Spec
CONSTANTS
  Nil = Nil
  NULL = NULL
  Low = "OTHER"
  Node = {1, 2, 3, 4, 5}
  Uses <- SharedKeys
INVARIANT Sorted
