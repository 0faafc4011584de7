SPECIFICATION Spec
CONSTANTS
  Vectors = {v, w}
  Pointers = {p}
  Objects = {o1, o2}
  Null = Null
  Raw = Raw
  MaxSize = 3
INVARIANT
  CountsExact
PROPERTY
  ImplementsObjectLists
VIEW
  StateView
