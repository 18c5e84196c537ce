SPECIFICATION Spec
CONSTANTS
  Numbers = {1}
  Arguments = {2, 3, 4, 5, 6}
INVARIANT
  ArgumentsArrive
