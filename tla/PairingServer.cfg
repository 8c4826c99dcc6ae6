SPECIFICATION Spec
CONSTANTS
  Allocs = {a1, a2, a3}
  Ufrags = {u1, u2}
  None = None
SYMMETRY Symmetry
INVARIANTS
  IndexSound
  IndexComplete
  Symmetric
  Addressed
PROPERTIES
  FirstCome
\* Allocation ids are finite here: with every allocation gone nothing is left
\* to do.
CHECK_DEADLOCK FALSE
