CONSTANTS
  Procs = {p1}
  Vmas = {v1}
  Pas = {s1}
  Frames = {f1, f2}
  NPages = 1
  Modulus = 3
  CanFail = {}
  None = None
SPECIFICATION Spec
SYMMETRY Symmetry
INVARIANT CleanUnload
