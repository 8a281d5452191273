CONSTANTS
  Procs = {p1, p2}
  Vmas = {v1, v2}
  Pas = {s1, s2}
  Frames = {f1, f2}
  NPages = 1
  Modulus = 3
  CanFail = {}
  None = None
SPECIFICATION Spec
SYMMETRY Symmetry
INVARIANT MappingsSound
