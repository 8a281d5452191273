CONSTANTS
  Procs = {p1, p2}
  Vmas = {v1, v2, v3}
  Pas = {s1}
  Frames = {f1, f2, f3}
  NPages = 3
  Modulus = 4
  CanFail = {"kmalloc_pas", "alloc_page", "remap_pfn_range", "kmalloc_node"}
  None = None
SPECIFICATION Spec
SYMMETRY Symmetry
PROPERTY ImplementsLending
