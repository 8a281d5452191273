CONSTANTS
  Procs = {p1, p2}
  Vmas = {v1, v2, v3}
  Pas = {s1, s2}
  Frames = {f1, f2}
  NPages = 2
  Modulus = 3
  CanFail = {"misc_register", "kmalloc_pas", "alloc_page", "remap_pfn_range", "kmalloc_node"}
  None = None
SPECIFICATION Spec
SYMMETRY Symmetry
INVARIANTS
  RefCountExact
  CountersBalance
  PagesAccounted
  NothingLeftBehind
