CONSTANTS
  Procs = {p1, p2}
  Vmas = {v1, v2}
  Pas = {s1, s2}
  Frames = {f1}
  NPages = 1
  Modulus = 3
  CanFail = {"alloc_page", "remap_pfn_range", "kmalloc_node"}
  None = None
SPECIFICATION FairSpec
PROPERTY HandlersReturn
