SPECIFICATION Spec
CONSTANTS
  big = big
  small = small
  Thread = {t1, t2}
  Allocator = {big, small}
  None = None
  Page = {1, 2, 3}
  PAGE_SIZE = 160
  NODE = 24
  SLAB = 40
  obj_size <- MCsize
  obj_align <- MCalign
SYMMETRY Interchangeable
CHECK_DEADLOCK FALSE
INVARIANTS
  EachObjectOnce
  DescriptorNamesOwner
  ObjectsDisjoint
  GrowsOnlyWhenFull
