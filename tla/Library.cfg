SPECIFICATION Spec
CONSTANTS
  e1 = e1
  e2 = e2
  e3 = e3
  e4 = e4
  e5 = e5
  NULL = NULL
  List = {1, 2}
  Elem = {e1, e2, e3, e4}
  HashElem = {e1, e2, e3, e4, e5}
  key <- MCKey
  hash <- MCHash
  MIN_BUCKETS = 1
  BEST_ELEMS_PER_BUCKET = 1
  ELEM_BITS = 2
  bit_cnt = 3
  W = 4
  R = 5
  Bits <- MCBits
  NAME_MAX = 3
  NAME_SIZE = 4
  ULONG_MAX = 1073741823
  INT_MAX = 536870911
  PGSIZE = 10
  ARENA = 4
  MIN_BLOCK = 2
  RAM_PAGES = 6
  user_page_limit = 2
  BITMAP_PAGES = 1
  Sizes = {2, 3, 6, 7}
  MaxLive = 5
  Inputs <- MCInputs
INVARIANTS
  HeapSound
  
PROPERTIES
  ListImplements
  MapImplements
  BitmapImplements
