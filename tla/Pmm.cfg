CONSTANTS
    MemMap <- mc_MemMap
    pmm_pages = 10
    BitmapBase = 2
    BitmapPages = 1
    BITS = 16
    Sizes = {1, 2, 3}
SPECIFICATION Spec
INVARIANTS TypeOK Accounting Exclusive SearchAgrees
PROPERTY Allocator
