CONSTANTS
    PageSize = 9
    HeaderSize = 1
    SlotSize = 1
    Word = 32
    Sizes = {1, 2, 3}
    ZeroByte = 0
    Bytes <- MCBytes
    Records <- MCRecords
SPECIFICATION Spec
INVARIANTS TypeOK LayoutOK RoomAgrees
PROPERTIES CompactReclaims IsSlotStore IsHeapPage
