\* every listing and every set of invalid actions
CONSTANTS
  MaxLen = 7
  Listings <- AllListings
SPECIFICATION Spec
INVARIANTS TypeOK Ordered KeepsTheRest ShortHunksExact
CHECK_DEADLOCK FALSE
