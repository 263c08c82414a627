\* hunks of three lines on a side
CONSTANTS
  MaxLen = 4
  Listings <- AllListings
SPECIFICATION Spec
INVARIANT InvalidRemoved
CHECK_DEADLOCK FALSE
