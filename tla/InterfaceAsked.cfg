CONSTANTS
  Dev <- Disks
  Start <- Starts
  Adapter <- Adapters
  Home <- Homes
  Size <- Sizes
  First <- Firsts
  MaxChanges = 2
SPECIFICATION Spec
PROPERTY ActsOnAsked
