\* RoundTrip
SPECIFICATION Spec
CONSTANTS
  Margin = 2
  Numbers <- MCNumbers
  Lengths = {0, 4, 7, 9}
  LeftSides <- MCLeftSides
  RightSides <- MCRightSides
INVARIANTS
  NumberComesBack
  NearestNumber
PROPERTIES
  NumbersGrowAlong
