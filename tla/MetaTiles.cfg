CONSTANTS
  MetaSize = 8
  Width = 7
  Height = 7
  Pans <- Sideways
  Origins <- East
  Granularity <- ThreeBits
  Rounding = 2
SPECIFICATION Spec
INVARIANTS
  ViewsInOrder
  ViewsInPlace
  OnlyCracksBlank
  NoneSkipped
