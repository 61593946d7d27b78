CONSTANTS
  MetaSize = 8
  Width = 7
  Height = 7
  Pans <- Anyhow
  Origins <- East
  Granularity <- Exact
  Rounding = 0
SPECIFICATION Spec
INVARIANTS
  ViewsInOrder
