CONSTANTS
  Types <- MCTypes
  Sigs <- MCSigs
  Kind <- MCKind
  Elem <- MCElem
  Rank <- MCRank
  ListTypes <- NoTypes
  Parents <- MCParents
  Defs <- MCDefs
  DefOf <- MCDefOf
  NoDef = "none"
  GenArgs <- MCArgs
  Variances <- MCVariances
  Programs <- VariancePrograms
SPECIFICATION Spec
INVARIANTS DerivedClosed NoMutualDerivation LinksJustified LinksComplete
