SPECIFICATION Spec
CONSTANTS
  Inputs <- Lists
  Rank <- Priority
  Codes <- SomeCodes
  Alpha2 <- TwoLetters
  CountryName <- TableName
  Names <- Places
  Tokens <- TokensOfAll
  Display <- DisplayOfAll
  MinSources = 2
  Letter <- Runes
  Folded <- LowerCase
  Mark = {"~"}
  Blank = {" "}
INVARIANTS
  MapOrderIsInvisible
  ConfidentIsComplete
  GroupsArePairwise
  CityIsWhatAllSaid
  NamesReduceAsSaid
  NamesShownAsMatched
