SPECIFICATION GCSpec
CONSTANTS
  PathParams = {"{id}"}
  QueryParams = {"{?q}"}
  Reads <- MCReads
  Broken = {"c++"}
  Decode <- MCDecode
  Encode <- MCEncode
  Malformed = {"%"}
  Words <- MCWords
  Setups <- MCSetups
  Names <- MCNames
  Offers <- MCOffers
  Uris <- MCUris
  Tasks <- MCTasks
  Again = {"prompt"}
  MaxFaults = 1
  NoUpstream = NoUpstream
INVARIANTS RoutesHome BootRegistersAll
PROPERTIES ComesUp
