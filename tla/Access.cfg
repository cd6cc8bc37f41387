SPECIFICATION Spec
CONSTANTS
  PathParams = {"{id}"}
  QueryParams = {"{?q}"}
  None = None
  Slots = {1, 2}
  Options <- MCOptions
  Issued <- MCIssued
  Items <- MCItems
  Reads <- MCNone
  Broken = {}
  Decode <- MCDecode
  Encode <- MCNone
  Malformed = {"%"}
  Ttl = 2
  CacheMax = 1
  RateMax = 1
  RateWindow = 2
INVARIANTS RefusedForCause ServedAsChecked WindowsBound
PROPERTIES VerdictsFollow
