SPECIFICATION CSSpec
CONSTANTS
  Configured <- MCConfigured
  Names = {"a", "b"}
  Reconnecting = {"b"}
  Handled = {"a"}
  Adds = {1, 2}
  Removals = {1}
  MaxMade <- MCMaxMade
  NoClient = NoClient
INVARIANTS OneClientPerName StraysReconnect
PROPERTIES WalksReachAll AddsSettle
