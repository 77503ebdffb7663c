CONSTANTS
  Nothing = Nothing
  Slash <- MCSlash
  KeySpace <- MCKeySpace
  PrefixesAsked <- MCPrefixes
  Scopes <- MCScopes
  Delimiters <- MCDelimiters
  MaxAsked = {2}
  MaxKeysLimit = 3
  MaxWrites = 0
SPECIFICATION ListingSpec
INVARIANTS
  ListingComplete
