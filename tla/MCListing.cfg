CONSTANTS
  Nothing = Nothing
  Slash <- MCSlash
  KeySpace <- MCKeySpace
  PrefixesAsked <- MCPrefixes
  Scopes <- MCScopes
  Delimiters <- MCDelimiters
  MaxAsked = {0, 2}
  MaxKeysLimit = 3
  MaxWrites = 1
SPECIFICATION ListingSpec
INVARIANTS
  ListingTypeOK
  ListedInOrder
  NothingSkipped
  FlatListingComplete
  ListedWithinScope
PROPERTIES
  PagingEnds
