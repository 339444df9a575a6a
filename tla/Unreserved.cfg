\* The comment above unreserved43_128, checked on strings of a client.
CONSTANTS
  Typed <- Boundaries
  MaxLength = 3
SPECIFICATION CharactersSpec
INVARIANT UnreservedAsListed
CHECK_DEADLOCK FALSE
