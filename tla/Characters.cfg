\* Strings of a client of up to three characters, of all sorts of characters.
CONSTANTS
  Typed <- Boundaries
  MaxLength = 3
SPECIFICATION CharactersSpec
INVARIANTS CharactersTypeOK IssuedIsAccepted EvenlySpread ClassesAsListed
CHECK_DEADLOCK FALSE
