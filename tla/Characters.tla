----------------------------- MODULE Characters -----------------------------
(***************************************************************************)
(* The strings the server generates (crypto.ts, token.ts) and the classes  *)
(* of characters it accepts (validation.ts): what it has given out must be *)
(* accepted when it comes back.                                            *)
(*                                                                         *)
(* A string is built character by character; of it the state keeps the     *)
(* length and the classes that all its characters are of.                  *)
(***************************************************************************)
EXTENDS Integers, Sequences, FiniteSets

CONSTANTS
  Typed,      \* code points that a client may send
  MaxLength   \* bound: characters of a string of a client

LastCodePoint == 1114111

CodePoints == 0..LastCodePoint
Octets     == 0..255

CharactersAssumptions == Typed \subseteq CodePoints /\ MaxLength \in Nat

ASSUME CharactersAssumption == CharactersAssumptions

-----------------------------------------------------------------------------
(* Alphabets                                                                *)

Run(first, last) == [i \in 1..(last - first + 1) |-> first + i - 1]

Upper  == Run(65, 90)
Lower  == Run(97, 122)
Digits == Run(48, 57)

alpha_digit_set    == Digits \o Lower
UNRESERVED_CHARSET == Lower \o Upper \o Digits \o <<45, 46, 95, 126>>
Base64             == Upper \o Lower \o Digits \o <<43, 47>>

(* The index of an octet: floor(octet / (256 / n)), in floating point. For  *)
(* n up to 256 the double that comes out is below the whole number it       *)
(* should be in these cases and no other.                                  *)
RoundedDown(octet, n) == octet = 128 /\ n \in {186, 198, 210, 234, 246}

Index_Ceiling(octet, n) == (octet * n + 255) \div 256

Index(octet, n) ==
  (octet * n) \div 256 - (IF RoundedDown(octet, n) THEN 1 ELSE 0)

maskLength(mask) == IF Len(mask) < 256 THEN Len(mask) ELSE 256

(* The character that an octet becomes, as a set: empty if the index is     *)
(* outside of the mask.                                                    *)
Picked(mask, octet) ==
  {mask[i + 1] : i \in {Index(octet, maskLength(mask))} \intersect 0..(Len(mask) - 1)}

(* base64URLEncode: "=" goes, "+" and "/" become "-" and "_".               *)
base64URLEncode_PlusKept(char) == IF char = 47 THEN 95 ELSE char

base64URLEncode(char) ==
  CASE char = 43 -> 45
    [] char = 47 -> 95
    [] OTHER     -> char

-----------------------------------------------------------------------------
(* What is generated: how many characters, of which alphabet, and where the *)
(* value is used. The state parameter is the verifier; SHA-256 in base64 is *)
(* 43 characters and a "=".                                                *)
Random ==
  [client_id     |-> [size |-> 24, mask |-> alpha_digit_set,    used |-> {"vschar", "basic"}],
   client_secret |-> [size |-> 32, mask |-> alpha_digit_set,    used |-> {"basic"}],
   verifier      |-> [size |-> 43, mask |-> UNRESERVED_CHARSET, used |-> {"nqchar", "query"}],
   access_token  |-> [size |-> 48, mask |-> UNRESERVED_CHARSET, used |-> {}],
   refresh_token |-> [size |-> 64, mask |-> UNRESERVED_CHARSET, used |-> {}]]

Hashed ==
  [challenge |-> [size |-> 43, used |-> {"unreserved43_128", "query"}],
   code      |-> [size |-> 43, used |-> {"vschar", "query"}]]

-----------------------------------------------------------------------------
(* Classes                                                                  *)

Names == {"vschar", "nqchar", "nqschar", "unreserved43_128", "uchar", "unreserved36"}
Uses  == {"basic", "query"}

(* A class is a set of ranges of code points; "|" inside of the brackets of *)
(* a regular expression is a character.                                    *)
Of(char, ranges) == \E r \in ranges : r[1] <= char /\ char <= r[2]

Bar        == <<124, 124>>
Unreserved == {<<65, 90>>, <<97, 122>>, <<48, 57>>, <<45, 45>>, <<46, 46>>, <<95, 95>>, <<126, 126>>}
NoBreak    == {<<9, 9>>, <<32, 126>>, <<128, 55295>>, <<57344, 65533>>, <<65536, 1114111>>}

(* is.*: what the regular expressions hold.                                 *)
is ==
  [vschar           |-> {<<32, 126>>},
   nqchar           |-> {<<33, 33>>, Bar, <<35, 91>>, <<93, 126>>},
   nqschar          |-> {<<32, 33>>, Bar, <<35, 91>>, <<93, 126>>},
   unreserved43_128 |-> Unreserved \union {Bar},
   uchar            |-> NoBreak \union {Bar},
   unreserved36     |-> {<<97, 122>>, <<48, 57>>, <<45, 45>>}]

(* The same classes as the comments above them define them.                 *)
Listed ==
  [vschar           |-> {<<32, 126>>},
   nqchar           |-> {<<33, 33>>, <<35, 91>>, <<93, 126>>},
   nqschar          |-> {<<32, 33>>, <<35, 91>>, <<93, 126>>},
   unreserved43_128 |-> Unreserved,
   uchar            |-> NoBreak,
   unreserved36     |-> {<<97, 122>>, <<48, 57>>, <<45, 45>>}]

(* A part of a Basic token is split at ":"; code and state are put into a   *)
(* URL as they are.                                                        *)
Fits ==
  [basic |-> {<<0, 57>>, <<59, 1114111>>},
   query |-> Unreserved]

-----------------------------------------------------------------------------
VARIABLES
  value,    \* what is built: a generated value, or "sent" by a client
  length,   \* its characters so far
  within,   \* the classes and uses that all of them are of
  listed    \* the classes that all of them are of by the comments

charactersVars == <<value, length, within, listed>>

Values == DOMAIN Random \union DOMAIN Hashed \union {"sent"}

Size == IF value \in DOMAIN Random THEN Random[value].size
        ELSE IF value \in DOMAIN Hashed THEN Hashed[value].size ELSE MaxLength

CharactersTypeOK ==
  /\ value \in Values
  /\ length \in 0..Size
  /\ within \subseteq Names \union Uses
  /\ listed \subseteq Names

CharactersInit ==
  /\ value \in Values
  /\ length = 0
  /\ within = Names \union Uses
  /\ listed = Names

Add(char) ==
  /\ length' = length + 1
  /\ within' = {c \in within \intersect Names : Of(char, is[c])}
                 \union {u \in within \intersect Uses : Of(char, Fits[u])}
  /\ listed' = {c \in listed : Of(char, Listed[c])}
  /\ UNCHANGED value

(* randomString: one octet, one character.                                  *)
RandomCharacter_OneMore ==
  /\ value \in DOMAIN Random
  /\ length <= Random[value].size
  /\ \E octet \in Octets : \E char \in Picked(Random[value].mask, octet) : Add(char)

RandomCharacter ==
  /\ value \in DOMAIN Random
  /\ length < Random[value].size
  /\ \E octet \in Octets : \E char \in Picked(Random[value].mask, octet) : Add(char)

(* A digest of 32 bytes in base64, without the "=" at its end.              *)
HashedCharacter ==
  /\ value \in DOMAIN Hashed
  /\ length < Hashed[value].size
  /\ \E i \in DOMAIN Base64 : Add(base64URLEncode(Base64[i]))

(* A client sends what it likes.                                            *)
TypedCharacter ==
  /\ value = "sent"
  /\ length < MaxLength
  /\ \E char \in Typed : Add(char)

CharactersNext == RandomCharacter \/ HashedCharacter \/ TypedCharacter

CharactersSpec == CharactersInit /\ [][CharactersNext]_charactersVars

(* string().required().matches(...).isValid                                 *)
Valid_EmptyToo(class) == class \in within

Valid(class) == length > 0 /\ class \in within
-----------------------------------------------------------------------------
(* Properties.                                                              *)

used == IF value \in DOMAIN Random THEN Random[value].used
        ELSE IF value \in DOMAIN Hashed THEN Hashed[value].used ELSE {}

(* crypto.ts:5-25, token.ts:7-47 against validation.ts: a value the server  *)
(* gives out passes the validators it meets when it comes back, survives a  *)
(* Basic header, and goes unescaped into the URL of a redirect              *)
(* (code.ts:90-95).                                                        *)
IssuedIsAccepted ==
  \A c \in used : length > 0 => (IF c \in Names THEN Valid(c) ELSE c \in within)

(* crypto.ts:12-18: each octet has an index in the mask, each character of  *)
(* the mask occurs, and none for two octets more than another.              *)
Hits(mask, char) == {octet \in Octets : char \in Picked(mask, octet)}

EvenlySpread ==
  value \in DOMAIN Random =>
    LET mask == Random[value].mask
        hits == {Cardinality(Hits(mask, mask[i])) : i \in DOMAIN mask}
    IN  /\ \A octet \in Octets : Cardinality(Picked(mask, octet)) = 1
        /\ 0 \notin hits
        /\ \A h, k \in hits : h <= k + 1

(* validation.ts:9-49, 74-93, 113-123: a non-empty string passes where the  *)
(* comment lets it, and only there, whatever the "|" between the ranges     *)
(* adds; unreserved43_128 refuses none that its comment lists.             *)
ClassesAsListed ==
  \A c \in Names :
    /\ length > 0 /\ c \in listed => Valid(c)
    /\ Valid(c) => length > 0 /\ (c \in listed \/ c = "unreserved43_128")

-----------------------------------------------------------------------------
(* What the repository says of the program and the code does not do.        *)

(* validation.ts:54-55: "code-verifier = 43*128unreserved" and "unreserved  *)
(* = ALPHA / DIGIT / ...". What passes is of these characters and of that   *)
(* length. The expression of validation.ts:65-66 bounds no length and       *)
(* accepts a "|".                                                          *)
UnreservedAsListed ==
  value = "sent" /\ Valid("unreserved43_128") =>
    "unreserved43_128" \in listed /\ length \in 43..128
=============================================================================
