-------------------------- MODULE CharactersProofs --------------------------
(***************************************************************************)
(* Characters, for strings of a client of any length and any code points:  *)
(* every octet has an index in every mask and every character of a mask    *)
(* occurs, as often as any other or once more or less; what the server     *)
(* gives out it accepts; the classes are those of the comments.            *)
(***************************************************************************)
EXTENDS Characters, SequenceTheorems, FiniteSetTheorems, TLAPS

-----------------------------------------------------------------------------
(* The index of an octet.                                                   *)

(* crypto.ts:12-17: no octet has an index outside of the mask.              *)
THEOREM IndexInRange ==
  ASSUME NEW octet \in Octets, NEW n \in 1..256
  PROVE  Index(octet, n) \in 0..(n - 1)
<1>1. /\ octet * n \in Nat /\ octet * n <= 255 * n
      /\ (octet * n) \div 256 \in Nat
      /\ 256 * ((octet * n) \div 256) <= octet * n
  <2>1. octet \in 0..255 /\ n \in Nat
    BY DEF Octets
  <2>2. octet * n \in Nat /\ octet * n <= 255 * n
    BY <2>1
  <2>3. \A p \in Nat : p \div 256 \in Nat /\ 256 * (p \div 256) <= p
    OBVIOUS
  <2> QED
    BY <2>2, <2>3
<1>2. PICK q \in Nat : q = (octet * n) \div 256
  BY <1>1
<1>3. 256 * q <= 255 * n /\ n \in Nat \ {0}
  <2>1. \A p, r \in Nat : 256 * q <= p /\ p <= 255 * r => 256 * q <= 255 * r
    OBVIOUS
  <2> QED
    BY <1>1, <1>2, <2>1
<1>4. q < n
  BY <1>3
<1>5. RoundedDown(octet, n) => q >= 1
  BY <1>2 DEF RoundedDown
<1>6. Index(octet, n) = q - (IF RoundedDown(octet, n) THEN 1 ELSE 0)
  BY <1>2 DEF Index
<1> QED
  BY <1>4, <1>5, <1>6

(* crypto.ts:12-17: every character of a mask occurs.                       *)
THEOREM EveryIndexOccurs ==
  ASSUME NEW n \in 1..256, NEW i \in 0..(n - 1)
  PROVE  \E octet \in Octets : Index(octet, n) = i
<1> DEFINE a == 256 * i + n - 1
           b == a \div n
<1>1. b \in Nat /\ b * n <= a /\ a < b * n + n
  <2>1. \A p \in Nat, m \in Nat \ {0} : p \div m \in Nat /\ (p \div m) * m <= p /\ p < (p \div m) * m + m
    OBVIOUS
  <2>2. a \in Nat /\ n \in Nat \ {0}
    OBVIOUS
  <2> QED
    BY <2>1, <2>2
<1>2. 256 * i <= b * n /\ b * n < 256 * i + n /\ 256 * i + n <= 256 * n
  BY <1>1
<1> HIDE DEF b
<1>3. b < 256
  BY <1>1, <1>2
<1>4. b \in Octets
  BY <1>1, <1>3 DEF Octets
<1>5. \A p \in Nat : 256 * i <= p /\ p < 256 * i + 256 => p \div 256 = i
  OBVIOUS
<1>6. b * n \in Nat /\ (b * n) \div 256 = i
  BY <1>1, <1>2, <1>5
<1>7. CASE ~RoundedDown(b, n)
  BY <1>4, <1>6, <1>7 DEF Index
(* The next octet takes the place of the one that was rounded down.         *)
<1>8. CASE RoundedDown(b, n)
  <2>1. b = 128 /\ n \in {186, 198, 210, 234, 246}
    BY <1>8 DEF RoundedDown
  <2>2. (129 * n) \div 256 = i
    BY <1>6, <2>1
  <2>3. 129 \in Octets /\ Index(129, n) = i
    BY <2>2 DEF Octets, Index, RoundedDown
  <2> QED
    BY <2>3
<1> QED
  BY <1>7, <1>8

-----------------------------------------------------------------------------
(* Alphabets: characters of which ranges they hold.                         *)

AlphaDigits == (48..57) \union (97..122)
UrlSafe     == AlphaDigits \union (65..90) \union {45, 46, 95, 126}

LEMMA Alphabets ==
  /\ alpha_digit_set \in Seq(AlphaDigits)
  /\ UNRESERVED_CHARSET \in Seq(UrlSafe)
  /\ \A i \in DOMAIN Base64 : base64URLEncode(Base64[i]) \in UrlSafe
<1>1. ASSUME NEW a \in Nat, NEW b \in Nat, a <= b PROVE Run(a, b) \in Seq(a..b)
  <2>1. \A i \in 1..(b - a + 1) : a + i - 1 \in a..b
    BY <1>1
  <2>2. b - a + 1 \in Nat
    BY <1>1
  <2>3. Run(a, b) \in [1..(b - a + 1) -> a..b]
    BY <2>1 DEF Run
  <2>4. Seq(a..b) = UNION {[1..n -> a..b] : n \in Nat}
    BY SeqDef
  <2>5. PICK n \in Nat : n = b - a + 1
    BY <2>2
  <2>6. Run(a, b) \in [1..n -> a..b]
    BY <2>3, <2>5
  <2> QED
    BY <2>4, <2>6, Zenon
<1>2. Digits \in Seq(48..57) /\ Lower \in Seq(97..122) /\ Upper \in Seq(65..90)
  <2>1. \A a, b \in Nat : a <= b => Run(a, b) \in Seq(a..b)
    BY <1>1
  <2>2. Run(48, 57) \in Seq(48..57)
    <3>1. 48 \in Nat /\ 57 \in Nat /\ 48 <= 57
      OBVIOUS
    <3> QED
      BY <2>1, <3>1, Zenon
  <2>3. Run(97, 122) \in Seq(97..122)
    <3>1. 97 \in Nat /\ 122 \in Nat /\ 97 <= 122
      OBVIOUS
    <3> QED
      BY <2>1, <3>1, Zenon
  <2>4. Run(65, 90) \in Seq(65..90)
    <3>1. 65 \in Nat /\ 90 \in Nat /\ 65 <= 90
      OBVIOUS
    <3> QED
      BY <2>1, <3>1, Zenon
  <2> QED
    BY <2>2, <2>3, <2>4 DEF Digits, Lower, Upper
<1>3. Digits \in Seq(UrlSafe) /\ Lower \in Seq(UrlSafe) /\ Upper \in Seq(UrlSafe)
  <2>1. \A S, T : S \subseteq T => Seq(S) \subseteq Seq(T)
    OBVIOUS
  <2>2. 48..57 \subseteq UrlSafe /\ 97..122 \subseteq UrlSafe /\ 65..90 \subseteq UrlSafe
    BY DEF UrlSafe, AlphaDigits
  <2> QED
    BY <1>2, <2>1, <2>2
<1>4. alpha_digit_set \in Seq(AlphaDigits)
  <2>1. Digits \in Seq(AlphaDigits) /\ Lower \in Seq(AlphaDigits)
    <3>1. \A S, T : S \subseteq T => Seq(S) \subseteq Seq(T)
      OBVIOUS
    <3>2. 48..57 \subseteq AlphaDigits /\ 97..122 \subseteq AlphaDigits
      BY DEF AlphaDigits
    <3> QED
      BY <1>2, <3>1, <3>2
  <2> QED
    BY <2>1, ConcatProperties DEF alpha_digit_set
<1>5. UNRESERVED_CHARSET \in Seq(UrlSafe)
  <2>1. <<45, 46, 95, 126>> \in Seq(UrlSafe)
    <3>1. 45 \in UrlSafe /\ 46 \in UrlSafe /\ 95 \in UrlSafe /\ 126 \in UrlSafe
      BY DEF UrlSafe
    <3> QED
      BY <3>1
  <2>2. Lower \o Upper \in Seq(UrlSafe)
    BY <1>3, ConcatProperties
  <2>3. (Lower \o Upper) \o Digits \in Seq(UrlSafe)
    BY <1>3, <2>2, ConcatProperties
  <2> QED
    BY <2>1, <2>3, ConcatProperties DEF UNRESERVED_CHARSET
<1>6. ASSUME NEW i \in DOMAIN Base64 PROVE base64URLEncode(Base64[i]) \in UrlSafe
  <2> DEFINE Chars == UrlSafe \union {43, 47}
  <2>1. Chars \subseteq Nat /\ \A c \in Chars : base64URLEncode(c) \in UrlSafe
    BY DEF base64URLEncode, UrlSafe, AlphaDigits
  <2>2. \A T : Seq(UrlSafe) \subseteq Seq(UrlSafe \union T)
    OBVIOUS
  <2>3. Upper \in Seq(Chars) /\ Lower \in Seq(Chars) /\ Digits \in Seq(Chars)
    BY <1>3, <2>2
  <2>4. <<43, 47>> \in Seq(Chars)
    OBVIOUS
  <2> HIDE DEF Chars
  <2>5. Upper \o Lower \in Seq(Chars)
    BY <2>3, ConcatProperties
  <2>6. (Upper \o Lower) \o Digits \in Seq(Chars)
    BY <2>3, <2>5, ConcatProperties
  <2>7. Base64 \in Seq(Chars)
    BY <2>4, <2>6, ConcatProperties DEF Base64
  <2>8. Base64[i] \in Chars
    BY <1>6, <2>7, ElementOfSeq, LenProperties
  <2> QED
    BY <2>1, <2>8
<1> QED
  BY <1>4, <1>5, <1>6

LEMMA PickedFromMask ==
  ASSUME NEW S, NEW mask \in Seq(S), NEW octet
  PROVE  Picked(mask, octet) \subseteq S
<1>1. \A i \in 0..(Len(mask) - 1) : mask[i + 1] \in S
  <2>1. Len(mask) \in Nat /\ \A j \in 1..Len(mask) : mask[j] \in S
    BY ElementOfSeq, LenProperties
  <2>2. \A i \in 0..(Len(mask) - 1) : i + 1 \in 1..Len(mask)
    BY <2>1
  <2> QED
    BY <2>1, <2>2
<1> QED
  BY <1>1 DEF Picked

-----------------------------------------------------------------------------
(* Classes.                                                                 *)

(* The "|" of an expression lies in a range of the class, but for           *)
(* unreserved43_128.                                                       *)
LEMMA SameClass ==
  ASSUME NEW char \in Int, NEW c \in Names
  PROVE  /\ Of(char, Listed[c]) => Of(char, is[c])
         /\ c # "unreserved43_128" /\ Of(char, is[c]) => Of(char, Listed[c])
<1>1. ASSUME NEW A, NEW r PROVE Of(char, A) => Of(char, A \union {r})
  BY DEF Of
<1>2. ASSUME NEW A, NEW r, r[1] <= char /\ char <= r[2] => Of(char, A)
      PROVE Of(char, A \union {r}) => Of(char, A)
  BY <1>2 DEF Of
<1>3. CASE c \in {"vschar", "unreserved36"}
  <2>1. is["vschar"] = Listed["vschar"] /\ is["unreserved36"] = Listed["unreserved36"]
    BY DEF is, Listed
  <2> QED
    BY <1>3, <2>1
<1>4. CASE c = "nqchar"
  <2>1. is["nqchar"] = Listed["nqchar"] \union {Bar}
    <3>1. /\ is["nqchar"] = {<<33, 33>>, Bar, <<35, 91>>, <<93, 126>>}
          /\ Listed["nqchar"] = {<<33, 33>>, <<35, 91>>, <<93, 126>>}
      BY DEF is, Listed
    <3>2. \A a, b, d, e : {a, b, d, e} = {a, d, e} \union {b}
      OBVIOUS
    <3> QED
      BY <3>1, <3>2
  <2>2. <<93, 126>> \in Listed["nqchar"]
    BY DEF Listed
  <2>3. Bar[1] <= char /\ char <= Bar[2] => Of(char, Listed["nqchar"])
    BY <2>2 DEF Bar, Of
  <2> QED
    BY <1>1, <1>2, <1>4, <2>1, <2>3
<1>5. CASE c = "nqschar"
  <2>1. is["nqschar"] = Listed["nqschar"] \union {Bar}
    <3>1. /\ is["nqschar"] = {<<32, 33>>, Bar, <<35, 91>>, <<93, 126>>}
          /\ Listed["nqschar"] = {<<32, 33>>, <<35, 91>>, <<93, 126>>}
      BY DEF is, Listed
    <3>2. \A a, b, d, e : {a, b, d, e} = {a, d, e} \union {b}
      OBVIOUS
    <3> QED
      BY <3>1, <3>2
  <2>2. <<93, 126>> \in Listed["nqschar"]
    BY DEF Listed
  <2>3. Bar[1] <= char /\ char <= Bar[2] => Of(char, Listed["nqschar"])
    BY <2>2 DEF Bar, Of
  <2> QED
    BY <1>1, <1>2, <1>5, <2>1, <2>3
<1>6. CASE c = "uchar"
  <2>1. Bar[1] <= char /\ char <= Bar[2] => Of(char, NoBreak)
    BY DEF Bar, Of, NoBreak
  <2>2. Of(char, NoBreak \union {Bar}) <=> Of(char, NoBreak)
    BY <1>1, <1>2, <2>1
  <2> QED
    BY <1>6, <2>2 DEF is, Listed
<1>7. CASE c = "unreserved43_128"
  BY <1>1, <1>7 DEF is, Listed
<1> QED
  BY <1>3, <1>4, <1>5, <1>6, <1>7 DEF Names

(* What is generated is of the classes it is used as.                       *)
LEMMA AlphabetsFit ==
  ASSUME NEW char \in UrlSafe
  PROVE  /\ char \in Int
         /\ Of(char, is["vschar"]) /\ Of(char, is["nqchar"])
         /\ Of(char, is["unreserved43_128"]) /\ Of(char, Fits["query"])
         /\ Of(char, Fits["basic"])
<1>1. char \in Int /\ char # 58
  BY DEF UrlSafe, AlphaDigits
<1>2. Of(char, Unreserved)
  BY DEF UrlSafe, AlphaDigits, Of, Unreserved
<1>3. Of(char, Unreserved \union {Bar})
  BY <1>2 DEF Of
<1>4. 32 <= char /\ char <= 126 /\ char # 34 /\ char # 92 /\ char # 32
  BY DEF UrlSafe, AlphaDigits
<1>5. Of(char, is["vschar"])
  <2>1. is["vschar"] = {<<32, 126>>}
    BY DEF is
  <2> QED
    BY <1>4, <2>1, SMT DEF Of
<1>6. Of(char, is["nqchar"])
  <2>1. char = 33 \/ (35 <= char /\ char <= 91) \/ (93 <= char /\ char <= 126)
    BY <1>1, <1>4, SMT
  <2>2. <<33, 33>> \in is["nqchar"] /\ <<35, 91>> \in is["nqchar"] /\ <<93, 126>> \in is["nqchar"]
    BY DEF is
  <2> HIDE DEF is
  <2> QED
    BY <1>1, <2>1, <2>2, SMT DEF Of
<1>7. Of(char, Fits["basic"])
  <2>1. (0 <= char /\ char <= 57) \/ (59 <= char /\ char <= 1114111)
    BY <1>1, <1>4, SMT
  <2>2. Fits["basic"] = {<<0, 57>>, <<59, 1114111>>}
    BY SMT DEF Fits
  <2> QED
    BY <2>1, <2>2, SMT DEF Of
<1> QED
  BY <1>1, <1>2, <1>3, <1>5, <1>6, <1>7 DEF is, Fits

-----------------------------------------------------------------------------
(* The invariant.                                                           *)

CharactersInv ==
  /\ CharactersTypeOK
  /\ used \subseteq within
  /\ \A c \in Names : /\ c \in listed => c \in within
                      /\ c \in within /\ c # "unreserved43_128" => c \in listed

LEMMA UsedOf ==
  /\ used \subseteq {"vschar", "nqchar", "unreserved43_128", "basic", "query"}
  /\ value = "sent" => used = {}
BY DEF used, Random, Hashed

LEMMA AddInv ==
  ASSUME CharactersInv, NEW char \in Int, Add(char), length' \in 0..Size,
         \A c \in used : IF c \in Names THEN Of(char, is[c]) ELSE Of(char, Fits[c])
  PROVE  CharactersInv'
<1>1. /\ value' = value /\ used' = used /\ Size' = Size
      /\ within' = {c \in within \intersect Names : Of(char, is[c])}
                     \union {u \in within \intersect Uses : Of(char, Fits[u])}
      /\ listed' = {c \in listed : Of(char, Listed[c])}
  BY DEF Add, used, Size
<1>2. CharactersTypeOK'
  BY <1>1 DEF CharactersInv, CharactersTypeOK
<1>3. used' \subseteq within'
  <2>1. \A c \in used : c \in within /\ (c \in Names \/ c \in Uses) /\ (c \in Uses => c \notin Names)
    BY UsedOf DEF CharactersInv, Names, Uses
  <2> QED
    BY <1>1, <2>1
<1>4. ASSUME NEW c \in Names
      PROVE  /\ c \in listed' => c \in within'
             /\ c \in within' /\ c # "unreserved43_128" => c \in listed'
  <2>1. c \notin Uses
    BY DEF Names, Uses
  <2> QED
    BY <1>1, <2>1, SameClass DEF CharactersInv
<1> QED
  BY <1>2, <1>3, <1>4 DEF CharactersInv

LEMMA CharactersInitInv == CharactersInit => CharactersInv
<1> SUFFICES ASSUME CharactersInit PROVE CharactersInv
  OBVIOUS
<1>1. Size \in Nat
  BY CharactersAssumption DEF Size, Random, Hashed, CharactersAssumptions
<1>2. used \subseteq Names \union Uses
  BY UsedOf DEF Names, Uses
<1> QED
  BY <1>1, <1>2 DEF CharactersInit, CharactersInv, CharactersTypeOK

LEMMA CharactersNextInv ==
  CharactersInv /\ [CharactersNext]_charactersVars => CharactersInv'
<1> SUFFICES ASSUME CharactersInv, [CharactersNext]_charactersVars PROVE CharactersInv'
  OBVIOUS
<1>1. Size \in Nat /\ length \in 0..Size
  BY CharactersAssumption
     DEF Size, Random, Hashed, CharactersAssumptions, CharactersInv, CharactersTypeOK
<1>2. ASSUME NEW char \in UrlSafe, Add(char), length < Size PROVE CharactersInv'
  <2>1. char \in Int
        /\ \A c \in used : IF c \in Names THEN Of(char, is[c]) ELSE Of(char, Fits[c])
    BY AlphabetsFit, UsedOf DEF Names
  <2>2. length' \in 0..Size
    BY <1>1, <1>2 DEF Add
  <2> QED
    BY <1>2, <2>1, <2>2, AddInv
<1>3. CASE RandomCharacter
  <2>1. PICK octet \in Octets : \E char \in Picked(Random[value].mask, octet) : Add(char)
    BY <1>3 DEF RandomCharacter
  <2>2. PICK char \in Picked(Random[value].mask, octet) : Add(char)
    BY <2>1
  <2>3. Random[value].mask \in Seq(UrlSafe)
    <3>1. alpha_digit_set \in Seq(UrlSafe)
      BY Alphabets, SeqMonotonic DEF UrlSafe
    <3>2. Random[value].mask \in {alpha_digit_set, UNRESERVED_CHARSET}
      BY <1>3 DEF RandomCharacter, Random
    <3> QED
      BY <3>1, <3>2, Alphabets
  <2>4. char \in UrlSafe
    BY <2>2, <2>3, PickedFromMask
  <2>5. length < Size
    BY <1>3 DEF RandomCharacter, Size
  <2> QED
    BY <1>2, <2>2, <2>4, <2>5
<1>4. CASE HashedCharacter
  <2>1. PICK i \in DOMAIN Base64 : Add(base64URLEncode(Base64[i]))
    BY <1>4 DEF HashedCharacter
  <2>2. base64URLEncode(Base64[i]) \in UrlSafe
    BY Alphabets
  <2>3. length < Size
    BY <1>4 DEF HashedCharacter, Size, Random, Hashed
  <2> QED
    BY <1>2, <2>1, <2>2, <2>3
<1>5. CASE TypedCharacter
  <2>1. PICK char \in Typed : Add(char)
    BY <1>5 DEF TypedCharacter
  <2>2. char \in Int
    BY CharactersAssumption DEF CharactersAssumptions, CodePoints
  <2>3. used = {} /\ length' \in 0..Size
    BY <1>1, <1>5, <2>1, UsedOf DEF TypedCharacter, Size, Random, Hashed, Add
  <2> QED
    BY <2>1, <2>2, <2>3, AddInv
<1>6. CASE UNCHANGED charactersVars
  BY <1>6 DEF charactersVars, CharactersInv, CharactersTypeOK, used, Size
<1> QED
  BY <1>3, <1>4, <1>5, <1>6 DEF CharactersNext

THEOREM CharactersInvariant == CharactersSpec => []CharactersInv
BY CharactersInitInv, CharactersNextInv, PTL DEF CharactersSpec

(* The variables keep their types, and no string outgrows its size.         *)
THEOREM CharactersTypes == CharactersSpec => []CharactersTypeOK
<1>1. CharactersInv => CharactersTypeOK
  BY DEF CharactersInv
<1> QED
  BY <1>1, CharactersInvariant, PTL

(* What the server gives out passes the validators it meets.                *)
THEOREM ServerAcceptsItsOwn == CharactersSpec => []IssuedIsAccepted
<1>1. CharactersInv => IssuedIsAccepted
  BY DEF CharactersInv, IssuedIsAccepted, Valid
<1> QED
  BY <1>1, CharactersInvariant, PTL

(* validation.ts:9-123: for strings of any length and any code points the   *)
(* expressions let pass what their comments list.                          *)
THEOREM ExpressionsMatchComments == CharactersSpec => []ClassesAsListed
<1>1. CharactersInv => ClassesAsListed
  BY DEF CharactersInv, ClassesAsListed, Valid
<1> QED
  BY <1>1, CharactersInvariant, PTL
-----------------------------------------------------------------------------
(* How the octets spread over a mask.                                       *)

(* The first octet of an index.                                             *)
First(n, k) == (256 * k + n - 1) \div n

LEMMA Division ==
  ASSUME NEW p \in Nat, NEW m \in Nat \ {0}
  PROVE  p \div m \in Nat /\ (p \div m) * m <= p /\ p < (p \div m) * m + m
OBVIOUS

LEMMA ProductsGrow == \A a, b, n \in Nat : a <= b => a * n <= b * n
<1> SUFFICES ASSUME NEW a \in Nat, NEW b \in Nat, NEW n \in Nat, a <= b
             PROVE  a * n <= b * n
  OBVIOUS
<1>1. PICK d \in Nat : b = a + d
  <2>1. b - a \in Nat /\ b = a + (b - a)
    OBVIOUS
  <2> QED
    BY <2>1
<1>2. b * n = a * n + d * n /\ d * n \in Nat
  BY <1>1
<1> QED
  BY <1>2

LEMMA FirstIsFirst ==
  ASSUME NEW n \in 1..256, NEW k \in Nat, NEW octet \in Nat
  PROVE  /\ First(n, k) \in Nat
         /\ octet >= First(n, k) <=> octet * n >= 256 * k
<1> DEFINE f == First(n, k)
<1>1. 256 * k + n - 1 \in Nat /\ n \in Nat \ {0}
  OBVIOUS
<1>2. f \in Nat /\ f * n <= 256 * k + n - 1 /\ 256 * k + n - 1 < f * n + n
  BY <1>1, Division DEF First
<1> HIDE DEF f
<1>3. CASE octet >= f
  <2>1. f * n <= octet * n
    BY <1>2, <1>3, ProductsGrow
  <2>2. f * n \in Nat /\ octet * n \in Nat
    BY <1>2
  <2>3. octet * n >= 256 * k
    BY <1>2, <2>1, <2>2
  <2> QED
    BY <1>2, <1>3, <2>3 DEF f
<1>4. CASE octet + 1 <= f
  <2>1. (octet + 1) * n <= f * n
    BY <1>2, <1>4, ProductsGrow
  <2>2. (octet + 1) * n = octet * n + n /\ octet * n \in Nat /\ f * n \in Nat
    BY <1>2
  <2>3. octet * n < 256 * k
    BY <1>2, <2>1, <2>2
  <2> QED
    BY <1>2, <1>4, <2>2, <2>3 DEF f
<1> QED
  BY <1>2, <1>3, <1>4 DEF f

(* An index has about 256 / n octets.                                       *)
LEMMA FirstsApart ==
  ASSUME NEW n \in 1..256, NEW k \in 0..(n - 1)
  PROVE  /\ First(n, k + 1) <= 256
         /\ First(n, k + 1) - First(n, k) \in {256 \div n, 256 \div n + 1}
<1> DEFINE f == First(n, k)
           g == First(n, k + 1)
           b == 256 \div n
<1>1. /\ f \in Nat /\ f * n <= 256 * k + n - 1 /\ 256 * k + n - 1 < f * n + n
      /\ g \in Nat /\ g * n <= 256 * k + 255 + n /\ 256 * k + 255 + n < g * n + n
  <2>1. 256 * k + n - 1 \in Nat /\ 256 * (k + 1) + n - 1 \in Nat /\ n \in Nat \ {0}
    OBVIOUS
  <2>2. /\ f \in Nat /\ f * n <= 256 * k + n - 1 /\ 256 * k + n - 1 < f * n + n
        /\ g \in Nat /\ g * n <= 256 * (k + 1) + n - 1 /\ 256 * (k + 1) + n - 1 < g * n + n
    BY <2>1, Division DEF First
  <2> QED
    BY <2>2
<1>2. b \in Nat /\ b * n <= 256 /\ 256 < b * n + n
  BY Division
<1> HIDE DEF f, g, b
<1>3. /\ f * n \in Nat /\ g * n \in Nat /\ b * n \in Nat
      /\ (f + b) * n = f * n + b * n
      /\ (g + 1) * n = g * n + n
      /\ (f + b + 2) * n = f * n + b * n + n + n
      /\ 257 * n = 256 * n + n
  BY <1>1, <1>2
<1>4. f + b <= g
  <2>1. ASSUME g + 1 <= f + b PROVE FALSE
    <3>1. (g + 1) * n <= (f + b) * n
      BY <1>1, <1>2, <2>1, ProductsGrow
    <3> QED
      BY <1>1, <1>2, <1>3, <3>1
  <2> QED
    BY <1>1, <1>2, <2>1
<1>5. g <= f + b + 1
  <2>1. ASSUME f + b + 2 <= g PROVE FALSE
    <3>1. (f + b + 2) * n <= g * n
      BY <1>1, <1>2, <2>1, ProductsGrow
    <3> QED
      BY <1>1, <1>2, <1>3, <3>1
  <2> QED
    BY <1>1, <1>2, <2>1
<1>6. g <= 256
  <2>1. ASSUME 257 <= g PROVE FALSE
    <3>1. 257 * n <= g * n
      BY <1>1, <2>1, ProductsGrow
    <3> QED
      BY <1>1, <1>3, <3>1
  <2> QED
    BY <1>1, <2>1
<1>7. g - f \in {b, b + 1}
  BY <1>1, <1>2, <1>4, <1>5
<1> QED
  BY <1>6, <1>7 DEF f, g, b

(* The octets of an index.                                                  *)
LEMMA OctetsOfIndex ==
  ASSUME NEW n \in 1..256, n \notin {186, 198, 210, 234, 246},
         NEW k \in 0..(n - 1), NEW octet \in Octets
  PROVE  Index(octet, n) = k <=> octet \in First(n, k)..(First(n, k + 1) - 1)
<1>1. octet \in Nat /\ octet * n \in Nat /\ k \in Nat /\ k + 1 \in Nat
  BY DEF Octets
<1>2. Index(octet, n) = (octet * n) \div 256
  <2>1. ~RoundedDown(octet, n)
    BY DEF RoundedDown
  <2>2. (octet * n) \div 256 \in Nat
    BY <1>1, Division
  <2> QED
    BY <2>1, <2>2 DEF Index
<1>3. \A p \in Nat, j \in Nat : p \div 256 = j <=> p >= 256 * j /\ p < 256 * (j + 1)
  OBVIOUS
<1>4. Index(octet, n) = k <=> octet * n >= 256 * k /\ octet * n < 256 * (k + 1)
  BY <1>1, <1>2, <1>3
<1>5. /\ First(n, k) \in Nat
      /\ octet >= First(n, k) <=> octet * n >= 256 * k
  BY <1>1, FirstIsFirst
<1>6. /\ First(n, k + 1) \in Nat
      /\ octet >= First(n, k + 1) <=> octet * n >= 256 * (k + 1)
  BY <1>1, FirstIsFirst
<1> QED
  BY <1>1, <1>4, <1>5, <1>6

(* A mask of n characters, none of them twice.                              *)
Distinct(s) == \A i, j \in DOMAIN s : s[i] = s[j] => i = j

Mask(mask, n) == Len(mask) = n /\ DOMAIN mask = 1..n /\ Distinct(mask)

LEMMA PickedIsOne ==
  ASSUME NEW n \in 1..256, NEW mask, Mask(mask, n), NEW octet \in Octets
  PROVE  Picked(mask, octet) = {mask[Index(octet, n) + 1]}
<1>1. Index(octet, n) \in 0..(n - 1)
  BY IndexInRange
<1>2. maskLength(mask) = n /\ Len(mask) = n
  BY DEF maskLength, Mask
<1> QED
  BY <1>1, <1>2 DEF Picked

LEMMA HitsCounted ==
  ASSUME NEW n \in 1..256, n \notin {186, 198, 210, 234, 246},
         NEW mask, Mask(mask, n), NEW k \in 0..(n - 1)
  PROVE  Cardinality(Hits(mask, mask[k + 1])) \in {256 \div n, 256 \div n + 1}
<1> DEFINE f == First(n, k)
           g == First(n, k + 1)
<1>1. f \in Nat /\ g \in Nat /\ g <= 256 /\ 256 \div n \in Nat
      /\ g - f \in {256 \div n, 256 \div n + 1}
  <2>1. k \in Nat /\ k + 1 \in Nat /\ 0 \in Nat /\ 256 \in Nat /\ n \in Nat \ {0}
    OBVIOUS
  <2>2. f \in Nat /\ g \in Nat /\ 256 \div n \in Nat
    BY <2>1, FirstIsFirst, Division
  <2> QED
    BY <2>2, FirstsApart
<1>2. \A octet \in Octets : Index(octet, n) = k <=> octet \in f..(g - 1)
  BY OctetsOfIndex
<1> HIDE DEF f, g
<1>3. ASSUME NEW octet \in Octets
      PROVE  mask[k + 1] \in Picked(mask, octet) <=> Index(octet, n) = k
  <2>1. Index(octet, n) \in 0..(n - 1)
    BY IndexInRange
  <2>2. k + 1 \in 1..n /\ Index(octet, n) + 1 \in 1..n
    BY <2>1
  <2>3. mask[k + 1] = mask[Index(octet, n) + 1] <=> k + 1 = Index(octet, n) + 1
    BY <2>2, Zenon DEF Mask, Distinct
  <2> QED
    BY <2>1, <2>3, PickedIsOne
<1>4. Hits(mask, mask[k + 1]) = f..(g - 1)
  <2>1. f..(g - 1) \subseteq Octets
    BY <1>1 DEF Octets
  <2> QED
    BY <1>2, <1>3, <2>1 DEF Hits
<1>5. Cardinality(f..(g - 1)) = g - f
  <2>1. f \in Int /\ g - 1 \in Int /\ f <= g /\ (g - 1) - f + 1 = g - f /\ (f > g - 1 => g - f = 0)
    BY <1>1
  <2>2. Cardinality(f..(g - 1)) = IF f > g - 1 THEN 0 ELSE (g - 1) - f + 1
    BY <2>1, FS_Interval
  <2> QED
    BY <2>1, <2>2
<1> QED
  BY <1>1, <1>4, <1>5

-----------------------------------------------------------------------------
(* No alphabet has a character twice.                                       *)

Letters(s, S, n) == s \in Seq(S) /\ Len(s) = n /\ Distinct(s)

LEMMA RunOfLetters ==
  ASSUME NEW a \in Nat, NEW b \in Nat, NEW n \in Nat, n = b - a + 1
  PROVE  Letters(Run(a, b), a..b, n)
<1>1. Run(a, b) = [i \in 1..n |-> a + i - 1]
  BY DEF Run
<1>2. Run(a, b) \in [1..n -> a..b]
  BY <1>1
<1>3. Run(a, b) \in Seq(a..b)
  BY <1>2, SeqDef, Zenon
<1>4. Len(Run(a, b)) = n
  BY <1>1, <1>3, LenProperties
<1> QED
  BY <1>1, <1>3, <1>4 DEF Letters, Distinct

LEMMA ConcatOfLetters ==
  ASSUME NEW A, NEW B, A \intersect B = {}, NEW m \in Nat, NEW n \in Nat,
         NEW s, NEW t, Letters(s, A, m), Letters(t, B, n)
  PROVE  Letters(s \o t, A \union B, m + n)
<1>1. s \in Seq(A) /\ t \in Seq(B) /\ Len(s) = m /\ Len(t) = n
  BY DEF Letters
<1>2. s \in Seq(A \union B) /\ t \in Seq(A \union B)
  BY <1>1, SeqMonotonic
<1>3. /\ s \o t \in Seq(A \union B) /\ Len(s \o t) = m + n
      /\ \A i \in 1..(m + n) : (s \o t)[i] = IF i <= m THEN s[i] ELSE t[i - m]
  BY <1>1, <1>2, ConcatProperties
<1>4. /\ DOMAIN s = 1..m /\ \A i \in 1..m : s[i] \in A
      /\ DOMAIN t = 1..n /\ \A i \in 1..n : t[i] \in B
  BY <1>1, LenProperties, ElementOfSeq
<1>5. DOMAIN (s \o t) = 1..(m + n)
  BY <1>3, LenProperties
<1>6. ASSUME NEW i \in 1..(m + n), NEW j \in 1..(m + n), (s \o t)[i] = (s \o t)[j]
      PROVE  i = j
  <2>1. CASE i <= m /\ j <= m
    BY <1>3, <1>4, <1>6, <2>1 DEF Letters, Distinct
  <2>2. CASE i > m /\ j > m
    <3>1. i - m \in 1..n /\ j - m \in 1..n
      BY <2>2
    <3>2. t[i - m] = t[j - m]
      BY <1>3, <1>6, <2>2
    <3>3. i - m = j - m
      BY <1>4, <3>1, <3>2 DEF Letters, Distinct
    <3> QED
      BY <3>3
  <2>3. CASE i <= m /\ j > m
    <3>1. i \in 1..m /\ j - m \in 1..n
      BY <2>3
    <3>2. s[i] \in A /\ t[j - m] \in B
      BY <1>4, <3>1
    <3> QED
      BY <1>3, <1>6, <2>3, <3>2
  <2>4. CASE i > m /\ j <= m
    <3>1. j \in 1..m /\ i - m \in 1..n
      BY <2>4
    <3>2. s[j] \in A /\ t[i - m] \in B
      BY <1>4, <3>1
    <3> QED
      BY <1>3, <1>6, <2>4, <3>2
  <2> QED
    BY <2>1, <2>2, <2>3, <2>4
<1> QED
  BY <1>3, <1>5, <1>6 DEF Letters, Distinct

LEMMA AlphabetsAreMasks == Mask(alpha_digit_set, 36) /\ Mask(UNRESERVED_CHARSET, 66)
<1> DEFINE marks == <<45, 46, 95, 126>>
           D == 48..57
           L == 97..122
           U == 65..90
           M == {45, 46, 95, 126}
<1>1. Letters(Digits, D, 10)
  <2>1. 48 \in Nat /\ 57 \in Nat /\ 10 \in Nat /\ 10 = 57 - 48 + 1
    OBVIOUS
  <2> QED
    BY <2>1, RunOfLetters, Zenon DEF Digits
<1>2. Letters(Lower, L, 26)
  <2>1. 97 \in Nat /\ 122 \in Nat /\ 26 \in Nat /\ 26 = 122 - 97 + 1
    OBVIOUS
  <2> QED
    BY <2>1, RunOfLetters, Zenon DEF Lower
<1>3. Letters(Upper, U, 26)
  <2>1. 65 \in Nat /\ 90 \in Nat /\ 26 \in Nat /\ 26 = 90 - 65 + 1
    OBVIOUS
  <2> QED
    BY <2>1, RunOfLetters, Zenon DEF Upper
<1>4. Letters(marks, M, 4)
  BY DEF Letters, Distinct
<1>5. /\ D \intersect L = {} /\ L \intersect U = {}
      /\ (L \union U) \intersect D = {} /\ ((L \union U) \union D) \intersect M = {}
  OBVIOUS
<1>6. UNRESERVED_CHARSET = ((Lower \o Upper) \o Digits) \o marks
  BY DEF UNRESERVED_CHARSET
<1> HIDE DEF marks, D, L, U, M
<1>7. Letters(alpha_digit_set, D \union L, 36)
  <2>1. Letters(Digits \o Lower, D \union L, 10 + 26)
    BY <1>1, <1>2, <1>5, ConcatOfLetters
  <2> QED
    BY <2>1 DEF alpha_digit_set
<1>8. Letters(Lower \o Upper, L \union U, 52)
  <2>1. Letters(Lower \o Upper, L \union U, 26 + 26)
    BY <1>2, <1>3, <1>5, ConcatOfLetters
  <2> QED
    BY <2>1
<1>9. Letters((Lower \o Upper) \o Digits, (L \union U) \union D, 62)
  <2>1. Letters((Lower \o Upper) \o Digits, (L \union U) \union D, 52 + 10)
    BY <1>1, <1>5, <1>8, ConcatOfLetters
  <2> QED
    BY <2>1
<1>10. Letters(UNRESERVED_CHARSET, ((L \union U) \union D) \union M, 66)
  <2>1. Letters(((Lower \o Upper) \o Digits) \o marks, ((L \union U) \union D) \union M, 62 + 4)
    BY <1>4, <1>5, <1>9, ConcatOfLetters
  <2> QED
    BY <1>6, <2>1
<1>11. ASSUME NEW s, NEW S, NEW n, Letters(s, S, n) PROVE Mask(s, n)
  BY <1>11, LenProperties DEF Letters, Mask
<1> QED
  BY <1>7, <1>10, <1>11

LEMMA SpreadOf ==
  ASSUME NEW n \in 1..256, n \notin {186, 198, 210, 234, 246},
         NEW mask, Mask(mask, n)
  PROVE  /\ \A octet \in Octets : Cardinality(Picked(mask, octet)) = 1
         /\ \A i \in DOMAIN mask :
              /\ Cardinality(Hits(mask, mask[i])) # 0
              /\ \A j \in DOMAIN mask :
                   Cardinality(Hits(mask, mask[i])) <= Cardinality(Hits(mask, mask[j])) + 1
<1>1. 256 \div n \in Nat \ {0}
  <2>1. n \in Nat \ {0} /\ 256 \in Nat /\ n <= 256
    OBVIOUS
  <2>2. 256 \div n \in Nat /\ 256 < (256 \div n) * n + n
    BY <2>1, Division
  <2> QED
    BY <2>1, <2>2
<1>2. ASSUME NEW octet \in Octets PROVE Cardinality(Picked(mask, octet)) = 1
  <2>1. Picked(mask, octet) = {mask[Index(octet, n) + 1]}
    BY PickedIsOne
  <2>2. Cardinality({mask[Index(octet, n) + 1]}) = 1
    BY FS_Singleton
  <2> QED
    BY <2>1, <2>2, Zenon
<1>3. \A i \in DOMAIN mask : Cardinality(Hits(mask, mask[i])) \in {256 \div n, 256 \div n + 1}
  <2> SUFFICES ASSUME NEW i \in 1..n
               PROVE  Cardinality(Hits(mask, mask[i])) \in {256 \div n, 256 \div n + 1}
    BY DEF Mask
  <2>1. PICK k \in 0..(n - 1) : i = k + 1
    <3>1. i - 1 \in 0..(n - 1) /\ i = (i - 1) + 1
      OBVIOUS
    <3> QED
      BY <3>1
  <2>2. Cardinality(Hits(mask, mask[k + 1])) \in {256 \div n, 256 \div n + 1}
    BY HitsCounted
  <2> QED
    BY <2>1, <2>2
<1>4. PICK b \in Nat \ {0} : b = 256 \div n
  BY <1>1
<1>5. \A i \in DOMAIN mask : Cardinality(Hits(mask, mask[i])) \in {b, b + 1}
  BY <1>3, <1>4
<1> QED
  BY <1>2, <1>5

(* crypto.ts:12-18: in a string the server generates every octet has one    *)
(* character, every character has octets, and none two more than another.   *)
THEOREM CharactersEvenlySpread == CharactersSpec => []EvenlySpread
<1>1. ASSUME value \in DOMAIN Random
      PROVE  \E n \in {36, 66} : Mask(Random[value].mask, n)
  <2>1. Random[value].mask \in {alpha_digit_set, UNRESERVED_CHARSET}
    BY <1>1 DEF Random
  <2> QED
    BY <2>1, AlphabetsAreMasks
<1>2. EvenlySpread
  BY <1>1, SpreadOf DEF EvenlySpread
<1> QED
  BY <1>2, PTL
=============================================================================
