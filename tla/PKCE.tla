-------------------------------- MODULE PKCE --------------------------------
(***************************************************************************)
(* The values the authorization code flow is built from                    *)
(* (src/pkg/oauth2/crypto/token.ts and src/pkg/oauth2/model.ts): the PKCE  *)
(* state object, the authorization code computed from it, and the scopes.  *)
(* Strings are members of small sets: two strings are told apart only by   *)
(* the comparisons the code makes.                                         *)
(***************************************************************************)

CONSTANTS
  Keys,         \* strings sent as 'state' or as 'code_verifier'
  Challenges,   \* well-formed code_challenge values
  ClientIds,    \* well-formed client_id values
  Uris,         \* well-formed redirect URIs
  ScopeNames,   \* values of scopes: those a client may name, those in the database
  Words,        \* Words[v]: what is between the spaces of v; {v} without a space
  Secrets,      \* client secrets
  Nil           \* absent value: null, undefined, a missing parameter

(* What a stored scope that is the empty string holds when the token        *)
(* request splits it: "".split(" ") is [""].                               *)
EmptyScope == ""

(* Type PKCEState. issued_to is the client the code was issued to.          *)
PKCEState ==
  [verifier: Keys, challenge: Challenges, challenge_method: {"S256"},
   issued_to: ClientIds, redirect_uri: Uris, scope: SUBSET ScopeNames]

PKCEConstants ==
  /\ Nil \notin Keys \union Challenges \union ClientIds \union Uris
  /\ Nil \notin PKCEState
  /\ EmptyScope \notin ScopeNames
  /\ Words \in [ScopeNames -> SUBSET (ScopeNames \union {EmptyScope})]

ASSUME PKCEAssumption == PKCEConstants

(* An authorization code: HMAC-SHA256 of "challenge:method" under the       *)
(* client's secret, in base64url. The hash is taken to be injective, so     *)
(* the code is the triple it is computed from. Neither the redirect URI     *)
(* nor the verifier enters it.                                             *)
Codes == [challenge: Challenges, method: {"S256"}, secret: Secrets]

createAuthorizationCode(state, secret) ==
  [challenge |-> state.challenge, method |-> state.challenge_method,
   secret |-> secret]

(* OAuth2Model.valueOfScope: the server's default scopes when none are      *)
(* requested, the requested ones when the server knows them all, and null   *)
(* otherwise.                                                              *)
valueOfScope_AllByDefault(requested, accepted) ==
  LET values == {s.value : s \in accepted}
  IN  IF requested = {} THEN values
      ELSE IF requested \subseteq values THEN requested
      ELSE Nil

valueOfScope(requested, accepted) ==
  LET values   == {s.value : s \in accepted}
      defaults == {s.value : s \in {d \in accepted : d.is_default}}
  IN  IF requested = {} THEN defaults
      ELSE IF requested \subseteq values THEN requested
      ELSE Nil

(* The scope set is joined with spaces into the stored state and split      *)
(* again by the token request: the empty set comes back as {""}, and a      *)
(* value with a space in it as its words.                                  *)
joinThenSplit(scope) ==
  IF scope = {} THEN {EmptyScope} ELSE UNION {Words[v] : v \in scope}
=============================================================================
