----------------------------- MODULE MCExchange -----------------------------
(***************************************************************************)
(* Code exchanges that race: authorizations that reuse one "state", and    *)
(* token requests for their codes.  Inputs are well formed; what varies is *)
(* the order of steps, expiry, failures, and which server of the site      *)
(* authorizes: the tokens are all asked of the first one.                  *)
(***************************************************************************)
EXTENDS AuthorizationServer, TLC

CONSTANTS site, app, k1, c1, c2, uri, sec

SingleWords == [v \in ScopeNames |-> {v}]

(* The second server has no default scope.                                  *)
Scopes ==
  (<<site, "web">> :> {[value |-> "read", is_default |-> TRUE]})
  @@ (<<site, "bare">> :> {[value |-> "write", is_default |-> FALSE]})

Row ==
  [site |-> site, type |-> "confidential", client_secret |-> sec,
   redirect_uris |-> {uri}, grant_types |-> {"authorization_code"},
   response_types |-> {"code"}]

OneRow  == {Row}
AppOnly == [c \in ClientIds |-> Row]

QueryFor(challenge) ==
  [serverAlias |-> "web", subdomain |-> site, client_secret |-> FALSE,
   state |-> k1, client_id |-> app, response_type |-> "code",
   redirect_uri |-> uri, code_challenge |-> challenge,
   code_challenge_hash |-> "S256", scope |-> {}]

FormFor(challenge) ==
  [urlencoded |-> TRUE, query_secret |-> FALSE, serverAlias |-> "web",
   subdomain |-> site, grant_type |-> "authorization_code", basic |-> Nil,
   client_id |-> app, client_secret |-> sec,
   code |-> [challenge |-> challenge, method |-> "S256", secret |-> sec],
   code_verifier |-> k1, redirect_uri |-> uri, scope |-> {}]

(* At the first server a query that leaves the scope to the server, at the  *)
(* second one that names it.                                               *)
SameServer      == {QueryFor(c) : c \in Challenges}
ExchangeQueries ==
  SameServer \union {[q EXCEPT !.serverAlias = "bare", !.scope = {"write"}] : q \in SameServer}
ExchangeForms   == {FormFor(c) : c \in Challenges}

Interchangeable ==
  Permutations(Setters) \union Permutations(Getters) \union Permutations(Challenges)
=============================================================================
