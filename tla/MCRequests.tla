----------------------------- MODULE MCRequests -----------------------------
(***************************************************************************)
(* Requests of every shape: a sound query and a sound form for each of two *)
(* clients, and what each becomes when one parameter is replaced, while    *)
(* the registered clients change under them.                               *)
(***************************************************************************)
EXTENDS AuthorizationServer, TLC

CONSTANTS
  site, other,     \* two sites; only the first has a server
  app, phone,      \* a confidential client, a public one
  k1, k2, c1, c2, uri, uri2, sec, sec2

RefreshScope == "refresh_token"

(* A default scope of two words, one of them the name of another scope.     *)
TwoWords   == "read refresh_token"
ScopeWords == [v \in ScopeNames |-> IF v = TwoWords THEN {"read", RefreshScope} ELSE {v}]

Scopes ==
  (<<site, "web">> :> {[value |-> "read", is_default |-> TRUE],
                      [value |-> RefreshScope, is_default |-> FALSE]})
  @@ (<<site, "bare">> :> {[value |-> "write", is_default |-> FALSE]})
  @@ (<<site, "wordy">> :> {[value |-> TwoWords, is_default |-> TRUE]})

AppRow ==
  [site |-> site, type |-> "confidential", client_secret |-> sec,
   redirect_uris |-> {uri, uri2},
   grant_types |-> {"authorization_code", "client_credentials"},
   response_types |-> {"code"}]

(* A public client: its row has a secret too, the column is required.       *)
PhoneRow ==
  [AppRow EXCEPT !.type = "public", !.client_secret = sec2,
                 !.grant_types = {"authorization_code"}, !.response_types = {"token"}]

(* What the row of a client may be changed to: a new secret, no grants,     *)
(* one redirect URI less, another site.                                    *)
EditedRows ==
  {AppRow, PhoneRow, [AppRow EXCEPT !.client_secret = sec2],
   [AppRow EXCEPT !.grant_types = {}], [AppRow EXCEPT !.redirect_uris = {uri2}],
   [AppRow EXCEPT !.site = other]}

BothClients == (app :> AppRow) @@ (phone :> PhoneRow)

SoundQuery ==
  [serverAlias |-> "web", subdomain |-> site, client_secret |-> FALSE,
   state |-> k1, client_id |-> app, response_type |-> "code",
   redirect_uri |-> uri, code_challenge |-> c1,
   code_challenge_hash |-> "S256", scope |-> {}]

OddQueries ==
  {[SoundQuery EXCEPT !.serverAlias = x] : x \in {Nil, Malformed}}
  \union {[SoundQuery EXCEPT !.subdomain = x] : x \in {Nil, Malformed, other}}
  \union {[SoundQuery EXCEPT !.client_secret = TRUE]}
  \union {[SoundQuery EXCEPT !.state = Malformed]}
  \union {[SoundQuery EXCEPT !.client_id = x] : x \in {Nil, phone}}
  \union {[SoundQuery EXCEPT !.response_type = "token"]}
  \union {[SoundQuery EXCEPT !.redirect_uri = x] : x \in {Nil, uri2}}
  \union {[SoundQuery EXCEPT !.code_challenge = x] : x \in {Malformed, c2}}
  \union {[SoundQuery EXCEPT !.code_challenge_hash = "plain"]}
  \union {[SoundQuery EXCEPT !.scope = x] :
            x \in {Malformed, {"read", RefreshScope}, {"read", "write"}}}

(* What other servers of the site make of no scope, under another state.    *)
ScopeQueries ==
  {[SoundQuery EXCEPT !.serverAlias = x, !.state = k2] : x \in {"bare", "wordy"}}

RequestQueries == {SoundQuery} \union OddQueries \union ScopeQueries

CodeOf(challenge, secret) ==
  [challenge |-> challenge, method |-> "S256", secret |-> secret]

SoundForm ==
  [urlencoded |-> TRUE, query_secret |-> FALSE, serverAlias |-> "web",
   subdomain |-> site, grant_type |-> "authorization_code", basic |-> Nil,
   client_id |-> app, client_secret |-> sec, code |-> CodeOf(c1, sec),
   code_verifier |-> k1, redirect_uri |-> uri, scope |-> {}]

PhoneForm ==
  [SoundForm EXCEPT !.client_id = phone, !.client_secret = sec2, !.code = CodeOf(c1, sec2)]

CredentialForm ==
  [SoundForm EXCEPT !.grant_type = "client_credentials", !.code = Nil,
                    !.code_verifier = Nil, !.redirect_uri = Nil]

OddForms ==
  {[SoundForm EXCEPT !.urlencoded = FALSE], [SoundForm EXCEPT !.query_secret = TRUE]}
  \union {[SoundForm EXCEPT !.serverAlias = Malformed]}
  \union {[SoundForm EXCEPT !.subdomain = x] : x \in {Nil, other}}
  \union {[SoundForm EXCEPT !.grant_type = x] : x \in {"refresh_token", Nil}}
  \union {[SoundForm EXCEPT !.basic = x] :
            x \in {[user |-> app, password |-> sec], [user |-> Nil, password |-> Nil]}}
  \union {[SoundForm EXCEPT !.client_id = x] : x \in {Malformed, phone}}
  \union {[SoundForm EXCEPT !.client_secret = x] : x \in {sec2, Nil}}
  \union {[SoundForm EXCEPT !.code = x] : x \in {Nil, CodeOf(c2, sec)}}
  \union {[SoundForm EXCEPT !.code_verifier = x] : x \in {Nil, k2}}
  \union {[SoundForm EXCEPT !.redirect_uri = x] : x \in {Nil, uri2}}
  \union {[SoundForm EXCEPT !.scope = Malformed]}
  \union {[PhoneForm EXCEPT !.client_secret = x] : x \in {sec, Nil}}
  \union {[CredentialForm EXCEPT !.scope = x] : x \in {{"read"}, {RefreshScope}}}
  \union {[CredentialForm EXCEPT !.client_secret = sec2],
          [CredentialForm EXCEPT !.client_id = phone, !.client_secret = sec2]}

RequestForms == {SoundForm, PhoneForm, CredentialForm} \union OddForms

Interchangeable == Permutations(Setters)
=============================================================================
