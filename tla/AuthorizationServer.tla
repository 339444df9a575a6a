------------------------- MODULE AuthorizationServer -------------------------
(***************************************************************************)
(* The OAuth 2.0 endpoints of src/pkg/oauth2, over the store of PKCE       *)
(* states: GET /authorize with response_type=code, and POST /token with    *)
(* grant_type authorization_code or client_credentials.                    *)
(*                                                                         *)
(* A request is a handler that Node runs from one await on I/O to the      *)
(* next; awaits on what is already there (validators, savePKCEState) are   *)
(* part of the step.  Requests interleave only at the I/O: the reads of    *)
(* site, server and client, and the two commands of PKCEStateStore.get.    *)
(*                                                                         *)
(* Setters and Getters of the store are the authorization and the token    *)
(* requests.  Sites, servers and scopes do not change; clients may.        *)
(***************************************************************************)
EXTENDS PKCEStateStore

CONSTANTS
  Malformed,     \* a parameter that is present and fails its validator
  Sites,         \* subdomains that name a site
  ServerScopes,  \* scopes of the server <<site, alias>>, for those there are
  Rows,          \* rows an OAuth2Client can have
  Registered,    \* initially registered clients: client_id to row or Nil
  Queries,       \* queries of GET /authorize
  Forms,         \* forms of POST /token, headers included
  MaxEdits       \* bound: changes of registered clients in a behaviour

Parameter(S) == S \union {Nil, Malformed}

Query ==
  [serverAlias: Parameter({a[2] : a \in DOMAIN ServerScopes}),
   subdomain: Sites \union {Nil, Malformed}, client_secret: BOOLEAN,
   state: Parameter(Keys), client_id: Parameter(ClientIds),
   response_type: {"code", "token", Nil}, redirect_uri: Parameter(Uris),
   code_challenge: Parameter(Challenges),
   code_challenge_hash: {"S256", "plain", Nil},
   scope: (SUBSET ScopeNames) \union {Malformed}]

(* basic: what the header "Authorization: Basic" decodes to, Nil without    *)
(* one. code_verifier is looked up as it is.                               *)
Credentials == [user: ClientIds \union {Nil}, password: Secrets \union {Nil}]

Form ==
  [urlencoded: BOOLEAN, query_secret: BOOLEAN,
   serverAlias: Parameter({a[2] : a \in DOMAIN ServerScopes}),
   subdomain: Sites \union {Nil, Malformed},
   grant_type: {"authorization_code", "client_credentials", "refresh_token",
                "password", Nil},
   basic: Credentials \union {Nil},
   client_id: Parameter(ClientIds), client_secret: Secrets \union {Nil},
   code: Parameter(Codes), code_verifier: Keys \union {Nil},
   redirect_uri: Uris \union {Nil},
   scope: (SUBSET ScopeNames) \union {Malformed}]

Client ==
  [site: Sites, type: {"confidential", "public"}, client_secret: Secrets,
   redirect_uris: SUBSET Uris,
   grant_types: SUBSET {"authorization_code", "client_credentials", "implicit",
                        "password", "refresh_token"},
   response_types: SUBSET {"code", "token"}]

(* What a request is answered with.                                         *)
Redirects == [kind: {"redirect"}, code: Codes, state: Keys, redirect_uri: Uris]
Tokens    == [kind: {"token"}, scope: SUBSET (ScopeNames \union {EmptyScope}),
              refresh: BOOLEAN]
Errors    == [kind: {"error"}, status: {400, 401, 500},
              error: {"invalid_request", "invalid_client", "invalid_scope",
                      "unauthorized_client", "access_denied", "internal_error",
                      "unsupported_response_type", "unsupported_grant_type"}]

ServerConstants ==
  /\ Malformed \notin {Nil} \union Keys \union Challenges \union ClientIds \union Uris
  /\ Malformed \notin Sites /\ Nil \notin Sites \union Secrets
  /\ \A scope \in SUBSET ScopeNames : scope # Malformed
  /\ \A a \in DOMAIN ServerScopes : \A s \in ServerScopes[a] : s.value \in ScopeNames
  /\ Rows \subseteq Client /\ Nil \notin Rows
  /\ Registered \in [ClientIds -> Rows \union {Nil}]
  /\ Queries \subseteq Query
  /\ Forms \subseteq Form
  /\ \A r \in Queries \union Forms :
       r.scope # Malformed => \A v \in r.scope : Words[v] = {v}
  /\ Nil \notin Queries \union Forms \union Redirects \union Tokens \union Errors
  /\ MaxEdits \in Nat

ASSUME ServerAssumption == ServerConstants

Requests == Setters \union Getters

VARIABLES
  clients,   \* the rows of OAuth2Client by client_id
  edits,     \* changes made to clients so far
  request,   \* request[r]: the query or the form of r, Nil before it arrives
  pc,        \* pc[r]: "idle", at an await on the "db" or on "redis", "done",
             \* or "lost" when the process died under it
  response,  \* response[r]: what was sent for r, or Nil
  seen       \* seen[t]: the row of the client that token request t has read

serverVars == <<clients, edits, request, pc, response, seen>>
vars       == <<storeVars, serverVars>>

ServerTypeOK ==
  /\ clients \in [ClientIds -> Rows \union {Nil}]
  /\ edits \in 0..MaxEdits
  /\ request \in [Requests -> Queries \union Forms \union {Nil}]
  /\ \A s \in Setters : request[s] \in Queries \union {Nil}
  /\ \A t \in Getters : request[t] \in Forms \union {Nil}
  /\ pc \in [Requests -> {"idle", "db", "redis", "done", "lost"}]
  /\ response \in [Requests -> Redirects \union Tokens \union Errors \union {Nil}]
  /\ seen \in [Getters -> Rows \union {Nil}]

ServerInit ==
  /\ clients = Registered
  /\ edits = 0
  /\ request = [r \in Requests |-> Nil]
  /\ pc = [r \in Requests |-> "idle"]
  /\ response = [r \in Requests |-> Nil]
  /\ seen = [t \in Getters |-> Nil]

Init == StoreInit /\ ServerInit

-----------------------------------------------------------------------------
(* A handler makes its checks in order and answers with the error of the    *)
(* first that fails.                                                       *)

Check(ok, error) == [ok |-> ok, status |-> 400, error |-> error]

Unauthenticated(ok) == [ok |-> ok, status |-> 401, error |-> "invalid_client"]

(* decodeURIComponent throws in the constructor of OAuthRequest; the error  *)
(* middleware does not know the exception.                                 *)
Undecodable(scope) ==
  [ok |-> scope # Malformed, status |-> 500, error |-> "internal_error"]

WellFormed_PresentOnly(x) == x # Nil

WellFormed(x) == x \notin {Nil, Malformed}

Passes(checks) == \A i \in DOMAIN checks : checks[i].ok

FirstFailure(checks) ==
  checks[CHOOSE i \in DOMAIN checks :
           ~checks[i].ok /\ \A j \in 1..(i - 1) : checks[j].ok]

Error(status, error) == [kind |-> "error", status |-> status, error |-> error]

Answer(r, res) ==
  /\ response' = [response EXCEPT ![r] = res]
  /\ pc' = [pc EXCEPT ![r] = "done"]

Refuse(r, checks) ==
  /\ ~Passes(checks)
  /\ Answer(r, Error(FirstFailure(checks).status, FirstFailure(checks).error))

Suspend(r, where) ==
  /\ pc' = [pc EXCEPT ![r] = where]
  /\ response' = response

(* OAuth2Model.getClient: the client with this id, if it is of this site.   *)
getClient(client_id, site) ==
  IF client_id \in ClientIds /\ clients[client_id] # Nil
  THEN IF clients[client_id].site = site THEN clients[client_id] ELSE Nil
  ELSE Nil

(* OAuthRequest.getClientCreds, the header first. A header that does not    *)
(* hold both parts is not made up for by the body.                         *)
ClientCredentials(form) ==
  IF form.basic # Nil THEN form.basic
  ELSE IF form.client_id # Nil /\ form.client_secret # Nil
  THEN [user |-> form.client_id, password |-> form.client_secret]
  ELSE [user |-> Nil, password |-> Nil]

Authenticated(form) ==
  Nil \notin {ClientCredentials(form).user, ClientCredentials(form).password}

-----------------------------------------------------------------------------
(* GET /oauth2/:serverAlias/v1/authorize                                    *)

AuthorizeChecks(q) == <<
  Undecodable(q.scope),
  Check(WellFormed(q.serverAlias), "invalid_request"),
  Check(q.subdomain # Nil, "access_denied"),
  Check(~q.client_secret, "invalid_request"),
  Check(WellFormed(q.state), "invalid_request"),
  Check(WellFormed(q.client_id), "invalid_request") >>

AuthorizeLookups(q) == <<
  Check(q.subdomain \in Sites, "access_denied"),
  Check(<<q.subdomain, q.serverAlias>> \in DOMAIN ServerScopes, "invalid_request"),
  Check(getClient(q.client_id, q.subdomain) # Nil, "access_denied"),
  Check(q.response_type = "code", "unsupported_response_type") >>

acceptedScopes(q) ==
  valueOfScope(q.scope, ServerScopes[<<q.subdomain, q.serverAlias>>])

CodeResponseChecks(q, client) == <<
  Check(WellFormed(q.redirect_uri), "invalid_request"),
  Check(q.redirect_uri \in client.redirect_uris, "invalid_request"),
  Check(WellFormed(q.code_challenge), "invalid_request"),
  Check(q.code_challenge_hash = "S256", "invalid_request"),
  Check(acceptedScopes(q) # Nil, "invalid_scope") >>

pkceStateOf(q) ==
  [verifier |-> q.state, challenge |-> q.code_challenge,
   challenge_method |-> q.code_challenge_hash, issued_to |-> q.client_id,
   redirect_uri |-> q.redirect_uri, scope |-> acceptedScopes(q)]

AuthorizeArrive(r, q) ==
  /\ pc[r] = "idle"
  /\ request' = [request EXCEPT ![r] = q]
  /\ \/ Refuse(r, AuthorizeChecks(q))
     \/ Passes(AuthorizeChecks(q)) /\ Suspend(r, "db")
  /\ UNCHANGED <<storeVars, clients, edits, seen>>

(* The three reads, and the rest of the handler after the last of them. The *)
(* redirect is sent without waiting for Redis: savePKCEState drops the      *)
(* promise of set.                                                         *)
CodeResponse(r, q, client) ==
  \/ /\ Refuse(r, CodeResponseChecks(q, client))
     /\ UNCHANGED storeVars
  \/ /\ Passes(CodeResponseChecks(q, client))
     /\ Set(r, pkceStateOf(q))
     /\ Answer(r, [kind |-> "redirect", state |-> q.state,
                   redirect_uri |-> q.redirect_uri,
                   code |-> createAuthorizationCode(pkceStateOf(q),
                                                    client.client_secret)])

AuthorizeRead(r) ==
  LET q == request[r]
  IN  /\ pc[r] = "db"
      /\ \/ Refuse(r, AuthorizeLookups(q)) /\ UNCHANGED storeVars
         \/ /\ Passes(AuthorizeLookups(q))
            /\ CodeResponse(r, q, getClient(q.client_id, q.subdomain))
      /\ UNCHANGED <<clients, edits, request, seen>>

-----------------------------------------------------------------------------
(* POST /oauth2/:serverAlias/v1/token                                       *)

(* The middleware that wants a form; the constructor of OAuthRequest; the   *)
(* checks of TokenHandler that read nothing.                               *)
TokenChecks(form) == <<
  Check(form.urlencoded, "invalid_request"),
  Undecodable(form.scope),
  Check(WellFormed(form.serverAlias), "invalid_request"),
  Check(form.subdomain # Nil, "invalid_client"),
  Check(~form.query_secret, "invalid_request") >>

(* The constructor of GrantType authenticates every client, public or not.  *)
TokenLookups(form) == <<
  Check(form.subdomain \in Sites, "invalid_request"),
  Check(<<form.subdomain, form.serverAlias>> \in DOMAIN ServerScopes, "invalid_request"),
  Check(form.grant_type \in {"authorization_code", "client_credentials"},
        "unsupported_grant_type"),
  Unauthenticated(Authenticated(form)) >>

CodeGrantChecks(form, client) == <<
  Check(WellFormed(form.client_id), "invalid_client"),
  Check(client # Nil, "invalid_client"),
  Check(client # Nil => "authorization_code" \in client.grant_types,
        "unauthorized_client"),
  Check(WellFormed(form.code), "invalid_request"),
  Check(client # Nil /\ client.type = "confidential"
          => client.client_secret = ClientCredentials(form).password,
        "unauthorized_client") >>

CredentialGrantChecks(form, client) == <<
  Check("refresh_token" \notin form.scope, "invalid_request"),
  Check(client # Nil, "invalid_client"),
  Check(client # Nil => client.type = "confidential", "invalid_request"),
  Check(client # Nil => client.client_secret = ClientCredentials(form).password,
        "unauthorized_client"),
  Check(client # Nil => "client_credentials" \in client.grant_types,
        "unauthorized_client") >>

(* The state a lookup came back with, against the form.                     *)
GrantChecks_AnyRedirectUri(t, state) == <<
  Check(state.issued_to = request[t].client_id, "invalid_request"),
  Check(request[t].code = createAuthorizationCode(state, seen[t].client_secret),
        "invalid_request") >>

GrantChecks_AnyCode(t, state) == <<
  Check(state.issued_to = request[t].client_id, "invalid_request"),
  Check(state.redirect_uri = request[t].redirect_uri, "invalid_request") >>

GrantChecks(t, state) == <<
  Check(state.issued_to = request[t].client_id, "invalid_request"),
  Check(request[t].code = createAuthorizationCode(state, seen[t].client_secret),
        "invalid_request"),
  Check(state.redirect_uri = request[t].redirect_uri, "invalid_request") >>

Token(scope) ==
  [kind |-> "token", scope |-> scope, refresh |-> "refresh_token" \in scope]

(* A client sends a code that it was redirected with: it cannot make one.   *)
Delivered(code) ==
  \E s \in Setters : response[s] # Nil /\ response[s].kind = "redirect"
                       /\ response[s].code = code

TokenArrive(t, form) ==
  /\ pc[t] = "idle"
  /\ form.code \in Codes => Delivered(form.code)
  /\ request' = [request EXCEPT ![t] = form]
  /\ \/ Refuse(t, TokenChecks(form))
     \/ Passes(TokenChecks(form)) /\ Suspend(t, "db")
  /\ UNCHANGED <<storeVars, clients, edits, seen>>

CodeGrant(t, form, client) ==
  \/ /\ Refuse(t, CodeGrantChecks(form, client))
     /\ UNCHANGED <<storeVars, seen>>
  \/ /\ Passes(CodeGrantChecks(form, client))
     /\ seen' = [seen EXCEPT ![t] = client]
     /\ Get(t, form.code_verifier)
     /\ Suspend(t, "redis")

CredentialGrant(t, form, client) ==
  /\ \/ Refuse(t, CredentialGrantChecks(form, client))
     \/ /\ Passes(CredentialGrantChecks(form, client))
        /\ Answer(t, [kind |-> "token", scope |-> form.scope, refresh |-> FALSE])
  /\ UNCHANGED <<storeVars, seen>>

(* The reads, and the rest of the handler up to the GET or to its end.      *)
TokenRead(t) ==
  LET form == request[t]
  IN  /\ pc[t] = "db"
      /\ \/ Refuse(t, TokenLookups(form)) /\ UNCHANGED <<storeVars, seen>>
         \/ /\ Passes(TokenLookups(form))
            /\ form.grant_type = "authorization_code"
            /\ CodeGrant(t, form, getClient(form.client_id, form.subdomain))
         \/ /\ Passes(TokenLookups(form))
            /\ form.grant_type = "client_credentials"
            /\ CredentialGrant(t, form,
                 getClient(ClientCredentials(form).user, form.subdomain))
      /\ UNCHANGED <<clients, edits, request>>

(* findPKCEState comes back with null, or goes on to the DEL.               *)
TokenHearGet_NullIgnored(t) ==
  /\ ReplyGet(t)
  /\ UNCHANGED serverVars

TokenHearGet_DelNotAwaited(t) ==
  /\ ReplyGet(t)
  /\ IF Head(replies) = Nil
     THEN Answer(t, Error(400, "invalid_request"))
     ELSE LET state == saved[Head(replies)]
          IN  \/ Refuse(t, GrantChecks(t, state))
              \/ /\ Passes(GrantChecks(t, state))
                 /\ Answer(t, Token(joinThenSplit(state.scope)))
  /\ UNCHANGED <<clients, edits, request, seen>>

TokenHearGet(t) ==
  /\ ReplyGet(t)
  /\ IF Head(replies) = Nil
     THEN Answer(t, Error(400, "invalid_request"))
     ELSE UNCHANGED <<pc, response>>
  /\ UNCHANGED <<clients, edits, request, seen>>

TokenHearDel_ScopeOfForm(t) ==
  LET state == saved[found[t]]
  IN  /\ ReplyDel(t)
      /\ \/ Refuse(t, GrantChecks(t, state))
         \/ Passes(GrantChecks(t, state)) /\ Answer(t, Token(joinThenSplit(request[t].scope)))
      /\ UNCHANGED <<clients, edits, request, seen>>

TokenHearDel(t) ==
  LET state == saved[found[t]]
  IN  /\ ReplyDel(t)
      /\ \/ Refuse(t, GrantChecks(t, state))
         \/ Passes(GrantChecks(t, state)) /\ Answer(t, Token(joinThenSplit(state.scope)))
      /\ UNCHANGED <<clients, edits, request, seen>>

-----------------------------------------------------------------------------
(* Failures, and the world around the server.                               *)

(* A read of the database fails: the error middleware answers.              *)
ReadFails(r) ==
  /\ pc[r] = "db"
  /\ Answer(r, Error(500, "internal_error"))
  /\ UNCHANGED <<storeVars, clients, edits, request, seen>>

(* ioredis gives up. Lookups fail and are answered with 500. Nobody handles *)
(* the rejection of a SETEX, so one in the queue ends the process: Node 16  *)
(* exits on an unhandled rejection, once the answers are out.               *)
CacheGivesUp ==
  /\ queue # <<>>
  /\ Flush
  /\ response' = [r \in Requests |->
                    IF pc[r] = "redis" THEN Error(500, "internal_error") ELSE response[r]]
  /\ pc' = [r \in Requests |->
              IF pc[r] = "redis" THEN "done"
              ELSE IF pc[r] = "db" /\ \E s \in Setters : SetexPending(s) THEN "lost"
              ELSE pc[r]]
  /\ UNCHANGED <<clients, edits, request, seen>>

(* The process dies and is started again; Redis and the database stay.      *)
Crash ==
  /\ Flush
  /\ pc' = [r \in Requests |-> IF pc[r] \in {"db", "redis"} THEN "lost" ELSE pc[r]]
  /\ UNCHANGED <<clients, edits, request, response, seen>>

(* Somebody changes, adds or removes a client; no code of the server does.  *)
EditClient(c, row) ==
  /\ edits < MaxEdits
  /\ edits' = edits + 1
  /\ clients' = [clients EXCEPT ![c] = row]
  /\ UNCHANGED <<storeVars, request, pc, response, seen>>

Handle ==
  \/ \E r \in Setters : AuthorizeRead(r)
  \/ \E t \in Getters : TokenRead(t)

HearAnswer ==
  \/ \E s \in Setters : ReplySetex(s) /\ UNCHANGED serverVars
  \/ \E t \in Getters : TokenHearGet(t) \/ TokenHearDel(t)

Next ==
  \/ \E r \in Setters, q \in Queries : AuthorizeArrive(r, q)
  \/ \E t \in Getters, form \in Forms : TokenArrive(t, form)
  \/ Handle
  \/ HearAnswer
  \/ Execute /\ UNCHANGED serverVars
  \/ Tick /\ UNCHANGED serverVars
  \/ ConnectionLost /\ UNCHANGED serverVars
  \/ \E r \in Requests : ReadFails(r)
  \/ CacheGivesUp
  \/ Crash
  \/ \E c \in ClientIds, row \in Rows \union {Nil} : EditClient(c, row)

Spec == Init /\ [][Next]_vars

(* The event loop runs every handler that can run; the database and Redis   *)
(* answer what they are asked, or the connection is given up.               *)
FairSpec ==
  Spec /\ WF_vars(Handle) /\ WF_vars(HearAnswer)
       /\ WF_vars(Execute /\ UNCHANGED serverVars)

-----------------------------------------------------------------------------
(* Properties.                                                              *)

IsRedirect(r) == response[r] # Nil /\ response[r].kind = "redirect"
IsToken(r)    == response[r] # Nil /\ response[r].kind = "token"

IsCodeGrant(t) == request[t] # Nil /\ request[t].grant_type = "authorization_code"

(* Grant a is what token request t was answered with: its redirect went     *)
(* out, to the client that asks now, for the redirect URI it names now, and *)
(* the code in the form is computed from its challenge; the token has the   *)
(* scope that was granted, and a refresh token goes with the scope          *)
(* refresh_token only.                                                     *)
Backs(a, t) ==
  /\ IsRedirect(a)
  /\ saved[a] # Nil
  /\ saved[a].issued_to = request[t].client_id
  /\ saved[a].verifier = request[t].code_verifier
  /\ saved[a].redirect_uri = request[t].redirect_uri
  /\ request[t].code = createAuthorizationCode(saved[a], request[t].code.secret)
  /\ response[a].code.challenge = request[t].code.challenge
  /\ response[t].scope = joinThenSplit(saved[a].scope)
  /\ response[t].refresh <=> "refresh_token" \in joinThenSplit(saved[a].scope)

(* authorization-code.ts:49-86. Every token of the code grant is backed by  *)
(* one authorization, whatever was overwritten, expired, edited or lost     *)
(* between the two requests: the scope it names was checked by /authorize.  *)
TokenBackedByGrant ==
  \A t \in Getters :
    IsToken(t) /\ IsCodeGrant(t) => \E a \in Setters : found[t] = a /\ Backs(a, t)

(* code.ts:63-83, authorization-code.ts:108-119. A token has the scopes     *)
(* that its authorization asked for, all of them known to the server that   *)
(* authorized, or the words of that server's defaults if it asked for none; *)
(* and the one empty scope only if there are no defaults either.           *)
ScopesAsAuthorized ==
  \A t \in Getters : IsToken(t) /\ IsCodeGrant(t) =>
    LET q        == request[found[t]]
        accepted == ServerScopes[<<q.subdomain, q.serverAlias>>]
        defaults == {s.value : s \in {d \in accepted : d.is_default}}
    IN  \/ /\ q.scope # {}
           /\ q.scope \subseteq {s.value : s \in accepted}
           /\ response[t].scope = q.scope
        \/ /\ q.scope = {} /\ defaults # {}
           /\ response[t].scope = UNION {Words[v] : v \in defaults}
        \/ /\ q.scope = {} /\ defaults = {}
           /\ response[t].scope = {EmptyScope}

(* pkce-state-store.ts:27-29. Once a token is out for an authorization, no  *)
(* lookup that is still under way, or yet to come, finds its state again.   *)
NoLookupAfterToken ==
  [][\A t, u \in Getters :
       IsToken(t) /\ found[t] # Nil /\ found[u] # found[t] => found'[u] # found[t]]_vars

(* model.ts:92-94 does not wait for SETEX before the redirect goes out. A   *)
(* lookup by the client so redirected is nevertheless queued behind it: it  *)
(* comes back with null only when the state has been and gone.              *)
NullOnlyWhenClosed ==
  [][\A t \in Getters, a \in Setters :
       phase[t] = "get" /\ phase'[t] = "done" /\ saved[a] # Nil
         /\ saved[a].verifier = wanted[t]
         /\ {b \in Setters : IsRedirect(b) /\ response[b].code = request[t].code} = {a}
       => Standing(a) = "closed"]_vars

(* A request waits on Redis exactly while its lookup is under way, and one  *)
(* that ended did not leave a lookup behind.                                *)
WaitsOnlyForItsLookup ==
  \A t \in Getters : pc[t] = "redis" <=> phase[t] \in {"get", "del"}

(* index.ts:24-75, http.ts:19-34. Every request that arrives is answered or *)
(* is lost with the process: none hangs on a lookup that found nothing or   *)
(* on a connection that was given up.                                      *)
EveryRequestEnds ==
  \A r \in Requests : pc[r] \in {"db", "redis"} ~> pc[r] \in {"done", "lost"}

(* The flow the endpoints keep. What a request asked with counts from the   *)
(* moment its lookup begins; a token of another grant type is none of it.   *)
Asks ==
  [client_id: ClientIds, redirect_uri: Uris \union {Nil},
   code_verifier: Keys \union {Nil}, challenge: Challenges]

Told(a) ==
  IF IsRedirect(a)
  THEN [state |-> response[a].state, redirect_uri |-> response[a].redirect_uri,
        challenge |-> response[a].code.challenge]
  ELSE Nil

Asked(t) ==
  IF phase[t] = "idle" THEN Nil
  ELSE [client_id |-> request[t].client_id, redirect_uri |-> request[t].redirect_uri,
        code_verifier |-> request[t].code_verifier,
        challenge |-> request[t].code.challenge]

Issued(t) ==
  IF IsToken(t) /\ IsCodeGrant(t)
  THEN [scope |-> response[t].scope, refresh |-> response[t].refresh]
  ELSE Nil

Flow == INSTANCE CodeFlow WITH
  Grants   <- Setters,
  Lookups  <- Getters,
  standing <- [s \in Setters |-> Standing(s)],
  claim    <- found,
  outcome  <- [g \in Getters |-> Outcome(g)],
  Terms    <- PKCEState,
  Asks     <- Asks,
  terms    <- saved,
  told     <- [s \in Setters |-> Told(s)],
  asked    <- [t \in Getters |-> Asked(t)],
  token    <- [t \in Getters |-> Issued(t)]

(* The endpoints keep the flow (code.ts:83-104, authorization-code.ts:61-   *)
(* 119): the redirect tells the client just what is stored, in one step; a  *)
(* token is issued in the step in which its lookup returns a closed grant   *)
(* with the terms the form asked for; and an answer is never taken back,    *)
(* whatever fails or is edited in between.                                 *)
FlowKept == Flow!FlowSpec

-----------------------------------------------------------------------------
(* Why it is so: an inductive invariant, with StoreInv.                     *)

(* What the state of an authorization request says of what it has saved.    *)
AuthorizationInv(s) ==
  /\ pc[s] # "redis"
  /\ pc[s] = "db" => request[s] \in Queries /\ Passes(AuthorizeChecks(request[s]))
  /\ pc[s] # "done" => response[s] = Nil
  /\ saved[s] # Nil =>
       /\ pc[s] = "done"
       /\ IsRedirect(s)
       /\ response[s].code.challenge = saved[s].challenge
       /\ request[s] \in Queries
       /\ acceptedScopes(request[s]) # Nil
       /\ saved[s] = pkceStateOf(request[s])

(* What the state of a token request says of its lookup.                    *)
TokenInv(t) ==
  /\ pc[t] = "db" => request[t] \in Forms /\ Passes(TokenChecks(request[t]))
  /\ pc[t] # "done" => response[t] = Nil
  /\ pc[t] \in {"idle", "db"} => phase[t] = "idle"
  /\ phase[t] # "idle" =>
       /\ request[t] \in Forms
       /\ request[t].grant_type = "authorization_code"
       /\ wanted[t] = request[t].code_verifier
  /\ phase[t] \in {"get", "del"} => seen[t] \in Rows /\ request[t].code \in Codes
  /\ IsToken(t) => phase[t] \in {"idle", "done"}

ServerInv ==
  /\ StoreInv
  /\ ServerTypeOK
  /\ \A s \in Setters : AuthorizationInv(s)
  /\ \A t \in Getters : TokenInv(t)
  /\ WaitsOnlyForItsLookup
  /\ TokenBackedByGrant
  /\ Ledger!ReturnedIsClosed

-----------------------------------------------------------------------------
(* What the repository says of the program and the code does not do.        *)

(* response.ts:9-13: "If an authorization code is used more than once, the  *)
(* authorization server MUST deny the request". Two lookups that overlap    *)
(* both read the state before either deletes it.                            *)
OneTokenPerGrant ==
  \A t, u \in Getters :
    t # u /\ IsToken(t) /\ IsToken(u) /\ found[t] # Nil => found[t] # found[u]

(* src/index.ts:17: stateLifetimeSec is "how long the state will be valid   *)
(* (in seconds)". Stored under a key, a state should go only when its time  *)
(* is up, when another takes its key, or when a lookup has read it. The     *)
(* delayed DEL of a lookup removes whatever is there.                       *)
GoneOnlyWhenDue ==
  [][\A s \in Setters, k \in Keys :
       redis[k] = s /\ redis'[k] = Nil => ttl[k] = 1 \/ \E g \in Getters : found[g] = s]_vars

(* authorization-code.ts:39-42: client authentication is for confidential   *)
(* clients, and for others "if client authentication is included"; a public *)
(* client "does not have a client secret" (schema.prisma:200). GrantType's  *)
(* constructor asks everyone.                                               *)
PublicNeedsNoSecret ==
  \A t \in Getters :
    IsCodeGrant(t) /\ ~Authenticated(request[t]) /\ response[t] # Nil
        /\ getClient(request[t].client_id, request[t].subdomain) # Nil
        /\ clients[request[t].client_id].type = "public"
      => response[t] # Error(401, "invalid_client")

(* schema.prisma:273-275: response_types are those "that the client can use *)
(* at the authorization endpoint". Nothing reads them.                      *)
ResponseTypesEnforced ==
  \A s \in Setters :
    IsRedirect(s) => request[s].response_type \in clients[request[s].client_id].response_types
=============================================================================
