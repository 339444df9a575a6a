---------------------- MODULE AuthorizationServerProofs ----------------------
(***************************************************************************)
(* AuthorizationServer for any number of requests, clients, sites, scopes  *)
(* and failures: the variables keep their types; a request waits on Redis  *)
(* exactly while its lookup is under way; every token of the code grant is *)
(* backed by an authorization, and once it is out no lookup finds the      *)
(* state of that authorization again; the server implements GrantLedger,   *)
(* and a request that waits on Redis is in line there and comes closer.    *)
(***************************************************************************)
EXTENDS AuthorizationServer, PKCEStateStoreProofs, WellFoundedInduction

-----------------------------------------------------------------------------
(* A refusal is answered with one of the errors.                            *)

Reasons == {"invalid_request", "invalid_client", "invalid_scope",
            "unauthorized_client", "access_denied", "internal_error",
            "unsupported_response_type", "unsupported_grant_type"}

Answerable(checks) ==
  \E n \in Nat :
    /\ DOMAIN checks = 1..n
    /\ \A i \in 1..n : checks[i].status \in {400, 401, 500} /\ checks[i].error \in Reasons

(* The first of the checks that fail is one of the checks.                  *)
LEMMA FirstFailureIsOne ==
  ASSUME NEW checks, Answerable(checks), ~Passes(checks)
  PROVE  Error(FirstFailure(checks).status, FirstFailure(checks).error) \in Errors
<1> DEFINE Failing == {i \in DOMAIN checks : ~checks[i].ok}
<1>1. PICK n \in Nat :
        /\ DOMAIN checks = 1..n
        /\ \A i \in 1..n : checks[i].status \in {400, 401, 500} /\ checks[i].error \in Reasons
  BY DEF Answerable
<1>2. Failing \subseteq Nat /\ Failing # {}
  BY <1>1 DEF Passes
<1>3. PICK i \in Failing : \A j \in Failing : <<j, i>> \notin OpToRel(<, Nat)
  BY <1>2, NatLessThanWellFounded, WFMin
<1>4. \A j \in Failing : ~(j < i)
  BY <1>2, <1>3 DEF OpToRel
<1>5. i \in DOMAIN checks /\ ~checks[i].ok /\ \A j \in 1..(i - 1) : checks[j].ok
  BY <1>1, <1>4
<1> QED
  BY <1>1, <1>5 DEF FirstFailure, Error, Errors, Reasons

LEMMA AuthorizeAnswerable ==
  ASSUME NEW q, NEW client
  PROVE  /\ Answerable(AuthorizeChecks(q)) /\ Answerable(AuthorizeLookups(q))
         /\ Answerable(CodeResponseChecks(q, client))
<1> DEFINE Fine(checks, n) ==
             /\ DOMAIN checks = 1..n
             /\ \A i \in 1..n : checks[i].status \in {400, 401, 500} /\ checks[i].error \in Reasons
<1>1. Fine(AuthorizeChecks(q), 6)
  BY DEF AuthorizeChecks, Check, Undecodable, Reasons
<1>2. Fine(AuthorizeLookups(q), 4)
  BY DEF AuthorizeLookups, Check, Reasons
<1>3. Fine(CodeResponseChecks(q, client), 5)
  BY DEF CodeResponseChecks, Check, Reasons
<1>4. \A checks : \A n \in Nat : Fine(checks, n) => Answerable(checks)
  BY DEF Answerable
<1> HIDE DEF Fine
<1> QED
  BY <1>1, <1>2, <1>3, <1>4

LEMMA TokenAnswerable ==
  ASSUME NEW t, NEW form, NEW client, NEW state
  PROVE  /\ Answerable(TokenChecks(form)) /\ Answerable(TokenLookups(form))
         /\ Answerable(CodeGrantChecks(form, client))
         /\ Answerable(CredentialGrantChecks(form, client))
         /\ Answerable(GrantChecks(t, state))
<1> DEFINE Fine(checks, n) ==
             /\ DOMAIN checks = 1..n
             /\ \A i \in 1..n : checks[i].status \in {400, 401, 500} /\ checks[i].error \in Reasons
<1>1. Fine(TokenChecks(form), 5)
  BY DEF TokenChecks, Check, Undecodable, Reasons
<1>2. Fine(TokenLookups(form), 4)
  BY DEF TokenLookups, Check, Unauthenticated, Reasons
<1>3. Fine(CodeGrantChecks(form, client), 5)
  BY DEF CodeGrantChecks, Check, Reasons
<1>4. Fine(CredentialGrantChecks(form, client), 5)
  BY DEF CredentialGrantChecks, Check, Reasons
<1>5. Fine(GrantChecks(t, state), 3)
  BY DEF GrantChecks, Check, Reasons
<1>6. \A checks : \A n \in Nat : Fine(checks, n) => Answerable(checks)
  BY DEF Answerable
<1> HIDE DEF Fine
<1> QED
  BY <1>1, <1>2, <1>3, <1>4, <1>5, <1>6

LEMMA AnswerTyped ==
  ASSUME ServerTypeOK, NEW r \in Requests, NEW res \in Redirects \union Tokens \union Errors,
         Answer(r, res)
  PROVE  /\ pc' \in [Requests -> {"idle", "db", "redis", "done", "lost"}]
         /\ response' \in [Requests -> Redirects \union Tokens \union Errors \union {Nil}]
         /\ pc'[r] = "done" /\ response'[r] = res
         /\ \A o \in Requests \ {r} : pc'[o] = pc[o] /\ response'[o] = response[o]
BY DEF ServerTypeOK, Answer

LEMMA RefusalTyped ==
  ASSUME ServerTypeOK, NEW r \in Requests, NEW checks, Answerable(checks), Refuse(r, checks)
  PROVE  /\ pc' \in [Requests -> {"idle", "db", "redis", "done", "lost"}]
         /\ response' \in [Requests -> Redirects \union Tokens \union Errors \union {Nil}]
         /\ pc'[r] = "done" /\ response'[r] \in Errors
         /\ \A o \in Requests \ {r} : pc'[o] = pc[o] /\ response'[o] = response[o]
<1>1. PICK e \in Errors : Answer(r, e)
  BY FirstFailureIsOne DEF Refuse
<1> QED
  BY <1>1, AnswerTyped

LEMMA SuspensionTyped ==
  ASSUME ServerTypeOK, NEW r \in Requests, NEW where \in {"db", "redis"}, Suspend(r, where)
  PROVE  /\ pc' \in [Requests -> {"idle", "db", "redis", "done", "lost"}]
         /\ response' = response
         /\ pc'[r] = where
         /\ \A o \in Requests \ {r} : pc'[o] = pc[o]
BY DEF ServerTypeOK, Suspend

-----------------------------------------------------------------------------
(* What the checks establish.                                               *)

LEMMA ClientsAreRows ==
  ASSUME ServerTypeOK, NEW c, NEW site
  PROVE  getClient(c, site) \in Rows \union {Nil}
<1>1. clients \in [ClientIds -> Rows \union {Nil}]
  BY DEF ServerTypeOK
<1> QED
  BY <1>1 DEF getClient

(* The state that is saved for a query that passes all checks is a state.   *)
LEMMA SavedStateTyped ==
  ASSUME NEW q \in Queries, NEW client, Passes(AuthorizeChecks(q)),
         Passes(CodeResponseChecks(q, client)),
         <<q.subdomain, q.serverAlias>> \in DOMAIN ServerScopes
  PROVE  pkceStateOf(q) \in PKCEState /\ acceptedScopes(q) # Nil
<1>1. WellFormed(q.state) /\ WellFormed(q.client_id)
  BY DEF Passes, AuthorizeChecks, Check, Undecodable
<1>2. /\ WellFormed(q.redirect_uri) /\ WellFormed(q.code_challenge)
      /\ q.code_challenge_hash = "S256" /\ acceptedScopes(q) # Nil
  <2> DEFINE checks == CodeResponseChecks(q, client)
  <2>1. /\ checks[1] = Check(WellFormed(q.redirect_uri), "invalid_request")
        /\ checks[3] = Check(WellFormed(q.code_challenge), "invalid_request")
        /\ checks[4] = Check(q.code_challenge_hash = "S256", "invalid_request")
        /\ checks[5] = Check(acceptedScopes(q) # Nil, "invalid_scope")
        /\ DOMAIN checks = 1..5
    BY DEF CodeResponseChecks
  <2>2. checks[1].ok /\ checks[3].ok /\ checks[4].ok /\ checks[5].ok
    BY <2>1 DEF Passes
  <2> HIDE DEF checks
  <2>3. /\ Check(WellFormed(q.redirect_uri), "invalid_request").ok
        /\ Check(WellFormed(q.code_challenge), "invalid_request").ok
        /\ Check(q.code_challenge_hash = "S256", "invalid_request").ok
        /\ Check(acceptedScopes(q) # Nil, "invalid_scope").ok
    BY <2>1, <2>2
  <2> QED
    BY <2>3, Zenon DEF Check
<1>3. q \in Query
  BY ServerAssumption DEF ServerConstants
<1>4. acceptedScopes(q) \in SUBSET ScopeNames
  <2>1. \A s \in ServerScopes[<<q.subdomain, q.serverAlias>>] : s.value \in ScopeNames
    BY ServerAssumption DEF ServerConstants
  <2> QED
    BY <1>2, <2>1 DEF acceptedScopes, valueOfScope
<1> QED
  BY <1>1, <1>2, <1>3, <1>4 DEF pkceStateOf, PKCEState, Query, Parameter, WellFormed

LEMMA LookupsPassed ==
  ASSUME NEW q, Passes(AuthorizeLookups(q))
  PROVE  /\ <<q.subdomain, q.serverAlias>> \in DOMAIN ServerScopes
         /\ getClient(q.client_id, q.subdomain) # Nil
<1> DEFINE checks == AuthorizeLookups(q)
<1>1. /\ checks[2] = Check(<<q.subdomain, q.serverAlias>> \in DOMAIN ServerScopes,
                           "invalid_request")
      /\ checks[3] = Check(getClient(q.client_id, q.subdomain) # Nil, "access_denied")
      /\ DOMAIN checks = 1..4
  BY DEF AuthorizeLookups
<1>2. checks[2].ok /\ checks[3].ok
  BY <1>1 DEF Passes
<1> HIDE DEF checks
<1>3. /\ Check(<<q.subdomain, q.serverAlias>> \in DOMAIN ServerScopes, "invalid_request").ok
      /\ Check(getClient(q.client_id, q.subdomain) # Nil, "access_denied").ok
  BY <1>1, <1>2
<1> QED
  BY <1>3, Zenon DEF Check

LEMMA RedirectTyped ==
  ASSUME NEW state \in PKCEState, NEW client \in Rows
  PROVE  [kind |-> "redirect", state |-> state.verifier, redirect_uri |-> state.redirect_uri,
          code |-> createAuthorizationCode(state, client.client_secret)] \in Redirects
<1>1. client.client_secret \in Secrets
  BY ServerAssumption DEF ServerConstants, Client
<1> QED
  BY <1>1 DEF Redirects, PKCEState, createAuthorizationCode, Codes

LEMMA TokenTyped ==
  ASSUME NEW scope \in SUBSET ScopeNames
  PROVE  /\ Token(joinThenSplit(scope)) \in Tokens
         /\ [kind |-> "token", scope |-> scope, refresh |-> FALSE] \in Tokens
<1>1. joinThenSplit(scope) \in SUBSET (ScopeNames \union {EmptyScope})
  BY PKCEAssumption DEF joinThenSplit, PKCEConstants
<1>2. ("refresh_token" \in joinThenSplit(scope)) \in BOOLEAN
  OBVIOUS
<1> QED
  BY <1>1, <1>2 DEF Token, Tokens

LEMMA TokenFields ==
  ASSUME NEW scope
  PROVE  Token(scope).scope = scope /\ (Token(scope).refresh <=> "refresh_token" \in scope)
BY Zenon DEF Token

LEMMA ResponseKinds ==
  /\ Nil \notin Redirects \union Tokens \union Errors
  /\ \A e \in Errors : e.kind = "error"
  /\ \A e \in Redirects : e.kind = "redirect"
  /\ \A e \in Tokens : e.kind = "token"
BY ServerAssumption DEF ServerConstants, Errors, Redirects, Tokens

(* What the checks of the state that a lookup has found establish.          *)
LEMMA GrantChecked ==
  ASSUME NEW t \in Getters, NEW state, Passes(GrantChecks(t, state))
  PROVE  /\ state.issued_to = request[t].client_id
         /\ state.redirect_uri = request[t].redirect_uri
         /\ request[t].code = createAuthorizationCode(state, seen[t].client_secret)
         /\ request[t].code.challenge = state.challenge
<1> DEFINE checks == GrantChecks(t, state)
<1>1. /\ checks[1] = Check(state.issued_to = request[t].client_id, "invalid_request")
      /\ checks[2] = Check(request[t].code = createAuthorizationCode(state, seen[t].client_secret),
                           "invalid_request")
      /\ checks[3] = Check(state.redirect_uri = request[t].redirect_uri, "invalid_request")
      /\ DOMAIN checks = 1..3
  BY DEF GrantChecks
<1>2. checks[1].ok /\ checks[2].ok /\ checks[3].ok
  BY <1>1 DEF Passes
<1> HIDE DEF checks
<1>3. /\ Check(state.issued_to = request[t].client_id, "invalid_request").ok
      /\ Check(request[t].code = createAuthorizationCode(state, seen[t].client_secret),
               "invalid_request").ok
      /\ Check(state.redirect_uri = request[t].redirect_uri, "invalid_request").ok
  BY <1>1, <1>2
<1>4. /\ state.issued_to = request[t].client_id
      /\ state.redirect_uri = request[t].redirect_uri
      /\ request[t].code = createAuthorizationCode(state, seen[t].client_secret)
  BY <1>3, Zenon DEF Check
<1> QED
  BY <1>4 DEF createAuthorizationCode

(* What TokenHearDel answers with a token for is backed by the state that   *)
(* the lookup has found.                                                   *)
LEMMA GrantChecksBack ==
  ASSUME NEW t \in Getters, NEW a \in Setters, saved[a] \in PKCEState,
         Passes(GrantChecks(t, saved[a])), IsRedirect(a),
         response[a].code.challenge = saved[a].challenge,
         saved[a].verifier = request[t].code_verifier,
         response'[a] = response[a], response'[t] = Token(joinThenSplit(saved[a].scope)),
         UNCHANGED <<saved, request>>
  PROVE  Backs(a, t)'
<1>1. /\ saved[a].issued_to = request[t].client_id
      /\ saved[a].redirect_uri = request[t].redirect_uri
      /\ request[t].code = createAuthorizationCode(saved[a], seen[t].client_secret)
  BY GrantChecked
<1>2. request[t].code = createAuthorizationCode(saved[a], request[t].code.secret)
  BY <1>1 DEF createAuthorizationCode
<1>3. response[a].code.challenge = request[t].code.challenge
  BY <1>1 DEF createAuthorizationCode
<1>4. saved[a] # Nil
  BY PKCEAssumption DEF PKCEConstants
<1>5. response'[t].refresh <=> "refresh_token" \in joinThenSplit(saved[a].scope)
  BY TokenFields
<1>6. response'[t].scope = joinThenSplit(saved[a].scope)
  BY DEF Token
<1> QED
  BY <1>1, <1>2, <1>3, <1>4, <1>5, <1>6 DEF Backs, IsRedirect
-----------------------------------------------------------------------------
(* A step of one request leaves the others as they are.                     *)

LEMMA RequestIsEither ==
  ASSUME NEW s \in Setters, NEW t \in Getters
  PROVE  s # t /\ s \in Requests /\ t \in Requests
BY StoreAssumption DEF StoreConstants, Requests

LEMMA OthersKept ==
  ASSUME ServerInv, NEW r \in Requests, pc[r] # "done",
         \A o \in Requests \ {r} :
           request'[o] = request[o] /\ pc'[o] = pc[o] /\ response'[o] = response[o],
         \A s \in Setters \ {r} : saved'[s] = saved[s],
         \A t \in Getters \ {r} :
           /\ seen'[t] = seen[t] /\ wanted'[t] = wanted[t]
           /\ phase'[t] = phase[t] /\ found'[t] = found[t]
  PROVE  /\ \A s \in Setters \ {r} : AuthorizationInv(s)'
         /\ \A t \in Getters \ {r} :
              /\ TokenInv(t)'
              /\ (pc[t] = "redis" <=> phase[t] \in {"get", "del"})'
              /\ (IsToken(t) /\ IsCodeGrant(t) => \E a \in Setters : found[t] = a /\ Backs(a, t))'
<1>1. ASSUME NEW s \in Setters \ {r} PROVE AuthorizationInv(s)'
  <2>1. AuthorizationInv(s) /\ s \in Requests \ {r}
    BY <1>1 DEF ServerInv, Requests
  <2> QED
    BY <2>1 DEF AuthorizationInv, IsRedirect
<1>2. ASSUME NEW t \in Getters \ {r}
      PROVE  /\ TokenInv(t)'
             /\ (pc[t] = "redis" <=> phase[t] \in {"get", "del"})'
  <2>1. /\ TokenInv(t) /\ t \in Requests \ {r}
        /\ pc[t] = "redis" <=> phase[t] \in {"get", "del"}
    BY <1>2 DEF ServerInv, Requests, WaitsOnlyForItsLookup
  <2> QED
    BY <2>1 DEF TokenInv, IsToken
<1>3. ASSUME NEW t \in Getters \ {r}, (IsToken(t) /\ IsCodeGrant(t))'
      PROVE  (\E a \in Setters : found[t] = a /\ Backs(a, t))'
  <2>1. t \in Requests \ {r} /\ IsToken(t) /\ IsCodeGrant(t)
    BY <1>3 DEF Requests, IsToken, IsCodeGrant
  <2>2. PICK a \in Setters : found[t] = a /\ Backs(a, t)
    BY <2>1 DEF ServerInv, TokenBackedByGrant
  <2>3. a \in Requests \ {r}
    BY <2>2 DEF ServerInv, AuthorizationInv, Backs, Requests
  <2>4. found'[t] = a /\ saved'[a] = saved[a] /\ response'[a] = response[a]
        /\ request'[t] = request[t] /\ response'[t] = response[t]
    BY <2>1, <2>2, <2>3
  <2> QED
    BY <2>2, <2>4 DEF Backs, IsRedirect
<1> QED
  BY <1>1, <1>2, <1>3

(* Where that leaves ServerInv: with the types, and the part of the request *)
(* that took the step.                                                     *)
RequestInv ==
  /\ ServerTypeOK
  /\ \A s \in Setters : AuthorizationInv(s)
  /\ \A t \in Getters : TokenInv(t)
  /\ WaitsOnlyForItsLookup
  /\ TokenBackedByGrant

LEMMA AuthorizationSteps ==
  ASSUME ServerInv, NEW s \in Setters, pc[s] # "done", ServerTypeOK', AuthorizationInv(s)',
         \A o \in Requests \ {s} : pc'[o] = pc[o] /\ response'[o] = response[o],
         \A o \in Requests \ {s} : request'[o] = request[o],
         \A a \in Setters \ {s} : saved'[a] = saved[a],
         UNCHANGED <<seen, wanted, phase, found>>
  PROVE  RequestInv'
<1>1. \A t \in Getters : t \in Getters \ {s}
  BY RequestIsEither
<1>2. s \in Requests
  BY DEF Requests
<1> QED
  BY <1>1, <1>2, OthersKept DEF RequestInv, WaitsOnlyForItsLookup, TokenBackedByGrant

LEMMA TokenSteps ==
  ASSUME ServerInv, NEW t \in Getters, pc[t] # "done", ServerTypeOK', TokenInv(t)',
         pc'[t] = "redis" <=> phase'[t] \in {"get", "del"},
         (IsToken(t) /\ IsCodeGrant(t) => \E a \in Setters : found[t] = a /\ Backs(a, t))',
         \A o \in Requests \ {t} : pc'[o] = pc[o] /\ response'[o] = response[o],
         \A o \in Requests \ {t} : request'[o] = request[o],
         \A u \in Getters \ {t} :
           /\ seen'[u] = seen[u] /\ wanted'[u] = wanted[u]
           /\ phase'[u] = phase[u] /\ found'[u] = found[u],
         UNCHANGED saved
  PROVE  RequestInv'
<1>1. \A s \in Setters : s \in Setters \ {t}
  BY RequestIsEither
<1>2. t \in Requests
  BY DEF Requests
<1> QED
  BY <1>1, <1>2, OthersKept DEF RequestInv, WaitsOnlyForItsLookup, TokenBackedByGrant
-----------------------------------------------------------------------------
(* One lemma for each step of a request.                                    *)

LEMMA AuthorizeArriveInv ==
  ASSUME ServerInv, NEW s \in Setters, NEW q \in Queries, AuthorizeArrive(s, q)
  PROVE  RequestInv'
<1>1. s \in Requests /\ ServerTypeOK /\ AuthorizationInv(s) /\ saved[s] = Nil
  BY DEF Requests, ServerInv, AuthorizeArrive, AuthorizationInv
<1>2. /\ \/ pc'[s] = "done"
         \/ pc'[s] = "db" /\ Passes(AuthorizeChecks(q)) /\ response'[s] = Nil
      /\ pc' \in [Requests -> {"idle", "db", "redis", "done", "lost"}]
      /\ response' \in [Requests -> Redirects \union Tokens \union Errors \union {Nil}]
      /\ \A o \in Requests \ {s} : pc'[o] = pc[o] /\ response'[o] = response[o]
  <2>1. CASE Refuse(s, AuthorizeChecks(q))
    BY <1>1, <2>1, RefusalTyped, AuthorizeAnswerable
  <2>2. CASE Passes(AuthorizeChecks(q)) /\ Suspend(s, "db")
    BY <1>1, <2>2, SuspensionTyped DEF ServerTypeOK, AuthorizeArrive, AuthorizationInv
  <2> QED
    BY <2>1, <2>2 DEF AuthorizeArrive
<1>3. /\ request' \in [Requests -> Queries \union Forms \union {Nil}] /\ request'[s] = q
      /\ \A o \in Requests \ {s} : request'[o] = request[o]
      /\ UNCHANGED <<saved, clients, edits, seen, wanted, phase, found>>
  BY <1>1 DEF ServerTypeOK, AuthorizeArrive, storeVars
<1>4. ServerTypeOK'
  <2>1. \A a \in Setters : request'[a] \in Queries \union {Nil}
    BY <1>1, <1>3 DEF ServerTypeOK, Requests
  <2>2. \A t \in Getters : request'[t] \in Forms \union {Nil}
    BY <1>1, <1>3, RequestIsEither DEF ServerTypeOK, Requests
  <2> QED
    BY <1>1, <1>2, <1>3, <2>1, <2>2 DEF ServerTypeOK
<1>5. AuthorizationInv(s)'
  BY <1>1, <1>2, <1>3 DEF AuthorizationInv
<1>6. pc[s] # "done"
  BY DEF AuthorizeArrive
<1> QED
  BY <1>2, <1>3, <1>4, <1>5, <1>6, AuthorizationSteps

LEMMA AuthorizeReadInv ==
  ASSUME ServerInv, NEW s \in Setters, AuthorizeRead(s)
  PROVE  /\ RequestInv'
         /\ UNCHANGED storeVars \/ \E state \in PKCEState : Set(s, state)
<1> DEFINE q == request[s]
           client == getClient(q.client_id, q.subdomain)
           state == pkceStateOf(q)
<1>1. /\ s \in Requests /\ ServerTypeOK /\ AuthorizationInv(s) /\ StoreTypeOK
      /\ pc[s] = "db" /\ saved[s] = Nil /\ response[s] = Nil
      /\ q \in Queries /\ Passes(AuthorizeChecks(q))
      /\ UNCHANGED <<clients, edits, request, seen>>
  BY DEF Requests, ServerInv, StoreInv, AuthorizeRead, AuthorizationInv
<1>2. CASE Refuse(s, AuthorizeLookups(q)) \/ Refuse(s, CodeResponseChecks(q, client))
  <2>1. /\ pc'[s] = "done"
        /\ pc' \in [Requests -> {"idle", "db", "redis", "done", "lost"}]
        /\ response' \in [Requests -> Redirects \union Tokens \union Errors \union {Nil}]
        /\ \A o \in Requests \ {s} : pc'[o] = pc[o] /\ response'[o] = response[o]
    BY <1>1, <1>2, RefusalTyped, AuthorizeAnswerable
  <2>2. UNCHANGED storeVars
    BY <1>1, <1>2 DEF AuthorizeRead, CodeResponse, Refuse
  <2>3. ServerTypeOK'
    BY <1>1, <2>1 DEF ServerTypeOK
  <2>4. AuthorizationInv(s)'
    BY <1>1, <2>1, <2>2 DEF AuthorizationInv, storeVars
  <2> QED
    BY <1>1, <2>1, <2>2, <2>3, <2>4, AuthorizationSteps DEF storeVars
<1>3. CASE /\ Passes(AuthorizeLookups(q)) /\ Passes(CodeResponseChecks(q, client))
           /\ Set(s, state)
           /\ Answer(s, [kind |-> "redirect", state |-> q.state,
                         redirect_uri |-> q.redirect_uri,
                         code |-> createAuthorizationCode(state, client.client_secret)])
  <2> DEFINE res == [kind |-> "redirect", state |-> q.state,
                     redirect_uri |-> q.redirect_uri,
                     code |-> createAuthorizationCode(state, client.client_secret)]
  <2>1. <<q.subdomain, q.serverAlias>> \in DOMAIN ServerScopes /\ client # Nil
    BY <1>3, LookupsPassed
  <2>2. state \in PKCEState /\ acceptedScopes(q) # Nil
    BY <1>1, <1>3, <2>1, SavedStateTyped
  <2>3. client \in Rows
    BY <1>1, <2>1, ClientsAreRows
  <2>4. state.verifier = q.state /\ state.redirect_uri = q.redirect_uri
        /\ state.challenge = q.code_challenge
    BY DEF pkceStateOf
  <2>5. res \in Redirects
    BY <2>2, <2>3, <2>4, RedirectTyped
  <2>6. res.kind = "redirect" /\ res.code.challenge = state.challenge
    BY DEF createAuthorizationCode
  <2>7. /\ pc'[s] = "done" /\ response'[s] = res
        /\ pc' \in [Requests -> {"idle", "db", "redis", "done", "lost"}]
        /\ response' \in [Requests -> Redirects \union Tokens \union Errors \union {Nil}]
        /\ \A o \in Requests \ {s} : pc'[o] = pc[o] /\ response'[o] = response[o]
    <3> HIDE DEF res
    <3>1. Answer(s, res)
      BY <1>3 DEF res
    <3> QED
      BY <1>1, <2>5, <3>1, AnswerTyped
  <2>8. /\ saved'[s] = state /\ \A a \in Setters \ {s} : saved'[a] = saved[a]
        /\ UNCHANGED <<wanted, phase, found>>
    BY <1>1, <1>3 DEF Set, StoreTypeOK
  <2>9. /\ request'[s] \in Queries
        /\ acceptedScopes(request'[s]) # Nil
        /\ saved'[s] = pkceStateOf(request'[s])
    <3> HIDE DEF res, client
    <3> QED
      BY <1>1, <2>2, <2>8
  <2> HIDE DEF res, state, client, q
  <2>10. ServerTypeOK'
    BY <1>1, <2>7 DEF ServerTypeOK
  <2>11. IsRedirect(s)'
    BY <2>6, <2>7, ResponseKinds, <2>5 DEF IsRedirect
  <2>12. AuthorizationInv(s)'
    BY <2>6, <2>7, <2>8, <2>9, <2>11 DEF AuthorizationInv
  <2> QED
    BY <1>1, <1>3, <2>2, <2>7, <2>8, <2>10, <2>12, AuthorizationSteps
<1> QED
  BY <1>2, <1>3 DEF AuthorizeRead, CodeResponse

LEMMA TokenArriveInv ==
  ASSUME ServerInv, NEW t \in Getters, NEW form \in Forms, TokenArrive(t, form)
  PROVE  RequestInv'
<1>1. t \in Requests /\ ServerTypeOK /\ TokenInv(t) /\ pc[t] = "idle" /\ phase[t] = "idle"
  BY DEF Requests, ServerInv, TokenArrive, TokenInv
<1>2. /\ \/ pc'[t] = "done" /\ response'[t] \in Errors
         \/ pc'[t] = "db" /\ Passes(TokenChecks(form)) /\ response'[t] = Nil
      /\ pc' \in [Requests -> {"idle", "db", "redis", "done", "lost"}]
      /\ response' \in [Requests -> Redirects \union Tokens \union Errors \union {Nil}]
      /\ \A o \in Requests \ {t} : pc'[o] = pc[o] /\ response'[o] = response[o]
  <2>1. CASE Refuse(t, TokenChecks(form))
    BY <1>1, <2>1, RefusalTyped, TokenAnswerable
  <2>2. CASE Passes(TokenChecks(form)) /\ Suspend(t, "db")
    BY <1>1, <2>2, SuspensionTyped DEF ServerTypeOK, TokenArrive, TokenInv
  <2> QED
    BY <2>1, <2>2 DEF TokenArrive
<1>3. /\ request' \in [Requests -> Queries \union Forms \union {Nil}] /\ request'[t] = form
      /\ \A o \in Requests \ {t} : request'[o] = request[o]
      /\ UNCHANGED <<saved, clients, edits, seen, wanted, phase, found>>
  BY <1>1 DEF ServerTypeOK, TokenArrive, storeVars
<1>4. ServerTypeOK'
  <2>1. \A u \in Getters : request'[u] \in Forms \union {Nil}
    BY <1>1, <1>3 DEF ServerTypeOK, Requests
  <2>2. \A s \in Setters : request'[s] \in Queries \union {Nil}
    BY <1>1, <1>3, RequestIsEither DEF ServerTypeOK, Requests
  <2> QED
    BY <1>1, <1>2, <1>3, <2>1, <2>2 DEF ServerTypeOK
<1>5. ~IsToken(t)'
  BY <1>2, ResponseKinds DEF IsToken
<1>6. TokenInv(t)' /\ (pc'[t] = "redis" <=> phase'[t] \in {"get", "del"})
  BY <1>1, <1>2, <1>3, <1>5 DEF TokenInv
<1> QED
  BY <1>1, <1>2, <1>3, <1>4, <1>5, <1>6, TokenSteps

LEMMA CodeGrantPassed ==
  ASSUME NEW form \in Forms, NEW client, Passes(CodeGrantChecks(form, client))
  PROVE  client # Nil /\ form.code \in Codes
<1> DEFINE checks == CodeGrantChecks(form, client)
<1>1. /\ checks[2] = Check(client # Nil, "invalid_client")
      /\ checks[4] = Check(WellFormed(form.code), "invalid_request")
      /\ DOMAIN checks = 1..5
  BY DEF CodeGrantChecks
<1>2. checks[2].ok /\ checks[4].ok
  BY <1>1 DEF Passes
<1> HIDE DEF checks
<1>3. Check(client # Nil, "invalid_client").ok /\ Check(WellFormed(form.code), "invalid_request").ok
  BY <1>1, <1>2
<1>4. client # Nil /\ WellFormed(form.code)
  BY <1>3, Zenon DEF Check
<1>5. form \in Form
  BY ServerAssumption DEF ServerConstants
<1> QED
  BY <1>4, <1>5 DEF Form, Parameter, WellFormed

LEMMA ScopeDecoded ==
  ASSUME NEW form \in Forms, Passes(TokenChecks(form))
  PROVE  form.scope \in SUBSET ScopeNames /\ form.code_verifier \in Keys \union {Nil}
<1>1. TokenChecks(form)[2] = Undecodable(form.scope) /\ DOMAIN TokenChecks(form) = 1..5
  BY DEF TokenChecks
<1>2. Undecodable(form.scope).ok
  BY <1>1 DEF Passes
<1>3. form.scope # Malformed
  BY <1>2, Zenon DEF Undecodable
<1>4. form \in Form
  BY ServerAssumption DEF ServerConstants
<1> QED
  BY <1>3, <1>4 DEF Form

LEMMA TokenReadInv ==
  ASSUME ServerInv, NEW t \in Getters, TokenRead(t)
  PROVE  /\ RequestInv'
         /\ UNCHANGED storeVars \/ \E k \in Keys \union {Nil} : Get(t, k)
<1> DEFINE form == request[t]
           client == getClient(form.client_id, form.subdomain)
           holder == getClient(ClientCredentials(form).user, form.subdomain)
<1>1. /\ t \in Requests /\ ServerTypeOK /\ TokenInv(t) /\ StoreTypeOK
      /\ pc[t] = "db" /\ phase[t] = "idle" /\ response[t] = Nil
      /\ form \in Forms /\ Passes(TokenChecks(form))
      /\ UNCHANGED <<clients, edits, request>>
  BY DEF Requests, ServerInv, StoreInv, TokenRead, TokenInv
<1>2. CASE /\ UNCHANGED <<storeVars, seen>>
           /\ pc'[t] = "done" /\ response'[t] \in Tokens \union Errors
           /\ IsToken(t)' => form.grant_type = "client_credentials"
           /\ pc' \in [Requests -> {"idle", "db", "redis", "done", "lost"}]
           /\ response' \in [Requests -> Redirects \union Tokens \union Errors \union {Nil}]
           /\ \A o \in Requests \ {t} : pc'[o] = pc[o] /\ response'[o] = response[o]
  <2>1. ServerTypeOK'
    BY <1>1, <1>2 DEF ServerTypeOK
  <2>2. TokenInv(t)' /\ (pc'[t] = "redis" <=> phase'[t] \in {"get", "del"})
    BY <1>1, <1>2 DEF TokenInv, storeVars
  <2>3. ~(IsToken(t) /\ IsCodeGrant(t))'
    BY <1>1, <1>2 DEF IsCodeGrant
  <2> QED
    BY <1>1, <1>2, <2>1, <2>2, <2>3, TokenSteps DEF storeVars
<1>3. ASSUME NEW checks, Answerable(checks), Refuse(t, checks), UNCHANGED <<storeVars, seen>>
      PROVE  /\ RequestInv'
             /\ UNCHANGED storeVars \/ \E k \in Keys \union {Nil} : Get(t, k)
  <2>1. /\ pc'[t] = "done" /\ response'[t] \in Errors
        /\ pc' \in [Requests -> {"idle", "db", "redis", "done", "lost"}]
        /\ response' \in [Requests -> Redirects \union Tokens \union Errors \union {Nil}]
        /\ \A o \in Requests \ {t} : pc'[o] = pc[o] /\ response'[o] = response[o]
    BY <1>1, <1>3, RefusalTyped
  <2>2. ~IsToken(t)'
    BY <2>1, ResponseKinds DEF IsToken
  <2> QED
    BY <1>2, <1>3, <2>1, <2>2
<1>4. CASE Refuse(t, TokenLookups(form)) /\ UNCHANGED <<storeVars, seen>>
  BY <1>3, <1>4, TokenAnswerable
<1>5. CASE form.grant_type = "authorization_code" /\ CodeGrant(t, form, client)
  <2>1. CASE Refuse(t, CodeGrantChecks(form, client)) /\ UNCHANGED <<storeVars, seen>>
    BY <1>3, <2>1, TokenAnswerable
  <2>2. CASE /\ Passes(CodeGrantChecks(form, client))
             /\ seen' = [seen EXCEPT ![t] = client]
             /\ Get(t, form.code_verifier)
             /\ Suspend(t, "redis")
    <3>1. client \in Rows /\ form.code \in Codes /\ form.code_verifier \in Keys \union {Nil}
      BY <1>1, <2>2, CodeGrantPassed, ClientsAreRows, ScopeDecoded
    <3>2. /\ pc'[t] = "redis" /\ response' = response
          /\ pc' \in [Requests -> {"idle", "db", "redis", "done", "lost"}]
          /\ \A o \in Requests \ {t} : pc'[o] = pc[o]
      BY <1>1, <2>2, SuspensionTyped
    <3>3. /\ phase'[t] = "get" /\ wanted'[t] = form.code_verifier /\ seen'[t] = client
          /\ \A u \in Getters \ {t} :
               /\ seen'[u] = seen[u] /\ wanted'[u] = wanted[u]
               /\ phase'[u] = phase[u] /\ found'[u] = found[u]
          /\ UNCHANGED saved
      BY <1>1, <2>2 DEF Get, StoreTypeOK, ServerTypeOK
    <3>4. seen' \in [Getters -> Rows \union {Nil}]
      BY <1>1, <2>2, <3>1 DEF ServerTypeOK
    <3> HIDE DEF client
    <3>5. ServerTypeOK'
      BY <1>1, <3>2, <3>4 DEF ServerTypeOK
    <3>6. ~IsToken(t)'
      BY <1>1, <3>2 DEF IsToken
    <3>7. TokenInv(t)' /\ (pc'[t] = "redis" <=> phase'[t] \in {"get", "del"})
      BY <1>1, <1>5, <3>1, <3>2, <3>3, <3>6 DEF TokenInv
    <3> QED
      BY <1>1, <2>2, <3>1, <3>2, <3>3, <3>5, <3>6, <3>7, TokenSteps
  <2> QED
    BY <1>5, <2>1, <2>2 DEF CodeGrant
<1>6. CASE form.grant_type = "client_credentials" /\ CredentialGrant(t, form, holder)
  <2>1. UNCHANGED <<storeVars, seen>>
    BY <1>6 DEF CredentialGrant
  <2>2. CASE Refuse(t, CredentialGrantChecks(form, holder))
    BY <1>3, <2>1, <2>2, TokenAnswerable
  <2>3. CASE Answer(t, [kind |-> "token", scope |-> form.scope, refresh |-> FALSE])
    <3>1. [kind |-> "token", scope |-> form.scope, refresh |-> FALSE] \in Tokens
      BY <1>1, ScopeDecoded, TokenTyped
    <3> QED
      BY <1>1, <1>2, <1>6, <2>1, <2>3, <3>1, AnswerTyped
  <2> QED
    BY <1>6, <2>2, <2>3 DEF CredentialGrant
<1> QED
  BY <1>4, <1>5, <1>6 DEF TokenRead

(* An answer to a lookup is heard at the await that is waiting for it.      *)
LEMMA HeardAtItsAwait ==
  ASSUME StoreInv, NEW g \in Getters
  PROVE  /\ ReplyGet(g) => phase[g] = "get"
         /\ ReplyDel(g) => phase[g] = "del"
<1>1. replies # <<>> => queue[1] = Head(queue) /\ 1 \in DOMAIN queue
  BY TailsTyped, LenProperties DEF StoreInv, StoreTypeOK
<1> QED
  BY <1>1 DEF ReplyGet, ReplyDel, Hears, StoreInv, CommandsOfCalls

LEMMA ErrorsAnswered ==
  ASSUME NEW status \in {400, 401, 500}, NEW reason \in Reasons
  PROVE  Error(status, reason) \in Errors
BY DEF Error, Errors, Reasons

LEMMA TokenHearGetInv ==
  ASSUME ServerInv, NEW t \in Getters, TokenHearGet(t)
  PROVE  RequestInv'
<1>1. /\ t \in Requests /\ ServerTypeOK /\ TokenInv(t) /\ StoreTypeOK
      /\ phase[t] = "get" /\ pc[t] = "redis" /\ response[t] = Nil
      /\ UNCHANGED <<clients, edits, request, seen, saved, wanted>>
  BY HeardAtItsAwait
     DEF Requests, ServerInv, StoreInv, TokenHearGet, ReplyGet, TokenInv, WaitsOnlyForItsLookup
<1>2. \A u \in Getters \ {t} : phase'[u] = phase[u] /\ found'[u] = found[u]
  BY <1>1 DEF TokenHearGet, ReplyGet, StoreTypeOK
<1>3. CASE Head(replies) = Nil
  <2>1. Error(400, "invalid_request") \in Errors
    BY ErrorsAnswered DEF Reasons
  <2>2. /\ pc'[t] = "done" /\ response'[t] \in Errors
        /\ pc' \in [Requests -> {"idle", "db", "redis", "done", "lost"}]
        /\ response' \in [Requests -> Redirects \union Tokens \union Errors \union {Nil}]
        /\ \A o \in Requests \ {t} : pc'[o] = pc[o] /\ response'[o] = response[o]
    BY <1>1, <1>3, <2>1, AnswerTyped DEF TokenHearGet
  <2>3. phase'[t] = "done"
    BY <1>1, <1>3 DEF TokenHearGet, ReplyGet, StoreTypeOK
  <2>4. ~IsToken(t)'
    BY <2>2, ResponseKinds DEF IsToken
  <2>5. ServerTypeOK'
    BY <1>1, <2>2 DEF ServerTypeOK
  <2>6. TokenInv(t)' /\ (pc'[t] = "redis" <=> phase'[t] \in {"get", "del"})
    BY <1>1, <2>2, <2>3, <2>4 DEF TokenInv
  <2> QED
    BY <1>1, <1>2, <2>2, <2>4, <2>5, <2>6, TokenSteps
<1>4. CASE Head(replies) # Nil
  <2>1. phase'[t] = "del" /\ UNCHANGED <<pc, response>>
    BY <1>1, <1>4 DEF TokenHearGet, ReplyGet, StoreTypeOK
  <2>2. ~IsToken(t)'
    BY <1>1, <2>1 DEF IsToken
  <2>3. ServerTypeOK'
    BY <1>1, <2>1 DEF ServerTypeOK
  <2>4. TokenInv(t)' /\ (pc'[t] = "redis" <=> phase'[t] \in {"get", "del"})
    BY <1>1, <2>1, <2>2 DEF TokenInv
  <2> QED
    BY <1>1, <1>2, <2>1, <2>2, <2>3, <2>4, TokenSteps
<1> QED
  BY <1>3, <1>4

LEMMA TokenHearDelInv ==
  ASSUME ServerInv, NEW t \in Getters, TokenHearDel(t)
  PROVE  RequestInv'
<1> DEFINE a == found[t]
<1>1. /\ t \in Requests /\ ServerTypeOK /\ TokenInv(t) /\ StoreTypeOK
      /\ phase[t] = "del" /\ pc[t] = "redis"
      /\ request[t] \in Forms /\ wanted[t] = request[t].code_verifier
      /\ UNCHANGED <<clients, edits, request, seen, saved, wanted, found>>
  BY HeardAtItsAwait
     DEF Requests, ServerInv, StoreInv, TokenHearDel, ReplyDel, TokenInv, WaitsOnlyForItsLookup
<1>2. /\ a \in Setters /\ saved[a] \in PKCEState /\ saved[a].verifier = request[t].code_verifier
      /\ IsRedirect(a) /\ response[a].code.challenge = saved[a].challenge
  <2>1. a \in Setters /\ saved[a] # Nil /\ saved[a].verifier = wanted[t]
    BY <1>1 DEF ServerInv, StoreInv, FoundByPhase, FoundUnderWanted, StoreTypeOK, Data
  <2> QED
    BY <1>1, <2>1 DEF ServerInv, AuthorizationInv, StoreTypeOK
<1>3. phase'[t] = "done" /\ \A u \in Getters \ {t} : phase'[u] = phase[u]
  BY <1>1 DEF TokenHearDel, ReplyDel, StoreTypeOK
<1>4. ASSUME pc'[t] = "done", response'[t] \in Tokens \union Errors,
             pc' \in [Requests -> {"idle", "db", "redis", "done", "lost"}],
             response' \in [Requests -> Redirects \union Tokens \union Errors \union {Nil}],
             \A o \in Requests \ {t} : pc'[o] = pc[o] /\ response'[o] = response[o],
             IsToken(t)' => Backs(a, t)'
      PROVE  RequestInv'
  <2>1. ServerTypeOK'
    BY <1>1, <1>4 DEF ServerTypeOK
  <2>2. TokenInv(t)' /\ (pc'[t] = "redis" <=> phase'[t] \in {"get", "del"})
    BY <1>1, <1>3, <1>4 DEF TokenInv
  <2>3. (IsToken(t) => found[t] = a /\ Backs(a, t))'
    BY <1>1, <1>4
  <2> QED
    BY <1>1, <1>2, <1>3, <1>4, <2>1, <2>2, <2>3, TokenSteps
<1>5. CASE Refuse(t, GrantChecks(t, saved[a]))
  <2>1. /\ pc'[t] = "done" /\ response'[t] \in Errors
        /\ pc' \in [Requests -> {"idle", "db", "redis", "done", "lost"}]
        /\ response' \in [Requests -> Redirects \union Tokens \union Errors \union {Nil}]
        /\ \A o \in Requests \ {t} : pc'[o] = pc[o] /\ response'[o] = response[o]
    BY <1>1, <1>5, RefusalTyped, TokenAnswerable
  <2>2. ~IsToken(t)'
    BY <2>1, ResponseKinds DEF IsToken
  <2> QED
    BY <1>4, <2>1, <2>2
<1>6. CASE Passes(GrantChecks(t, saved[a])) /\ Answer(t, Token(joinThenSplit(saved[a].scope)))
  <2>1. Token(joinThenSplit(saved[a].scope)) \in Tokens
    BY <1>2, TokenTyped DEF PKCEState
  <2>2. /\ pc'[t] = "done" /\ response'[t] = Token(joinThenSplit(saved[a].scope))
        /\ pc' \in [Requests -> {"idle", "db", "redis", "done", "lost"}]
        /\ response' \in [Requests -> Redirects \union Tokens \union Errors \union {Nil}]
        /\ \A o \in Requests \ {t} : pc'[o] = pc[o] /\ response'[o] = response[o]
    BY <1>1, <1>6, <2>1, AnswerTyped
  <2>3. response'[a] = response[a]
    BY <1>2, <2>2, RequestIsEither DEF Requests
  <2>4. Backs(a, t)'
    BY <1>1, <1>2, <1>6, <2>2, <2>3, GrantChecksBack
  <2> QED
    BY <1>4, <2>1, <2>2, <2>4
<1> QED
  BY <1>5, <1>6 DEF TokenHearDel

(* The steps that are not one request's.                                    *)
LEMMA ReadFailsInv ==
  ASSUME ServerInv, NEW r \in Requests, ReadFails(r)
  PROVE  RequestInv'
<1>1. /\ ServerTypeOK /\ pc[r] = "db"
      /\ UNCHANGED <<storeVars, clients, edits, request, seen>>
  BY DEF ServerInv, ReadFails
<1>2. Error(500, "internal_error") \in Errors
  BY ErrorsAnswered DEF Reasons
<1>3. /\ pc'[r] = "done" /\ response'[r] \in Errors
      /\ pc' \in [Requests -> {"idle", "db", "redis", "done", "lost"}]
      /\ response' \in [Requests -> Redirects \union Tokens \union Errors \union {Nil}]
      /\ \A o \in Requests \ {r} : pc'[o] = pc[o] /\ response'[o] = response[o]
  BY <1>1, <1>2, AnswerTyped DEF ReadFails
<1>4. ServerTypeOK'
  BY <1>1, <1>3 DEF ServerTypeOK
<1>5. CASE r \in Setters
  <2>1. AuthorizationInv(r) /\ saved[r] = Nil
    BY <1>1, <1>5 DEF ServerInv, AuthorizationInv
  <2>2. AuthorizationInv(r)'
    BY <1>1, <1>3, <2>1 DEF AuthorizationInv, storeVars
  <2> QED
    BY <1>1, <1>3, <1>4, <1>5, <2>2, AuthorizationSteps DEF storeVars
<1>6. CASE r \in Getters
  <2>1. TokenInv(r) /\ phase[r] = "idle"
    BY <1>1, <1>6 DEF ServerInv, TokenInv
  <2>2. ~IsToken(r)'
    BY <1>3, ResponseKinds DEF IsToken
  <2>3. TokenInv(r)' /\ (pc'[r] = "redis" <=> phase'[r] \in {"get", "del"})
    BY <1>1, <1>3, <2>1, <2>2 DEF TokenInv, storeVars
  <2> QED
    BY <1>1, <1>3, <1>4, <1>6, <2>2, <2>3, TokenSteps DEF storeVars
<1> QED
  BY <1>5, <1>6 DEF Requests

(* Whatever is dropped with the queue, no request that was answered and no  *)
(* saved state is touched.                                                 *)
LEMMA FlushInv ==
  ASSUME ServerInv, Flush, UNCHANGED <<clients, edits, request, seen>>,
         pc' \in [Requests -> {"idle", "db", "redis", "done", "lost"}],
         response' \in [Requests -> Redirects \union Tokens \union Errors \union {Nil}],
         \A r \in Requests :
           \/ pc[r] \in {"idle", "done", "lost"} /\ pc'[r] = pc[r] /\ response'[r] = response[r]
           \/ pc[r] = "db" /\ pc'[r] \in {"db", "lost"} /\ response'[r] = response[r]
           \/ pc[r] = "redis" /\ pc'[r] = "done" /\ response'[r] \in Errors
           \/ pc[r] = "redis" /\ pc'[r] = "lost" /\ response'[r] = response[r]
  PROVE  RequestInv'
<1>1. ServerTypeOK'
  BY DEF ServerInv, ServerTypeOK
<1>2. /\ UNCHANGED <<saved, wanted, found>>
      /\ \A t \in Getters : phase'[t] = IF phase[t] \in {"get", "del"} THEN "failed" ELSE phase[t]
  BY DEF Flush
<1>3. ASSUME NEW s \in Setters PROVE AuthorizationInv(s)'
  <2>1. AuthorizationInv(s) /\ s \in Requests
    BY DEF ServerInv, Requests
  <2> QED
    BY <1>2, <2>1 DEF AuthorizationInv, IsRedirect
<1>4. ASSUME NEW t \in Getters
      PROVE  TokenInv(t)' /\ (pc'[t] = "redis" <=> phase'[t] \in {"get", "del"})
  <2>1. TokenInv(t) /\ t \in Requests /\ (pc[t] = "redis" <=> phase[t] \in {"get", "del"})
    BY DEF ServerInv, Requests, WaitsOnlyForItsLookup
  <2>2. IsToken(t)' => IsToken(t) /\ pc[t] # "redis"
    BY <2>1, ResponseKinds DEF TokenInv, IsToken
  <2> QED
    BY <1>2, <2>1, <2>2 DEF TokenInv
<1>5. ASSUME NEW t \in Getters, (IsToken(t) /\ IsCodeGrant(t))'
      PROVE  (\E a \in Setters : found[t] = a /\ Backs(a, t))'
  <2>1. TokenInv(t) /\ t \in Requests
    BY DEF ServerInv, Requests
  <2>2. IsToken(t) /\ IsCodeGrant(t) /\ response'[t] = response[t]
    BY <1>5, <2>1, ResponseKinds DEF TokenInv, IsToken, IsCodeGrant
  <2>3. PICK a \in Setters : found[t] = a /\ Backs(a, t)
    BY <2>2 DEF ServerInv, TokenBackedByGrant
  <2>4. response'[a] = response[a]
    BY <2>3 DEF ServerInv, AuthorizationInv, Backs, Requests
  <2> QED
    BY <1>2, <2>2, <2>3, <2>4 DEF Backs, IsRedirect
<1> QED
  BY <1>1, <1>3, <1>4, <1>5 DEF RequestInv, WaitsOnlyForItsLookup, TokenBackedByGrant

LEMMA CacheGivesUpInv ==
  ASSUME ServerInv, CacheGivesUp
  PROVE  RequestInv'
<1>1. Error(500, "internal_error") \in Errors
  BY ErrorsAnswered DEF Reasons
<1>2. ServerTypeOK
  BY DEF ServerInv
<1>3. pc' \in [Requests -> {"idle", "db", "redis", "done", "lost"}]
  BY <1>2 DEF CacheGivesUp, ServerTypeOK
<1>4. response' \in [Requests -> Redirects \union Tokens \union Errors \union {Nil}]
  BY <1>1, <1>2 DEF CacheGivesUp, ServerTypeOK
<1>5. ASSUME NEW r \in Requests
      PROVE  \/ pc[r] \in {"idle", "done", "lost"} /\ pc'[r] = pc[r] /\ response'[r] = response[r]
             \/ pc[r] = "db" /\ pc'[r] \in {"db", "lost"} /\ response'[r] = response[r]
             \/ pc[r] = "redis" /\ pc'[r] = "done" /\ response'[r] \in Errors
  BY <1>1, <1>2 DEF CacheGivesUp, ServerTypeOK
<1>6. Flush /\ UNCHANGED <<clients, edits, request, seen>>
  BY DEF CacheGivesUp
<1> QED
  BY <1>3, <1>4, <1>5, <1>6, FlushInv

LEMMA CrashInv ==
  ASSUME ServerInv, Crash
  PROVE  RequestInv'
<1>1. ServerTypeOK
  BY DEF ServerInv
<1>2. /\ pc' \in [Requests -> {"idle", "db", "redis", "done", "lost"}]
      /\ response' = response
      /\ \A r \in Requests :
           \/ pc[r] \in {"idle", "done", "lost"} /\ pc'[r] = pc[r]
           \/ pc[r] \in {"db", "redis"} /\ pc'[r] = "lost"
  BY <1>1 DEF Crash, ServerTypeOK
<1>3. response' \in [Requests -> Redirects \union Tokens \union Errors \union {Nil}]
  BY <1>1, <1>2 DEF ServerTypeOK
<1>4. Flush /\ UNCHANGED <<clients, edits, request, seen>>
  BY DEF Crash
<1> QED
  BY <1>2, <1>3, <1>4, FlushInv

LEMMA RequestsUntouched ==
  ASSUME ServerInv, UNCHANGED <<request, pc, response, seen, saved, wanted, phase, found>>,
         clients' \in [ClientIds -> Rows \union {Nil}], edits' \in 0..MaxEdits
  PROVE  RequestInv'
<1>1. ServerTypeOK'
  BY DEF ServerInv, ServerTypeOK
<1>2. (\A s \in Setters : AuthorizationInv(s)') /\ (\A t \in Getters : TokenInv(t)')
  BY DEF ServerInv, AuthorizationInv, TokenInv, IsRedirect, IsToken
<1>3. WaitsOnlyForItsLookup' /\ TokenBackedByGrant'
  BY DEF ServerInv, WaitsOnlyForItsLookup, TokenBackedByGrant, Backs, IsRedirect, IsToken,
         IsCodeGrant
<1> QED
  BY <1>1, <1>2, <1>3 DEF RequestInv

-----------------------------------------------------------------------------
(* What a step of the ledger does to one grant and one lookup.              *)

LEMMA ClosedForGood ==
  ASSUME [Ledger!LedgerNext]_Ledger!ledger, NEW a \in Setters, Standing(a) = "closed"
  PROVE  Standing(a)' = "closed"
<1> DEFINE st == [s \in Setters |-> Standing(s)]
<1>1. st[a] = "closed" => st'[a] = "closed"
  BY DEF Ledger!LedgerNext, Ledger!ledger, Ledger!Open, Ledger!Begin, Ledger!Lapse, Ledger!Claim,
         Ledger!Return, Ledger!Fail, Ledger!Lapsing
<1> QED
  BY <1>1

LEMMA ClaimedWasOpen ==
  ASSUME found \in [Getters -> Data], [Ledger!LedgerNext]_Ledger!ledger,
         NEW g \in Getters, found'[g] # found[g]
  PROVE  found'[g] \in Setters /\ Standing(found'[g]) = "open" /\ Outcome(g) = "pending"
<1> DEFINE st == [s \in Setters |-> Standing(s)]
           oc == [h \in Getters |-> Outcome(h)]
<1>1. PICK h \in Getters, a \in Setters : Ledger!Claim(h, a)
  BY DEF Ledger!LedgerNext, Ledger!ledger, Ledger!Open, Ledger!Begin, Ledger!Lapse,
         Ledger!Return, Ledger!Fail
<1>2. oc[h] = "pending" /\ st[a] = "open" /\ found' = [found EXCEPT ![h] = a]
  BY <1>1 DEF Ledger!Claim
<1>3. h = g /\ found'[g] = a
  BY <1>2
<1> QED
  BY <1>2, <1>3

LEMMA ReturnedWasClosed ==
  ASSUME found \in [Getters -> Data], [Ledger!LedgerNext]_Ledger!ledger,
         NEW g \in Getters, Outcome(g) # "returned", Outcome(g)' = "returned"
  PROVE  UNCHANGED found /\ (found[g] # Nil => Standing(found[g]) = "closed")
<1> DEFINE oc == [h \in Getters |-> Outcome(h)]
<1>1. oc[g] # "returned" /\ oc'[g] = "returned"
  OBVIOUS
<1>2. PICK h \in Getters : Ledger!Return(h) /\ h = g
  BY <1>1 DEF Ledger!LedgerNext, Ledger!ledger, Ledger!Open, Ledger!Begin, Ledger!Lapse,
              Ledger!Claim, Ledger!Return, Ledger!Fail
<1>3. found[g] \in Setters \union {Nil}
  BY DEF Data
<1> QED
  BY <1>2, <1>3 DEF Ledger!Return

LEMMA ClosedPreserved ==
  ASSUME StoreInv, Ledger!ReturnedIsClosed, [Ledger!LedgerNext]_Ledger!ledger,
         found' \in [Getters -> Data]
  PROVE  Ledger!ReturnedIsClosed'
<1> SUFFICES ASSUME NEW g \in Getters, Outcome(g)' = "returned", found'[g] # Nil,
                    NEW a \in Setters, found'[g] = a
             PROVE  Standing(a)' = "closed"
  <2>1. \A g \in Getters, a \in Setters :
          Outcome(g)' = "returned" /\ found'[g] = a => Standing(a)' = "closed"
    BY PKCEAssumption, StoreAssumption DEF StoreConstants
  <2>2. \A g \in Getters : found'[g] \in Setters \union {Nil}
    BY DEF Data
  <2> QED
    BY <2>1, <2>2 DEF Ledger!ReturnedIsClosed
<1>1. found \in [Getters -> Data]
  BY DEF StoreInv, StoreTypeOK
<1>2. CASE Outcome(g) = "returned"
  <2>1. found[g] = a
    BY <1>1, <1>2, ClaimedWasOpen
  <2>2. Standing(a) = "closed"
    BY <1>2, <2>1, StoreAssumption DEF Ledger!ReturnedIsClosed, StoreConstants
  <2> QED
    BY <2>2, ClosedForGood
<1>3. CASE Outcome(g) # "returned"
  <2>1. found[g] = a /\ Standing(a) = "closed"
    BY <1>1, <1>3, ReturnedWasClosed
  <2> QED
    BY <2>1, ClosedForGood
<1> QED
  BY <1>2, <1>3

-----------------------------------------------------------------------------
(* Every step of the server is a step of the store or leaves it alone, and  *)
(* preserves the invariant.                                                *)

LEMMA ServerSteps ==
  ASSUME ServerInv, [Next]_vars
  PROVE  RequestInv' /\ [StoreNext]_storeVars
<1>0. clients \in [ClientIds -> Rows \union {Nil}] /\ edits \in 0..MaxEdits
  BY DEF ServerInv, ServerTypeOK
<1>1. ASSUME NEW s \in Setters, NEW q \in Queries, AuthorizeArrive(s, q)
      PROVE  RequestInv' /\ UNCHANGED storeVars
  BY <1>1, AuthorizeArriveInv DEF AuthorizeArrive
<1>2. ASSUME NEW t \in Getters, NEW form \in Forms, TokenArrive(t, form)
      PROVE  RequestInv' /\ UNCHANGED storeVars
  BY <1>2, TokenArriveInv DEF TokenArrive
<1>3. ASSUME NEW s \in Setters, AuthorizeRead(s)
      PROVE  RequestInv' /\ [StoreNext]_storeVars
  BY <1>3, AuthorizeReadInv DEF StoreNext
<1>4. ASSUME NEW t \in Getters, TokenRead(t)
      PROVE  RequestInv' /\ [StoreNext]_storeVars
  BY <1>4, TokenReadInv DEF StoreNext
<1>5. ASSUME NEW s \in Setters, ReplySetex(s), UNCHANGED serverVars
      PROVE  RequestInv' /\ StoreNext
  BY <1>0, <1>5, RequestsUntouched DEF ReplySetex, serverVars, StoreNext, Hear
<1>6. ASSUME NEW t \in Getters, TokenHearGet(t)
      PROVE  RequestInv' /\ StoreNext
  BY <1>6, TokenHearGetInv DEF TokenHearGet, StoreNext, Hear
<1>7. ASSUME NEW t \in Getters, TokenHearDel(t)
      PROVE  RequestInv' /\ StoreNext
  BY <1>7, TokenHearDelInv DEF TokenHearDel, StoreNext, Hear
<1>8. CASE (Execute \/ Tick \/ ConnectionLost) /\ UNCHANGED serverVars
  <2>1. UNCHANGED <<saved, wanted, phase, found>>
    BY <1>8 DEF Execute, ExecSetex, ExecGet, ExecDel, Tick, ConnectionLost
  <2> QED
    BY <1>0, <1>8, <2>1, RequestsUntouched DEF serverVars, StoreNext
<1>9. ASSUME NEW r \in Requests, ReadFails(r)
      PROVE  RequestInv' /\ UNCHANGED storeVars
  BY <1>9, ReadFailsInv DEF ReadFails
<1>10. CASE CacheGivesUp
  BY <1>10, CacheGivesUpInv DEF CacheGivesUp, StoreNext
<1>11. CASE Crash
  BY <1>11, CrashInv DEF Crash, StoreNext
<1>12. ASSUME NEW c \in ClientIds, NEW row \in Rows \union {Nil}, EditClient(c, row)
       PROVE  RequestInv' /\ UNCHANGED storeVars
  <2>1. clients' \in [ClientIds -> Rows \union {Nil}]
    BY <1>0, <1>12 DEF EditClient
  <2>2. edits' \in 0..MaxEdits
    BY <1>0, <1>12, ServerAssumption DEF EditClient, ServerConstants
  <2>3. UNCHANGED <<storeVars, request, pc, response, seen>>
    BY <1>12 DEF EditClient
  <2> QED
    BY <2>1, <2>2, <2>3, RequestsUntouched DEF storeVars
<1>13. CASE UNCHANGED vars
  BY <1>0, <1>13, RequestsUntouched DEF vars, storeVars, serverVars
<1> QED
  BY <1>1, <1>2, <1>3, <1>4, <1>5, <1>6, <1>7, <1>8, <1>9, <1>10, <1>11, <1>12, <1>13
     DEF Next, Handle, HearAnswer

LEMMA ServerInvPreserved == ServerInv /\ [Next]_vars => ServerInv'
<1> SUFFICES ASSUME ServerInv, [Next]_vars PROVE ServerInv'
  OBVIOUS
<1>1. RequestInv' /\ [StoreNext]_storeVars
  BY ServerSteps
<1>2. StoreInv' /\ [Ledger!LedgerNext]_Ledger!ledger
  BY <1>1, StoreInvPreserved, StepsOfTheLedger DEF ServerInv
<1>3. Ledger!ReturnedIsClosed'
  BY <1>2, ClosedPreserved DEF ServerInv, StoreInv, StoreTypeOK
<1> QED
  BY <1>1, <1>2, <1>3 DEF ServerInv, RequestInv

LEMMA ServerInitially == Init => ServerInv
<1> SUFFICES ASSUME Init PROVE ServerInv
  OBVIOUS
<1>1. StoreInv
  BY StoreInitInv DEF Init
<1>2. ServerTypeOK
  BY ServerAssumption DEF Init, ServerInit, ServerTypeOK, ServerConstants, Requests
<1>3. (\A s \in Setters : AuthorizationInv(s)) /\ (\A t \in Getters : TokenInv(t))
  BY DEF Init, StoreInit, ServerInit, AuthorizationInv, TokenInv, IsToken, Requests
<1>4. WaitsOnlyForItsLookup /\ TokenBackedByGrant
  BY DEF Init, StoreInit, ServerInit, WaitsOnlyForItsLookup, TokenBackedByGrant, IsToken, Requests
<1>5. Ledger!ReturnedIsClosed
  BY DEF Init, StoreInit, Ledger!ReturnedIsClosed
<1> QED
  BY <1>1, <1>2, <1>3, <1>4, <1>5 DEF ServerInv

-----------------------------------------------------------------------------
(* The variables of the server keep their types.                            *)
THEOREM ServerTypeCorrect == Spec => []ServerTypeOK
BY ServerInitially, ServerInvPreserved, PTL DEF Spec, ServerInv

(* http.ts and index.ts: a request waits on Redis exactly while its lookup  *)
(* is under way, through every failure of connection and process.          *)
THEOREM WaitsForLookups == Spec => []WaitsOnlyForItsLookup
BY ServerInitially, ServerInvPreserved, PTL DEF Spec, ServerInv

(* index.ts:24-75: a request that waits on Redis has the command that will  *)
(* resume it in line, through every failure of connection and process.      *)
THEOREM RequestsAreInLine ==
  Spec => [](\A t \in Getters : pc[t] = "redis" => \E i \in DOMAIN queue : queue[i] = Awaited(t))
<1>1. Init => NoCallWaitsInVain
  BY DEF Init, StoreInit, NoCallWaitsInVain
<1>2. ServerInv /\ NoCallWaitsInVain /\ [Next]_vars => NoCallWaitsInVain'
  BY ServerSteps, NotInVainKept DEF ServerInv
<1>3. ServerInv /\ NoCallWaitsInVain =>
        \A t \in Getters : pc[t] = "redis" => \E i \in DOMAIN queue : queue[i] = Awaited(t)
  BY DEF ServerInv, WaitsOnlyForItsLookup, NoCallWaitsInVain
<1> QED
  BY <1>1, <1>2, <1>3, ServerInitially, ServerInvPreserved, PTL DEF Spec

(* What that command waits for itself gets less with every answer heard,    *)
(* whatever other requests do; only a failure of the connection adds to it. *)
THEOREM RequestsComeCloser == Spec => AnswersComeCloser
<1>1. ServerInv /\ [Next]_vars =>
        [\A g \in Getters, i \in DOMAIN queue, j \in DOMAIN queue' :
           queue[i] = Awaited(g) /\ queue'[j] = Awaited(g) =>
             /\ j <= i
             /\ faults' = faults => StepsAhead(j)' <= StepsAhead(i)
             /\ Hear \/ (Execute /\ Len(replies) < i) => StepsAhead(j)' < StepsAhead(i)]_storeVars
  BY ServerSteps, StepComesCloser DEF ServerInv
<1> QED
  BY <1>1, ServerInitially, ServerInvPreserved, PTL DEF Spec, AnswersComeCloser

(* authorization-code.ts:49-86: every token of the code grant is backed by  *)
(* one authorization, to the client and for the scope that was granted.    *)
THEOREM TokensAreBacked == Spec => []TokenBackedByGrant
BY ServerInitially, ServerInvPreserved, PTL DEF Spec, ServerInv

(* The server keeps the promise of GrantLedger: no handler uses the store   *)
(* in a way that breaks it.                                                *)
THEOREM ServerImplementsLedger == Spec => LedgerKept
<1>1. Init => Ledger!LedgerInit
  BY InitOpensNothing DEF Init
<1>2. ServerInv /\ [Next]_vars => [Ledger!LedgerNext]_Ledger!ledger
  BY ServerSteps, StepsOfTheLedger DEF ServerInv
<1> QED
  BY <1>1, <1>2, ServerInitially, ServerInvPreserved, PTL DEF Spec, LedgerKept, Ledger!LedgerSpec

(* pkce-state-store.ts:27-29: once a token is out for an authorization, no  *)
(* lookup finds its state again.                                           *)
THEOREM NoLookupFindsASpentGrant == Spec => NoLookupAfterToken
<1> DEFINE Spent == \A t, u \in Getters :
             IsToken(t) /\ found[t] # Nil /\ found[u] # found[t] => found'[u] # found[t]
<1>1. ASSUME ServerInv, [Next]_vars PROVE [Spent]_vars
  <2> SUFFICES ASSUME NEW t \in Getters, NEW u \in Getters, IsToken(t), found[t] # Nil,
                      found[u] # found[t], found'[u] = found[t]
               PROVE  FALSE
    OBVIOUS
  <2>1. found \in [Getters -> Data] /\ found[t] \in Setters
    BY <1>1 DEF ServerInv, StoreInv, StoreTypeOK, Data
  <2>2. [Ledger!LedgerNext]_Ledger!ledger
    BY <1>1, ServerSteps, StepsOfTheLedger DEF ServerInv
  <2>3. phase[t] = "done"
    BY <1>1, <2>1 DEF ServerInv, TokenInv, StoreInv, FoundByPhase
  <2>4. Outcome(t) = "returned"
    BY <2>3 DEF Outcome
  <2>5. Standing(found[t]) = "closed"
    BY <1>1, <2>1, <2>4 DEF ServerInv, Ledger!ReturnedIsClosed
  <2>6. Standing(found[t]) = "open"
    BY <2>1, <2>2, ClaimedWasOpen
  <2> QED
    BY <2>5, <2>6
<1> QED
  BY <1>1, ServerInitially, ServerInvPreserved, PTL DEF Spec, NoLookupAfterToken
=============================================================================
