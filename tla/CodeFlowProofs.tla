---------------------------- MODULE CodeFlowProofs ----------------------------
(***************************************************************************)
(* AuthorizationServer implements CodeFlow: whatever the interleaving of   *)
(* requests, the failures and the edits, the client is told what is        *)
(* stored, a token is issued once, for a grant that is closed by then, and *)
(* it has the scope that was authorized.                                   *)
(***************************************************************************)
EXTENDS AuthorizationServerProofs

(* The variables of the flow that are not the ledger's.                     *)
Said == <<saved, [s \in Setters |-> Told(s)], [t \in Getters |-> Asked(t)],
          [t \in Getters |-> Issued(t)]>>

CodeToken(t) == IsToken(t) /\ IsCodeGrant(t)

-----------------------------------------------------------------------------
(* The actions of the ledger are the same ones in the flow.                 *)

LEMMA SameLedger ==
  /\ Ledger!LedgerInit => Flow!LedgerInit
  /\ \A s \in Setters : Ledger!Open(s) => Flow!Open(s)
  /\ \A t \in Getters : Ledger!Begin(t) => Flow!Begin(t)
  /\ \A t \in Getters : Ledger!Return(t) => Flow!Return(t)
  /\ \A t \in Getters, s \in Setters : Ledger!Claim(t, s) => Flow!Claim(t, s)
  /\ Ledger!Lapse => Flow!Lapse
  /\ \A G \in SUBSET Getters, S \in SUBSET Setters : Ledger!Fail(G, S) => Flow!Fail(G, S)
<1>1. \A S : Ledger!Lapsing(S) <=> Flow!Lapsing(S)
  BY DEF Ledger!Lapsing, Flow!Lapsing
<1>2. Ledger!LedgerInit => Flow!LedgerInit
  BY DEF Ledger!LedgerInit, Flow!LedgerInit
<1>3. \A s \in Setters : Ledger!Open(s) => Flow!Open(s)
  BY DEF Ledger!Open, Flow!Open
<1>4. \A t \in Getters : Ledger!Begin(t) => Flow!Begin(t)
  BY DEF Ledger!Begin, Flow!Begin
<1>5. \A t \in Getters : Ledger!Return(t) => Flow!Return(t)
  BY DEF Ledger!Return, Flow!Return
<1>6. \A t \in Getters, s \in Setters : Ledger!Claim(t, s) => Flow!Claim(t, s)
  BY <1>1 DEF Ledger!Claim, Flow!Claim
<1>7. Ledger!Lapse => Flow!Lapse
  BY <1>1 DEF Ledger!Lapse, Flow!Lapse
<1>8. \A G \in SUBSET Getters, S \in SUBSET Setters : Ledger!Fail(G, S) => Flow!Fail(G, S)
  BY <1>1 DEF Ledger!Fail, Flow!Fail
<1> QED
  BY <1>2, <1>3, <1>4, <1>5, <1>6, <1>7, <1>8

LEMMA StoreQuiet ==
  ASSUME UNCHANGED storeVars, UNCHANGED Said
  PROVE  UNCHANGED Flow!flow
BY DEF storeVars, Said, Flow!flow, Flow!ledger, Standing, Outcome, InReach, SetexPending, Stored,
       Carried

LEMMA LapseUnspoken ==
  ASSUME StoreInv, Execute \/ Tick \/ ConnectionLost \/ (\E s \in Setters : ReplySetex(s)),
         UNCHANGED Said
  PROVE  Flow!FlowNext
BY OthersLapse, SameLedger DEF Flow!FlowNext, Flow!Unspoken, Said

LEMMA FailUnspoken ==
  ASSUME StoreInv, Flush, UNCHANGED Said
  PROVE  Flow!FlowNext
BY FlushFails, SameLedger DEF Flow!FlowNext, Flow!Unspoken, Said

-----------------------------------------------------------------------------
(* What a step leaves unsaid.                                               *)

ToldAsBefore(s) ==
  response'[s] = response[s] \/ ~(IsRedirect(s) \/ IsRedirect(s)')

AskedAsBefore(t) ==
  \/ phase[t] = "idle" /\ phase'[t] = "idle"
  \/ request'[t] = request[t] /\ phase[t] # "idle" /\ phase'[t] # "idle"

IssuedAsBefore(t) ==
  \/ request'[t] = request[t] /\ response'[t] = response[t]
  \/ ~(CodeToken(t) \/ CodeToken(t)')

LEMMA ToldKept ==
  ASSUME NEW s \in Setters, ToldAsBefore(s)
  PROVE  Told(s)' = Told(s)
BY DEF ToldAsBefore, Told, IsRedirect

LEMMA AskedKept ==
  ASSUME NEW t \in Getters, AskedAsBefore(t)
  PROVE  Asked(t)' = Asked(t)
BY DEF AskedAsBefore, Asked

LEMMA IssuedKept ==
  ASSUME NEW t \in Getters, IssuedAsBefore(t)
  PROVE  Issued(t)' = Issued(t)
BY DEF IssuedAsBefore, Issued, CodeToken, IsToken, IsCodeGrant

LEMMA Unsaid ==
  ASSUME UNCHANGED saved, \A s \in Setters : ToldAsBefore(s),
         \A t \in Getters : AskedAsBefore(t), \A t \in Getters : IssuedAsBefore(t)
  PROVE  UNCHANGED Said
<1>1. \A s \in Setters : Told(s)' = Told(s)
  BY ToldKept
<1>2. \A t \in Getters : Asked(t)' = Asked(t)
  BY AskedKept
<1>3. \A t \in Getters : Issued(t)' = Issued(t)
  BY IssuedKept
<1> HIDE DEF Told, Asked, Issued
<1>4. UNCHANGED [s \in Setters |-> Told(s)]
  BY <1>1
<1>5. UNCHANGED [t \in Getters |-> Asked(t)]
  BY <1>2
<1>6. UNCHANGED [t \in Getters |-> Issued(t)]
  BY <1>3
<1> QED
  BY <1>4, <1>5, <1>6 DEF Said

(* A step of one request that is refused, or goes on without a word.        *)
LEMMA UnsaidByOne ==
  ASSUME ServerInv, NEW r \in Requests, pc[r] # "done",
         response'[r] \in Errors \union {Nil} \/ (r \in Getters /\ ~CodeToken(r)'),
         \A o \in Requests \ {r} : request'[o] = request[o] /\ response'[o] = response[o],
         UNCHANGED saved, \A t \in Getters : AskedAsBefore(t)
  PROVE  UNCHANGED Said
<1>1. response[r] = Nil
  BY DEF ServerInv, AuthorizationInv, TokenInv, Requests
<1>2. ASSUME NEW s \in Setters PROVE ToldAsBefore(s)
  <2>1. s \in Requests
    BY DEF Requests
  <2>2. CASE s # r
    BY <2>1, <2>2 DEF ToldAsBefore
  <2>3. CASE s = r
    <3>1. response'[s] \in Errors \union {Nil}
      BY <2>3, RequestIsEither
    <3> QED
      BY <1>1, <2>3, <3>1, ResponseKinds DEF ToldAsBefore, IsRedirect
  <2> QED
    BY <2>2, <2>3
<1>3. ASSUME NEW t \in Getters PROVE IssuedAsBefore(t)
  <2>1. t \in Requests
    BY DEF Requests
  <2>2. CASE t # r
    BY <2>1, <2>2 DEF IssuedAsBefore
  <2>3. CASE t = r
    BY <1>1, <2>3, ResponseKinds DEF IssuedAsBefore, CodeToken, IsToken
  <2> QED
    BY <2>2, <2>3
<1> QED
  BY <1>2, <1>3, Unsaid

-----------------------------------------------------------------------------
(* Steps without a word that leave the store alone.                         *)

LEMMA AuthorizeArriveQuiet ==
  ASSUME ServerInv, NEW s \in Setters, NEW q \in Queries, AuthorizeArrive(s, q)
  PROVE  UNCHANGED Flow!flow
<1>1. /\ s \in Requests /\ ServerTypeOK /\ pc[s] = "idle" /\ response[s] = Nil
      /\ UNCHANGED storeVars /\ request' = [request EXCEPT ![s] = q]
  BY DEF Requests, ServerInv, AuthorizeArrive, AuthorizationInv
<1>2. /\ response'[s] \in Errors \union {Nil}
      /\ \A o \in Requests \ {s} : response'[o] = response[o]
  <2>1. CASE Refuse(s, AuthorizeChecks(q))
    BY <1>1, <2>1, RefusalTyped, AuthorizeAnswerable
  <2>2. CASE Suspend(s, "db")
    BY <1>1, <2>2 DEF Suspend
  <2> QED
    BY <2>1, <2>2 DEF AuthorizeArrive
<1>3. \A o \in Requests \ {s} : request'[o] = request[o]
  BY <1>1 DEF ServerTypeOK
<1>4. \A t \in Getters : AskedAsBefore(t)
  BY <1>1, <1>3, RequestIsEither DEF AskedAsBefore, storeVars
<1>5. UNCHANGED Said
  BY <1>1, <1>2, <1>3, <1>4, UnsaidByOne DEF storeVars
<1> QED
  BY <1>1, <1>5, StoreQuiet

LEMMA TokenArriveQuiet ==
  ASSUME ServerInv, NEW t \in Getters, NEW form \in Forms, TokenArrive(t, form)
  PROVE  UNCHANGED Flow!flow
<1>1. /\ t \in Requests /\ ServerTypeOK /\ pc[t] = "idle" /\ response[t] = Nil
      /\ phase[t] = "idle"
      /\ UNCHANGED storeVars /\ request' = [request EXCEPT ![t] = form]
  BY DEF Requests, ServerInv, TokenArrive, TokenInv
<1>2. /\ response'[t] \in Errors \union {Nil}
      /\ \A o \in Requests \ {t} : response'[o] = response[o]
  <2>1. CASE Refuse(t, TokenChecks(form))
    BY <1>1, <2>1, RefusalTyped, TokenAnswerable
  <2>2. CASE Suspend(t, "db")
    BY <1>1, <2>2 DEF Suspend
  <2> QED
    BY <2>1, <2>2 DEF TokenArrive
<1>3. \A o \in Requests \ {t} : request'[o] = request[o]
  BY <1>1 DEF ServerTypeOK
<1>4. \A u \in Getters : AskedAsBefore(u)
  BY <1>1, <1>3 DEF AskedAsBefore, storeVars, Requests
<1>5. UNCHANGED Said
  BY <1>1, <1>2, <1>3, <1>4, UnsaidByOne DEF storeVars
<1> QED
  BY <1>1, <1>5, StoreQuiet

(* A handler that ends at its reads: refused, failed, or with a token that  *)
(* is not of the code grant.                                               *)
LEMMA EndsAtReads ==
  ASSUME ServerInv, NEW r \in Requests, pc[r] = "db", UNCHANGED <<storeVars, request>>,
         response'[r] \in Errors \/ (r \in Getters /\ ~CodeToken(r)'),
         \A o \in Requests \ {r} : response'[o] = response[o]
  PROVE  UNCHANGED Flow!flow
<1>1. \A t \in Getters : AskedAsBefore(t)
  BY DEF AskedAsBefore, storeVars
<1>2. UNCHANGED Said
  BY <1>1, UnsaidByOne DEF storeVars
<1> QED
  BY <1>2, StoreQuiet

LEMMA ReadFailsQuiet ==
  ASSUME ServerInv, NEW r \in Requests, ReadFails(r)
  PROVE  UNCHANGED Flow!flow
<1>1. Error(500, "internal_error") \in Errors
  BY ErrorsAnswered DEF Reasons
<1>2. response'[r] \in Errors /\ \A o \in Requests \ {r} : response'[o] = response[o]
  BY <1>1, AnswerTyped DEF ServerInv, ReadFails
<1> QED
  BY <1>2, EndsAtReads DEF ReadFails

(* What is not said by a request.                                           *)
LEMMA AllQuiet ==
  ASSUME UNCHANGED <<request, response, saved, phase>>
  PROVE  UNCHANGED Said
<1>1. \A s \in Setters : ToldAsBefore(s)
  BY DEF ToldAsBefore
<1>2. \A t \in Getters : AskedAsBefore(t) /\ IssuedAsBefore(t)
  BY DEF AskedAsBefore, IssuedAsBefore
<1> QED
  BY <1>1, <1>2, Unsaid

LEMMA FlushUnspoken ==
  ASSUME ServerInv, CacheGivesUp \/ Crash
  PROVE  Flow!FlowNext
<1>1. /\ Flush /\ UNCHANGED <<request, saved>>
      /\ \A t \in Getters : phase'[t] = IF phase[t] \in {"get", "del"} THEN "failed" ELSE phase[t]
  BY DEF CacheGivesUp, Crash, Flush
<1>2. Error(500, "internal_error") \in Errors
  BY ErrorsAnswered DEF Reasons
<1>3. \A r \in Requests : response'[r] = response[r] \/ (pc[r] = "redis" /\ response'[r] \in Errors)
  BY <1>2 DEF CacheGivesUp, Crash
<1>4. ASSUME NEW s \in Setters PROVE ToldAsBefore(s)
  <2>1. s \in Requests /\ pc[s] # "redis"
    BY DEF ServerInv, AuthorizationInv, Requests
  <2> QED
    BY <1>3, <2>1 DEF ToldAsBefore
<1>5. ASSUME NEW t \in Getters PROVE AskedAsBefore(t)
  BY <1>1 DEF AskedAsBefore
<1>6. ASSUME NEW t \in Getters PROVE IssuedAsBefore(t)
  <2>1. t \in Requests /\ (pc[t] = "redis" => response[t] = Nil)
    BY DEF ServerInv, TokenInv, Requests
  <2>2. CASE response'[t] = response[t]
    BY <1>1, <2>2 DEF IssuedAsBefore
  <2>3. CASE response[t] = Nil /\ response'[t] \in Errors
    BY <2>3, ResponseKinds DEF IssuedAsBefore, CodeToken, IsToken
  <2> QED
    BY <1>3, <2>1, <2>2, <2>3
<1>7. UNCHANGED Said
  BY <1>1, <1>4, <1>5, <1>6, Unsaid
<1> QED
  BY <1>1, <1>7, FailUnspoken DEF ServerInv

-----------------------------------------------------------------------------
(* The redirect: a grant is opened, and the client told of it.              *)

LEMMA AuthorizeReadFlow ==
  ASSUME ServerInv, NEW s \in Setters, AuthorizeRead(s)
  PROVE  [Flow!FlowNext]_Flow!flow
<1> DEFINE q == request[s]
           client == getClient(q.client_id, q.subdomain)
           state == pkceStateOf(q)
<1>1. /\ s \in Requests /\ ServerTypeOK /\ AuthorizationInv(s) /\ StoreTypeOK
      /\ pc[s] = "db" /\ saved[s] = Nil /\ response[s] = Nil
      /\ q \in Queries /\ Passes(AuthorizeChecks(q))
      /\ UNCHANGED request
  BY DEF Requests, ServerInv, StoreInv, AuthorizeRead, AuthorizationInv
<1>2. CASE Refuse(s, AuthorizeLookups(q)) \/ Refuse(s, CodeResponseChecks(q, client))
  <2>1. response'[s] \in Errors /\ \A o \in Requests \ {s} : response'[o] = response[o]
    BY <1>1, <1>2, RefusalTyped, AuthorizeAnswerable
  <2>2. UNCHANGED storeVars
    BY <1>1, <1>2 DEF AuthorizeRead, CodeResponse, Refuse
  <2> QED
    BY <1>1, <2>1, <2>2, EndsAtReads
<1>3. CASE /\ Passes(AuthorizeLookups(q)) /\ Passes(CodeResponseChecks(q, client))
           /\ Set(s, state)
           /\ Answer(s, [kind |-> "redirect", state |-> q.state,
                         redirect_uri |-> q.redirect_uri,
                         code |-> createAuthorizationCode(state, client.client_secret)])
  <2> DEFINE res == [kind |-> "redirect", state |-> q.state,
                     redirect_uri |-> q.redirect_uri,
                     code |-> createAuthorizationCode(state, client.client_secret)]
  <2>1. state \in PKCEState
    BY <1>1, <1>3, LookupsPassed, SavedStateTyped
  <2>2. state.verifier = q.state /\ state.redirect_uri = q.redirect_uri
    BY DEF pkceStateOf
  <2>3. /\ res.kind = "redirect" /\ res.state = state.verifier
        /\ res.redirect_uri = state.redirect_uri /\ res.code.challenge = state.challenge
    BY <2>2 DEF createAuthorizationCode
  <2>4. res # Nil
    <3>1. client # Nil
      BY <1>3, LookupsPassed
    <3>2. client \in Rows
      BY <1>1, <3>1, ClientsAreRows
    <3>3. res \in Redirects
      BY <2>1, <2>2, <3>2, RedirectTyped
    <3> QED
      BY <3>3, ResponseKinds
  <2>5. response' = [response EXCEPT ![s] = res]
    BY <1>3 DEF Answer
  <2>6. saved' = [saved EXCEPT ![s] = state] /\ UNCHANGED phase
    BY <1>3 DEF Set
  <2>7. Flow!Open(s)
    BY <1>3, <2>1, SetOpens, SameLedger DEF ServerInv
  <2> HIDE DEF res, state, client, q
  <2>8. response'[s] = res /\ \A o \in Requests \ {s} : response'[o] = response[o]
    BY <1>1, <2>5 DEF ServerTypeOK
  <2>9. Told(s)' = Flow!Telling(state)
    BY <2>3, <2>4, <2>8 DEF Told, IsRedirect, Flow!Telling
  <2>10. \A a \in Setters \ {s} : Told(a)' = Told(a)
    <3>1. \A a \in Setters \ {s} : ToldAsBefore(a)
      BY <2>8 DEF ToldAsBefore, Requests
    <3> QED
      BY <3>1, ToldKept
  <2>11. \A t \in Getters : Asked(t)' = Asked(t) /\ Issued(t)' = Issued(t)
    <3>1. \A t \in Getters : AskedAsBefore(t) /\ IssuedAsBefore(t)
      BY <1>1, <2>6, <2>8, RequestIsEither DEF AskedAsBefore, IssuedAsBefore
    <3> QED
      BY <3>1, AskedKept, IssuedKept
  <2> HIDE DEF Told, Asked, Issued
  <2>12. [a \in Setters |-> Told(a)]'
           = [[a \in Setters |-> Told(a)] EXCEPT ![s] = Flow!Telling(state)]
    BY <2>9, <2>10
  <2>13. UNCHANGED [t \in Getters |-> Asked(t)] /\ UNCHANGED [t \in Getters |-> Issued(t)]
    BY <2>11
  <2>14. Flow!Authorize(s, state)
    BY <2>6, <2>7, <2>12, <2>13 DEF Flow!Authorize
  <2> QED
    BY <2>1, <2>14 DEF Flow!FlowNext
<1> QED
  BY <1>2, <1>3 DEF AuthorizeRead, CodeResponse

-----------------------------------------------------------------------------
(* The lookup begins: the request asks with what is in its form.            *)

LEMMA AskedTyped ==
  ASSUME NEW form \in Forms, Passes(TokenChecks(form)), NEW client,
         Passes(CodeGrantChecks(form, client))
  PROVE  [client_id |-> form.client_id, redirect_uri |-> form.redirect_uri,
          code_verifier |-> form.code_verifier, challenge |-> form.code.challenge] \in Asks
<1>1. form \in Form
  BY ServerAssumption DEF ServerConstants
<1>2. form.redirect_uri \in Uris \union {Nil} /\ form.code_verifier \in Keys \union {Nil}
  BY <1>1 DEF Form
<1>3. form.code.challenge \in Challenges
  <2>1. form.code \in Codes
    BY CodeGrantPassed
  <2> QED
    BY <2>1 DEF Codes
<1>4. form.client_id \in ClientIds
  <2> DEFINE checks == CodeGrantChecks(form, client)
  <2>1. /\ checks[1] = Check(WellFormed(form.client_id), "invalid_client")
        /\ DOMAIN checks = 1..5
    BY DEF CodeGrantChecks
  <2>2. checks[1].ok
    BY <2>1 DEF Passes
  <2> HIDE DEF checks
  <2>3. Check(WellFormed(form.client_id), "invalid_client").ok
    BY <2>1, <2>2
  <2>4. WellFormed(form.client_id)
    BY <2>3, Zenon DEF Check
  <2> QED
    BY <1>1, <2>4 DEF Form, Parameter, WellFormed
<1> QED
  BY <1>2, <1>3, <1>4 DEF Asks

LEMMA TokenReadFlow ==
  ASSUME ServerInv, NEW t \in Getters, TokenRead(t)
  PROVE  [Flow!FlowNext]_Flow!flow
<1> DEFINE form == request[t]
           client == getClient(form.client_id, form.subdomain)
           holder == getClient(ClientCredentials(form).user, form.subdomain)
<1>1. /\ t \in Requests /\ ServerTypeOK /\ TokenInv(t) /\ StoreTypeOK
      /\ pc[t] = "db" /\ phase[t] = "idle" /\ response[t] = Nil
      /\ form \in Forms /\ Passes(TokenChecks(form))
      /\ UNCHANGED request
  BY DEF Requests, ServerInv, StoreInv, TokenRead, TokenInv
<1>2. ASSUME NEW checks, Answerable(checks), Refuse(t, checks), UNCHANGED storeVars
      PROVE  UNCHANGED Flow!flow
  <2>1. response'[t] \in Errors /\ \A o \in Requests \ {t} : response'[o] = response[o]
    BY <1>1, <1>2, RefusalTyped
  <2> QED
    BY <1>1, <1>2, <2>1, EndsAtReads
<1>3. CASE Refuse(t, TokenLookups(form)) /\ UNCHANGED <<storeVars, seen>>
  BY <1>2, <1>3, TokenAnswerable
<1>4. CASE form.grant_type = "authorization_code" /\ CodeGrant(t, form, client)
  <2>1. CASE Refuse(t, CodeGrantChecks(form, client)) /\ UNCHANGED <<storeVars, seen>>
    BY <1>2, <2>1, TokenAnswerable
  <2>2. CASE /\ Passes(CodeGrantChecks(form, client))
             /\ Get(t, form.code_verifier)
             /\ Suspend(t, "redis")
    <3> DEFINE ask == [client_id |-> form.client_id, redirect_uri |-> form.redirect_uri,
                       code_verifier |-> form.code_verifier, challenge |-> form.code.challenge]
    <3>1. ask \in Asks
      BY <1>1, <2>2, AskedTyped
    <3>2. Flow!Begin(t)
      BY <1>1, <2>2, ScopeDecoded, GetBegins, SameLedger DEF ServerInv
    <3>3. /\ response' = response /\ UNCHANGED saved
          /\ phase'[t] = "get" /\ \A u \in Getters \ {t} : phase'[u] = phase[u]
      BY <1>1, <2>2 DEF Suspend, Get, StoreTypeOK
    <3>4. Asked(t)' = ask
      BY <1>1, <3>3 DEF Asked
    <3>5. \A u \in Getters \ {t} : Asked(u)' = Asked(u)
      <4>1. \A u \in Getters \ {t} : AskedAsBefore(u)
        BY <1>1, <3>3 DEF AskedAsBefore
      <4> QED
        BY <4>1, AskedKept
    <3>6. (\A s \in Setters : Told(s)' = Told(s)) /\ (\A u \in Getters : Issued(u)' = Issued(u))
      <4>1. (\A s \in Setters : ToldAsBefore(s)) /\ (\A u \in Getters : IssuedAsBefore(u))
        BY <1>1, <3>3 DEF ToldAsBefore, IssuedAsBefore
      <4> QED
        BY <4>1, ToldKept, IssuedKept
    <3> HIDE DEF ask, Told, Asked, Issued
    <3>7. [u \in Getters |-> Asked(u)]' = [[u \in Getters |-> Asked(u)] EXCEPT ![t] = ask]
      BY <3>4, <3>5
    <3>8. UNCHANGED [s \in Setters |-> Told(s)] /\ UNCHANGED [u \in Getters |-> Issued(u)]
      BY <3>6
    <3>9. Flow!Ask(t, ask)
      BY <3>2, <3>3, <3>7, <3>8 DEF Flow!Ask
    <3> QED
      BY <3>1, <3>9 DEF Flow!FlowNext
  <2> QED
    BY <1>4, <2>1, <2>2 DEF CodeGrant
<1>5. CASE form.grant_type = "client_credentials" /\ CredentialGrant(t, form, holder)
  <2>1. UNCHANGED <<storeVars, seen>>
    BY <1>5 DEF CredentialGrant
  <2>2. CASE Refuse(t, CredentialGrantChecks(form, holder))
    BY <1>2, <2>1, <2>2, TokenAnswerable
  <2>3. CASE Answer(t, [kind |-> "token", scope |-> form.scope, refresh |-> FALSE])
    <3>1. \A o \in Requests \ {t} : response'[o] = response[o]
      BY <1>1, <2>3 DEF Answer, ServerTypeOK
    <3>2. ~CodeToken(t)'
      BY <1>1, <1>5 DEF CodeToken, IsCodeGrant
    <3> QED
      BY <1>1, <2>1, <3>1, <3>2, EndsAtReads
  <2> QED
    BY <1>5, <2>2, <2>3 DEF CredentialGrant
<1> QED
  BY <1>3, <1>4, <1>5 DEF TokenRead

-----------------------------------------------------------------------------
(* The lookup ends.                                                         *)

(* A lookup that returns and is answered with an error denies.              *)
LEMMA Denied ==
  ASSUME ServerInv, NEW t \in Getters, Ledger!Return(t), UNCHANGED <<request, saved>>,
         phase[t] \in {"get", "del"}, phase' = [phase EXCEPT ![t] = "done"],
         response'[t] \in Errors,
         \A o \in Requests \ {t} : response'[o] = response[o]
  PROVE  Flow!FlowNext
<1>1. t \in Requests /\ pc[t] # "done"
  BY DEF ServerInv, WaitsOnlyForItsLookup, Requests
<1>2. \A u \in Getters : AskedAsBefore(u)
  BY DEF AskedAsBefore, ServerInv, StoreInv, StoreTypeOK
<1>3. UNCHANGED Said
  BY <1>1, <1>2, UnsaidByOne
<1>4. Flow!Deny(t)
  BY <1>3, SameLedger DEF Flow!Deny, Said
<1> QED
  BY <1>4 DEF Flow!FlowNext

LEMMA TokenHearGetFlow ==
  ASSUME ServerInv, NEW t \in Getters, TokenHearGet(t)
  PROVE  Flow!FlowNext
<1>1. /\ t \in Requests /\ ServerTypeOK /\ StoreTypeOK /\ ReplyGet(t)
      /\ phase[t] = "get" /\ UNCHANGED <<request, saved>>
  BY HeardAtItsAwait DEF Requests, ServerInv, StoreInv, TokenHearGet, ReplyGet
<1>2. CASE Head(replies) = Nil
  <2>1. Error(400, "invalid_request") \in Errors
    BY ErrorsAnswered DEF Reasons
  <2>2. response'[t] \in Errors /\ \A o \in Requests \ {t} : response'[o] = response[o]
    BY <1>1, <1>2, <2>1, AnswerTyped DEF TokenHearGet
  <2>3. Ledger!Return(t)
    BY <1>1, <1>2, GetReturnsNothing DEF ServerInv
  <2>4. phase' = [phase EXCEPT ![t] = "done"]
    BY <1>1, <1>2 DEF ReplyGet
  <2> QED
    BY <1>1, <2>2, <2>3, <2>4, Denied
<1>3. CASE Head(replies) # Nil
  <2>1. phase' = [phase EXCEPT ![t] = "del"] /\ UNCHANGED response
    BY <1>1, <1>3 DEF ReplyGet, TokenHearGet
  <2>2. \A u \in Getters : AskedAsBefore(u) /\ IssuedAsBefore(u)
    BY <1>1, <2>1 DEF AskedAsBefore, IssuedAsBefore, StoreTypeOK
  <2>3. \A s \in Setters : ToldAsBefore(s)
    BY <2>1 DEF ToldAsBefore
  <2>4. UNCHANGED Said
    BY <1>1, <2>2, <2>3, Unsaid
  <2>5. PICK a \in Setters : Ledger!Claim(t, a)
    BY <1>1, <1>3, GetClaims DEF ServerInv
  <2>6. Flow!Claim(t, a)
    BY <2>5, SameLedger
  <2> QED
    BY <2>4, <2>6 DEF Flow!FlowNext, Flow!Unspoken, Said
<1> QED
  BY <1>2, <1>3

(* The token for what was granted has what the grant is worth.              *)
LEMMA TokenWorth ==
  ASSUME NEW state, NEW res, res = Token(joinThenSplit(state.scope))
  PROVE  [scope |-> res.scope, refresh |-> res.refresh] = Flow!Worth(state)
<1> DEFINE scope == IF state.scope = {} THEN {""} ELSE UNION {Words[v] : v \in state.scope}
           refresh == "refresh_token" \in scope
<1>1. joinThenSplit(state.scope) = scope
  BY DEF joinThenSplit, EmptyScope
<1>2. ("refresh_token" \in scope) = refresh
  OBVIOUS
<1>3. Flow!Worth(state) = [scope |-> scope, refresh |-> refresh]
  BY DEF Flow!Worth
<1>4. Token(scope) = [kind |-> "token", scope |-> scope, refresh |-> "refresh_token" \in scope]
  BY DEF Token
<1> HIDE DEF scope, refresh
<1>5. res = [kind |-> "token", scope |-> scope, refresh |-> refresh]
  BY <1>1, <1>2, <1>4
<1> QED
  BY <1>3, <1>5

LEMMA TokenHearDelFlow ==
  ASSUME ServerInv, NEW t \in Getters, TokenHearDel(t)
  PROVE  Flow!FlowNext
<1> DEFINE a == found[t]
<1>1. /\ t \in Requests /\ ServerTypeOK /\ TokenInv(t) /\ StoreTypeOK /\ ReplyDel(t)
      /\ phase[t] = "del" /\ pc[t] = "redis"
      /\ request[t] \in Forms /\ wanted[t] = request[t].code_verifier
      /\ request[t].grant_type = "authorization_code"
      /\ phase' = [phase EXCEPT ![t] = "done"]
      /\ UNCHANGED <<request, saved, found>>
  BY HeardAtItsAwait
     DEF Requests, ServerInv, StoreInv, TokenHearDel, ReplyDel, TokenInv, WaitsOnlyForItsLookup
<1>2. a \in Setters /\ saved[a] \in PKCEState /\ saved[a].verifier = request[t].code_verifier
  BY <1>1 DEF ServerInv, StoreInv, FoundByPhase, FoundUnderWanted, StoreTypeOK, Data
<1>3. Ledger!Return(t)
  BY <1>1, DelReturns DEF ServerInv
<1>4. CASE Refuse(t, GrantChecks(t, saved[a]))
  <2>1. response'[t] \in Errors /\ \A o \in Requests \ {t} : response'[o] = response[o]
    BY <1>1, <1>4, RefusalTyped, TokenAnswerable
  <2> QED
    BY <1>1, <1>3, <2>1, Denied
<1>5. CASE Passes(GrantChecks(t, saved[a])) /\ Answer(t, Token(joinThenSplit(saved[a].scope)))
  <2>1. Token(joinThenSplit(saved[a].scope)) \in Tokens
    BY <1>2, TokenTyped DEF PKCEState
  <2>2. /\ response'[t] = Token(joinThenSplit(saved[a].scope))
        /\ \A o \in Requests \ {t} : response'[o] = response[o]
    BY <1>1, <1>5, <2>1, AnswerTyped
  <2>3. Flow!Corresponds(Asked(t), saved[a])
    <3>1. /\ saved[a].issued_to = request[t].client_id
          /\ saved[a].redirect_uri = request[t].redirect_uri
          /\ request[t].code.challenge = saved[a].challenge
      BY <1>5, GrantChecked
    <3> QED
      BY <1>1, <1>2, <3>1 DEF Asked, Flow!Corresponds
  <2>4. Issued(t)' = Flow!Worth(saved[a])
    <3>1. CodeToken(t)'
      <4>1. request[t] # Nil
        BY <1>1, ServerAssumption DEF ServerConstants
      <4> QED
        BY <1>1, <2>1, <2>2, <4>1, ResponseKinds DEF CodeToken, IsToken, IsCodeGrant
    <3>2. Issued(t)' = [scope |-> response'[t].scope, refresh |-> response'[t].refresh]
      BY <3>1 DEF Issued, CodeToken
    <3> QED
      BY <2>2, <3>2, TokenWorth
  <2>5. \A u \in Getters \ {t} : Issued(u)' = Issued(u)
    <3>1. \A u \in Getters \ {t} : IssuedAsBefore(u)
      BY <1>1, <2>2 DEF IssuedAsBefore, Requests
    <3> QED
      BY <3>1, IssuedKept
  <2>6. \A u \in Getters : Asked(u)' = Asked(u)
    <3>1. \A u \in Getters : AskedAsBefore(u)
      BY <1>1 DEF AskedAsBefore, StoreTypeOK
    <3> QED
      BY <3>1, AskedKept
  <2>7. \A s \in Setters : Told(s)' = Told(s)
    <3>1. \A s \in Setters : ToldAsBefore(s)
      BY <2>2, RequestIsEither DEF ToldAsBefore
    <3> QED
      BY <3>1, ToldKept
  <2> HIDE DEF Told, Asked, Issued
  <2>8. [u \in Getters |-> Issued(u)]'
          = [[u \in Getters |-> Issued(u)] EXCEPT ![t] = Flow!Worth(saved[a])]
    BY <2>4, <2>5
  <2>9. UNCHANGED [u \in Getters |-> Asked(u)] /\ UNCHANGED [s \in Setters |-> Told(s)]
    BY <2>6, <2>7
  <2>10. Flow!Corresponds([u \in Getters |-> Asked(u)][t], saved[found[t]])
    BY <2>3
  <2>11. found[t] # Nil
    BY <1>2, StoreAssumption DEF StoreConstants
  <2>12. Flow!Redeem(t)
    BY <1>1, <1>3, <2>8, <2>9, <2>10, <2>11, SameLedger DEF Flow!Redeem
  <2> QED
    BY <2>12 DEF Flow!FlowNext
<1> QED
  BY <1>4, <1>5 DEF TokenHearDel

-----------------------------------------------------------------------------
LEMMA FlowInitially == Init => Flow!FlowInit
<1> SUFFICES ASSUME Init PROVE Flow!FlowInit
  OBVIOUS
<1>1. Flow!LedgerInit
  BY InitOpensNothing, SameLedger DEF Init
<1>2. /\ \A s \in Setters : Told(s) = Nil
      /\ \A t \in Getters : Asked(t) = Nil /\ Issued(t) = Nil
  BY DEF Init, StoreInit, ServerInit, Requests, Told, Asked, Issued, IsRedirect, IsToken
<1>3. saved = [s \in Setters |-> Nil]
  BY DEF Init, StoreInit
<1> QED
  BY <1>1, <1>2, <1>3 DEF Flow!FlowInit

LEMMA FlowSteps ==
  ASSUME ServerInv, [Next]_vars
  PROVE  [Flow!FlowNext]_Flow!flow
<1>1. ASSUME NEW s \in Setters, NEW q \in Queries, AuthorizeArrive(s, q)
      PROVE  UNCHANGED Flow!flow
  BY <1>1, AuthorizeArriveQuiet
<1>2. ASSUME NEW t \in Getters, NEW form \in Forms, TokenArrive(t, form)
      PROVE  UNCHANGED Flow!flow
  BY <1>2, TokenArriveQuiet
<1>3. ASSUME NEW s \in Setters, AuthorizeRead(s)
      PROVE  [Flow!FlowNext]_Flow!flow
  BY <1>3, AuthorizeReadFlow
<1>4. ASSUME NEW t \in Getters, TokenRead(t)
      PROVE  [Flow!FlowNext]_Flow!flow
  BY <1>4, TokenReadFlow
<1>5. ASSUME NEW t \in Getters, TokenHearGet(t)
      PROVE  Flow!FlowNext
  BY <1>5, TokenHearGetFlow
<1>6. ASSUME NEW t \in Getters, TokenHearDel(t)
      PROVE  Flow!FlowNext
  BY <1>6, TokenHearDelFlow
<1>7. CASE /\ Execute \/ Tick \/ ConnectionLost \/ (\E s \in Setters : ReplySetex(s))
           /\ UNCHANGED serverVars
  <2>1. UNCHANGED <<request, response, saved, phase>>
    BY <1>7 DEF Execute, ExecSetex, ExecGet, ExecDel, Tick, ConnectionLost, ReplySetex, serverVars
  <2> QED
    BY <1>7, <2>1, AllQuiet, LapseUnspoken DEF ServerInv
<1>8. ASSUME NEW r \in Requests, ReadFails(r)
      PROVE  UNCHANGED Flow!flow
  BY <1>8, ReadFailsQuiet
<1>9. CASE CacheGivesUp \/ Crash
  BY <1>9, FlushUnspoken
<1>10. CASE UNCHANGED <<storeVars, request, response>>
  BY <1>10, AllQuiet, StoreQuiet DEF storeVars
<1>11. ASSUME NEW c \in ClientIds, NEW row \in Rows \union {Nil}, EditClient(c, row)
       PROVE  UNCHANGED <<storeVars, request, response>>
  BY <1>11 DEF EditClient
<1>12. UNCHANGED vars => UNCHANGED <<storeVars, request, response>>
  BY DEF vars, serverVars
<1> QED
  BY <1>1, <1>2, <1>3, <1>4, <1>5, <1>6, <1>7, <1>8, <1>9, <1>10, <1>11, <1>12
     DEF Next, Handle, HearAnswer

(* code.ts:83-104, authorization-code.ts:61-119: the endpoints keep the     *)
(* flow, whatever interleaves, fails or is edited.                         *)
THEOREM ServerKeepsFlow == Spec => FlowKept
BY FlowInitially, FlowSteps, ServerInitially, ServerInvPreserved, PTL
   DEF Spec, FlowKept, Flow!FlowSpec

-----------------------------------------------------------------------------
LEMMA TokenScopeAuthorized == ServerInv => ScopesAsAuthorized
<1> SUFFICES ASSUME ServerInv, NEW t \in Getters, IsToken(t), IsCodeGrant(t)
             PROVE  LET q        == request[found[t]]
                        accepted == ServerScopes[<<q.subdomain, q.serverAlias>>]
                        defaults == {s.value : s \in {d \in accepted : d.is_default}}
                    IN  \/ /\ q.scope # {}
                           /\ q.scope \subseteq {s.value : s \in accepted}
                           /\ response[t].scope = q.scope
                        \/ /\ q.scope = {} /\ defaults # {}
                           /\ response[t].scope = UNION {Words[v] : v \in defaults}
                        \/ /\ q.scope = {} /\ defaults = {}
                           /\ response[t].scope = {EmptyScope}
  BY DEF ScopesAsAuthorized
<1> DEFINE a        == found[t]
           q        == request[a]
           accepted == ServerScopes[<<q.subdomain, q.serverAlias>>]
           defaults == {s.value : s \in {d \in accepted : d.is_default}}
<1>1. a \in Setters /\ Backs(a, t)
  BY DEF ServerInv, TokenBackedByGrant
<1>2. /\ response[t].scope = joinThenSplit(saved[a].scope)
      /\ acceptedScopes(q) # Nil /\ saved[a] = pkceStateOf(q) /\ q \in Queries
      /\ saved[a] \in PKCEState
  BY <1>1 DEF Backs, ServerInv, AuthorizationInv, StoreInv, StoreTypeOK
<1>3. saved[a].scope = acceptedScopes(q) /\ saved[a].scope \in SUBSET ScopeNames
  BY <1>2 DEF pkceStateOf, PKCEState
<1>4. CASE q.scope = {}
  <2>1. saved[a].scope = defaults
    BY <1>3, <1>4 DEF acceptedScopes, valueOfScope
  <2> QED
    BY <1>2, <1>4, <2>1 DEF joinThenSplit
<1>5. CASE q.scope # {}
  <2>1. saved[a].scope = q.scope /\ q.scope \subseteq {s.value : s \in accepted}
    BY <1>2, <1>3, <1>5 DEF acceptedScopes, valueOfScope
  <2>2. \A v \in q.scope : Words[v] = {v}
    <3>1. q.scope # Malformed
      BY <1>3, <2>1, ServerAssumption DEF ServerConstants
    <3> QED
      BY <1>2, <3>1, ServerAssumption DEF ServerConstants
  <2>3. UNION {Words[v] : v \in q.scope} = q.scope
    BY <2>2
  <2> QED
    BY <1>2, <1>5, <2>1, <2>3 DEF joinThenSplit
<1> QED
  BY <1>4, <1>5

(* code.ts:63-83: every token of the code grant has the scopes its          *)
(* authorization asked for and its server knows, or that server's defaults. *)
THEOREM ScopesAuthorized == Spec => []ScopesAsAuthorized
BY TokenScopeAuthorized, ServerInitially, ServerInvPreserved, PTL DEF Spec
=============================================================================
