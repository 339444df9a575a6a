------------------------------ MODULE CodeFlow ------------------------------
(***************************************************************************)
(* What the two endpoints promise together: the authorization code flow    *)
(* with no checks of parameters, no store and no failures of machines in   *)
(* it.  An abstract specification of src/pkg/oauth2 that                   *)
(* AuthorizationServer implements.                                         *)
(*                                                                         *)
(* It is the ledger of grants with what is said in the flow: the terms of  *)
(* a grant and what the client is told of them in one step, what a token   *)
(* request asks for as its lookup begins, and the token as it ends.  A     *)
(* token is issued for a grant that was found while open, is closed by     *)
(* then, and has the terms the request asked for.                          *)
(***************************************************************************)
EXTENDS GrantLedger

CONSTANTS
  Terms,   \* what is granted: who may have it, where, for which challenge
  Asks,    \* what a token request asks with
  Words    \* Words[v]: the words of scope v

VARIABLES
  terms,   \* terms[a]: the terms of grant a, or Nil
  told,    \* told[a]: what the redirect for a says, or Nil
  asked,   \* asked[e]: what token request e asked with, or Nil
  token    \* token[e]: the token e was answered with, or Nil

flow == <<ledger, terms, told, asked, token>>

FlowInit ==
  /\ LedgerInit
  /\ terms = [a \in Grants |-> Nil]
  /\ told = [a \in Grants |-> Nil]
  /\ asked = [e \in Lookups |-> Nil]
  /\ token = [e \in Lookups |-> Nil]

Telling(term) ==
  [state |-> term.verifier, redirect_uri |-> term.redirect_uri,
   challenge |-> term.challenge]

Corresponds(ask, term) ==
  /\ ask.client_id = term.issued_to
  /\ ask.redirect_uri = term.redirect_uri
  /\ ask.code_verifier = term.verifier
  /\ ask.challenge = term.challenge

(* The scopes that were granted, word by word; nothing is the one scope "". *)
Worth(term) ==
  LET scope == IF term.scope = {} THEN {""} ELSE UNION {Words[v] : v \in term.scope}
  IN  [scope |-> scope, refresh |-> "refresh_token" \in scope]

Authorize(a, term) ==
  /\ Open(a)
  /\ terms' = [terms EXCEPT ![a] = term]
  /\ told' = [told EXCEPT ![a] = Telling(term)]
  /\ UNCHANGED <<asked, token>>

Ask(e, ask) ==
  /\ Begin(e)
  /\ asked' = [asked EXCEPT ![e] = ask]
  /\ UNCHANGED <<terms, told, token>>

Redeem(e) ==
  /\ Return(e)
  /\ claim[e] # Nil
  /\ Corresponds(asked[e], terms[claim[e]])
  /\ token' = [token EXCEPT ![e] = Worth(terms[claim[e]])]
  /\ UNCHANGED <<terms, told, asked>>

Deny(e) ==
  /\ Return(e)
  /\ UNCHANGED <<terms, told, asked, token>>

(* Lookups find grants, grants lapse, and requests fail, without a word.    *)
Unspoken ==
  /\ \/ \E e \in Lookups, a \in Grants : Claim(e, a)
     \/ Lapse
     \/ \E G \in SUBSET Lookups, S \in SUBSET Grants : Fail(G, S)
  /\ UNCHANGED <<terms, told, asked, token>>

FlowNext ==
  \/ \E a \in Grants, term \in Terms : Authorize(a, term)
  \/ \E e \in Lookups, ask \in Asks : Ask(e, ask)
  \/ \E e \in Lookups : Redeem(e) \/ Deny(e)
  \/ Unspoken

FlowSpec == FlowInit /\ [][FlowNext]_flow
=============================================================================
