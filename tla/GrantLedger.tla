----------------------------- MODULE GrantLedger -----------------------------
(***************************************************************************)
(* What the store of pending authorizations promises, with no key, no      *)
(* queue and no clock in it: an abstract specification of                  *)
(* src/pkg/cache/pkce-state-store.ts that PKCEStateStore implements.       *)
(*                                                                         *)
(* A grant is opened once, may be claimed by lookups while it is open, and *)
(* is closed for good when it lapses.  Nothing stops two lookups that      *)
(* overlap from claiming one grant.  The promise is about what comes       *)
(* after: a lookup returns its grant to the caller only once the grant is  *)
(* closed, so that no later lookup can claim it.                           *)
(***************************************************************************)
CONSTANTS
  Grants,   \* authorizations, one for each PKCEStateStore.set
  Lookups,  \* calls of PKCEStateStore.get
  Nil       \* no grant

ASSUME GrantLedgerAssumption == Nil \notin Grants

VARIABLES
  standing,  \* standing[a]: "none", "open" or "closed"
  claim,     \* claim[g]: the grant lookup g has found, or Nil
  outcome    \* outcome[g]: "idle", "pending", "returned" or "failed"

ledger == <<standing, claim, outcome>>

LedgerTypeOK ==
  /\ standing \in [Grants -> {"none", "open", "closed"}]
  /\ claim \in [Lookups -> Grants \union {Nil}]
  /\ outcome \in [Lookups -> {"idle", "pending", "returned", "failed"}]

LedgerInit ==
  /\ standing = [a \in Grants |-> "none"]
  /\ claim = [g \in Lookups |-> Nil]
  /\ outcome = [g \in Lookups |-> "idle"]

(* Of the open grants, those in S lapse; nothing else changes its standing. *)
Lapsing(S) ==
  /\ \A a \in S : standing[a] = "open"
  /\ standing' = [a \in Grants |-> IF a \in S THEN "closed" ELSE standing[a]]

Open(a) ==
  /\ standing[a] = "none"
  /\ standing' = [standing EXCEPT ![a] = "open"]
  /\ UNCHANGED <<claim, outcome>>

Begin(g) ==
  /\ outcome[g] = "idle"
  /\ outcome' = [outcome EXCEPT ![g] = "pending"]
  /\ UNCHANGED <<standing, claim>>

Lapse ==
  /\ \E S \in SUBSET Grants : Lapsing(S)
  /\ UNCHANGED <<claim, outcome>>

(* A lookup that is under way finds an open grant; the grant may lapse as   *)
(* it is found.                                                            *)
Claim_AnyGrant(g, a) ==
  /\ outcome[g] = "pending"
  /\ claim[g] = Nil
  /\ standing[a] # "none"
  /\ claim' = [claim EXCEPT ![g] = a]
  /\ UNCHANGED <<standing, outcome>>

Claim(g, a) ==
  /\ outcome[g] = "pending"
  /\ claim[g] = Nil
  /\ standing[a] = "open"
  /\ claim' = [claim EXCEPT ![g] = a]
  /\ \E S \in SUBSET {a} : Lapsing(S)
  /\ UNCHANGED outcome

Return(g) ==
  /\ outcome[g] = "pending"
  /\ claim[g] # Nil => standing[claim[g]] = "closed"
  /\ outcome' = [outcome EXCEPT ![g] = "returned"]
  /\ UNCHANGED <<standing, claim>>

(* The lookups in G are abandoned while the grants in S lapse: the          *)
(* connection is given up, or the process dies.                            *)
Fail(G, S) ==
  /\ \A g \in G : outcome[g] = "pending"
  /\ outcome' = [g \in Lookups |-> IF g \in G THEN "failed" ELSE outcome[g]]
  /\ Lapsing(S)
  /\ UNCHANGED claim

LedgerNext ==
  \/ \E a \in Grants : Open(a)
  \/ \E g \in Lookups : Begin(g) \/ Return(g)
  \/ \E g \in Lookups, a \in Grants : Claim(g, a)
  \/ Lapse
  \/ \E G \in SUBSET Lookups, S \in SUBSET Grants : Fail(G, S)

LedgerSpec == LedgerInit /\ [][LedgerNext]_ledger

-----------------------------------------------------------------------------
(* PKCEStateStore.get awaits the DEL before it answers                     *)
(* (pkce-state-store.ts:27-29): no step finds a grant that an earlier      *)
(* lookup has already returned.                                            *)
NoClaimAfterReturn ==
  [][\A g, h \in Lookups :
       outcome[g] = "returned" /\ claim[g] # Nil /\ claim[h] # claim[g]
         => claim'[h] # claim[g]]_ledger

(* Why it is so: what a lookup has returned is closed, and only what is     *)
(* open can be claimed.                                                    *)
ReturnedIsClosed ==
  \A g \in Lookups :
    outcome[g] = "returned" /\ claim[g] # Nil => standing[claim[g]] = "closed"
=============================================================================
