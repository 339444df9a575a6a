-------------------------- MODULE GrantLedgerProofs --------------------------
(***************************************************************************)
(* The promise of GrantLedger, for any number of grants and lookups.       *)
(***************************************************************************)
EXTENDS GrantLedger, TLAPS

(* What the steps of the ledger preserve. The first conjunct types the      *)
(* variables for the second.                                               *)
LedgerInv == LedgerTypeOK /\ ReturnedIsClosed

LEMMA LedgerInitially == LedgerInit => LedgerInv
BY DEF LedgerInit, LedgerInv, LedgerTypeOK, ReturnedIsClosed

(* Standing is never regained: a closed grant stays closed.                 *)
LEMMA ClosedForGood ==
  ASSUME LedgerTypeOK, [LedgerNext]_ledger, NEW a \in Grants, standing[a] = "closed"
  PROVE  standing'[a] = "closed"
BY DEF LedgerTypeOK, LedgerNext, ledger, Open, Begin, Lapse, Claim, Return, Fail, Lapsing

LEMMA LedgerTypePreserved ==
  LedgerTypeOK /\ [LedgerNext]_ledger => LedgerTypeOK'
<1> SUFFICES ASSUME LedgerTypeOK, [LedgerNext]_ledger PROVE LedgerTypeOK'
  OBVIOUS
<1> USE DEF LedgerTypeOK
<1>1. ASSUME NEW a \in Grants, Open(a) PROVE LedgerTypeOK'
  BY <1>1 DEF Open
<1>2. ASSUME NEW g \in Lookups, Begin(g) PROVE LedgerTypeOK'
  BY <1>2 DEF Begin
<1>3. ASSUME NEW g \in Lookups, Return(g) PROVE LedgerTypeOK'
  BY <1>3 DEF Return
<1>4. ASSUME NEW g \in Lookups, NEW a \in Grants, Claim(g, a) PROVE LedgerTypeOK'
  BY <1>4 DEF Claim, Lapsing
<1>5. CASE Lapse
  BY <1>5 DEF Lapse, Lapsing
<1>6. ASSUME NEW G \in SUBSET Lookups, NEW S \in SUBSET Grants, Fail(G, S)
      PROVE  LedgerTypeOK'
  BY <1>6 DEF Fail, Lapsing
<1>7. CASE UNCHANGED ledger
  BY <1>7 DEF ledger
<1> QED
  BY <1>1, <1>2, <1>3, <1>4, <1>5, <1>6, <1>7 DEF LedgerNext

(* Only Claim changes a claim, and only of a lookup that is under way.      *)
LEMMA ClaimsOfPending ==
  ASSUME LedgerTypeOK, [LedgerNext]_ledger,
         NEW g \in Lookups, outcome[g] # "pending"
  PROVE  claim'[g] = claim[g]
BY DEF LedgerTypeOK, LedgerNext, ledger, Open, Begin, Lapse, Claim, Return, Fail

LEMMA ReturnedPreserved ==
  LedgerInv /\ [LedgerNext]_ledger => ReturnedIsClosed'
<1> SUFFICES ASSUME LedgerInv, [LedgerNext]_ledger,
                    NEW g \in Lookups, outcome'[g] = "returned", claim'[g] # Nil
             PROVE  standing'[claim'[g]] = "closed"
  BY DEF ReturnedIsClosed
<1> USE DEF LedgerInv
<1>1. CASE outcome[g] = "returned"
  <2>1. claim'[g] = claim[g] /\ claim[g] \in Grants
    BY <1>1, ClaimsOfPending DEF LedgerTypeOK
  <2> QED
    BY <1>1, <2>1, ClosedForGood DEF ReturnedIsClosed
<1>2. CASE outcome[g] # "returned"
  <2>1. Return(g)
    BY <1>2 DEF LedgerTypeOK, LedgerNext, ledger, Open, Begin, Lapse, Claim, Return, Fail
  <2> QED
    BY <2>1 DEF Return
<1> QED
  BY <1>1, <1>2

LEMMA LedgerInvariant == LedgerSpec => []LedgerInv
BY LedgerInitially, LedgerTypePreserved, ReturnedPreserved, PTL DEF LedgerSpec, LedgerInv

(* What a lookup has returned, no later step finds: the at-most-once of the *)
(* store, PKCEStateStore.get of pkce-state-store.ts:25-33.                 *)
THEOREM ReturnedNeverClaimed == LedgerSpec => NoClaimAfterReturn
<1>1. ASSUME LedgerInv, [LedgerNext]_ledger
      PROVE  [\A g, h \in Lookups :
                outcome[g] = "returned" /\ claim[g] # Nil /\ claim[h] # claim[g]
                  => claim'[h] # claim[g]]_ledger
  <2> SUFFICES ASSUME NEW g \in Lookups, NEW h \in Lookups,
                      outcome[g] = "returned", claim[g] # Nil,
                      claim[h] # claim[g], claim'[h] = claim[g]
               PROVE  FALSE
    OBVIOUS
  <2>1. standing[claim[g]] = "closed"
    BY <1>1 DEF LedgerInv, ReturnedIsClosed
  <2>2. Claim(h, claim[g])
    BY <1>1 DEF LedgerInv, LedgerTypeOK, LedgerNext, ledger, Open, Begin, Lapse, Claim, Return,
       Fail
  <2> QED
    BY <2>1, <2>2 DEF Claim
<1> QED
  BY <1>1, LedgerInvariant, PTL DEF LedgerSpec, NoClaimAfterReturn
=============================================================================
