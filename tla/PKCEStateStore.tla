--------------------------- MODULE PKCEStateStore ---------------------------
(***************************************************************************)
(* The store of PKCE states, src/pkg/cache/pkce-state-store.ts: a process  *)
(* that talks to Redis over one connection.  Set is one SETEX; Get is a    *)
(* GET and, when it finds something, a DEL that is awaited before the      *)
(* state is returned.  Nothing makes the two commands one.                 *)
(*                                                                         *)
(* Redis and ioredis are not in the repository.  Of them the model keeps   *)
(* what the store relies on: the commands of a connection are executed and *)
(* answered in the order they were written; a command whose answer is lost *)
(* with the connection is written again, in the same order, on the next    *)
(* one; and when the connection is given up, or the process dies, every    *)
(* command without an answer is dropped.                                   *)
(***************************************************************************)
EXTENDS PKCE, Naturals, Sequences

CONSTANTS
  Setters,    \* calls of set: one for each authorization request
  Getters,    \* calls of get: one for each token request
  Lifetime,   \* stateLifetimeSec, in ticks of the clock
  MaxFaults   \* bound: connection failures in a behaviour

StoreConstants ==
  /\ Setters \intersect Getters = {}
  /\ Nil \notin Setters \union Getters
  /\ Lifetime \in Nat \ {0}
  /\ MaxFaults \in Nat

ASSUME StoreAssumption == StoreConstants

VARIABLES
  redis,    \* redis[k]: the call of set whose state is stored under k, or Nil
  ttl,      \* ttl[k]: ticks until the value under k expires
  queue,    \* commands written by the process and not answered yet
  replies,  \* answers to the first Len(replies) commands, on their way back
  saved,    \* saved[s]: the state given to call s of set, or Nil
  wanted,   \* wanted[g]: the verifier given to call g of get, or Nil
  phase,    \* phase[g]: where call g of get is
  found,    \* found[g]: the call of set whose state g has read, or Nil
  faults    \* connection failures so far

redisVars == <<redis, ttl>>
callVars  == <<saved, wanted, phase, found>>
storeVars == <<redis, ttl, queue, replies, saved, wanted, phase, found, faults>>

Commands == [op: {"setex"}, call: Setters] \union [op: {"get", "del"}, call: Getters]
Data     == Setters \union {Nil}

StoreTypeOK ==
  /\ redis \in [Keys -> Data]
  /\ ttl \in [Keys -> 0..Lifetime]
  /\ queue \in Seq(Commands)
  /\ replies \in Seq(Data)
  /\ Len(replies) <= Len(queue)
  /\ saved \in [Setters -> PKCEState \union {Nil}]
  /\ wanted \in [Getters -> Keys \union {Nil}]
  /\ phase \in [Getters -> {"idle", "get", "del", "done", "failed"}]
  /\ found \in [Getters -> Data]
  /\ faults \in 0..MaxFaults

StoreInit ==
  /\ redis = [k \in Keys |-> Nil]
  /\ ttl = [k \in Keys |-> 0]
  /\ queue = <<>>
  /\ replies = <<>>
  /\ saved = [s \in Setters |-> Nil]
  /\ wanted = [g \in Getters |-> Nil]
  /\ phase = [g \in Getters |-> "idle"]
  /\ found = [g \in Getters |-> Nil]
  /\ faults = 0

-----------------------------------------------------------------------------
(* The calls the process makes.                                             *)

(* set: JSON.stringify and JSON.parse give back an object of strings as it  *)
(* was, so what is stored is saved[s].                                      *)
Set_WithoutClient(s, state) ==
  /\ saved[s] = Nil
  /\ saved' = [saved EXCEPT ![s] =
                 [f \in DOMAIN state \ {"issued_to"} |-> state[f]]]
  /\ queue' = Append(queue, [op |-> "setex", call |-> s])
  /\ UNCHANGED <<redis, ttl, replies, wanted, phase, found, faults>>

Set(s, state) ==
  /\ saved[s] = Nil
  /\ saved' = [saved EXCEPT ![s] = state]
  /\ queue' = Append(queue, [op |-> "setex", call |-> s])
  /\ UNCHANGED <<redis, ttl, replies, wanted, phase, found, faults>>

(* get, up to its first await.  A token request may name no verifier.       *)
Get_SharedVerifier(g, k) ==
  /\ phase[g] = "idle"
  /\ wanted' = [h \in Getters |->
                  IF h = g \/ phase[h] \in {"get", "del"} THEN k ELSE wanted[h]]
  /\ phase' = [phase EXCEPT ![g] = "get"]
  /\ queue' = Append(queue, [op |-> "get", call |-> g])
  /\ UNCHANGED <<redis, ttl, replies, saved, found, faults>>

Get_OvertakesSet(g, k) ==
  /\ phase[g] = "idle"
  /\ wanted' = [wanted EXCEPT ![g] = k]
  /\ phase' = [phase EXCEPT ![g] = "get"]
  /\ queue' = SubSeq(queue, 1, Len(replies)) \o <<[op |-> "get", call |-> g]>>
                \o SubSeq(queue, Len(replies) + 1, Len(queue))
  /\ UNCHANGED <<redis, ttl, replies, saved, found, faults>>

Get(g, k) ==
  /\ phase[g] = "idle"
  /\ wanted' = [wanted EXCEPT ![g] = k]
  /\ phase' = [phase EXCEPT ![g] = "get"]
  /\ queue' = Append(queue, [op |-> "get", call |-> g])
  /\ UNCHANGED <<redis, ttl, replies, saved, found, faults>>

-----------------------------------------------------------------------------
(* Redis executes the commands it has received, in order.                   *)

Unexecuted == Len(replies) < Len(queue)
Executing  == queue[Len(replies) + 1]

ExecSetex(s) ==
  /\ Unexecuted
  /\ Executing = [op |-> "setex", call |-> s]
  /\ redis' = [redis EXCEPT ![saved[s].verifier] = s]
  /\ ttl' = [ttl EXCEPT ![saved[s].verifier] = Lifetime]
  /\ replies' = Append(replies, Nil)
  /\ UNCHANGED <<queue, saved, wanted, phase, found, faults>>

ExecGet(g) ==
  /\ Unexecuted
  /\ Executing = [op |-> "get", call |-> g]
  /\ replies' = Append(replies, IF wanted[g] \in Keys THEN redis[wanted[g]] ELSE Nil)
  /\ UNCHANGED <<redis, ttl, queue, saved, wanted, phase, found, faults>>

ExecDel(g) ==
  /\ Unexecuted
  /\ Executing = [op |-> "del", call |-> g]
  /\ redis' = [redis EXCEPT ![wanted[g]] = Nil]
  /\ ttl' = [ttl EXCEPT ![wanted[g]] = 0]
  /\ replies' = Append(replies, Nil)
  /\ UNCHANGED <<queue, saved, wanted, phase, found, faults>>

(* A second passes; a value whose time is up is gone.                       *)
Elapse ==
  /\ ttl' = [k \in Keys |-> IF ttl[k] > 0 THEN ttl[k] - 1 ELSE 0]
  /\ redis' = [k \in Keys |-> IF ttl'[k] = 0 THEN Nil ELSE redis[k]]

Tick ==
  /\ \E k \in Keys : redis[k] # Nil
  /\ Elapse
  /\ UNCHANGED <<queue, replies, saved, wanted, phase, found, faults>>

-----------------------------------------------------------------------------
(* The process hears the answers, in order.                                 *)

Hears(op, c) ==
  /\ replies # <<>>
  /\ Head(queue) = [op |-> op, call |-> c]
  /\ replies' = Tail(replies)

(* set returns; savePKCEState does not wait for it.                         *)
ReplySetex(s) ==
  /\ Hears("setex", s)
  /\ queue' = Tail(queue)
  /\ UNCHANGED <<redis, ttl, saved, wanted, phase, found, faults>>

(* get resumes with the data: null is the result; anything else is deleted  *)
(* first.                                                                   *)
ReplyGet_DelNotAwaited(g) ==
  /\ Hears("get", g)
  /\ found' = [found EXCEPT ![g] = Head(replies)]
  /\ phase' = [phase EXCEPT ![g] = "done"]
  /\ queue' = IF Head(replies) = Nil THEN Tail(queue)
              ELSE Append(Tail(queue), [op |-> "del", call |-> g])
  /\ UNCHANGED <<redis, ttl, saved, wanted, faults>>

ReplyGet_NullForgotten(g) ==
  /\ Hears("get", g)
  /\ found' = [found EXCEPT ![g] = Head(replies)]
  /\ phase' = [phase EXCEPT ![g] = IF Head(replies) = Nil THEN @ ELSE "del"]
  /\ queue' = IF Head(replies) = Nil THEN Tail(queue)
              ELSE Append(Tail(queue), [op |-> "del", call |-> g])
  /\ UNCHANGED <<redis, ttl, saved, wanted, faults>>

ReplyGet(g) ==
  /\ Hears("get", g)
  /\ found' = [found EXCEPT ![g] = Head(replies)]
  /\ IF Head(replies) = Nil
     THEN /\ phase' = [phase EXCEPT ![g] = "done"]
          /\ queue' = Tail(queue)
     ELSE /\ phase' = [phase EXCEPT ![g] = "del"]
          /\ queue' = Append(Tail(queue), [op |-> "del", call |-> g])
  /\ UNCHANGED <<redis, ttl, saved, wanted, faults>>

(* get resumes after the DEL and returns the state.                         *)
ReplyDel(g) ==
  /\ Hears("del", g)
  /\ phase' = [phase EXCEPT ![g] = "done"]
  /\ queue' = Tail(queue)
  /\ UNCHANGED <<redis, ttl, saved, wanted, found, faults>>

-----------------------------------------------------------------------------
(* Failures of the connection.                                              *)

(* The connection breaks: the answers on their way are lost, and ioredis    *)
(* writes every unanswered command again, the executed ones too.            *)
ConnectionLost ==
  /\ faults < MaxFaults
  /\ replies # <<>>
  /\ replies' = <<>>
  /\ faults' = faults + 1
  /\ UNCHANGED <<redis, ttl, queue, saved, wanted, phase, found>>

(* ioredis stops retrying, or the process exits: unanswered commands are    *)
(* dropped and the calls waiting for them fail.                             *)
Flush ==
  /\ faults < MaxFaults
  /\ queue' = <<>>
  /\ replies' = <<>>
  /\ phase' = [g \in Getters |->
                 IF phase[g] \in {"get", "del"} THEN "failed" ELSE phase[g]]
  /\ faults' = faults + 1
  /\ UNCHANGED <<redis, ttl, saved, wanted, found>>

-----------------------------------------------------------------------------
Execute ==
  \/ \E s \in Setters : ExecSetex(s)
  \/ \E g \in Getters : ExecGet(g) \/ ExecDel(g)

Hear ==
  \/ \E s \in Setters : ReplySetex(s)
  \/ \E g \in Getters : ReplyGet(g) \/ ReplyDel(g)

StoreNext ==
  \/ \E s \in Setters, state \in PKCEState : Set(s, state)
  \/ \E g \in Getters, k \in Keys \union {Nil} : Get(g, k)
  \/ Execute
  \/ Hear
  \/ Tick
  \/ ConnectionLost
  \/ Flush

StoreSpec == StoreInit /\ [][StoreNext]_storeVars

-----------------------------------------------------------------------------
(* The ledger the store keeps.  A grant is open as long as some lookup can  *)
(* still come by its state: its SETEX is yet to be answered, the state is   *)
(* stored, or an answer to a GET carries it.                                *)

SetexPending(s) ==
  \E i \in DOMAIN queue : queue[i] = [op |-> "setex", call |-> s]
Carried(s) == \E i \in DOMAIN replies : replies[i] = s
Stored(s)  == \E k \in Keys : redis[k] = s

InReach(s) == SetexPending(s) \/ Stored(s) \/ Carried(s)

Standing(s) ==
  IF saved[s] = Nil THEN "none" ELSE IF InReach(s) THEN "open" ELSE "closed"

Outcome(g) ==
  CASE phase[g] = "idle"           -> "idle"
    [] phase[g] \in {"get", "del"} -> "pending"
    [] phase[g] = "done"           -> "returned"
    [] phase[g] = "failed"         -> "failed"

Ledger == INSTANCE GrantLedger WITH
  Grants   <- Setters,
  Lookups  <- Getters,
  standing <- [s \in Setters |-> Standing(s)],
  claim    <- found,
  outcome  <- [g \in Getters |-> Outcome(g)]

(* The store keeps the promise of GrantLedger: a state that a get has       *)
(* returned is out of reach of every later get, whatever the interleaving   *)
(* of GETs and DELs, expiry, overwriting and the loss of answers.           *)
LedgerKept == Ledger!LedgerSpec

(* get reads and deletes under the verifier it was given                    *)
(* (pkce-state-store.ts:26-30): whatever it returns was stored under that.  *)
FoundUnderWanted ==
  \A g \in Getters :
    found[g] # Nil => saved[found[g]] # Nil /\ saved[found[g]].verifier = wanted[g]

-----------------------------------------------------------------------------
(* Why every lookup ends, as far as it is safety.                           *)

Awaited(g) == [op |-> phase[g], call |-> g]

(* get returns only behind the answers it awaits (pkce-state-store.ts:26,   *)
(* 28): wherever a lookup is in between, the command that will resume it is *)
(* in line, over any number of lost answers and dropped commands.           *)
NoCallWaitsInVain ==
  \A g \in Getters :
    phase[g] \in {"get", "del"} => \E i \in DOMAIN queue : queue[i] = Awaited(g)

(* The commands to be executed and the answers to be heard until that to    *)
(* command i has been.                                                      *)
StepsAhead(i) == i + (IF Len(replies) < i THEN i - Len(replies) ELSE 0)

(* pkce-state-store.ts:26, 28, one connection for all calls: while a lookup *)
(* is at an await, no other call gets before it; every answer that is heard *)
(* brings its own closer, and so does every execution up to its own; only a *)
(* failure of the connection has commands executed once more.              *)
AnswersComeCloser ==
  [][\A g \in Getters, i \in DOMAIN queue, j \in DOMAIN queue' :
       queue[i] = Awaited(g) /\ queue'[j] = Awaited(g) =>
         /\ j <= i
         /\ faults' = faults => StepsAhead(j)' <= StepsAhead(i)
         /\ Hear \/ (Execute /\ Len(replies) < i) => StepsAhead(j)' < StepsAhead(i)]_storeVars

-----------------------------------------------------------------------------
(* Why it is so: an inductive invariant.                                    *)

NoCommandTwice == \A i, j \in DOMAIN queue : queue[i] = queue[j] => i = j

CommandsOfCalls ==
  \A i \in DOMAIN queue :
    /\ queue[i].op = "setex" => saved[queue[i].call] # Nil
    /\ queue[i].op = "get"   => phase[queue[i].call] = "get"
    /\ queue[i].op = "del"   => phase[queue[i].call] = "del"

StoredUnderVerifier ==
  \A k \in Keys :
    redis[k] # Nil => saved[redis[k]] # Nil /\ saved[redis[k]].verifier = k

CarriedToWanted ==
  \A i \in DOMAIN replies :
    replies[i] # Nil =>
      /\ queue[i].op = "get"
      /\ saved[replies[i]] # Nil
      /\ saved[replies[i]].verifier = wanted[queue[i].call]

FoundByPhase ==
  \A g \in Getters :
    /\ phase[g] \in {"idle", "get"} => found[g] = Nil
    /\ phase[g] = "del" => found[g] # Nil

(* The DEL of a lookup is behind the SETEX of the state it has found.       *)
DelBehindSetex ==
  \A i, j \in DOMAIN queue :
    queue[i].op = "del" /\ queue[j] = [op |-> "setex", call |-> found[queue[i].call]]
      => j < i

(* Once that DEL is executed, the state is not stored, and no answer behind *)
(* the one to the DEL carries it.                                          *)
DelIsFinal ==
  \A i \in DOMAIN replies :
    queue[i].op = "del" =>
      /\ ~Stored(found[queue[i].call])
      /\ \A j \in DOMAIN replies : replies[j] = found[queue[i].call] => j < i

StoreInv ==
  /\ StoreTypeOK
  /\ NoCommandTwice
  /\ CommandsOfCalls
  /\ StoredUnderVerifier
  /\ CarriedToWanted
  /\ FoundUnderWanted
  /\ FoundByPhase
  /\ DelBehindSetex
  /\ DelIsFinal
=============================================================================
