------------------------ MODULE PKCEStateStoreProofs ------------------------
(***************************************************************************)
(* PKCEStateStore for any number of calls, keys, ticks and failures: its   *)
(* variables keep their types, a lookup finds only what was stored under   *)
(* its verifier, and the store implements GrantLedger.  A lookup that waits *)
(* has its command in the pipeline, and comes closer to its answer.        *)
(***************************************************************************)
EXTENDS PKCEStateStore, SequenceTheorems, TLAPS

-----------------------------------------------------------------------------
(* Type correctness.                                                        *)

LEMMA StoreInitTypes == StoreInit => StoreTypeOK
BY StoreAssumption DEF StoreInit, StoreTypeOK, StoreConstants, Data, Commands

(* Every command is of the type Commands.                                   *)
LEMMA CommandTypes ==
  /\ \A s \in Setters : [op |-> "setex", call |-> s] \in Commands
  /\ \A g \in Getters : [op |-> "get", call |-> g] \in Commands
                         /\ [op |-> "del", call |-> g] \in Commands
BY DEF Commands

(* An answer that is heard takes the head off both sequences.               *)
LEMMA TailsTyped ==
  ASSUME StoreTypeOK, replies # <<>>
  PROVE  /\ queue # <<>>
         /\ Head(queue) = queue[1] /\ Head(queue) \in Commands
         /\ Head(replies) = replies[1] /\ Head(replies) \in Data
         /\ Tail(queue) \in Seq(Commands) /\ Tail(replies) \in Seq(Data)
         /\ Len(Tail(queue)) = Len(queue) - 1
         /\ Len(Tail(replies)) = Len(replies) - 1
         /\ Len(queue) \in Nat \ {0} /\ Len(replies) \in Nat \ {0}
         /\ Len(replies) <= Len(queue)
<1>1. queue \in Seq(Commands) /\ replies \in Seq(Data) /\ Len(replies) <= Len(queue)
  BY DEF StoreTypeOK
<1>2. Len(replies) \in Nat \ {0}
  BY <1>1, EmptySeq, LenProperties
<1>3. Len(queue) \in Nat \ {0} /\ queue # <<>>
  BY <1>1, <1>2, LenProperties
<1>4. Head(queue) \in Commands /\ Tail(queue) \in Seq(Commands)
      /\ Len(Tail(queue)) = Len(queue) - 1 /\ Head(queue) = queue[1]
  BY <1>1, <1>3, HeadTailProperties
<1>5. Head(replies) \in Data /\ Tail(replies) \in Seq(Data)
      /\ Len(Tail(replies)) = Len(replies) - 1 /\ Head(replies) = replies[1]
  BY <1>1, HeadTailProperties
<1> QED
  BY <1>1, <1>2, <1>3, <1>4, <1>5

(* Writing a command, executing one and hearing an answer keep the types of *)
(* the two sequences, and answers do not outnumber commands.                *)
SequenceTypes ==
  queue \in Seq(Commands) /\ replies \in Seq(Data) /\ Len(replies) <= Len(queue)

LEMMA WritingTyped ==
  ASSUME SequenceTypes, NEW c \in Commands,
         queue' = Append(queue, c), UNCHANGED replies
  PROVE  SequenceTypes'
BY AppendProperties DEF SequenceTypes

LEMMA ExecutingTyped ==
  ASSUME SequenceTypes, Unexecuted, NEW d \in Data,
         replies' = Append(replies, d), UNCHANGED queue
  PROVE  SequenceTypes'
BY AppendProperties, LenProperties DEF SequenceTypes, Unexecuted

LEMMA HearingTyped ==
  ASSUME StoreTypeOK, replies # <<>>, replies' = Tail(replies),
         \/ queue' = Tail(queue)
         \/ \E c \in Commands : queue' = Append(Tail(queue), c)
  PROVE  SequenceTypes'
<1>1. CASE queue' = Tail(queue)
  BY <1>1, TailsTyped DEF SequenceTypes
<1>2. ASSUME NEW c \in Commands, queue' = Append(Tail(queue), c)
      PROVE  SequenceTypes'
  BY <1>2, TailsTyped, AppendProperties DEF SequenceTypes
<1> QED
  BY <1>1, <1>2

LEMMA StoreTypePreserved ==
  StoreTypeOK /\ [StoreNext]_storeVars => StoreTypeOK'
<1> SUFFICES ASSUME StoreTypeOK, [StoreNext]_storeVars PROVE StoreTypeOK'
  OBVIOUS
<1> USE StoreAssumption DEF StoreConstants, StoreTypeOK
<1>0. SequenceTypes
  BY DEF SequenceTypes
<1>1. ASSUME NEW s \in Setters, NEW state \in PKCEState, Set(s, state)
      PROVE  StoreTypeOK'
  <2>1. SequenceTypes'
    BY <1>0, <1>1, CommandTypes, WritingTyped DEF Set
  <2> QED
    BY <1>1, <2>1 DEF Set, SequenceTypes
<1>2. ASSUME NEW g \in Getters, NEW k \in Keys \union {Nil}, Get(g, k)
      PROVE  StoreTypeOK'
  <2>1. SequenceTypes'
    BY <1>0, <1>2, CommandTypes, WritingTyped DEF Get
  <2> QED
    BY <1>2, <2>1 DEF Get, SequenceTypes
<1>3. ASSUME NEW s \in Setters, ExecSetex(s) PROVE StoreTypeOK'
  <2>1. SequenceTypes'
    BY <1>0, <1>3, ExecutingTyped DEF ExecSetex, Data
  <2>2. redis' \in [Keys -> Data]
    BY <1>3 DEF ExecSetex, Data
  <2>3. ttl' \in [Keys -> 0..Lifetime]
    <3>1. Lifetime \in 0..Lifetime /\ ttl \in [Keys -> 0..Lifetime]
      OBVIOUS
    <3>2. ttl' = [ttl EXCEPT ![saved[s].verifier] = Lifetime]
      BY <1>3 DEF ExecSetex
    <3> HIDE DEF StoreTypeOK
    <3> QED
      BY <3>1, <3>2, Zenon
  <2> QED
    BY <1>3, <2>1, <2>2, <2>3 DEF ExecSetex, SequenceTypes
<1>4. ASSUME NEW g \in Getters, ExecGet(g) PROVE StoreTypeOK'
  <2>1. (IF wanted[g] \in Keys THEN redis[wanted[g]] ELSE Nil) \in Data
    BY DEF Data
  <2>2. SequenceTypes'
    BY <1>0, <1>4, <2>1, ExecutingTyped DEF ExecGet
  <2> QED
    BY <1>4, <2>2 DEF ExecGet, SequenceTypes
<1>5. ASSUME NEW g \in Getters, ExecDel(g) PROVE StoreTypeOK'
  <2>1. SequenceTypes'
    BY <1>0, <1>5, ExecutingTyped DEF ExecDel, Data
  <2>2. redis' \in [Keys -> Data]
    BY <1>5 DEF ExecDel, Data
  <2>3. ttl' \in [Keys -> 0..Lifetime]
    <3>1. 0 \in 0..Lifetime /\ ttl \in [Keys -> 0..Lifetime]
      OBVIOUS
    <3>2. ttl' = [ttl EXCEPT ![wanted[g]] = 0]
      BY <1>5 DEF ExecDel
    <3> HIDE DEF StoreTypeOK
    <3> QED
      BY <3>1, <3>2, Zenon
  <2> QED
    BY <1>5, <2>1, <2>2, <2>3 DEF ExecDel, SequenceTypes
<1>6. ASSUME NEW s \in Setters, ReplySetex(s) PROVE StoreTypeOK'
  <2>1. SequenceTypes'
    BY <1>6, HearingTyped DEF ReplySetex, Hears
  <2> QED
    BY <1>6, <2>1 DEF ReplySetex, SequenceTypes
<1>7. ASSUME NEW g \in Getters, ReplyGet(g) PROVE StoreTypeOK'
  <2>1. SequenceTypes'
    BY <1>7, HearingTyped, CommandTypes DEF ReplyGet, Hears
  <2>2. Head(replies) \in Data
    BY <1>7, TailsTyped DEF ReplyGet, Hears
  <2> QED
    BY <1>7, <2>1, <2>2 DEF ReplyGet, SequenceTypes
<1>8. ASSUME NEW g \in Getters, ReplyDel(g) PROVE StoreTypeOK'
  <2>1. SequenceTypes'
    BY <1>8, HearingTyped DEF ReplyDel, Hears
  <2> QED
    BY <1>8, <2>1 DEF ReplyDel, SequenceTypes
<1>9. CASE Tick
  BY <1>9 DEF Tick, Elapse, Data
<1>10. CASE ConnectionLost
  BY <1>10 DEF ConnectionLost
<1>11. CASE Flush
  BY <1>11 DEF Flush
<1>12. CASE UNCHANGED storeVars
  BY <1>12 DEF storeVars
<1> QED
  BY <1>1, <1>2, <1>3, <1>4, <1>5, <1>6, <1>7, <1>8, <1>9, <1>10, <1>11, <1>12
     DEF StoreNext, Execute, Hear

(* The variables of the store keep their types.                             *)
THEOREM StoreTypeCorrect == StoreSpec => []StoreTypeOK
BY StoreInitTypes, StoreTypePreserved, PTL DEF StoreSpec

-----------------------------------------------------------------------------
(* The inductive invariant.                                                 *)

LEMMA AppendIndex ==
  ASSUME NEW T, NEW seq \in Seq(T), NEW e
  PROVE  /\ DOMAIN seq = 1..Len(seq)
         /\ DOMAIN Append(seq, e) = 1..(Len(seq) + 1)
         /\ \A i \in 1..Len(seq) : Append(seq, e)[i] = seq[i]
         /\ Append(seq, e)[Len(seq) + 1] = e
OBVIOUS

LEMMA TailIndex ==
  ASSUME NEW T, NEW seq \in Seq(T), seq # <<>>
  PROVE  /\ DOMAIN Tail(seq) = 1..(Len(seq) - 1)
         /\ \A i \in 1..(Len(seq) - 1) : Tail(seq)[i] = seq[i + 1]
         /\ Len(seq) \in Nat \ {0}
OBVIOUS

LEMMA StoreInitInv == StoreInit => StoreInv
BY StoreInitTypes
   DEF StoreInit, StoreInv, NoCommandTwice, CommandsOfCalls, StoredUnderVerifier,
       CarriedToWanted, FoundUnderWanted, FoundByPhase, DelBehindSetex, DelIsFinal

(* A write: the new command is the last.                                    *)
LEMMA SetInv ==
  ASSUME StoreInv, NEW s \in Setters, NEW state \in PKCEState, Set(s, state)
  PROVE  /\ NoCommandTwice' /\ CommandsOfCalls' /\ StoredUnderVerifier'
         /\ CarriedToWanted' /\ FoundUnderWanted' /\ FoundByPhase'
         /\ DelBehindSetex' /\ DelIsFinal'
<1> DEFINE n == Len(queue)
<1>1. /\ DOMAIN queue = 1..n /\ DOMAIN queue' = 1..(n + 1) /\ n \in Nat
      /\ \A i \in 1..n : queue'[i] = queue[i] /\ queue[i] \in Commands
      /\ queue'[n + 1] = [op |-> "setex", call |-> s]
  BY AppendIndex DEF Set, StoreInv, StoreTypeOK
<1>2. DOMAIN replies \subseteq DOMAIN queue /\ Nil \notin Setters
  BY StoreAssumption DEF StoreInv, StoreTypeOK, StoreConstants
<1>3. saved[s] = Nil /\ saved'[s] # Nil /\ \A a \in Setters \ {s} : saved'[a] = saved[a]
  BY PKCEAssumption DEF Set, StoreInv, StoreTypeOK, PKCEConstants
<1>4. NoCommandTwice'
  BY <1>1, <1>3 DEF NoCommandTwice, CommandsOfCalls, StoreInv
<1>5. CommandsOfCalls'
  BY <1>1, <1>3 DEF Set, StoreInv, CommandsOfCalls, Commands
<1>6. StoredUnderVerifier' /\ FoundUnderWanted'
  BY <1>2, <1>3 DEF Set, StoreInv, StoreTypeOK, Data, StoredUnderVerifier, FoundUnderWanted
<1>7. CarriedToWanted'
  BY <1>1, <1>2, <1>3 DEF Set, StoreInv, StoreTypeOK, Data, CarriedToWanted
<1>8. FoundByPhase'
  BY DEF Set, StoreInv, FoundByPhase
<1>9. DelBehindSetex'
  <2>1. \A i \in 1..n : queue[i].op = "del" => found[queue[i].call] # s
    BY <1>1, <1>3 DEF StoreInv, CommandsOfCalls, FoundUnderWanted, FoundByPhase, Commands
  <2>2. UNCHANGED found
    BY DEF Set
  <2>3. \A i, j \in 1..n :
          queue[i].op = "del" /\ queue[j] = [op |-> "setex", call |-> found[queue[i].call]]
            => j < i
    BY <1>1 DEF StoreInv, DelBehindSetex
  <2> QED
    BY <1>1, <2>1, <2>2, <2>3 DEF DelBehindSetex
<1>10. DelIsFinal'
  BY <1>1, <1>2 DEF Set, StoreInv, DelIsFinal, Stored
<1> QED
  BY <1>4, <1>5, <1>6, <1>7, <1>8, <1>9, <1>10

LEMMA GetInv ==
  ASSUME StoreInv, NEW g \in Getters, NEW k \in Keys \union {Nil}, Get(g, k)
  PROVE  /\ NoCommandTwice' /\ CommandsOfCalls' /\ StoredUnderVerifier'
         /\ CarriedToWanted' /\ FoundUnderWanted' /\ FoundByPhase'
         /\ DelBehindSetex' /\ DelIsFinal'
<1> DEFINE n == Len(queue)
<1>1. /\ DOMAIN queue = 1..n /\ DOMAIN queue' = 1..(n + 1) /\ n \in Nat
      /\ \A i \in 1..n : queue'[i] = queue[i] /\ queue[i] \in Commands
      /\ queue'[n + 1] = [op |-> "get", call |-> g]
  BY AppendIndex DEF Get, StoreInv, StoreTypeOK
<1>2. DOMAIN replies \subseteq 1..n
  BY <1>1 DEF StoreInv, StoreTypeOK
<1>3. /\ phase[g] = "idle" /\ found[g] = Nil /\ phase'[g] = "get"
      /\ \A h \in Getters \ {g} : phase'[h] = phase[h] /\ wanted'[h] = wanted[h]
  BY DEF Get, StoreInv, StoreTypeOK, FoundByPhase
<1>4. \A i \in 1..n : queue[i].op \in {"get", "del"} => queue[i].call \in Getters \ {g}
  BY <1>1, <1>3 DEF StoreInv, CommandsOfCalls, Commands
<1>5. NoCommandTwice'
  BY <1>1, <1>4 DEF NoCommandTwice, StoreInv
<1>6. CommandsOfCalls'
  BY <1>1, <1>3, <1>4 DEF Get, StoreInv, CommandsOfCalls, Commands
<1>7. StoredUnderVerifier'
  BY DEF Get, StoreInv, StoredUnderVerifier
<1>8. CarriedToWanted'
  BY <1>1, <1>2, <1>3, <1>4 DEF Get, StoreInv, CarriedToWanted
<1>9. FoundUnderWanted' /\ FoundByPhase'
  BY <1>3 DEF Get, StoreInv, FoundUnderWanted, FoundByPhase
<1>10. DelBehindSetex'
  BY <1>1 DEF Get, StoreInv, DelBehindSetex
<1>11. DelIsFinal'
  BY <1>1, <1>2 DEF Get, StoreInv, DelIsFinal, Stored
<1> QED
  BY <1>5, <1>6, <1>7, <1>8, <1>9, <1>10, <1>11

(* An execution: the new answer is the last.                                *)
LEMMA ExecSetexInv ==
  ASSUME StoreInv, NEW s \in Setters, ExecSetex(s)
  PROVE  /\ NoCommandTwice' /\ CommandsOfCalls' /\ StoredUnderVerifier'
         /\ CarriedToWanted' /\ FoundUnderWanted' /\ FoundByPhase'
         /\ DelBehindSetex' /\ DelIsFinal'
<1> DEFINE n == Len(replies)
<1>1. /\ DOMAIN replies = 1..n /\ DOMAIN replies' = 1..(n + 1) /\ n \in Nat
      /\ \A i \in 1..n : replies'[i] = replies[i]
      /\ replies'[n + 1] = Nil
  BY AppendIndex DEF ExecSetex, StoreInv, StoreTypeOK
<1>2. /\ 1..(n + 1) \subseteq DOMAIN queue /\ \A i \in DOMAIN queue : queue[i] \in Commands
      /\ queue[n + 1] = [op |-> "setex", call |-> s]
  BY <1>1 DEF ExecSetex, Unexecuted, Executing, StoreInv, StoreTypeOK
<1>3. saved[s] # Nil
  BY <1>1, <1>2 DEF StoreInv, CommandsOfCalls
<1>4. /\ \A k \in Keys : redis'[k] = IF k = saved[s].verifier THEN s ELSE redis[k]
      /\ UNCHANGED <<queue, saved, wanted, phase, found>>
  BY DEF ExecSetex, StoreInv, StoreTypeOK
<1>5. NoCommandTwice' /\ CommandsOfCalls' /\ FoundUnderWanted' /\ FoundByPhase' /\ DelBehindSetex'
  BY <1>4 DEF StoreInv, NoCommandTwice, CommandsOfCalls, FoundUnderWanted, FoundByPhase,
              DelBehindSetex
<1>6. StoredUnderVerifier'
  BY <1>3, <1>4 DEF StoreInv, StoredUnderVerifier
<1>7. CarriedToWanted'
  BY <1>1, <1>4 DEF StoreInv, CarriedToWanted
<1>8. DelIsFinal'
  <2> SUFFICES ASSUME NEW i \in 1..(n + 1), queue[i].op = "del"
               PROVE  /\ \A k \in Keys : redis'[k] # found[queue[i].call]
                      /\ \A j \in 1..(n + 1) : replies'[j] = found[queue[i].call] => j < i
    BY <1>1, <1>4 DEF DelIsFinal, Stored
  <2>1. i \in 1..n
    BY <1>1, <1>2
  <2>2. queue[i].call \in Getters /\ found[queue[i].call] # Nil
    BY <1>2, <2>1 DEF StoreInv, CommandsOfCalls, FoundByPhase, Commands
  <2>3. found[queue[i].call] # s
    BY <1>1, <1>2, <2>1 DEF StoreInv, DelBehindSetex
  <2> QED
    BY <1>1, <1>4, <2>1, <2>2, <2>3 DEF StoreInv, DelIsFinal, Stored
<1> QED
  BY <1>5, <1>6, <1>7, <1>8

LEMMA ExecGetInv ==
  ASSUME StoreInv, NEW g \in Getters, ExecGet(g)
  PROVE  /\ NoCommandTwice' /\ CommandsOfCalls' /\ StoredUnderVerifier'
         /\ CarriedToWanted' /\ FoundUnderWanted' /\ FoundByPhase'
         /\ DelBehindSetex' /\ DelIsFinal'
<1> DEFINE n == Len(replies)
           d == IF wanted[g] \in Keys THEN redis[wanted[g]] ELSE Nil
<1>1. /\ DOMAIN replies = 1..n /\ DOMAIN replies' = 1..(n + 1) /\ n \in Nat
      /\ \A i \in 1..n : replies'[i] = replies[i]
      /\ replies'[n + 1] = d
  BY AppendIndex DEF ExecGet, StoreInv, StoreTypeOK
<1>2. /\ 1..(n + 1) \subseteq DOMAIN queue /\ \A i \in DOMAIN queue : queue[i] \in Commands
      /\ queue[n + 1] = [op |-> "get", call |-> g]
  BY <1>1 DEF ExecGet, Unexecuted, Executing, StoreInv, StoreTypeOK
<1>3. UNCHANGED <<redis, queue, saved, wanted, phase, found>>
  BY DEF ExecGet
<1>4. NoCommandTwice' /\ CommandsOfCalls' /\ StoredUnderVerifier' /\ FoundUnderWanted'
      /\ FoundByPhase' /\ DelBehindSetex'
  BY <1>3 DEF StoreInv, NoCommandTwice, CommandsOfCalls, StoredUnderVerifier,
              FoundUnderWanted, FoundByPhase, DelBehindSetex
<1>5. d # Nil => saved[d] # Nil /\ saved[d].verifier = wanted[g]
  BY DEF StoreInv, StoredUnderVerifier
<1>6. CarriedToWanted'
  BY <1>1, <1>2, <1>3, <1>5 DEF StoreInv, CarriedToWanted
<1>7. DelIsFinal'
  <2> SUFFICES ASSUME NEW i \in 1..(n + 1), queue[i].op = "del"
               PROVE  /\ \A k \in Keys : redis[k] # found[queue[i].call]
                      /\ \A j \in 1..(n + 1) : replies'[j] = found[queue[i].call] => j < i
    BY <1>1, <1>3 DEF DelIsFinal, Stored
  <2>1. i \in 1..n
    BY <1>1, <1>2
  <2>2. queue[i].call \in Getters /\ found[queue[i].call] # Nil
    BY <1>2, <2>1 DEF StoreInv, CommandsOfCalls, FoundByPhase, Commands
  <2>3. \A k \in Keys : redis[k] # found[queue[i].call]
    BY <1>1, <2>1 DEF StoreInv, DelIsFinal, Stored
  <2>4. d # found[queue[i].call]
    BY <2>2, <2>3
  <2>5. \A j \in 1..n : replies[j] = found[queue[i].call] => j < i
    BY <1>1, <2>1 DEF StoreInv, DelIsFinal
  <2> HIDE DEF d
  <2> QED
    BY <1>1, <2>3, <2>4, <2>5
<1> QED
  BY <1>4, <1>6, <1>7

LEMMA ExecDelInv ==
  ASSUME StoreInv, NEW g \in Getters, ExecDel(g)
  PROVE  /\ NoCommandTwice' /\ CommandsOfCalls' /\ StoredUnderVerifier'
         /\ CarriedToWanted' /\ FoundUnderWanted' /\ FoundByPhase'
         /\ DelBehindSetex' /\ DelIsFinal'
<1> DEFINE n == Len(replies)
<1>1. /\ DOMAIN replies = 1..n /\ DOMAIN replies' = 1..(n + 1) /\ n \in Nat
      /\ \A i \in 1..n : replies'[i] = replies[i]
      /\ replies'[n + 1] = Nil
  BY AppendIndex DEF ExecDel, StoreInv, StoreTypeOK, Data
<1>2. /\ 1..(n + 1) \subseteq DOMAIN queue /\ \A i \in DOMAIN queue : queue[i] \in Commands
      /\ queue[n + 1] = [op |-> "del", call |-> g]
  BY <1>1 DEF ExecDel, Unexecuted, Executing, StoreInv, StoreTypeOK
<1>3. found[g] # Nil
  BY <1>1, <1>2 DEF StoreInv, CommandsOfCalls, FoundByPhase
<1>4. /\ \A k \in Keys : redis'[k] = IF k = wanted[g] THEN Nil ELSE redis[k]
      /\ UNCHANGED <<queue, saved, wanted, phase, found>>
  BY DEF ExecDel, StoreInv, StoreTypeOK
<1>5. NoCommandTwice' /\ CommandsOfCalls' /\ FoundUnderWanted' /\ FoundByPhase' /\ DelBehindSetex'
  BY <1>4 DEF StoreInv, NoCommandTwice, CommandsOfCalls, FoundUnderWanted, FoundByPhase,
              DelBehindSetex
<1>6. StoredUnderVerifier'
  BY <1>4 DEF StoreInv, StoredUnderVerifier
<1>7. CarriedToWanted'
  BY <1>1, <1>4 DEF StoreInv, CarriedToWanted
<1>8. DelIsFinal'
  <2> SUFFICES ASSUME NEW i \in 1..(n + 1), queue[i].op = "del"
               PROVE  /\ \A k \in Keys : redis'[k] # found[queue[i].call]
                      /\ \A j \in 1..(n + 1) : replies'[j] = found[queue[i].call] => j < i
    BY <1>1, <1>4 DEF DelIsFinal, Stored
  <2>1. queue[i].call \in Getters /\ found[queue[i].call] # Nil
    BY <1>2 DEF StoreInv, CommandsOfCalls, FoundByPhase, Commands
  <2>2. CASE i \in 1..n
    <3>1. /\ \A k \in Keys : redis[k] # found[queue[i].call]
          /\ \A j \in 1..n : replies[j] = found[queue[i].call] => j < i
      BY <1>1, <2>2 DEF StoreInv, DelIsFinal, Stored
    <3> QED
      BY <1>1, <1>4, <2>1, <3>1
  <2>3. CASE i = n + 1
    <3>1. queue[i].call = g
      BY <1>2, <2>3
    <3>2. \A k \in Keys : redis[k] = found[g] => k = wanted[g]
      BY <1>3 DEF StoreInv, StoredUnderVerifier, FoundUnderWanted
    <3> QED
      BY <1>1, <1>3, <1>4, <2>3, <3>1, <3>2
  <2> QED
    BY <1>1, <2>2, <2>3
<1> QED
  BY <1>5, <1>6, <1>7, <1>8

(* An answer that is heard: what is left moves up by one. First, what the   *)
(* invariant says of the commands q and the answers r behind the first.     *)
BehindFirst(q, r) ==
  /\ \A i \in DOMAIN q :
       /\ q[i] \in Commands
       /\ q[i] # Head(queue)
       /\ q[i].op = "setex" => saved[q[i].call] # Nil
       /\ q[i].op = "get"   => phase[q[i].call] = "get"
       /\ q[i].op = "del"   => phase[q[i].call] = "del"
  /\ \A i, j \in DOMAIN q :
       /\ q[i] = q[j] => i = j
       /\ q[i].op = "del" /\ q[j] = [op |-> "setex", call |-> found[q[i].call]]
            => j < i
  /\ \A i \in DOMAIN r :
       /\ i \in DOMAIN q
       /\ r[i] # Nil =>
            /\ q[i].op = "get"
            /\ saved[r[i]] # Nil
            /\ saved[r[i]].verifier = wanted[q[i].call]
       /\ q[i].op = "del" =>
            /\ ~Stored(found[q[i].call])
            /\ \A j \in DOMAIN r : r[j] = found[q[i].call] => j < i

LEMMA BehindTheFirst ==
  ASSUME StoreInv, replies # <<>>
  PROVE  BehindFirst(Tail(queue), Tail(replies))
<1> DEFINE q == Tail(queue)
           r == Tail(replies)
           m == Len(queue)
           n == Len(replies)
<1>1. /\ m \in Nat \ {0} /\ n \in Nat \ {0} /\ n <= m
      /\ DOMAIN queue = 1..m /\ DOMAIN replies = 1..n
      /\ queue # <<>> /\ Head(queue) = queue[1]
      /\ \A i \in 1..m : queue[i] \in Commands
  BY TailsTyped DEF StoreInv, StoreTypeOK
<1>2. /\ DOMAIN q = 1..(m - 1) /\ DOMAIN r = 1..(n - 1)
      /\ \A i \in 1..(m - 1) : q[i] = queue[i + 1]
      /\ \A i \in 1..(n - 1) : r[i] = replies[i + 1] /\ q[i] = queue[i + 1]
  BY <1>1, TailIndex DEF StoreInv, StoreTypeOK
<1>3. DOMAIN r \subseteq DOMAIN q
  BY <1>1, <1>2
<1>4. /\ 1 \in 1..m
      /\ \A i \in 1..(m - 1) : i + 1 \in 1..m /\ i + 1 # 1
      /\ \A i \in 1..(n - 1) : i + 1 \in 1..n /\ i + 1 \in 1..m /\ i \in 1..(m - 1)
      /\ \A i, j \in Int : (j + 1 < i + 1 <=> j < i) /\ (i + 1 = j + 1 <=> i = j)
  BY <1>1
<1> HIDE DEF m, n, q, r
<1>5. ASSUME NEW i \in DOMAIN q
      PROVE  /\ q[i] \in Commands /\ q[i] # Head(queue)
             /\ q[i].op = "setex" => saved[q[i].call] # Nil
             /\ q[i].op = "get"   => phase[q[i].call] = "get"
             /\ q[i].op = "del"   => phase[q[i].call] = "del"
  BY <1>1, <1>2, <1>4 DEF StoreInv, NoCommandTwice, CommandsOfCalls
<1>6. ASSUME NEW i \in DOMAIN q, NEW j \in DOMAIN q
      PROVE  /\ q[i] = q[j] => i = j
             /\ q[i].op = "del" /\ q[j] = [op |-> "setex", call |-> found[q[i].call]]
                  => j < i
  <2>1. /\ i + 1 \in DOMAIN queue /\ j + 1 \in DOMAIN queue
        /\ q[i] = queue[i + 1] /\ q[j] = queue[j + 1]
        /\ (j + 1 < i + 1 <=> j < i) /\ (i + 1 = j + 1 <=> i = j)
    BY <1>1, <1>2, <1>4
  <2>2. /\ queue[i + 1] = queue[j + 1] => i + 1 = j + 1
        /\ queue[i + 1].op = "del"
             /\ queue[j + 1] = [op |-> "setex", call |-> found[queue[i + 1].call]]
           => j + 1 < i + 1
    BY <2>1 DEF StoreInv, NoCommandTwice, DelBehindSetex
  <2> QED
    BY <2>1, <2>2
<1>7. ASSUME NEW i \in DOMAIN r, r[i] # Nil
      PROVE  /\ q[i].op = "get"
             /\ saved[r[i]] # Nil
             /\ saved[r[i]].verifier = wanted[q[i].call]
  <2>1. i + 1 \in DOMAIN replies /\ r[i] = replies[i + 1] /\ q[i] = queue[i + 1]
    BY <1>1, <1>2, <1>4
  <2> QED
    BY <1>7, <2>1 DEF StoreInv, CarriedToWanted
<1>8. ASSUME NEW i \in DOMAIN r, q[i].op = "del"
      PROVE  /\ ~Stored(found[q[i].call])
             /\ \A j \in DOMAIN r : r[j] = found[q[i].call] => j < i
  <2>1. i + 1 \in DOMAIN replies /\ q[i] = queue[i + 1] /\ i \in Int
    BY <1>1, <1>2, <1>4
  <2>2. /\ ~Stored(found[q[i].call])
        /\ \A j \in DOMAIN replies : replies[j] = found[q[i].call] => j < i + 1
    BY <1>8, <2>1 DEF StoreInv, DelIsFinal
  <2>3. ASSUME NEW j \in DOMAIN r, r[j] = found[q[i].call] PROVE j < i
    <3>1. j + 1 \in DOMAIN replies /\ r[j] = replies[j + 1] /\ j \in Int
      BY <1>1, <1>2, <1>4
    <3>2. j + 1 < i + 1
      BY <2>2, <2>3, <3>1
    <3> QED
      BY <2>1, <3>1, <3>2
  <2> QED
    BY <2>2, <2>3
<1>9. BehindFirst(q, r)
  BY <1>3, <1>5, <1>6, <1>7, <1>8 DEF BehindFirst
<1> QED
  BY <1>9 DEF q, r

LEMMA ReplySetexInv ==
  ASSUME StoreInv, NEW s \in Setters, ReplySetex(s)
  PROVE  /\ NoCommandTwice' /\ CommandsOfCalls' /\ StoredUnderVerifier'
         /\ CarriedToWanted' /\ FoundUnderWanted' /\ FoundByPhase'
         /\ DelBehindSetex' /\ DelIsFinal'
<1>1. /\ replies # <<>> /\ queue' = Tail(queue) /\ replies' = Tail(replies)
      /\ UNCHANGED <<redis, saved, wanted, phase, found>>
  BY DEF ReplySetex, Hears
<1>0. BehindFirst(queue', replies')
  BY <1>1, BehindTheFirst
<1>2. NoCommandTwice' /\ CommandsOfCalls' /\ DelBehindSetex'
  BY <1>0, <1>1 DEF BehindFirst, NoCommandTwice, CommandsOfCalls, DelBehindSetex
<1>3. StoredUnderVerifier' /\ FoundUnderWanted' /\ FoundByPhase'
  BY <1>1 DEF StoreInv, StoredUnderVerifier, FoundUnderWanted, FoundByPhase
<1>4. CarriedToWanted' /\ DelIsFinal'
  BY <1>0, <1>1 DEF BehindFirst, CarriedToWanted, DelIsFinal, Stored
<1> QED
  BY <1>2, <1>3, <1>4

LEMMA ReplyDelInv ==
  ASSUME StoreInv, NEW g \in Getters, ReplyDel(g)
  PROVE  /\ NoCommandTwice' /\ CommandsOfCalls' /\ StoredUnderVerifier'
         /\ CarriedToWanted' /\ FoundUnderWanted' /\ FoundByPhase'
         /\ DelBehindSetex' /\ DelIsFinal'
<1>1. /\ replies # <<>> /\ queue' = Tail(queue) /\ replies' = Tail(replies)
      /\ Head(queue) = [op |-> "del", call |-> g]
      /\ UNCHANGED <<redis, saved, wanted, found>>
      /\ phase' = [phase EXCEPT ![g] = "done"]
  BY DEF ReplyDel, Hears
<1>0. BehindFirst(queue', replies')
  BY <1>1, BehindTheFirst
<1>2. phase[g] = "del"
  <2>1. queue[1] = Head(queue) /\ 1 \in DOMAIN queue
    BY <1>1, TailsTyped, LenProperties DEF StoreInv, StoreTypeOK
  <2> QED
    BY <1>1, <2>1 DEF StoreInv, CommandsOfCalls
<1>3. \A i \in DOMAIN queue' : queue'[i].op \in {"get", "del"} => queue'[i].call \in Getters \ {g}
  BY <1>0, <1>1, <1>2 DEF BehindFirst, Commands
<1>4. NoCommandTwice' /\ DelBehindSetex'
  BY <1>0, <1>1 DEF BehindFirst, NoCommandTwice, DelBehindSetex
<1>5. CommandsOfCalls'
  BY <1>0, <1>1, <1>3 DEF BehindFirst, CommandsOfCalls, StoreInv, StoreTypeOK
<1>6. StoredUnderVerifier' /\ FoundUnderWanted'
  BY <1>1 DEF StoreInv, StoredUnderVerifier, FoundUnderWanted
<1>7. FoundByPhase'
  BY <1>1 DEF StoreInv, StoreTypeOK, FoundByPhase
<1>8. CarriedToWanted' /\ DelIsFinal'
  BY <1>0, <1>1 DEF BehindFirst, CarriedToWanted, DelIsFinal, Stored
<1> QED
  BY <1>4, <1>5, <1>6, <1>7, <1>8

LEMMA ReplyGetInv ==
  ASSUME StoreInv, NEW g \in Getters, ReplyGet(g)
  PROVE  /\ NoCommandTwice' /\ CommandsOfCalls' /\ StoredUnderVerifier'
         /\ CarriedToWanted' /\ FoundUnderWanted' /\ FoundByPhase'
         /\ DelBehindSetex' /\ DelIsFinal'
<1> DEFINE q == Tail(queue)
           a == Head(replies)
<1>1. /\ replies # <<>> /\ replies' = Tail(replies)
      /\ Head(queue) = [op |-> "get", call |-> g]
      /\ UNCHANGED <<redis, saved, wanted>>
      /\ found' = [found EXCEPT ![g] = a]
  BY DEF ReplyGet, Hears
<1>2. BehindFirst(q, replies')
  BY <1>1, BehindTheFirst
<1>3. /\ queue[1] = [op |-> "get", call |-> g] /\ 1 \in DOMAIN queue
      /\ a = replies[1] /\ 1 \in DOMAIN replies
      /\ q \in Seq(Commands)
  <2>1. /\ Head(queue) = queue[1] /\ Head(replies) = replies[1] /\ q \in Seq(Commands)
        /\ Len(queue) \in Nat \ {0} /\ Len(replies) \in Nat \ {0}
    BY <1>1, TailsTyped DEF StoreInv
  <2>2. DOMAIN queue = 1..Len(queue) /\ DOMAIN replies = 1..Len(replies)
    BY LenProperties DEF StoreInv, StoreTypeOK
  <2> QED
    BY <1>1, <2>1, <2>2
<1>4. phase[g] = "get" /\ found[g] = Nil
  BY <1>3 DEF StoreInv, CommandsOfCalls, FoundByPhase
<1>5. a # Nil => saved[a] # Nil /\ saved[a].verifier = wanted[g]
  BY <1>3 DEF StoreInv, CarriedToWanted
<1>6. \A i \in DOMAIN q : q[i].op \in {"get", "del"} => q[i].call \in Getters \ {g}
  BY <1>1, <1>2, <1>4 DEF BehindFirst, Commands
<1>7. StoredUnderVerifier' /\ FoundUnderWanted'
  BY <1>1, <1>5 DEF StoreInv, StoreTypeOK, StoredUnderVerifier, FoundUnderWanted
<1>8. \A h \in Getters \ {g} : found'[h] = found[h]
  BY <1>1 DEF StoreInv, StoreTypeOK
<1> HIDE DEF q, a
<1>9. CASE a = Nil
  <2>1. queue' = q /\ phase' = [phase EXCEPT ![g] = "done"]
    BY <1>9 DEF ReplyGet, q, a
  <2>2. NoCommandTwice' /\ DelBehindSetex'
    BY <1>2, <1>6, <1>8, <2>1 DEF BehindFirst, NoCommandTwice, DelBehindSetex
  <2>3. CommandsOfCalls'
    BY <1>1, <1>2, <1>6, <2>1 DEF BehindFirst, CommandsOfCalls, StoreInv, StoreTypeOK
  <2>4. FoundByPhase'
    BY <1>8, <2>1 DEF StoreInv, StoreTypeOK, FoundByPhase
  <2>5. CarriedToWanted' /\ DelIsFinal'
    BY <1>1, <1>2, <1>6, <1>8, <2>1 DEF BehindFirst, CarriedToWanted, DelIsFinal, Stored
  <2> QED
    BY <1>7, <2>2, <2>3, <2>4, <2>5
<1>10. CASE a # Nil
  <2> DEFINE n == Len(q)
  <2>1. queue' = Append(q, [op |-> "del", call |-> g]) /\ phase' = [phase EXCEPT ![g] = "del"]
    BY <1>10 DEF ReplyGet, q, a
  <2>2. /\ n \in Nat /\ DOMAIN q = 1..n /\ DOMAIN queue' = 1..(n + 1)
        /\ \A i \in 1..n : queue'[i] = q[i]
        /\ queue'[n + 1] = [op |-> "del", call |-> g]
    BY <1>3, <2>1, AppendIndex
  <2> HIDE DEF n
  <2>3. NoCommandTwice'
    BY <1>2, <1>6, <2>2 DEF BehindFirst, NoCommandTwice
  <2>4. DelBehindSetex'
    BY <1>2, <1>6, <1>8, <2>2 DEF BehindFirst, DelBehindSetex
  <2>5. CommandsOfCalls'
    BY <1>1, <1>2, <1>6, <2>1, <2>2 DEF BehindFirst, CommandsOfCalls, StoreInv, StoreTypeOK
  <2>6. FoundByPhase'
    BY <1>1, <1>8, <1>10, <2>1 DEF StoreInv, StoreTypeOK, FoundByPhase
  <2>7. CarriedToWanted' /\ DelIsFinal'
    BY <1>1, <1>2, <1>6, <1>8, <2>2 DEF BehindFirst, CarriedToWanted, DelIsFinal, Stored
  <2> QED
    BY <1>7, <2>3, <2>4, <2>5, <2>6, <2>7
<1> QED
  BY <1>9, <1>10

(* Expiry and failures only take away.                                      *)
LEMMA LossInv ==
  ASSUME StoreInv, Tick \/ ConnectionLost \/ Flush
  PROVE  /\ NoCommandTwice' /\ CommandsOfCalls' /\ StoredUnderVerifier'
         /\ CarriedToWanted' /\ FoundUnderWanted' /\ FoundByPhase'
         /\ DelBehindSetex' /\ DelIsFinal'
<1>1. CASE Tick
  <2>1. /\ \A k \in Keys : redis'[k] \in {redis[k], Nil}
        /\ UNCHANGED <<queue, replies, saved, wanted, phase, found>>
    BY <1>1 DEF Tick, Elapse, StoreInv, StoreTypeOK
  <2>2. \A i \in DOMAIN replies : queue[i].op = "del" => found[queue[i].call] # Nil
    BY DEF StoreInv, StoreTypeOK, CommandsOfCalls, FoundByPhase, Commands
  <2>3. DelIsFinal'
    BY <2>1, <2>2 DEF StoreInv, DelIsFinal, Stored
  <2> QED
    BY <2>1, <2>3 DEF StoreInv, NoCommandTwice, CommandsOfCalls, StoredUnderVerifier,
       CarriedToWanted, FoundUnderWanted, FoundByPhase, DelBehindSetex
<1>2. CASE ConnectionLost
  BY <1>2 DEF ConnectionLost, StoreInv, NoCommandTwice, CommandsOfCalls, StoredUnderVerifier,
     CarriedToWanted, FoundUnderWanted, FoundByPhase, DelBehindSetex, DelIsFinal
<1>3. CASE Flush
  BY <1>3 DEF Flush, StoreInv, StoreTypeOK, NoCommandTwice, CommandsOfCalls,
     StoredUnderVerifier, CarriedToWanted, FoundUnderWanted, FoundByPhase, DelBehindSetex,
     DelIsFinal
<1> QED
  BY <1>1, <1>2, <1>3

LEMMA StoreInvPreserved == StoreInv /\ [StoreNext]_storeVars => StoreInv'
<1> SUFFICES ASSUME StoreInv, [StoreNext]_storeVars PROVE StoreInv'
  OBVIOUS
<1>1. StoreTypeOK'
  BY StoreTypePreserved DEF StoreInv
<1>2. CASE UNCHANGED storeVars
  BY <1>2 DEF storeVars, StoreInv, StoreTypeOK, NoCommandTwice, CommandsOfCalls,
     StoredUnderVerifier, CarriedToWanted, FoundUnderWanted, FoundByPhase, DelBehindSetex,
     DelIsFinal, Stored
<1>3. CASE StoreNext
  <2>1. /\ NoCommandTwice' /\ CommandsOfCalls' /\ StoredUnderVerifier'
        /\ CarriedToWanted' /\ FoundUnderWanted' /\ FoundByPhase'
        /\ DelBehindSetex' /\ DelIsFinal'
    BY <1>3, SetInv, GetInv, ExecSetexInv, ExecGetInv, ExecDelInv, ReplySetexInv,
       ReplyGetInv, ReplyDelInv, LossInv
       DEF StoreNext, Execute, Hear
  <2> QED
    BY <1>1, <2>1 DEF StoreInv
<1> QED
  BY <1>2, <1>3

(* Whatever a get returns was stored under the verifier it was asked for.   *)
THEOREM StoreFindsWhatWasAsked == StoreSpec => []FoundUnderWanted
<1>1. StoreInv => FoundUnderWanted
  BY DEF StoreInv
<1> QED
  BY <1>1, StoreInitInv, StoreInvPreserved, PTL DEF StoreSpec

-----------------------------------------------------------------------------
(* The store implements GrantLedger.                                        *)

LEMMA InitOpensNothing == StoreInit => Ledger!LedgerInit
BY DEF StoreInit, Ledger!LedgerInit, Standing, Outcome

(* A step that saves nothing and brings no state back into reach lets some  *)
(* grants lapse and does nothing else to their standing.                   *)
LEMMA LapsingOnly ==
  ASSUME UNCHANGED saved, NEW S \in SUBSET Setters,
         \A s \in S : saved[s] # Nil /\ InReach(s) /\ ~InReach(s)',
         \A s \in Setters \ S : saved[s] # Nil => (InReach(s)' <=> InReach(s))
  PROVE  Ledger!Lapsing(S)
BY DEF Ledger!Lapsing, Standing

LEMMA LapsingSome ==
  ASSUME UNCHANGED saved, \A s \in Setters : InReach(s)' => InReach(s)
  PROVE  \E S \in SUBSET Setters : Ledger!Lapsing(S)
<1> DEFINE S == {s \in Setters : saved[s] # Nil /\ InReach(s) /\ ~InReach(s)'}
<1>1. S \in SUBSET Setters
  OBVIOUS
<1>2. Ledger!Lapsing(S)
  BY LapsingOnly
<1> QED
  BY <1>1, <1>2

(* set opens the grant.                                                     *)
LEMMA SetOpens ==
  ASSUME StoreInv, NEW s \in Setters, NEW state \in PKCEState, Set(s, state)
  PROVE  Ledger!Open(s)
<1>1. /\ saved[s] = Nil /\ saved' = [saved EXCEPT ![s] = state] /\ state # Nil
      /\ UNCHANGED <<redis, replies, phase, found>>
  BY PKCEAssumption DEF Set, PKCEConstants
<1>2. /\ DOMAIN queue = 1..Len(queue) /\ DOMAIN queue' = 1..(Len(queue) + 1)
      /\ \A i \in 1..Len(queue) : queue'[i] = queue[i]
      /\ queue'[Len(queue) + 1] = [op |-> "setex", call |-> s]
      /\ Len(queue) \in Nat
  BY AppendIndex DEF Set, StoreInv, StoreTypeOK
<1>3. SetexPending(s)'
  BY <1>2 DEF SetexPending
<1>4. \A a \in Setters \ {s} : SetexPending(a)' <=> SetexPending(a)
  BY <1>2 DEF SetexPending
<1>5. \A a \in Setters \ {s} : InReach(a)' <=> InReach(a)
  BY <1>1, <1>4 DEF InReach, Stored, Carried
<1>6. \A a \in Setters : Standing(a)' = IF a = s THEN "open" ELSE Standing(a)
  BY <1>1, <1>3, <1>5 DEF StoreInv, StoreTypeOK, Standing, InReach
<1>7. Standing(s) = "none"
  BY <1>1 DEF Standing
<1>8. \A g \in Getters : Outcome(g)' = Outcome(g)
  BY <1>1 DEF Outcome
<1> HIDE DEF Standing, Outcome
<1>9. [a \in Setters |-> Standing(a)]' = [[a \in Setters |-> Standing(a)] EXCEPT ![s] = "open"]
  BY <1>6
<1>10. [g \in Getters |-> Outcome(g)]' = [g \in Getters |-> Outcome(g)]
  BY <1>8
<1> QED
  BY <1>1, <1>7, <1>9, <1>10 DEF Ledger!Open

LEMMA GetBegins ==
  ASSUME StoreInv, NEW g \in Getters, NEW k \in Keys \union {Nil}, Get(g, k)
  PROVE  Ledger!Begin(g)
<1>1. /\ phase[g] = "idle" /\ phase' = [phase EXCEPT ![g] = "get"]
      /\ UNCHANGED <<redis, replies, saved, found>>
  BY DEF Get
<1>2. /\ DOMAIN queue = 1..Len(queue) /\ DOMAIN queue' = 1..(Len(queue) + 1)
      /\ \A i \in 1..Len(queue) : queue'[i] = queue[i]
      /\ queue'[Len(queue) + 1] = [op |-> "get", call |-> g]
      /\ Len(queue) \in Nat
  BY AppendIndex DEF Get, StoreInv, StoreTypeOK
<1>3. \A a \in Setters : SetexPending(a)' <=> SetexPending(a)
  BY <1>2 DEF SetexPending
<1>4. \A a \in Setters : Standing(a)' = Standing(a)
  BY <1>1, <1>3 DEF Standing, InReach, Stored, Carried
<1> QED
  BY <1>1, <1>4 DEF Ledger!Begin, Outcome, StoreInv, StoreTypeOK

(* What Redis executes, an answer to a SETEX, expiry and a broken           *)
(* connection bring no state into reach, and put some out of it.            *)
LEMMA NothingBrought ==
  ASSUME StoreInv, Execute \/ Tick \/ ConnectionLost \/ \E s \in Setters : ReplySetex(s),
         NEW a \in Setters, InReach(a)'
  PROVE  InReach(a)
<1>1. ASSUME NEW s \in Setters, ExecSetex(s) PROVE InReach(a)
  <2>1. SetexPending(s)
    BY <1>1 DEF ExecSetex, Unexecuted, Executing, SetexPending, StoreInv, StoreTypeOK
  <2>2. SetexPending(a)' => SetexPending(a)
    BY <1>1 DEF ExecSetex, SetexPending
  <2>3. Stored(a)' => Stored(a) \/ a = s
    BY <1>1 DEF ExecSetex, Stored, StoreInv, StoreTypeOK
  <2>4. Carried(a)' => Carried(a)
    BY <1>1, StoreAssumption, AppendIndex
       DEF ExecSetex, Carried, StoreInv, StoreTypeOK, StoreConstants
  <2> QED
    BY <2>1, <2>2, <2>3, <2>4 DEF InReach
<1>2. ASSUME NEW g \in Getters, ExecGet(g) PROVE InReach(a)
  <2>1. UNCHANGED <<queue, redis>>
    BY <1>2 DEF ExecGet
  <2>2. Carried(a)' => Carried(a) \/ Stored(a)
    BY <1>2, StoreAssumption, AppendIndex
       DEF ExecGet, Carried, Stored, StoreInv, StoreTypeOK, StoreConstants
  <2> QED
    BY <2>1, <2>2 DEF InReach, SetexPending, Stored
<1>3. ASSUME NEW g \in Getters, ExecDel(g) PROVE InReach(a)
  <2>1. UNCHANGED queue
    BY <1>3 DEF ExecDel
  <2>2. Stored(a)' => Stored(a)
    BY <1>3, StoreAssumption DEF ExecDel, Stored, StoreInv, StoreTypeOK, StoreConstants
  <2>3. Carried(a)' => Carried(a)
    BY <1>3, StoreAssumption, AppendIndex
       DEF ExecDel, Carried, StoreInv, StoreTypeOK, StoreConstants, Data
  <2> QED
    BY <2>1, <2>2, <2>3 DEF InReach, SetexPending
<1>4. CASE Tick
  <2>1. Stored(a)' => Stored(a)
    BY <1>4, StoreAssumption DEF Tick, Elapse, Stored, StoreInv, StoreTypeOK, StoreConstants
  <2> QED
    BY <1>4, <2>1 DEF Tick, InReach, SetexPending, Carried
<1>5. CASE ConnectionLost
  BY <1>5 DEF ConnectionLost, InReach, SetexPending, Stored, Carried
<1>6. ASSUME NEW s \in Setters, ReplySetex(s) PROVE InReach(a)
  <2>1. /\ replies # <<>> /\ queue' = Tail(queue) /\ replies' = Tail(replies)
        /\ UNCHANGED redis
    BY <1>6 DEF ReplySetex, Hears
  <2>2. (SetexPending(a)' => SetexPending(a)) /\ (Carried(a)' => Carried(a))
    BY <2>1, TailsTyped, TailIndex DEF SetexPending, Carried, StoreInv, StoreTypeOK
  <2> QED
    BY <2>1, <2>2 DEF InReach, Stored
<1> QED
  BY <1>1, <1>2, <1>3, <1>4, <1>5, <1>6 DEF Execute

LEMMA OthersLapse ==
  ASSUME StoreInv, Execute \/ Tick \/ ConnectionLost \/ \E s \in Setters : ReplySetex(s)
  PROVE  Ledger!Lapse
<1>1. UNCHANGED <<saved, phase, found>>
  BY DEF Execute, ExecSetex, ExecGet, ExecDel, Tick, ConnectionLost, ReplySetex
<1>2. \E S \in SUBSET Setters : Ledger!Lapsing(S)
  BY <1>1, NothingBrought, LapsingSome
<1> QED
  BY <1>1, <1>2 DEF Ledger!Lapse, Outcome

(* Hearing an answer to a lookup: only the state it carries may go out of   *)
(* reach, and nothing comes back into it.                                  *)
LEMMA HearingLookup ==
  ASSUME StoreInv, replies # <<>>, Head(queue).op # "setex", replies' = Tail(replies),
         UNCHANGED redis,
         \/ queue' = Tail(queue)
         \/ \E g \in Getters : queue' = Append(Tail(queue), [op |-> "del", call |-> g]),
         NEW a \in Setters
  PROVE  /\ InReach(a)' => InReach(a)
         /\ InReach(a) /\ a # Head(replies) => InReach(a)'
<1> DEFINE q == Tail(queue)
           n == Len(queue)
           m == Len(replies)
<1>1. /\ n \in Nat \ {0} /\ m \in Nat \ {0} /\ q \in Seq(Commands)
      /\ queue \in Seq(Commands) /\ replies \in Seq(Data)
      /\ Head(queue) = queue[1] /\ Head(replies) = replies[1]
      /\ DOMAIN queue = 1..n /\ DOMAIN replies = 1..m
      /\ DOMAIN q = 1..(n - 1) /\ DOMAIN replies' = 1..(m - 1)
  BY TailsTyped, LenProperties DEF StoreInv, StoreTypeOK
<1>2. /\ \A i \in 1..(n - 1) : q[i] = queue[i + 1]
      /\ \A i \in 1..(m - 1) : replies'[i] = replies[i + 1]
  BY <1>1, TailIndex
<1> HIDE DEF q, n, m
<1>3. SetexPending(a) <=> \E i \in 1..(n - 1) : q[i] = [op |-> "setex", call |-> a]
  <2>1. ASSUME NEW i \in 1..n, queue[i] = [op |-> "setex", call |-> a]
        PROVE  \E j \in 1..(n - 1) : q[j] = [op |-> "setex", call |-> a]
    <3>1. i # 1
      BY <1>1, <2>1
    <3>2. i - 1 \in 1..(n - 1) /\ (i - 1) + 1 = i
      BY <1>1, <3>1
    <3> QED
      BY <1>2, <2>1, <3>2
  <2>2. ASSUME NEW j \in 1..(n - 1), q[j] = [op |-> "setex", call |-> a]
        PROVE  \E i \in 1..n : queue[i] = [op |-> "setex", call |-> a]
    <3>1. j + 1 \in 1..n
      BY <1>1
    <3> QED
      BY <1>2, <2>2, <3>1
  <2> QED
    BY <1>1, <2>1, <2>2 DEF SetexPending
<1>4. SetexPending(a)' <=> SetexPending(a)
  <2>1. CASE queue' = q
    BY <1>1, <1>3, <2>1 DEF SetexPending
  <2>2. ASSUME NEW g \in Getters, queue' = Append(q, [op |-> "del", call |-> g])
        PROVE  SetexPending(a)' <=> SetexPending(a)
    <3>1. /\ DOMAIN queue' = 1..n /\ queue'[n] = [op |-> "del", call |-> g]
          /\ \A i \in 1..(n - 1) : queue'[i] = q[i]
      <4>1. Len(q) = n - 1
        BY <1>1, LenProperties
      <4>2. (n - 1) + 1 = n
        BY <1>1
      <4>3. /\ DOMAIN queue' = 1..(Len(q) + 1)
            /\ \A i \in 1..Len(q) : queue'[i] = q[i]
            /\ queue'[Len(q) + 1] = [op |-> "del", call |-> g]
        BY <1>1, <2>2, AppendIndex
      <4> QED
        BY <4>1, <4>2, <4>3
    <3>2. 1..n = 1..(n - 1) \union {n}
      BY <1>1
    <3>3. \A i \in DOMAIN queue' :
            queue'[i] = [op |-> "setex", call |-> a] <=> i # n /\ q[i] = [op |-> "setex", call |-> a]
      BY <1>1, <3>1, <3>2
    <3>4. SetexPending(a)' <=> \E i \in 1..(n - 1) : q[i] = [op |-> "setex", call |-> a]
      <4>1. \A i \in 1..(n - 1) : i # n
        BY <1>1
      <4> QED
        BY <3>1, <3>2, <3>3, <4>1 DEF SetexPending
    <3> QED
      BY <1>3, <3>4
  <2> QED
    BY <2>1, <2>2 DEF q
<1>5. Carried(a)' => Carried(a)
  BY <1>1, <1>2 DEF Carried
<1>6. Carried(a) /\ a # Head(replies) => Carried(a)'
  <2> SUFFICES ASSUME NEW i \in 1..m, replies[i] = a, a # Head(replies) PROVE Carried(a)'
    BY <1>1 DEF Carried
  <2>1. i - 1 \in 1..(m - 1) /\ (i - 1) + 1 = i
    BY <1>1
  <2> QED
    BY <1>1, <1>2, <2>1 DEF Carried
<1> QED
  BY <1>4, <1>5, <1>6 DEF InReach, Stored

(* A get that has found a state claims its grant; one that has found        *)
(* nothing returns.                                                        *)
LEMMA GetClaims ==
  ASSUME StoreInv, NEW g \in Getters, ReplyGet(g), Head(replies) # Nil
  PROVE  \E a \in Setters : Ledger!Claim(g, a)
<1>0. PICK a \in Setters : a = Head(replies)
  BY TailsTyped DEF ReplyGet, Hears, StoreInv, Data
<1>1. /\ replies # <<>> /\ replies' = Tail(replies)
      /\ Head(queue) = [op |-> "get", call |-> g]
      /\ queue' = Append(Tail(queue), [op |-> "del", call |-> g])
      /\ found' = [found EXCEPT ![g] = a] /\ phase' = [phase EXCEPT ![g] = "del"]
      /\ UNCHANGED <<redis, saved>>
  BY <1>0 DEF ReplyGet, Hears
<1>2. /\ queue[1] = Head(queue) /\ 1 \in DOMAIN queue
      /\ a = replies[1] /\ 1 \in DOMAIN replies
  BY <1>0, <1>1, TailsTyped, LenProperties DEF StoreInv, StoreTypeOK, Data
<1>3. phase[g] = "get" /\ found[g] = Nil
  BY <1>1, <1>2 DEF StoreInv, CommandsOfCalls, FoundByPhase
<1>4. saved[a] # Nil /\ InReach(a)
  BY <1>2 DEF StoreInv, CarriedToWanted, InReach, Carried
<1>5. \A b \in Setters \ {a} : InReach(b)' <=> InReach(b)
  BY <1>0, <1>1, HearingLookup
<1>6. \E S \in SUBSET {a} : Ledger!Lapsing(S)
  <2>1. CASE InReach(a)'
    <3>1. Ledger!Lapsing({})
      BY <1>1, <1>4, <1>5, <2>1, LapsingOnly
    <3> QED
      BY <3>1
  <2>2. CASE ~InReach(a)'
    <3>1. Ledger!Lapsing({a})
      BY <1>1, <1>2, <1>4, <1>5, <2>2, LapsingOnly
    <3> QED
      BY <3>1
  <2> QED
    BY <2>1, <2>2
<1>7. \A h \in Getters : Outcome(h)' = Outcome(h)
  BY <1>1, <1>3 DEF Outcome, StoreInv, StoreTypeOK
<1>8. Outcome(g) = "pending" /\ Standing(a) = "open"
  BY <1>3, <1>4 DEF Outcome, Standing
<1> HIDE DEF Outcome, Standing
<1>9. [h \in Getters |-> Outcome(h)]' = [h \in Getters |-> Outcome(h)]
  BY <1>7
<1>10. /\ [h \in Getters |-> Outcome(h)][g] = "pending"
       /\ [b \in Setters |-> Standing(b)][a] = "open"
  BY <1>2, <1>8
<1> QED
  BY <1>1, <1>2, <1>3, <1>6, <1>9, <1>10 DEF Ledger!Claim

(* A lookup that goes from pending to done, and changes no standing.        *)
LEMMA Returning ==
  ASSUME StoreInv, NEW g \in Getters, phase[g] \in {"get", "del"},
         phase' = [phase EXCEPT ![g] = "done"],
         UNCHANGED <<saved, found>>, \A a \in Setters : InReach(a)' <=> InReach(a),
         found[g] # Nil => ~InReach(found[g])
  PROVE  Ledger!Return(g)
<1>1. \A a \in Setters : Standing(a)' = Standing(a)
  BY DEF Standing
<1>2. \A h \in Getters : Outcome(h)' = IF h = g THEN "returned" ELSE Outcome(h)
  BY DEF Outcome, StoreInv, StoreTypeOK
<1>3. Outcome(g) = "pending"
  BY DEF Outcome
<1>4. found[g] # Nil => found[g] \in Setters /\ Standing(found[g]) = "closed"
  BY DEF StoreInv, StoreTypeOK, Data, FoundUnderWanted, Standing
<1> HIDE DEF Standing, Outcome
<1>5. [a \in Setters |-> Standing(a)]' = [a \in Setters |-> Standing(a)]
  BY <1>1
<1>6. [h \in Getters |-> Outcome(h)]' = [[h \in Getters |-> Outcome(h)] EXCEPT ![g] = "returned"]
  BY <1>2
<1>7. [h \in Getters |-> Outcome(h)][g] = "pending"
  BY <1>3
<1>8. found[g] # Nil => [a \in Setters |-> Standing(a)][found[g]] = "closed"
  BY <1>4
<1> QED
  BY <1>5, <1>6, <1>7, <1>8 DEF Ledger!Return

LEMMA GetReturnsNothing ==
  ASSUME StoreInv, NEW g \in Getters, ReplyGet(g), Head(replies) = Nil
  PROVE  Ledger!Return(g)
<1>1. /\ replies # <<>> /\ replies' = Tail(replies)
      /\ Head(queue) = [op |-> "get", call |-> g] /\ queue' = Tail(queue)
      /\ found' = [found EXCEPT ![g] = Nil] /\ phase' = [phase EXCEPT ![g] = "done"]
      /\ UNCHANGED <<redis, saved>>
  BY DEF ReplyGet, Hears
<1>2. queue[1] = Head(queue) /\ 1 \in DOMAIN queue
  BY <1>1, TailsTyped, LenProperties DEF StoreInv, StoreTypeOK
<1>3. phase[g] = "get" /\ found[g] = Nil
  BY <1>1, <1>2 DEF StoreInv, CommandsOfCalls, FoundByPhase
<1>4. UNCHANGED found
  BY <1>1, <1>3 DEF StoreInv, StoreTypeOK
<1>5. \A a \in Setters : InReach(a)' <=> InReach(a)
  BY <1>1, HearingLookup, StoreAssumption DEF StoreConstants
<1> QED
  BY <1>1, <1>3, <1>4, <1>5, Returning

(* A get returns the state it has found when its DEL is answered: by then   *)
(* the state is out of reach.                                              *)
LEMMA DelReturns ==
  ASSUME StoreInv, NEW g \in Getters, ReplyDel(g)
  PROVE  Ledger!Return(g)
<1>1. /\ replies # <<>> /\ replies' = Tail(replies)
      /\ Head(queue) = [op |-> "del", call |-> g] /\ queue' = Tail(queue)
      /\ phase' = [phase EXCEPT ![g] = "done"]
      /\ UNCHANGED <<redis, saved, found>>
  BY DEF ReplyDel, Hears
<1>2. /\ queue[1] = Head(queue) /\ 1 \in DOMAIN queue
      /\ Head(replies) = replies[1] /\ 1 \in DOMAIN replies
      /\ DOMAIN queue = 1..Len(queue) /\ DOMAIN replies = 1..Len(replies)
      /\ Len(queue) \in Nat /\ Len(replies) \in Nat
  BY <1>1, TailsTyped, LenProperties DEF StoreInv, StoreTypeOK
<1>3. phase[g] = "del"
  BY <1>1, <1>2 DEF StoreInv, CommandsOfCalls
<1>4. Head(replies) = Nil
  BY <1>1, <1>2 DEF StoreInv, CarriedToWanted
<1>5. \A a \in Setters : InReach(a)' <=> InReach(a)
  BY <1>1, <1>4, HearingLookup, StoreAssumption DEF StoreConstants
<1>6. ~SetexPending(found[g])
  <2> SUFFICES ASSUME NEW j \in DOMAIN queue, queue[j] = [op |-> "setex", call |-> found[g]]
               PROVE  FALSE
    BY DEF SetexPending
  <2>1. j < 1
    BY <1>1, <1>2 DEF StoreInv, DelBehindSetex
  <2> QED
    BY <1>2, <2>1
<1>7. ~Stored(found[g])
  BY <1>1, <1>2 DEF StoreInv, DelIsFinal
<1>8. ~Carried(found[g])
  <2> SUFFICES ASSUME NEW j \in DOMAIN replies, replies[j] = found[g] PROVE FALSE
    BY DEF Carried
  <2>1. j < 1
    BY <1>1, <1>2 DEF StoreInv, DelIsFinal
  <2> QED
    BY <1>2, <2>1
<1>9. ~InReach(found[g])
  BY <1>6, <1>7, <1>8 DEF InReach
<1> QED
  BY <1>1, <1>3, <1>5, <1>9, Returning

(* When the connection is given up, every lookup under way fails, and what  *)
(* only the queue or an answer held lapses.                                *)
LEMMA FlushFails ==
  ASSUME StoreInv, Flush
  PROVE  \E G \in SUBSET Getters, S \in SUBSET Setters : Ledger!Fail(G, S)
<1> DEFINE G == {g \in Getters : phase[g] \in {"get", "del"}}
<1>1. /\ queue' = <<>> /\ replies' = <<>> /\ UNCHANGED <<redis, saved, found>>
      /\ \A g \in Getters : phase'[g] = IF g \in G THEN "failed" ELSE phase[g]
  BY DEF Flush
<1>2. \A a \in Setters : InReach(a)' => InReach(a)
  BY <1>1 DEF InReach, SetexPending, Carried, Stored
<1>3. PICK S \in SUBSET Setters : Ledger!Lapsing(S)
  BY <1>1, <1>2, LapsingSome
<1>4. \A g \in Getters : Outcome(g)' = IF g \in G THEN "failed" ELSE Outcome(g)
  <2>1. ASSUME NEW g \in G PROVE Outcome(g)' = "failed"
    <3>1. phase'[g] = "failed"
      BY <1>1
    <3> QED
      BY <3>1 DEF Outcome
  <2>2. ASSUME NEW g \in Getters \ G PROVE Outcome(g)' = Outcome(g)
    <3>1. phase'[g] = phase[g]
      BY <1>1
    <3> QED
      BY <3>1 DEF Outcome
  <2> HIDE DEF G, Outcome
  <2> QED
    BY <2>1, <2>2
<1>5. \A g \in G : g \in Getters /\ Outcome(g) = "pending"
  BY DEF Outcome
<1>6. G \in SUBSET Getters
  OBVIOUS
<1> HIDE DEF G, Outcome
<1>7. [g \in Getters |-> Outcome(g)]'
        = [g \in Getters |-> IF g \in G THEN "failed" ELSE [h \in Getters |-> Outcome(h)][g]]
  BY <1>4
<1>8. \A g \in G : [h \in Getters |-> Outcome(h)][g] = "pending"
  BY <1>5
<1>9. Ledger!Fail(G, S)
  BY <1>1, <1>3, <1>7, <1>8 DEF Ledger!Fail
<1> QED
  BY <1>6, <1>9

LEMMA StepsOfTheLedger ==
  ASSUME StoreInv, [StoreNext]_storeVars
  PROVE  [Ledger!LedgerNext]_Ledger!ledger
<1>1. ASSUME NEW s \in Setters, NEW state \in PKCEState, Set(s, state)
      PROVE  Ledger!LedgerNext
  BY <1>1, SetOpens DEF Ledger!LedgerNext
<1>2. ASSUME NEW g \in Getters, NEW k \in Keys \union {Nil}, Get(g, k)
      PROVE  Ledger!LedgerNext
  BY <1>2, GetBegins DEF Ledger!LedgerNext
<1>3. CASE Execute \/ Tick \/ ConnectionLost \/ \E s \in Setters : ReplySetex(s)
  BY <1>3, OthersLapse DEF Ledger!LedgerNext
<1>4. ASSUME NEW g \in Getters, ReplyGet(g) PROVE Ledger!LedgerNext
  <2>1. CASE Head(replies) = Nil
    BY <1>4, <2>1, GetReturnsNothing DEF Ledger!LedgerNext
  <2>2. CASE Head(replies) # Nil
    BY <1>4, <2>2, GetClaims DEF Ledger!LedgerNext
  <2> QED
    BY <2>1, <2>2
<1>5. ASSUME NEW g \in Getters, ReplyDel(g) PROVE Ledger!LedgerNext
  BY <1>5, DelReturns DEF Ledger!LedgerNext
<1>6. CASE Flush
  BY <1>6, FlushFails DEF Ledger!LedgerNext
<1>7. CASE UNCHANGED storeVars
  BY <1>7 DEF storeVars, Ledger!ledger, Standing, Outcome, InReach, SetexPending, Stored, Carried
<1> QED
  BY <1>1, <1>2, <1>3, <1>4, <1>5, <1>6, <1>7 DEF StoreNext, Hear

(* pkce-state-store.ts:25-33: the store implements GrantLedger, so that a   *)
(* state get has returned is out of reach of every get that comes after,   *)
(* for any number of calls, keys and failures and any lifetime.            *)
THEOREM StoreImplementsLedger == StoreSpec => LedgerKept
<1> QED
  BY InitOpensNothing, StoreInitInv, StoreInvPreserved, StepsOfTheLedger, PTL
     DEF StoreSpec, LedgerKept, Ledger!LedgerSpec
-----------------------------------------------------------------------------
(* Lookups end, as far as it is safety: what they wait for is in line, and  *)
(* comes closer.                                                           *)

LEMMA Written ==
  ASSUME StoreTypeOK, NEW c \in Commands, queue' = Append(queue, c)
  PROVE  /\ Len(queue) \in Nat /\ DOMAIN queue = 1..Len(queue)
         /\ DOMAIN queue' = 1..(Len(queue) + 1)
         /\ \A i \in 1..Len(queue) : queue'[i] = queue[i]
         /\ queue'[Len(queue) + 1] = c
BY AppendIndex DEF StoreTypeOK

(* c was the first command, and its call resumes; a get that found          *)
(* something writes its del behind all others.                             *)
Resumes(c) ==
  /\ \A i \in 1..(Len(queue) - 1) : i \in DOMAIN queue' /\ queue'[i] = queue[i + 1]
  /\ \/ DOMAIN queue' = 1..(Len(queue) - 1)
     \/ /\ DOMAIN queue' = 1..Len(queue) /\ c.op = "get"
        /\ queue'[Len(queue)] = [op |-> "del", call |-> c.call]
        /\ phase'[c.call] = "del"
  /\ \A h \in Getters : phase'[h] = phase[h] \/ (c.call = h /\ c.op # "setex")
  /\ c.op # "setex" =>
       \/ phase'[c.call] = "done"
       \/ /\ phase'[c.call] = "del" /\ Len(queue) \in DOMAIN queue'
          /\ queue'[Len(queue)] = [op |-> "del", call |-> c.call]

LEMMA Heard ==
  ASSUME StoreInv, Hear
  PROVE  /\ queue[1] \in Commands /\ Resumes(queue[1])
         /\ Len(queue) \in Nat \ {0} /\ DOMAIN queue = 1..Len(queue)
         /\ Len(replies) \in Nat \ {0} /\ Len(replies') = Len(replies) - 1
<1> DEFINE n == Len(queue)
           q == Tail(queue)
           c == queue[1]
<1>1. StoreTypeOK /\ replies # <<>> /\ replies' = Tail(replies)
  BY DEF StoreInv, Hear, Hears, ReplySetex, ReplyGet, ReplyDel
<1>2. /\ queue # <<>> /\ Head(queue) = c /\ c \in Commands
      /\ q \in Seq(Commands) /\ Len(q) = n - 1
      /\ Len(Tail(replies)) = Len(replies) - 1
  BY <1>1, TailsTyped
<1>3. /\ queue \in Seq(Commands) /\ n \in Nat \ {0} /\ DOMAIN queue = 1..n
      /\ DOMAIN q = 1..(n - 1) /\ \A i \in 1..(n - 1) : q[i] = queue[i + 1]
  BY <1>1, <1>2, TailIndex, LenProperties DEF StoreTypeOK
<1>4. Len(replies) \in Nat \ {0} /\ Len(replies') = Len(replies) - 1
  BY <1>1, <1>2, TailIndex DEF StoreTypeOK
<1>5. phase \in [Getters -> {"idle", "get", "del", "done", "failed"}]
  BY <1>1 DEF StoreTypeOK
<1>6. \A i \in 1..(n - 1) : i \in 1..n
  BY <1>3
<1> HIDE DEF n, q, c
<1>7. ASSUME NEW s \in Setters, ReplySetex(s)
      PROVE  Resumes(c)
  <2>1. c = [op |-> "setex", call |-> s] /\ queue' = q /\ phase' = phase
    BY <1>2, <1>7 DEF ReplySetex, Hears, q
  <2>2. c.op = "setex"
    BY <2>1
  <2> QED
    BY <1>3, <2>1, <2>2 DEF Resumes, n
<1>8. ASSUME NEW g \in Getters, queue' = q, phase' = [phase EXCEPT ![g] = "done"], c.call = g,
             c.op # "setex"
      PROVE  Resumes(c)
  BY <1>3, <1>5, <1>8 DEF Resumes, n
<1>9. ASSUME NEW g \in Getters, queue' = Append(q, [op |-> "del", call |-> g]),
             phase' = [phase EXCEPT ![g] = "del"], c.call = g, c.op = "get"
      PROVE  Resumes(c)
  <2>1. /\ DOMAIN Append(q, [op |-> "del", call |-> g]) = 1..(Len(q) + 1)
        /\ \A i \in 1..Len(q) : Append(q, [op |-> "del", call |-> g])[i] = q[i]
        /\ Append(q, [op |-> "del", call |-> g])[Len(q) + 1] = [op |-> "del", call |-> g]
    BY <1>2, AppendIndex
  <2>2. Len(q) = n - 1 /\ (n - 1) + 1 = n
    BY <1>2, <1>3 DEF n
  <2>3. /\ DOMAIN queue' = 1..n /\ queue'[n] = [op |-> "del", call |-> g]
        /\ \A i \in 1..(n - 1) : queue'[i] = q[i]
    BY <1>9, <2>1, <2>2
  <2>4. phase'[g] = "del" /\ \A h \in Getters \ {g} : phase'[h] = phase[h]
    BY <1>5, <1>9
  <2>5. n \in 1..n
    BY <1>3
  <2> QED
    BY <1>3, <1>6, <1>9, <2>3, <2>4, <2>5 DEF Resumes, n
<1>10. ASSUME NEW g \in Getters, ReplyDel(g)
       PROVE  Resumes(c)
  <2>1. /\ c = [op |-> "del", call |-> g] /\ queue' = q
        /\ phase' = [phase EXCEPT ![g] = "done"]
    BY <1>2, <1>10 DEF ReplyDel, Hears, q
  <2>2. c.call = g /\ c.op # "setex"
    BY <2>1
  <2> QED
    BY <1>8, <2>1, <2>2
<1>11. ASSUME NEW g \in Getters, ReplyGet(g)
       PROVE  Resumes(c)
  <2>1. /\ c = [op |-> "get", call |-> g]
        /\ \/ queue' = q /\ phase' = [phase EXCEPT ![g] = "done"]
           \/ /\ queue' = Append(q, [op |-> "del", call |-> g])
              /\ phase' = [phase EXCEPT ![g] = "del"]
    BY <1>2, <1>11 DEF ReplyGet, Hears, q
  <2>2. c.call = g /\ c.op = "get"
    BY <2>1
  <2> QED
    BY <1>8, <1>9, <2>1, <2>2
<1>12. Resumes(c)
  BY <1>7, <1>10, <1>11 DEF Hear
<1> QED
  BY <1>2, <1>3, <1>4, <1>12 DEF n, c

LEMMA NotInVainKept ==
  ASSUME StoreInv, NoCallWaitsInVain, [StoreNext]_storeVars
  PROVE  NoCallWaitsInVain'
<1> SUFFICES ASSUME NEW g \in Getters, phase'[g] \in {"get", "del"}
             PROVE  \E i \in DOMAIN queue' : queue'[i] = [op |-> phase'[g], call |-> g]
  BY DEF NoCallWaitsInVain, Awaited
<1>1. StoreTypeOK /\ phase \in [Getters -> {"idle", "get", "del", "done", "failed"}]
  BY DEF StoreInv, StoreTypeOK
<1>2. phase[g] \in {"get", "del"} =>
        \E i \in DOMAIN queue : queue[i] = [op |-> phase[g], call |-> g]
  BY DEF NoCallWaitsInVain, Awaited
<1>3. ASSUME NEW s \in Setters, NEW state \in PKCEState, Set(s, state)
      PROVE  \E i \in DOMAIN queue' : queue'[i] = [op |-> phase'[g], call |-> g]
  <2>1. phase' = phase /\ queue' = Append(queue, [op |-> "setex", call |-> s])
    BY <1>3 DEF Set
  <2> QED
    BY <1>1, <1>2, <2>1, CommandTypes, Written
<1>4. ASSUME NEW h \in Getters, NEW k \in Keys \union {Nil}, Get(h, k)
      PROVE  \E i \in DOMAIN queue' : queue'[i] = [op |-> phase'[g], call |-> g]
  <2>1. /\ phase' = [phase EXCEPT ![h] = "get"]
        /\ queue' = Append(queue, [op |-> "get", call |-> h])
    BY <1>4 DEF Get
  <2>2. CASE g = h
    BY <1>1, <2>1, <2>2, CommandTypes, Written
  <2>3. CASE g # h
    <3>1. phase'[g] = phase[g]
      BY <1>1, <2>1, <2>3
    <3> QED
      BY <1>1, <1>2, <2>1, <3>1, CommandTypes, Written
  <2> QED
    BY <2>2, <2>3
<1>5. CASE Hear
  <2>1. PICK c \in Commands : queue[1] = c /\ Resumes(c)
    BY <1>5, Heard
  <2>0. Len(queue) \in Nat \ {0} /\ DOMAIN queue = 1..Len(queue)
    BY <1>5, Heard
  <2>2. CASE c.op # "setex" /\ c.call = g
    BY <2>1, <2>2 DEF Resumes
  <2>3. CASE ~(c.op # "setex" /\ c.call = g)
    <3>1. phase'[g] = phase[g]
      BY <2>1, <2>3 DEF Resumes
    <3>2. PICK i \in 1..Len(queue) : queue[i] = [op |-> phase[g], call |-> g]
      BY <1>2, <2>0, <3>1
    <3>3. i # 1
      BY <1>1, <2>1, <2>3, <3>1, <3>2
    <3>4. i - 1 \in 1..(Len(queue) - 1) /\ (i - 1) + 1 = i
      BY <2>0, <3>2, <3>3
    <3> QED
      BY <2>1, <3>1, <3>2, <3>4 DEF Resumes
  <2> QED
    BY <2>2, <2>3
<1>6. CASE Flush
  BY <1>1, <1>6 DEF Flush
<1>7. CASE Execute \/ Tick \/ ConnectionLost \/ UNCHANGED storeVars
  <2>1. UNCHANGED <<queue, phase>>
    BY <1>7 DEF Execute, ExecSetex, ExecGet, ExecDel, Tick, ConnectionLost, storeVars
  <2> QED
    BY <1>2, <2>1
<1> QED
  BY <1>3, <1>4, <1>5, <1>6, <1>7 DEF StoreNext

(* pkce-state-store.ts:26, 28: no get is left at an await that nothing      *)
(* resolves, for any number of calls and failures.                         *)
THEOREM LookupsAreInLine == StoreSpec => []NoCallWaitsInVain
<1>1. StoreInit => NoCallWaitsInVain
  BY DEF StoreInit, NoCallWaitsInVain
<1>2. StoreInv /\ NoCallWaitsInVain /\ [StoreNext]_storeVars => NoCallWaitsInVain'
  BY NotInVainKept
<1> QED
  BY <1>1, <1>2, StoreInitInv, StoreInvPreserved, PTL DEF StoreSpec

LEMMA StepComesCloser ==
  ASSUME StoreInv, [StoreNext]_storeVars, NEW g \in Getters,
         NEW i \in DOMAIN queue, NEW j \in DOMAIN queue',
         queue[i] = Awaited(g), queue'[j] = Awaited(g)
  PROVE  /\ j <= i
         /\ faults' = faults => StepsAhead(j)' <= StepsAhead(i)
         /\ Hear \/ (Execute /\ Len(replies) < i) => StepsAhead(j)' < StepsAhead(i)
<1>1. /\ StoreTypeOK /\ phase[g] \in {"idle", "get", "del", "done", "failed"}
      /\ Len(queue) \in Nat /\ DOMAIN queue = 1..Len(queue) /\ Len(replies) \in Nat
      /\ faults \in Nat
  BY LenProperties DEF StoreInv, StoreTypeOK
<1>2. \A a, b \in DOMAIN queue : queue[a] = queue[b] => a = b
  BY DEF StoreInv, NoCommandTwice
<1>3. CASE Hear
  <2>1. PICK c \in Commands :
           /\ queue[1] = c /\ 1 \in DOMAIN queue
           /\ Len(replies) \in Nat \ {0} /\ Len(replies') = Len(replies) - 1
           /\ \A a \in 1..(Len(queue) - 1) : queue'[a] = queue[a + 1]
           /\ \/ DOMAIN queue' = 1..(Len(queue) - 1)
              \/ /\ DOMAIN queue' = 1..Len(queue) /\ c.op = "get"
                 /\ queue'[Len(queue)] = [op |-> "del", call |-> c.call]
    BY <1>3, Heard DEF Resumes
  <2>2. c.op = "get" => phase[c.call] = "get"
    BY <2>1 DEF StoreInv, CommandsOfCalls
  <2>3. c.op = "get" => [op |-> "del", call |-> c.call] # Awaited(g)
    BY <2>2 DEF Awaited
  <2>4. j \in 1..(Len(queue) - 1)
    BY <1>1, <2>1, <2>3
  <2>5. i = j + 1
    <3>1. j + 1 \in DOMAIN queue /\ queue[j + 1] = queue[i]
      BY <1>1, <2>1, <2>4
    <3> QED
      BY <1>2, <3>1
  <2> QED
    BY <1>1, <2>1, <2>4, <2>5 DEF StepsAhead
<1>4. ASSUME NEW c \in Commands, queue' = Append(queue, c), c # Awaited(g),
             UNCHANGED replies, ~Hear, ~Execute
      PROVE  /\ j <= i
             /\ faults' = faults => StepsAhead(j)' <= StepsAhead(i)
             /\ Hear \/ (Execute /\ Len(replies) < i) => StepsAhead(j)' < StepsAhead(i)
  <2>1. j \in DOMAIN queue /\ queue[j] = queue[i]
    BY <1>1, <1>4, Written
  <2>2. j = i
    BY <1>2, <2>1
  <2> QED
    BY <1>1, <1>4, <2>2 DEF StepsAhead
<1>5. CASE ~Hear /\ Execute
  <2>1. queue' = queue /\ UNCHANGED faults /\ \E a \in Data : replies' = Append(replies, a)
    <3>1. \A g1 \in Getters : (IF wanted[g1] \in Keys THEN redis[wanted[g1]] ELSE Nil) \in Data
      BY <1>1 DEF StoreTypeOK, Data
    <3>2. Nil \in Data
      BY DEF Data
    <3> QED
      BY <1>5, <3>1, <3>2 DEF Execute, ExecSetex, ExecGet, ExecDel
  <2>2. Len(replies') = Len(replies) + 1
    BY <1>1, <2>1, AppendProperties DEF StoreTypeOK
  <2>3. j = i /\ i \in Nat
    BY <1>1, <1>2, <2>1
  <2> QED
    BY <1>1, <1>5, <2>2, <2>3 DEF StepsAhead
<1>6. CASE ~Hear /\ ~Execute
  <2>1. ASSUME NEW s \in Setters, NEW state \in PKCEState, Set(s, state)
        PROVE  j <= i /\ (faults' = faults => StepsAhead(j)' <= StepsAhead(i))
    <3>1. queue' = Append(queue, [op |-> "setex", call |-> s]) /\ UNCHANGED replies
      BY <2>1 DEF Set
    <3>2. [op |-> "setex", call |-> s] # Awaited(g)
      BY <1>1 DEF Awaited
    <3> QED
      BY <1>4, <1>6, <3>1, <3>2, CommandTypes
  <2>2. ASSUME NEW h \in Getters, NEW k \in Keys \union {Nil}, Get(h, k)
        PROVE  j <= i /\ (faults' = faults => StepsAhead(j)' <= StepsAhead(i))
    <3>1. /\ queue' = Append(queue, [op |-> "get", call |-> h]) /\ UNCHANGED replies
          /\ phase[h] = "idle"
      BY <2>2 DEF Get
    <3>2. [op |-> "get", call |-> h] # Awaited(g)
      BY <3>1 DEF Awaited
    <3> QED
      BY <1>4, <1>6, <3>1, <3>2, CommandTypes
  <2>3. CASE Flush
    BY <2>3 DEF Flush
  <2>4. CASE Tick \/ ConnectionLost \/ UNCHANGED storeVars
    <3>1. queue' = queue /\ (replies' = replies \/ faults' # faults)
      BY <1>1, <2>4 DEF Tick, ConnectionLost, storeVars
    <3>2. j = i /\ i \in Nat
      BY <1>1, <1>2, <3>1
    <3> QED
      BY <1>1, <1>6, <3>1, <3>2 DEF StepsAhead
  <2> QED
    BY <1>6, <2>1, <2>2, <2>3, <2>4 DEF StoreNext
<1> QED
  BY <1>3, <1>5, <1>6

(* pkce-state-store.ts:26, 28: the answer a get awaits comes closer with    *)
(* every answer heard, and only a failure of the connection sets it back.   *)
THEOREM LookupsComeCloser == StoreSpec => AnswersComeCloser
<1>1. StoreInv /\ [StoreNext]_storeVars =>
        [\A g \in Getters, i \in DOMAIN queue, j \in DOMAIN queue' :
           queue[i] = Awaited(g) /\ queue'[j] = Awaited(g) =>
             /\ j <= i
             /\ faults' = faults => StepsAhead(j)' <= StepsAhead(i)
             /\ Hear \/ (Execute /\ Len(replies) < i) => StepsAhead(j)' < StepsAhead(i)]_storeVars
  BY StepComesCloser
<1> QED
  BY <1>1, StoreInitInv, StoreInvPreserved, PTL DEF StoreSpec, AnswersComeCloser
=============================================================================
