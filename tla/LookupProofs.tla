---------------------------- MODULE LookupProofs ----------------------------
(***************************************************************************)
(* A lookup that finds nothing came too late: although /authorize does not *)
(* wait for Redis before it redirects (model.ts:92-94), the GET of a       *)
(* client so redirected is behind the SETEX of its state in the one        *)
(* connection there is, also when ioredis writes both again.               *)
(***************************************************************************)
EXTENDS AuthorizationServerProofs

GetOf(t)   == [op |-> "get", call |-> t]
SetexOf(a) == [op |-> "setex", call |-> a]

(* The SETEX of a, if it is still unanswered, is ahead of the GET of t.     *)
Ahead(a, t) ==
  \A i, j \in DOMAIN queue : queue[i] = GetOf(t) /\ queue[j] = SetexOf(a) => j < i

(* Once the GET of t has found nothing, the state of a is not stored, and   *)
(* no answer behind carries it.                                            *)
GoneByThen(a, t) ==
  \A i \in DOMAIN replies : queue[i] = GetOf(t) /\ replies[i] = Nil =>
    /\ ~Stored(a)
    /\ \A j \in DOMAIN replies : replies[j] = a => j < i

(* What Ahead and GoneByThen depend on.                                     *)
Sequences ==
  /\ DOMAIN queue = 1..Len(queue) /\ Len(queue) \in Nat
  /\ DOMAIN replies = 1..Len(replies) /\ Len(replies) \in Nat
  /\ Len(replies) <= Len(queue)

LEMMA SequencesTyped == StoreTypeOK => Sequences
BY LenProperties DEF StoreTypeOK, Sequences

(* A state is stored under its own verifier only.                           *)
LEMMA StoredWhereWanted ==
  ASSUME StoreInv, NEW a \in Setters, NEW t \in Getters,
         saved[a] # Nil, saved[a].verifier = wanted[t], Stored(a)
  PROVE  wanted[t] \in Keys /\ redis[wanted[t]] = a
<1>1. a # Nil
  BY StoreAssumption DEF StoreConstants
<1>2. PICK k \in Keys : redis[k] = a
  BY DEF Stored
<1> QED
  BY <1>1, <1>2 DEF StoreInv, StoredUnderVerifier

-----------------------------------------------------------------------------
(* A step of the store while a GET is under way.                            *)

(* A command is written behind all others.                                  *)
LEMMA WritingBehind ==
  ASSUME StoreInv, NEW a \in Setters, NEW t \in Getters, Ahead(a, t), GoneByThen(a, t),
         NEW c \in Commands, c # SetexOf(a), c # GetOf(t),
         queue' = Append(queue, c), UNCHANGED <<redis, replies>>
  PROVE  Ahead(a, t)' /\ GoneByThen(a, t)'
<1> DEFINE n == Len(queue)
<1>1. /\ Sequences /\ DOMAIN queue' = 1..(n + 1) /\ queue'[n + 1] = c
      /\ \A i \in 1..n : queue'[i] = queue[i]
  BY SequencesTyped, AppendIndex DEF StoreInv, StoreTypeOK
<1> HIDE DEF n
<1>2. \A i \in 1..(n + 1) : i \in 1..n \/ i = n + 1
  BY <1>1 DEF Sequences, n
<1>3. Ahead(a, t)'
  BY <1>1, <1>2 DEF Ahead, Sequences, GetOf, SetexOf, n
<1>4. \A i \in DOMAIN replies : i \in 1..n
  BY <1>1 DEF Sequences, n
<1> QED
  BY <1>1, <1>3, <1>4 DEF GoneByThen, GetOf, Stored

(* The next command is executed.                                            *)
LEMMA ExecutingAhead ==
  ASSUME StoreInv, NEW a \in Setters, NEW t \in Getters, Ahead(a, t), GoneByThen(a, t),
         saved[a] # Nil, saved[a].verifier = wanted[t], Execute
  PROVE  Ahead(a, t)' /\ GoneByThen(a, t)'
<1> DEFINE n == Len(replies)
<1>0. a # Nil
  BY StoreAssumption DEF StoreConstants
<1>1. UNCHANGED <<queue, saved, wanted>> /\ Ahead(a, t)' /\ Unexecuted
  BY DEF Execute, ExecSetex, ExecGet, ExecDel, Ahead
<1>2. Sequences /\ n + 1 \in DOMAIN queue /\ n \in Nat
  BY <1>1, SequencesTyped DEF StoreInv, Sequences, Unexecuted
<1>3. PICK d \in Data : replies' = Append(replies, d)
  BY DEF Execute, ExecSetex, ExecGet, ExecDel, StoreInv, StoreTypeOK, Data
<1>4. /\ DOMAIN replies' = 1..(n + 1) /\ replies'[n + 1] = d
      /\ \A i \in 1..n : replies'[i] = replies[i]
  BY <1>3, AppendIndex DEF StoreInv, StoreTypeOK
<1>5. ASSUME NEW i \in 1..n, queue[i] = GetOf(t), replies[i] = Nil
      PROVE  ~Stored(a)' /\ d # a
  <2>1. ~Stored(a) /\ i \in DOMAIN queue /\ i < n + 1
    BY <1>2, <1>5 DEF GoneByThen, Sequences
  <2>2. queue[n + 1] # SetexOf(a)
    BY <1>2, <1>5, <2>1 DEF Ahead
  <2>3. \A k \in Keys : redis[k] # a
    BY <2>1 DEF Stored
  <2>4. ASSUME NEW s \in Setters, ExecSetex(s) PROVE ~Stored(a)' /\ d # a
    <3>1. s # a /\ replies' = Append(replies, Nil)
      BY <2>2, <2>4 DEF ExecSetex, Executing, SetexOf
    <3>2. d = Nil
      BY <1>3, <1>4, <3>1, AppendIndex DEF StoreInv, StoreTypeOK, Data
    <3> QED
      BY <1>0, <2>3, <2>4, <3>1, <3>2 DEF ExecSetex, Stored, StoreInv, StoreTypeOK
  <2>5. ASSUME NEW g \in Getters, ExecGet(g) PROVE ~Stored(a)' /\ d # a
    <3>1. d = IF wanted[g] \in Keys THEN redis[wanted[g]] ELSE Nil
      BY <1>4, <2>5, AppendIndex DEF ExecGet, StoreInv, StoreTypeOK, Data
    <3> QED
      BY <1>0, <2>3, <2>5, <3>1 DEF ExecGet, Stored
  <2>6. ASSUME NEW g \in Getters, ExecDel(g) PROVE ~Stored(a)' /\ d # a
    <3>1. d = Nil
      BY <1>4, <2>6, AppendIndex DEF ExecDel, StoreInv, StoreTypeOK, Data
    <3> QED
      BY <1>0, <2>3, <2>6, <3>1 DEF ExecDel, Stored, StoreInv, StoreTypeOK
  <2> QED
    BY <2>4, <2>5, <2>6 DEF Execute
<1>6. ASSUME queue[n + 1] = GetOf(t), d = Nil
      PROVE  ~Stored(a)'
  <2>1. ExecGet(t)
    <3>1. Executing = [op |-> "get", call |-> t]
      BY <1>6 DEF Executing, GetOf
    <3>2. \A s \in Setters : ~ExecSetex(s)
      BY <3>1 DEF ExecSetex
    <3>3. \A g \in Getters : ~ExecDel(g)
      BY <3>1 DEF ExecDel
    <3>4. PICK g \in Getters : ExecGet(g)
      BY <3>2, <3>3 DEF Execute
    <3>5. g = t
      BY <3>1, <3>4 DEF ExecGet
    <3> QED
      BY <3>4, <3>5
  <2>2. d = IF wanted[t] \in Keys THEN redis[wanted[t]] ELSE Nil
    BY <1>4, <2>1, AppendIndex DEF ExecGet, StoreInv, StoreTypeOK, Data
  <2>3. ~Stored(a)
    BY <1>0, <1>6, <2>2, StoredWhereWanted
  <2> QED
    BY <2>1, <2>3 DEF ExecGet, Stored
<1> HIDE DEF n
<1>7. \A i \in 1..(n + 1) : i \in 1..n \/ i = n + 1
  BY <1>2
<1>8. ASSUME NEW i \in 1..(n + 1), queue[i] = GetOf(t), replies'[i] = Nil
      PROVE  ~Stored(a)' /\ \A j \in 1..(n + 1) : replies'[j] = a => j < i
  <2>1. CASE i \in 1..n
    <3>1. replies[i] = Nil /\ i \in DOMAIN replies
      BY <1>2, <1>4, <1>8, <2>1 DEF Sequences, n
    <3>2. \A j \in 1..n : replies[j] = a => j < i
      BY <1>2, <1>8, <3>1 DEF GoneByThen, Sequences, n
    <3> QED
      BY <1>4, <1>5, <1>7, <1>8, <2>1, <3>1, <3>2
  <2>2. CASE i = n + 1
    <3>1. \A j \in 1..n : j < n + 1
      BY <1>2
    <3> QED
      BY <1>0, <1>4, <1>6, <1>7, <1>8, <2>2, <3>1
  <2> QED
    BY <1>7, <2>1, <2>2
<1> QED
  BY <1>1, <1>4, <1>8 DEF GoneByThen

(* The first answer is heard; behind it the rest is as before.              *)
LEMMA HearingAhead ==
  ASSUME StoreInv, NEW a \in Setters, NEW t \in Getters, Ahead(a, t), GoneByThen(a, t),
         replies # <<>>, replies' = Tail(replies), UNCHANGED redis,
         \/ queue' = Tail(queue)
         \/ \E g \in Getters : queue' = Append(Tail(queue), [op |-> "del", call |-> g])
  PROVE  Ahead(a, t)' /\ GoneByThen(a, t)'
<1> DEFINE q == Tail(queue)
           m == Len(queue) - 1
           n == Len(replies) - 1
<1>1. /\ DOMAIN queue = 1..(m + 1) /\ DOMAIN replies = 1..(n + 1)
      /\ m \in Nat /\ n \in Nat /\ n <= m /\ queue # <<>>
      /\ Tail(queue) \in Seq(Commands) /\ Len(Tail(queue)) = m
  BY TailsTyped, SequencesTyped DEF StoreInv, Sequences
<1>2. /\ DOMAIN q = 1..m /\ \A i \in 1..m : q[i] = queue[i + 1]
      /\ DOMAIN replies' = 1..n /\ \A i \in 1..n : replies'[i] = replies[i + 1]
  BY <1>1, TailIndex DEF StoreInv, StoreTypeOK
<1> DEFINE Rest == /\ DOMAIN queue' \in {1..m, 1..(m + 1)}
                   /\ \A i \in 1..m : queue'[i] = q[i]
                   /\ m + 1 \in DOMAIN queue' =>
                        queue'[m + 1] # GetOf(t) /\ queue'[m + 1] # SetexOf(a)
<1>3. Rest
  <2>1. CASE queue' = q
    BY <1>1, <1>2, <2>1
  <2>2. ASSUME NEW g \in Getters, queue' = Append(q, [op |-> "del", call |-> g])
        PROVE  Rest
    <3> DEFINE c == [op |-> "del", call |-> g]
    <3>1. q \in Seq(Commands) /\ Len(q) = m
      BY <1>1
    <3>2. c # GetOf(t) /\ c # SetexOf(a)
      BY DEF GetOf, SetexOf
    <3> HIDE DEF q, c, m
    <3>3. queue' = Append(q, c)
      BY <2>2 DEF c
    <3>4. /\ DOMAIN queue' = 1..(m + 1) /\ queue'[m + 1] = c
          /\ \A i \in 1..m : queue'[i] = q[i]
      BY <3>1, <3>3, AppendIndex
    <3> QED
      BY <3>2, <3>4
  <2> QED
    BY <2>1, <2>2
<1> HIDE DEF q, m, n
<1>4. /\ \A i \in 1..(m + 1) : i \in 1..m \/ i = m + 1
      /\ \A i \in 1..m : i + 1 \in 1..(m + 1)
      /\ \A i \in 1..n : i + 1 \in 1..(n + 1) /\ i \in 1..m
      /\ \A i, j \in Int : j + 1 < i + 1 <=> j < i
  BY <1>1
<1>5. ASSUME NEW i \in DOMAIN queue', NEW j \in DOMAIN queue',
             queue'[i] = GetOf(t), queue'[j] = SetexOf(a)
      PROVE  j < i
  <2>1. i \in 1..m /\ j \in 1..m
    BY <1>3, <1>4, <1>5
  <2>2. queue[i + 1] = GetOf(t) /\ queue[j + 1] = SetexOf(a)
    BY <1>2, <1>3, <1>5, <2>1
  <2>3. j + 1 < i + 1
    BY <1>1, <1>4, <2>1, <2>2 DEF Ahead
  <2> QED
    BY <1>4, <2>1, <2>3
<1>6. ASSUME NEW i \in 1..n, queue'[i] = GetOf(t), replies'[i] = Nil
      PROVE  ~Stored(a) /\ \A j \in 1..n : replies'[j] = a => j < i
  <2>1. queue[i + 1] = GetOf(t) /\ replies[i + 1] = Nil /\ i + 1 \in DOMAIN replies
    BY <1>1, <1>2, <1>3, <1>4, <1>6
  <2>2. ~Stored(a) /\ \A j \in DOMAIN replies : replies[j] = a => j < i + 1
    BY <2>1 DEF GoneByThen
  <2>3. ASSUME NEW j \in 1..n, replies'[j] = a PROVE j < i
    <3>1. j + 1 < i + 1
      BY <1>1, <1>2, <1>4, <2>2, <2>3
    <3> QED
      BY <1>4, <3>1
  <2> QED
    BY <2>2, <2>3
<1> QED
  BY <1>2, <1>5, <1>6 DEF Ahead, GoneByThen, Stored

(* Whatever the store does while the GET of t is under way.                 *)
LEMMA StoreKeepsAhead ==
  ASSUME StoreInv, [StoreNext]_storeVars, NEW a \in Setters, NEW t \in Getters,
         saved[a] # Nil, saved[a].verifier = wanted[t],
         phase[t] = "get", Ahead(a, t), GoneByThen(a, t)
  PROVE  Ahead(a, t)' /\ GoneByThen(a, t)'
<1>1. ASSUME NEW s \in Setters, NEW state \in PKCEState, Set(s, state)
      PROVE  Ahead(a, t)' /\ GoneByThen(a, t)'
  <2>1. s # a /\ SetexOf(s) # SetexOf(a) /\ SetexOf(s) # GetOf(t) /\ SetexOf(s) \in Commands
    BY <1>1, CommandTypes DEF Set, SetexOf, GetOf
  <2> QED
    BY <1>1, <2>1, WritingBehind DEF Set, SetexOf
<1>2. ASSUME NEW g \in Getters, NEW k \in Keys \union {Nil}, Get(g, k)
      PROVE  Ahead(a, t)' /\ GoneByThen(a, t)'
  <2>1. g # t /\ GetOf(g) # SetexOf(a) /\ GetOf(g) # GetOf(t) /\ GetOf(g) \in Commands
    BY <1>2, CommandTypes DEF Get, SetexOf, GetOf
  <2> QED
    BY <1>2, <2>1, WritingBehind DEF Get, GetOf
<1>3. CASE Execute
  BY <1>3, ExecutingAhead
<1>4. CASE Hear
  <2>1. /\ replies # <<>> /\ replies' = Tail(replies) /\ UNCHANGED redis
        /\ \/ queue' = Tail(queue)
           \/ \E g \in Getters : queue' = Append(Tail(queue), [op |-> "del", call |-> g])
    BY <1>4 DEF Hear, ReplySetex, ReplyGet, ReplyDel, Hears
  <2> QED
    BY <2>1, HearingAhead
<1>5. CASE Tick
  <2>1. /\ \A k \in Keys : redis'[k] \in {redis[k], Nil}
        /\ queue' = queue /\ replies' = replies /\ a # Nil
    BY <1>5, StoreAssumption DEF Tick, Elapse, StoreInv, StoreTypeOK, StoreConstants
  <2>2. Stored(a)' => Stored(a)
    BY <2>1 DEF Stored
  <2>3. Ahead(a, t)'
    BY <2>1 DEF Ahead
  <2>4. GoneByThen(a, t)'
    BY <2>1, <2>2 DEF GoneByThen
  <2> QED
    BY <2>3, <2>4
<1>6. CASE ConnectionLost
  BY <1>6 DEF ConnectionLost, Ahead, GoneByThen
<1>7. CASE Flush
  BY <1>7 DEF Flush, Ahead, GoneByThen
<1>8. CASE UNCHANGED storeVars
  BY <1>8 DEF storeVars, Ahead, GoneByThen, Stored
<1> QED
  BY <1>1, <1>2, <1>3, <1>4, <1>5, <1>6, <1>7, <1>8 DEF StoreNext

(* A GET is written behind every SETEX there is.                            *)
LEMMA GetIsBehind ==
  ASSUME StoreInv, StoreInv', NEW a \in Setters, NEW t \in Getters,
         NEW k \in Keys \union {Nil}, Get(t, k)
  PROVE  Ahead(a, t)' /\ GoneByThen(a, t)'
<1> DEFINE n == Len(queue)
<1>1. /\ Sequences /\ DOMAIN queue' = 1..(n + 1) /\ queue'[n + 1] = GetOf(t)
      /\ replies' = replies
  BY SequencesTyped, AppendIndex DEF StoreInv, StoreTypeOK, Get, GetOf
<1>2. \A i \in DOMAIN queue' : queue'[i] = GetOf(t) => i = n + 1
  <2>1. n + 1 \in DOMAIN queue'
    BY <1>1 DEF Sequences
  <2> QED
    BY <1>1, <2>1 DEF StoreInv, NoCommandTwice
<1>3. GetOf(t) # SetexOf(a)
  BY DEF GetOf, SetexOf
<1>4. \A i \in 1..(n + 1) : i < n + 1 \/ i = n + 1
  BY <1>1 DEF Sequences
<1>5. Ahead(a, t)'
  BY <1>1, <1>2, <1>3, <1>4 DEF Ahead
<1>6. \A i \in DOMAIN replies : i \in DOMAIN queue' /\ i # n + 1
  BY <1>1 DEF Sequences
<1> QED
  BY <1>1, <1>2, <1>5, <1>6 DEF GoneByThen

(* The GET that is answered with nothing.                                   *)
LEMMA ClosedWhenNothing ==
  ASSUME StoreInv, NEW a \in Setters, NEW t \in Getters, Ahead(a, t), GoneByThen(a, t),
         saved[a] # Nil, ReplyGet(t), Head(replies) = Nil
  PROVE  Standing(a) = "closed"
<1>1. /\ 1 \in DOMAIN queue /\ 1 \in DOMAIN replies /\ Sequences
      /\ queue[1] = GetOf(t) /\ replies[1] = Nil
  BY TailsTyped, SequencesTyped DEF ReplyGet, Hears, GetOf, StoreInv, Sequences
<1>2. ~SetexPending(a)
  BY <1>1 DEF Ahead, SetexPending, SetexOf, Sequences
<1>3. ~Stored(a) /\ ~Carried(a)
  BY <1>1 DEF GoneByThen, Carried, Sequences
<1> QED
  BY <1>2, <1>3 DEF Standing, InReach

-----------------------------------------------------------------------------
(* The server: whoever asks with a code has got it in a redirect.           *)

CodesDelivered ==
  \A t \in Getters :
    request[t] # Nil /\ request[t].code \in Codes => Delivered(request[t].code)

(* The authorizations whose redirects have this code.                       *)
RedirectedWith(code) == {b \in Setters : IsRedirect(b) /\ response[b].code = code}

(* The lookup of t is for the state of a, as far as its client can tell.    *)
MeantFor(a, t) ==
  /\ saved[a] # Nil
  /\ saved[a].verifier = wanted[t]
  /\ RedirectedWith(request[t].code) = {a}

GetsBehind ==
  \A t \in Getters, a \in Setters :
    phase[t] = "get" /\ MeantFor(a, t) => Ahead(a, t) /\ GoneByThen(a, t)

LookupInv == CodesDelivered /\ GetsBehind

(* A redirect is never taken back.                                          *)
LEMMA RedirectStays ==
  ASSUME ServerInv, [Next]_vars, NEW b \in Setters, IsRedirect(b)
  PROVE  IsRedirect(b)' /\ response'[b] = response[b]
<1> SUFFICES response'[b] = response[b]
  BY DEF IsRedirect
<1>0. /\ pc[b] = "done" /\ b \in Requests /\ \A t \in Getters : t # b
      /\ response = [r \in Requests |-> response[r]]
  BY RequestIsEither DEF IsRedirect, ServerInv, AuthorizationInv, ServerTypeOK, Requests
<1>1. ASSUME NEW r \in Requests \ {b}, \/ response' = response
                                       \/ \E res : response' = [response EXCEPT ![r] = res]
      PROVE  response'[b] = response[b]
  BY <1>0, <1>1
<1>2. ASSUME NEW s \in Setters, \/ \E q \in Queries : AuthorizeArrive(s, q)
                                \/ AuthorizeRead(s)
      PROVE  response'[b] = response[b]
  <2>1. s \in Requests \ {b}
    BY <1>0, <1>2 DEF AuthorizeArrive, AuthorizeRead, Requests
  <2>2. response' = response \/ \E res : response' = [response EXCEPT ![s] = res]
    BY <1>2 DEF AuthorizeArrive, AuthorizeRead, CodeResponse, Refuse, Answer, Suspend
  <2> QED
    BY <1>1, <2>1, <2>2
<1>3. ASSUME NEW t \in Getters,
             \/ \E form \in Forms : TokenArrive(t, form)
             \/ TokenRead(t) \/ TokenHearGet(t) \/ TokenHearDel(t)
      PROVE  response'[b] = response[b]
  <2>1. t \in Requests \ {b}
    BY <1>0 DEF Requests
  <2>2. response' = response \/ \E res : response' = [response EXCEPT ![t] = res]
    BY <1>3 DEF TokenArrive, TokenRead, CodeGrant, CredentialGrant, TokenHearGet,
                TokenHearDel, Refuse, Answer, Suspend
  <2> QED
    BY <1>1, <2>1, <2>2
<1>4. ASSUME NEW r \in Requests, ReadFails(r)
      PROVE  response'[b] = response[b]
  <2>1. r # b
    BY <1>0, <1>4 DEF ReadFails
  <2> QED
    BY <1>1, <1>4, <2>1 DEF ReadFails, Answer
<1>5. CASE CacheGivesUp
  BY <1>0, <1>5 DEF CacheGivesUp
<1>6. CASE UNCHANGED serverVars
  BY <1>6 DEF serverVars
<1>7. CASE Crash
  BY <1>7 DEF Crash
<1>8. ASSUME NEW c \in ClientIds, NEW row \in Rows \union {Nil}, EditClient(c, row)
      PROVE  response'[b] = response[b]
  BY <1>8 DEF EditClient
<1>9. CASE UNCHANGED vars
  BY <1>9 DEF vars, serverVars
<1> QED
  BY <1>2, <1>3, <1>4, <1>5, <1>6, <1>7, <1>8, <1>9 DEF Next, Handle, HearAnswer

(* What a token request asks with stays as it arrived.                      *)
LEMMA FormStays ==
  ASSUME ServerInv, [Next]_vars, NEW t \in Getters
  PROVE  \/ request'[t] = request[t]
         \/ \E form \in Forms : TokenArrive(t, form)
<1>0. \A s \in Setters : s # t
  BY RequestIsEither
<1>1. request = [r \in Requests |-> request[r]] /\ t \in Requests
  BY DEF ServerInv, ServerTypeOK, Requests
<1>2. ASSUME NEW s \in Setters, NEW q \in Queries, AuthorizeArrive(s, q)
      PROVE  request'[t] = request[t]
  BY <1>0, <1>1, <1>2 DEF AuthorizeArrive
<1>3. ASSUME NEW u \in Getters, u # t, NEW form \in Forms, TokenArrive(u, form)
      PROVE  request'[t] = request[t]
  BY <1>1, <1>3 DEF TokenArrive
<1>4. CASE Handle \/ HearAnswer
  <2>1. request' = request
    BY <1>4 DEF Handle, HearAnswer, AuthorizeRead, TokenRead, TokenHearGet, TokenHearDel, serverVars
  <2> QED
    BY <2>1
<1>5. CASE UNCHANGED serverVars
  BY <1>5 DEF serverVars
<1>6. ASSUME NEW r \in Requests, ReadFails(r)
      PROVE  request'[t] = request[t]
  BY <1>6 DEF ReadFails
<1>7. CASE CacheGivesUp \/ Crash
  BY <1>7 DEF CacheGivesUp, Crash
<1>8. ASSUME NEW c \in ClientIds, NEW row \in Rows \union {Nil}, EditClient(c, row)
      PROVE  request'[t] = request[t]
  BY <1>8 DEF EditClient
<1>9. CASE UNCHANGED vars
  BY <1>9 DEF vars, serverVars
<1>10. CASE \E form \in Forms : TokenArrive(t, form)
  BY <1>10
<1> QED
  BY <1>2, <1>3, <1>4, <1>5, <1>6, <1>7, <1>8, <1>9, <1>10 DEF Next

(* A state is saved by a request that waits for the database.               *)
LEMMA SavedStays ==
  ASSUME ServerInv, [Next]_vars, NEW a \in Setters, pc[a] = "done"
  PROVE  saved'[a] = saved[a]
<1>0. saved \in [Setters -> PKCEState \union {Nil}]
  BY DEF ServerInv, StoreInv, StoreTypeOK
<1>1. ASSUME NEW s \in Setters, AuthorizeRead(s)
      PROVE  saved'[a] = saved[a]
  <2>1. s # a
    BY <1>1 DEF AuthorizeRead
  <2> QED
    BY <1>0, <1>1, <2>1 DEF AuthorizeRead, CodeResponse, Set, storeVars
<1>2. ASSUME NEW t \in Getters, TokenRead(t)
      PROVE  saved' = saved
  BY <1>2 DEF TokenRead, CodeGrant, CredentialGrant, Get, storeVars
<1>3. CASE HearAnswer
  BY <1>3 DEF HearAnswer, ReplySetex, TokenHearGet, ReplyGet, TokenHearDel, ReplyDel
<1>4. ASSUME \/ \E s \in Setters, q \in Queries : AuthorizeArrive(s, q)
             \/ \E t \in Getters, form \in Forms : TokenArrive(t, form)
             \/ Execute \/ Tick \/ ConnectionLost
      PROVE  saved'[a] = saved[a]
  BY <1>4 DEF AuthorizeArrive, TokenArrive, Execute, ExecSetex, ExecGet, ExecDel, Tick,
              ConnectionLost, storeVars
<1>5. CASE (\E r \in Requests : ReadFails(r)) \/ CacheGivesUp \/ Crash \/ UNCHANGED vars
  BY <1>5 DEF ReadFails, CacheGivesUp, Crash, Flush, vars, storeVars
<1>6. ASSUME NEW c \in ClientIds, NEW row \in Rows \union {Nil}, EditClient(c, row)
      PROVE  saved'[a] = saved[a]
  BY <1>6 DEF EditClient, storeVars
<1> QED
  BY <1>1, <1>2, <1>3, <1>4, <1>5, <1>6 DEF Next, Handle

(* A GET is under way since it was written.                                 *)
LEMMA GetUnderWay ==
  ASSUME StoreInv, [StoreNext]_storeVars, NEW t \in Getters, phase'[t] = "get"
  PROVE  \/ phase[t] = "get" /\ wanted'[t] = wanted[t]
         \/ \E k \in Keys \union {Nil} : Get(t, k)
<1>0. /\ wanted \in [Getters -> Keys \union {Nil}]
      /\ phase \in [Getters -> {"idle", "get", "del", "done", "failed"}]
  BY DEF StoreInv, StoreTypeOK
<1>1. ASSUME NEW g \in Getters, NEW k \in Keys \union {Nil}, Get(g, k), g # t
      PROVE  phase[t] = "get" /\ wanted'[t] = wanted[t]
  BY <1>0, <1>1 DEF Get
<1>2. ASSUME NEW g \in Getters, ReplyGet(g) \/ ReplyDel(g)
      PROVE  phase[t] = "get" /\ wanted'[t] = wanted[t]
  <2>1. wanted' = wanted /\ \E p \in {"done", "del"} : phase' = [phase EXCEPT ![g] = p]
    BY <1>2 DEF ReplyGet, ReplyDel
  <2> QED
    BY <1>0, <2>1
<1>3. ASSUME \/ \E s \in Setters, state \in PKCEState : Set(s, state)
             \/ \E s \in Setters : ReplySetex(s)
             \/ Execute \/ Tick \/ ConnectionLost \/ UNCHANGED storeVars
      PROVE  phase' = phase /\ wanted' = wanted
  BY <1>3 DEF Set, ReplySetex, Execute, ExecSetex, ExecGet, ExecDel, Tick, ConnectionLost,
              storeVars
<1>4. CASE Flush
  BY <1>0, <1>4 DEF Flush
<1> QED
  BY <1>1, <1>2, <1>3, <1>4 DEF StoreNext, Hear

LEMMA CodesStayDelivered ==
  ASSUME ServerInv, [Next]_vars, CodesDelivered
  PROVE  CodesDelivered'
<1>1. ASSUME NEW code, Delivered(code) PROVE Delivered(code)'
  <2>1. PICK s \in Setters : IsRedirect(s) /\ response[s].code = code
    BY <1>1 DEF Delivered, IsRedirect
  <2>2. IsRedirect(s)' /\ response'[s] = response[s]
    BY <2>1, RedirectStays
  <2> QED
    BY <2>1, <2>2 DEF Delivered, IsRedirect
<1>2. ASSUME NEW t \in Getters, request'[t] # Nil, request'[t].code \in Codes
      PROVE  Delivered(request'[t].code)
  <2>1. CASE request'[t] = request[t]
    BY <1>2, <2>1 DEF CodesDelivered
  <2>2. ASSUME NEW form \in Forms, TokenArrive(t, form)
        PROVE  Delivered(request'[t].code)
    <3>1. request'[t] = form
      BY <2>2 DEF TokenArrive, ServerInv, ServerTypeOK, Requests
    <3> QED
      BY <1>2, <2>2, <3>1 DEF TokenArrive
  <2> QED
    BY <2>1, <2>2, FormStays
<1> QED
  BY <1>1, <1>2 DEF CodesDelivered

LEMMA GetsStayBehind ==
  ASSUME ServerInv, ServerInv', [Next]_vars, LookupInv
  PROVE  GetsBehind'
<1> SUFFICES ASSUME NEW t \in Getters, NEW a \in Setters, phase'[t] = "get", MeantFor(a, t)'
             PROVE  Ahead(a, t)' /\ GoneByThen(a, t)'
  BY DEF GetsBehind
<1>0. StoreInv /\ StoreInv' /\ [StoreNext]_storeVars
  BY ServerSteps DEF ServerInv
<1>1. CASE \E k \in Keys \union {Nil} : Get(t, k)
  BY <1>0, <1>1, GetIsBehind
<1>2. CASE phase[t] = "get" /\ wanted'[t] = wanted[t]
  <2>1. pc[t] = "redis" /\ request[t] # Nil /\ request[t].code \in Codes
    BY <1>2, ServerAssumption
       DEF ServerInv, WaitsOnlyForItsLookup, TokenInv, ServerConstants
  <2>2. request'[t] = request[t]
    BY <2>1, FormStays DEF TokenArrive
  <2>3. \A b \in RedirectedWith(request[t].code) : b = a
    <3>1. ASSUME NEW b \in Setters, IsRedirect(b), response[b].code = request[t].code
          PROVE  b = a
      <4>1. IsRedirect(b)' /\ response'[b] = response[b]
        BY <3>1, RedirectStays
      <4>2. b \in RedirectedWith(request[t].code)'
        BY <2>2, <3>1, <4>1 DEF RedirectedWith
      <4> QED
        BY <2>2, <4>2 DEF MeantFor
    <3> QED
      BY <3>1 DEF RedirectedWith
  <2>4. RedirectedWith(request[t].code) = {a}
    <3>1. PICK b \in Setters : b \in RedirectedWith(request[t].code)
      BY <2>1 DEF LookupInv, CodesDelivered, Delivered, RedirectedWith, IsRedirect
    <3> QED
      BY <2>3, <3>1
  <2>5. pc[a] = "done"
    BY <2>4 DEF RedirectedWith, IsRedirect, ServerInv, AuthorizationInv
  <2>6. saved'[a] = saved[a]
    BY <2>5, SavedStays
  <2>7. saved[a] # Nil /\ saved[a].verifier = wanted[t]
    BY <1>2, <2>6 DEF MeantFor
  <2>8. Ahead(a, t) /\ GoneByThen(a, t)
    BY <1>2, <2>4, <2>7 DEF LookupInv, GetsBehind, MeantFor
  <2> QED
    BY <1>0, <1>2, <2>7, <2>8, StoreKeepsAhead
<1> QED
  BY <1>0, <1>1, <1>2, GetUnderWay

LEMMA LookupInitially == Init => LookupInv
BY RequestIsEither DEF Init, ServerInit, StoreInit, LookupInv, CodesDelivered, GetsBehind, Requests

LEMMA NothingOnlyWhenClosed ==
  ASSUME ServerInv, [Next]_vars, LookupInv, NEW t \in Getters, NEW a \in Setters,
         phase[t] = "get", phase'[t] = "done", MeantFor(a, t)
  PROVE  Standing(a) = "closed"
<1>0. StoreInv /\ [StoreNext]_storeVars
  BY ServerSteps DEF ServerInv
<1>1. Ahead(a, t) /\ GoneByThen(a, t) /\ saved[a] # Nil
  BY DEF LookupInv, GetsBehind, MeantFor
<1>2. ReplyGet(t) /\ Head(replies) = Nil
  <2>0. phase \in [Getters -> {"idle", "get", "del", "done", "failed"}]
    BY <1>0 DEF StoreInv, StoreTypeOK
  <2>1. ASSUME NEW g \in Getters, NEW k \in Keys \union {Nil}, Get(g, k) PROVE FALSE
    BY <2>0, <2>1 DEF Get
  <2>2. ASSUME NEW g \in Getters, ReplyDel(g) PROVE FALSE
    <3>1. phase[g] = "del" /\ phase' = [phase EXCEPT ![g] = "done"]
      BY <1>0, <2>2, HeardAtItsAwait DEF ReplyDel
    <3> QED
      BY <2>0, <3>1
  <2>3. ASSUME NEW g \in Getters, ReplyGet(g) PROVE ReplyGet(t) /\ Head(replies) = Nil
    BY <2>0, <2>3 DEF ReplyGet
  <2>4. ASSUME \/ \E s \in Setters, state \in PKCEState : Set(s, state)
               \/ \E s \in Setters : ReplySetex(s)
               \/ Execute \/ Tick \/ ConnectionLost \/ UNCHANGED storeVars
        PROVE  FALSE
    <3>1. phase' = phase
      BY <2>4 DEF Set, ReplySetex, Execute, ExecSetex, ExecGet, ExecDel, Tick,
                  ConnectionLost, storeVars
    <3> QED
      BY <3>1
  <2>5. CASE Flush
    BY <2>0, <2>5 DEF Flush
  <2> QED
    BY <1>0, <2>1, <2>2, <2>3, <2>4, <2>5 DEF StoreNext, Hear
<1> QED
  BY <1>0, <1>1, <1>2, ClosedWhenNothing

(* model.ts:92-94: although the redirect does not wait for SETEX, a lookup  *)
(* by the client so redirected comes back with null only when the state    *)
(* has been and gone.                                                      *)
THEOREM NothingTooEarly == Spec => NullOnlyWhenClosed
<1> DEFINE Late ==
      \A t \in Getters, a \in Setters :
        phase[t] = "get" /\ phase'[t] = "done" /\ saved[a] # Nil
          /\ saved[a].verifier = wanted[t]
          /\ {b \in Setters : IsRedirect(b) /\ response[b].code = request[t].code} = {a}
        => Standing(a) = "closed"
<1>1. ServerInv /\ LookupInv /\ [Next]_vars => [Late]_vars
  BY NothingOnlyWhenClosed DEF MeantFor, RedirectedWith
<1>2. ServerInv /\ ServerInv' /\ LookupInv /\ [Next]_vars => LookupInv'
  BY CodesStayDelivered, GetsStayBehind DEF LookupInv
<1> QED
  BY <1>1, <1>2, LookupInitially, ServerInitially, ServerInvPreserved, PTL
     DEF Spec, NullOnlyWhenClosed
=============================================================================
