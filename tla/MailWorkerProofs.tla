-------------------------- MODULE MailWorkerProofs --------------------------
(***************************************************************************)
(* The worker for any number of mails and deaths of the process: its       *)
(* variables keep their types, a mail is tried at most once and is not     *)
(* lost while the process lives, and it moves up in the queue.             *)
(***************************************************************************)
EXTENDS MailWorker, SequenceTheorems, TLAPS

-----------------------------------------------------------------------------
(* The two operations on the queue.                                         *)

LEMMA QueueTyped ==
  ASSUME MailTypeOK
  PROVE  tasks \in Seq(Mails) /\ Len(tasks) \in Nat /\ DOMAIN tasks = 1..Len(tasks)
BY LenProperties DEF MailTypeOK

LEMMA HeadOfTasks ==
  ASSUME MailTypeOK, tasks # <<>>
  PROVE  /\ Head(tasks) \in Mails /\ Head(tasks) = tasks[1]
         /\ Len(tasks) \in Nat \ {0}
         /\ Tail(tasks) \in Seq(Mails)
         /\ DOMAIN Tail(tasks) = 1..(Len(tasks) - 1)
         /\ \A i \in DOMAIN Tail(tasks) : i + 1 \in DOMAIN tasks /\ Tail(tasks)[i] = tasks[i + 1]
<1>1. tasks \in Seq(Mails) /\ Len(tasks) \in Nat \ {0} /\ DOMAIN tasks = 1..Len(tasks)
  BY QueueTyped, EmptySeq
<1>2. /\ Head(tasks) \in Mails /\ Head(tasks) = tasks[1]
      /\ Tail(tasks) \in Seq(Mails) /\ Len(Tail(tasks)) = Len(tasks) - 1
      /\ \A i \in 1..Len(Tail(tasks)) : Tail(tasks)[i] = tasks[i + 1]
  BY <1>1, HeadTailProperties
<1>3. DOMAIN Tail(tasks) = 1..(Len(tasks) - 1)
  BY <1>2, LenProperties
<1> QED
  BY <1>1, <1>2, <1>3

LEMMA DispatchTyped ==
  ASSUME MailTypeOK, NEW m \in Mails, Dispatch(m)
  PROVE  /\ tasks' \in Seq(Mails)
         /\ DOMAIN tasks' = 1..(Len(tasks) + 1)
         /\ \A i \in 1..Len(tasks) : tasks'[i] = tasks[i]
         /\ tasks'[Len(tasks) + 1] = m
<1>1. /\ tasks' \in Seq(Mails) /\ Len(tasks') = Len(tasks) + 1
      /\ \A i \in 1..Len(tasks) : tasks'[i] = tasks[i]
      /\ tasks'[Len(tasks) + 1] = m
  BY QueueTyped, AppendProperties DEF Dispatch
<1>2. DOMAIN tasks' = 1..(Len(tasks) + 1)
  BY <1>1, LenProperties
<1> QED
  BY <1>1, <1>2

-----------------------------------------------------------------------------
(* Types, and each mail tried once.                                         *)

MailInv == MailTypeOK /\ MailedOnce

(* What a step of the queue does, whichever action takes it.                *)
LEMMA Steps ==
  ASSUME [MailNext]_mailVars
  PROVE  \/ \E m \in Mails : Dispatch(m)
         \/ tasks # <<>> /\ TakeNext
         \/ Settle
         \/ tasks = <<>> /\ Rest
         \/ Crash
         \/ UNCHANGED mailVars
BY DEF MailNext, Work, Process, Callback

LEMMA InitInv == MailInit => MailInv
<1> SUFFICES ASSUME MailInit PROVE MailInv
  OBVIOUS
<1>1. tasks \in Seq(Mails) /\ DOMAIN tasks = {}
  BY EmptySeq DEF MailInit
<1>2. MailTypeOK
  BY <1>1, MailAssumption DEF MailInit, MailTypeOK, MailConstants
<1>3. /\ \A m \in Mails : attempts[m] = 0 /\ dispatchedIn[m] = Nil /\ ~Waiting(m)
      /\ crashes # Nil
  BY <1>1, MailAssumption DEF MailInit, Waiting, MailConstants
<1>4. ASSUME NEW m \in Mails
      PROVE  attempts[m] <= 1 /\ ~(attempts[m] > 0) /\ dispatchedIn[m] # crashes
  BY <1>3
<1>5. MailedOnce
  BY <1>1, <1>3, <1>4 DEF MailedOnce
<1> QED
  BY <1>2, <1>5 DEF MailInv

LEMMA DispatchInv ==
  ASSUME MailInv, NEW m \in Mails, Dispatch(m)
  PROVE  MailInv'
<1>1. /\ MailTypeOK /\ Len(tasks) \in Nat /\ DOMAIN tasks = 1..Len(tasks)
      /\ tasks' \in Seq(Mails) /\ DOMAIN tasks' = 1..(Len(tasks) + 1)
      /\ \A i \in 1..Len(tasks) : tasks'[i] = tasks[i]
      /\ tasks'[Len(tasks) + 1] = m
  BY QueueTyped, DispatchTyped DEF MailInv
<1>2. MailTypeOK'
  BY <1>1 DEF MailTypeOK, Dispatch
<1>3. crashes # Nil /\ ~Waiting(m) /\ attempts[m] = 0
  BY <1>1, MailAssumption DEF MailInv, MailedOnce, MailTypeOK, Dispatch, MailConstants
<1>4. \A u \in Mails \ {m} : Waiting(u)' <=> Waiting(u)
  BY <1>1 DEF Waiting
<1>5. \A i \in DOMAIN tasks' : tasks'[i] = m <=> i = Len(tasks) + 1
  BY <1>1, <1>3 DEF Waiting
<1>6. Waiting(m)'
  BY <1>1 DEF Waiting
<1>7. dispatchedIn'[m] = crashes /\ \A u \in Mails \ {m} : dispatchedIn'[u] = dispatchedIn[u]
  BY <1>1 DEF MailTypeOK, Dispatch
<1>8. ASSUME NEW u \in Mails, NEW i \in DOMAIN tasks', NEW j \in DOMAIN tasks',
             tasks'[i] = u, tasks'[j] = u
      PROVE  i = j
  <2>1. CASE u = m
    BY <1>5, <1>8, <2>1
  <2>2. CASE u # m
    <3>1. i \in DOMAIN tasks /\ j \in DOMAIN tasks /\ tasks[i] = u /\ tasks[j] = u
      BY <1>1, <1>8, <2>2
    <3> QED
      BY <3>1 DEF MailInv, MailedOnce
  <2> QED
    BY <2>1, <2>2
<1>9. MailedOnce'
  <2> SUFFICES ASSUME NEW u \in Mails
               PROVE  /\ attempts'[u] <= 1
                      /\ \A i, j \in DOMAIN tasks' : tasks'[i] = u /\ tasks'[j] = u => i = j
                      /\ Waiting(u)' => attempts'[u] = 0 /\ dispatchedIn'[u] = crashes'
                      /\ attempts'[u] > 0 => dispatchedIn'[u] # Nil
                      /\ dispatchedIn'[u] = crashes' => Waiting(u)' \/ attempts'[u] > 0
    BY DEF MailedOnce
  <2>1. attempts' = attempts /\ crashes' = crashes
    BY DEF Dispatch
  <2>2. CASE u = m
    BY <1>3, <1>6, <1>7, <1>8, <2>1, <2>2
  <2>3. CASE u # m
    BY <1>4, <1>7, <1>8, <2>1, <2>3 DEF MailInv, MailedOnce
  <2> QED
    BY <2>2, <2>3
<1> QED
  BY <1>2, <1>9 DEF MailInv

(* The head leaves the queue for good: it was there once.                   *)
LEMMA TakeNextInv ==
  ASSUME MailInv, tasks # <<>>, TakeNext
  PROVE  MailInv'
<1>1. /\ MailTypeOK /\ tasks \in Seq(Mails) /\ DOMAIN tasks = 1..Len(tasks)
      /\ Len(tasks) \in Nat \ {0}
  BY QueueTyped, HeadOfTasks DEF MailInv
<1>2. PICK m \in Mails : m = Head(tasks)
  BY <1>1, HeadOfTasks
<1>3. /\ m = tasks[1] /\ 1 \in DOMAIN tasks
      /\ tasks' \in Seq(Mails) /\ DOMAIN tasks' = 1..(Len(tasks) - 1)
      /\ \A i \in DOMAIN tasks' : i + 1 \in DOMAIN tasks /\ tasks'[i] = tasks[i + 1]
      /\ sending' = m /\ answer' = "none" /\ attempts' = [attempts EXCEPT ![m] = @ + 1]
      /\ crashes' = crashes /\ dispatchedIn' = dispatchedIn
  BY <1>1, <1>2, HeadOfTasks DEF TakeNext
<1>4. MailTypeOK'
  BY <1>1, <1>3 DEF MailTypeOK
<1>5. Waiting(m) /\ attempts[m] = 0 /\ dispatchedIn[m] = crashes /\ crashes # Nil
  BY <1>1, <1>3, MailAssumption DEF Waiting, MailInv, MailedOnce, MailTypeOK, MailConstants
<1>6. attempts'[m] = 1 /\ \A u \in Mails \ {m} : attempts'[u] = attempts[u]
  BY <1>1, <1>3, <1>5 DEF MailTypeOK
<1>7. ~Waiting(m)'
  <2> SUFFICES ASSUME NEW i \in DOMAIN tasks', tasks'[i] = m PROVE FALSE
    BY DEF Waiting
  <2>1. i + 1 \in DOMAIN tasks /\ tasks[i + 1] = m /\ i + 1 # 1
    BY <1>3
  <2> QED
    BY <1>3, <2>1 DEF MailInv, MailedOnce
<1>8. ASSUME NEW u \in Mails, u # m
      PROVE  Waiting(u)' <=> Waiting(u)
  <2>1. ASSUME Waiting(u) PROVE Waiting(u)'
    <3>1. PICK i \in 1..Len(tasks) : tasks[i] = u
      BY <1>1, <2>1 DEF Waiting
    <3>2. i # 1
      BY <1>3, <1>8, <3>1
    <3>3. i - 1 \in DOMAIN tasks' /\ (i - 1) + 1 = i
      BY <1>1, <1>3, <3>1, <3>2
    <3>4. tasks'[i - 1] = u
      BY <1>3, <3>1, <3>3
    <3> QED
      BY <3>3, <3>4 DEF Waiting
  <2>2. ASSUME Waiting(u)' PROVE Waiting(u)
    BY <1>3, <2>2 DEF Waiting
  <2> QED
    BY <2>1, <2>2
<1>9. ASSUME NEW u \in Mails, NEW i \in DOMAIN tasks', NEW j \in DOMAIN tasks',
             tasks'[i] = u, tasks'[j] = u
      PROVE  i = j
  <2>1. i + 1 \in DOMAIN tasks /\ j + 1 \in DOMAIN tasks /\ tasks[i + 1] = u /\ tasks[j + 1] = u
    BY <1>3, <1>9
  <2>2. i + 1 = j + 1
    BY <2>1 DEF MailInv, MailedOnce
  <2> QED
    BY <1>1, <1>3, <2>2
<1>10. MailedOnce'
  <2> SUFFICES ASSUME NEW u \in Mails
               PROVE  /\ attempts'[u] <= 1
                      /\ \A i, j \in DOMAIN tasks' : tasks'[i] = u /\ tasks'[j] = u => i = j
                      /\ Waiting(u)' => attempts'[u] = 0 /\ dispatchedIn'[u] = crashes'
                      /\ attempts'[u] > 0 => dispatchedIn'[u] # Nil
                      /\ dispatchedIn'[u] = crashes' => Waiting(u)' \/ attempts'[u] > 0
    BY DEF MailedOnce
  <2>1. CASE u = m
    BY <1>3, <1>5, <1>6, <1>7, <1>9, <2>1
  <2>2. CASE u # m
    BY <1>3, <1>6, <1>8, <1>9, <2>2 DEF MailInv, MailedOnce
  <2> QED
    BY <2>1, <2>2
<1> QED
  BY <1>4, <1>10 DEF MailInv

(* What the next process has been given is nothing yet.                     *)
LEMMA CrashInv ==
  ASSUME MailInv, Crash
  PROVE  MailInv'
<1>1. tasks' \in Seq(Mails) /\ DOMAIN tasks' = {}
  BY EmptySeq DEF Crash
<1>2. crashes \in Nat /\ Nil \notin Nat /\ crashes' = crashes + 1 /\ dispatchedIn' = dispatchedIn
  BY MailAssumption DEF MailInv, MailTypeOK, Crash, MailConstants
<1>3. ASSUME NEW m \in Mails
      PROVE  /\ dispatchedIn[m] \in 0..crashes' \union {Nil}
             /\ dispatchedIn[m] # crashes'
  <2>1. dispatchedIn[m] \in 0..crashes \union {Nil}
    BY DEF MailInv, MailTypeOK
  <2> QED
    BY <1>2, <2>1
<1>4. MailTypeOK'
  <2>1. dispatchedIn' \in [Mails -> 0..crashes' \union {Nil}]
    BY <1>2, <1>3 DEF MailInv, MailTypeOK
  <2> QED
    BY <1>1, <1>2, <2>1, MailAssumption DEF MailInv, MailTypeOK, Crash, MailConstants
<1>5. MailedOnce'
  BY <1>1, <1>2, <1>3 DEF MailInv, MailedOnce, Waiting, Crash
<1> QED
  BY <1>4, <1>5 DEF MailInv

LEMMA NextInv == MailInv /\ [MailNext]_mailVars => MailInv'
<1> SUFFICES ASSUME MailInv, [MailNext]_mailVars PROVE MailInv'
  OBVIOUS
<1>1. CASE Settle \/ (tasks = <<>> /\ Rest)
  BY <1>1 DEF MailInv, MailTypeOK, MailedOnce, Waiting, Settle, Rest
<1>2. CASE UNCHANGED mailVars
  BY <1>2 DEF MailInv, MailTypeOK, MailedOnce, Waiting, mailVars
<1> QED
  BY <1>1, <1>2, Steps, DispatchInv, TakeNextInv, CrashInv

LEMMA MailInvariant == MailSpec => []MailInv
BY InitInv, NextInv, PTL DEF MailSpec

(* The variables of the worker keep their types: what is in the queue are   *)
(* mails, and each was dispatched in this process or one before it.         *)
THEOREM MailTypeCorrect == MailSpec => []MailTypeOK
BY MailInvariant, PTL DEF MailInv

(* mail.ts:27-30, 60-67: SendGrid is asked for each mail at most once,      *)
(* whatever it answers and whenever the process dies, and a mail that the   *)
(* living process was given is in the queue or was tried.                   *)
THEOREM MailsTriedOnce == MailSpec => []MailedOnce
BY MailInvariant, PTL DEF MailInv

-----------------------------------------------------------------------------
(* Mails move up.                                                           *)

LEMMA StepMovesMails ==
  ASSUME MailInv, [MailNext]_mailVars, NEW i \in DOMAIN tasks, NEW j \in DOMAIN tasks',
         tasks[i] = tasks'[j]
  PROVE  \/ j < i
         \/ j = i /\ sending' = sending /\ answer \in {"none", answer'}
<1>1. /\ MailTypeOK /\ Len(tasks) \in Nat /\ DOMAIN tasks = 1..Len(tasks)
      /\ tasks[i] \in Mails
  BY QueueTyped, ElementOfSeq DEF MailInv
<1>2. \A a \in DOMAIN tasks : tasks[a] = tasks[i] => a = i
  BY <1>1 DEF MailInv, MailedOnce
<1>3. CASE Settle \/ (tasks = <<>> /\ Rest) \/ UNCHANGED mailVars
  <2>1. tasks' = tasks /\ (tasks = <<>> \/ (sending' = sending /\ answer \in {"none", answer'}))
    BY <1>3 DEF Settle, Rest, mailVars
  <2>2. tasks # <<>>
    BY <1>1
  <2> QED
    BY <1>2, <2>1, <2>2
<1>4. ASSUME NEW m \in Mails, Dispatch(m)
      PROVE  j = i /\ sending' = sending /\ answer' = answer
  <2>1. /\ DOMAIN tasks' = 1..(Len(tasks) + 1)
        /\ \A a \in 1..Len(tasks) : tasks'[a] = tasks[a]
        /\ tasks'[Len(tasks) + 1] = m
    BY <1>1, <1>4, DispatchTyped
  <2>2. tasks[i] # m
    BY <1>1, <1>4, MailAssumption
       DEF MailInv, MailedOnce, MailTypeOK, Waiting, Dispatch, MailConstants
  <2>3. j \in DOMAIN tasks /\ tasks[j] = tasks[i]
    BY <1>1, <2>1, <2>2
  <2> QED
    BY <1>2, <1>4, <2>3 DEF Dispatch
<1>5. CASE tasks # <<>> /\ TakeNext
  <2>1. /\ DOMAIN tasks' = 1..(Len(tasks) - 1)
        /\ \A a \in DOMAIN tasks' : a + 1 \in DOMAIN tasks /\ tasks'[a] = tasks[a + 1]
    BY <1>1, <1>5, HeadOfTasks DEF TakeNext
  <2>2. i = j + 1 /\ j \in Nat
    BY <1>1, <1>2, <2>1
  <2> QED
    BY <2>2
<1>6. CASE Crash
  BY <1>6, EmptySeq DEF Crash
<1> QED
  BY <1>3, <1>4, <1>5, <1>6, Steps

(* mail.ts:27-30, 60-67: whoever waits in the queue moves up, and no mail   *)
(* is sent again before its turn, whatever SendGrid answers.                *)
THEOREM QueueMovesUp == MailSpec => MailsMoveUp
<1>1. MailInv /\ [MailNext]_mailVars =>
        [\A i \in DOMAIN tasks, j \in DOMAIN tasks' :
           tasks[i] = tasks'[j] =>
             \/ j < i
             \/ j = i /\ sending' = sending /\ answer \in {"none", answer'}]_mailVars
  BY StepMovesMails
<1> QED
  BY <1>1, MailInvariant, PTL DEF MailSpec, MailsMoveUp
=============================================================================
