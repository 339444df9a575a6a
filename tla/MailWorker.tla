----------------------------- MODULE MailWorker -----------------------------
(***************************************************************************)
(* The worker that mails invites (src/pkg/worker): a queue of the async    *)
(* library, in memory, with one handler at a time.                         *)
(*                                                                         *)
(* The handler gives the callback of the queue to .then and to .catch: a   *)
(* mail that failed leaves the queue as one that was sent does.            *)
(***************************************************************************)
EXTENDS Naturals, Sequences

CONSTANTS
  Mails,      \* calls of dispatch, each with the parameters of one mail
  MaxCrashes, \* bound: deaths of the process
  Nil

MailConstants == MaxCrashes \in Nat /\ Nil \notin Mails \union Nat

ASSUME MailAssumption == MailConstants

VARIABLES
  tasks,        \* mails that wait in the queue
  sending,      \* the mail the handler is at, or Nil
  answer,       \* how Mail.send has settled: "none" before it has
  crashes,      \* deaths of the process so far
  attempts,     \* attempts[m]: how often SendGrid was asked to send m
  dispatchedIn  \* dispatchedIn[m]: the process that m was dispatched in, by
                \* the deaths before it, or Nil

mailVars == <<tasks, sending, answer, crashes, attempts, dispatchedIn>>

MailTypeOK ==
  /\ tasks \in Seq(Mails)
  /\ sending \in Mails \union {Nil}
  /\ answer \in {"none", "sent", "failed"}
  /\ crashes \in 0..MaxCrashes
  /\ attempts \in [Mails -> Nat]
  /\ dispatchedIn \in [Mails -> 0..crashes \union {Nil}]

MailInit ==
  /\ tasks = <<>>
  /\ sending = Nil
  /\ answer = "none"
  /\ crashes = 0
  /\ attempts = [m \in Mails |-> 0]
  /\ dispatchedIn = [m \in Mails |-> Nil]

Waiting(m) == \E i \in DOMAIN tasks : tasks[i] = m

(* send_invite: queue.push. The queue looks at its tasks in a turn of its   *)
(* own.                                                                    *)
Dispatch_WithoutParams(m) ==
  /\ dispatchedIn[m] = Nil
  /\ dispatchedIn' = [dispatchedIn EXCEPT ![m] = crashes]
  /\ tasks' = Append(tasks, Nil)
  /\ UNCHANGED <<sending, answer, crashes, attempts>>

Dispatch(m) ==
  /\ dispatchedIn[m] = Nil
  /\ dispatchedIn' = [dispatchedIn EXCEPT ![m] = crashes]
  /\ tasks' = Append(tasks, m)
  /\ UNCHANGED <<sending, answer, crashes, attempts>>

(* InviteMailHandler with the next mail, up to the await on SendGrid.       *)
TakeNext ==
  /\ tasks' = Tail(tasks)
  /\ sending' = Head(tasks)
  /\ answer' = "none"
  /\ attempts' = [attempts EXCEPT ![Head(tasks)] = @ + 1]
  /\ UNCHANGED <<crashes, dispatchedIn>>

Process ==
  /\ sending = Nil
  /\ tasks # <<>>
  /\ TakeNext

(* SendGrid answers, or the request to it fails.                            *)
Settle ==
  /\ sending # Nil
  /\ answer = "none"
  /\ answer' \in {"sent", "failed"}
  /\ UNCHANGED <<tasks, sending, crashes, attempts, dispatchedIn>>

Rest ==
  /\ sending' = Nil
  /\ answer' = "none"
  /\ UNCHANGED <<tasks, crashes, attempts, dispatchedIn>>

(* The callback of the queue, called by .then or by .catch: it starts the   *)
(* next mail. The answer SendGrid gave arrives as an error argument, which  *)
(* the queue hands to nobody: push was given no callback.                  *)
Callback_NoCatch ==
  /\ answer = "sent"
  /\ \/ tasks # <<>> /\ TakeNext
     \/ tasks = <<>> /\ Rest

Callback_Retry ==
  \/ answer = "sent" /\ tasks # <<>> /\ TakeNext
  \/ answer = "sent" /\ tasks = <<>> /\ Rest
  \/ /\ answer = "failed"
     /\ answer' = "none"
     /\ attempts' = [attempts EXCEPT ![sending] = @ + 1]
     /\ UNCHANGED <<tasks, sending, crashes, dispatchedIn>>

Callback ==
  /\ answer # "none"
  /\ \/ tasks # <<>> /\ TakeNext
     \/ tasks = <<>> /\ Rest

(* The process dies and is started again: the queue was in its memory.      *)
Crash ==
  /\ crashes < MaxCrashes
  /\ crashes' = crashes + 1
  /\ tasks' = <<>>
  /\ sending' = Nil
  /\ answer' = "none"
  /\ UNCHANGED <<attempts, dispatchedIn>>

Work == Process \/ Callback

MailNext ==
  \/ \E m \in Mails : Dispatch(m)
  \/ Work
  \/ Settle
  \/ Crash

MailSpec == MailInit /\ [][MailNext]_mailVars

(* Node runs what is ready, and a request to SendGrid ends, one way or the  *)
(* other.                                                                  *)
MailFairSpec == MailSpec /\ WF_mailVars(Work) /\ WF_mailVars(Settle)
-----------------------------------------------------------------------------
(* Properties.                                                              *)

(* mail.ts:27-30, 60-67. SendGrid is asked for a mail at most once, and     *)
(* only for one that was dispatched. None slips out of the queue: one that  *)
(* the present process was given waits there, once, or was tried.           *)
MailedOnce ==
  \A m \in Mails :
    /\ attempts[m] <= 1
    /\ \A i, j \in DOMAIN tasks : tasks[i] = m /\ tasks[j] = m => i = j
    /\ Waiting(m) => attempts[m] = 0 /\ dispatchedIn[m] = crashes
    /\ attempts[m] > 0 => dispatchedIn[m] # Nil
    /\ dispatchedIn[m] = crashes => Waiting(m) \/ attempts[m] > 0

(* mail.ts:27-30, 60-67, one handler at a time. As long as a mail keeps its *)
(* place in the queue, the one the handler is at stays that and is not      *)
(* taken up again after it has settled; otherwise the mail moves up.        *)
MailsMoveUp ==
  [][\A i \in DOMAIN tasks, j \in DOMAIN tasks' :
       tasks[i] = tasks'[j] =>
         \/ j < i
         \/ j = i /\ sending' = sending /\ answer \in {"none", answer'}]_mailVars

(* mail.ts:60. Every mail is tried, also behind mails that fail, unless the *)
(* process that was given it dies.                                          *)
EveryMailTried ==
  \A m \in Mails :
    dispatchedIn[m] = crashes ~> attempts[m] > 0 \/ dispatchedIn[m] # crashes
=============================================================================
