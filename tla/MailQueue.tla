----------------------------- MODULE MailQueue -----------------------------
(***************************************************************************)
(* The send-email queue and the workers that serve it.                     *)
(*                                                                         *)
(* BullMQ is external: a job is handed to one worker at a time, is put     *)
(* back once if its worker died holding it, and is tried again after a     *)
(* failure as often as the queue's defaultJobOptions say.  The SMTP server *)
(* is external too, and may accept a mail and lose the answer.             *)
(***************************************************************************)
EXTENDS Naturals, FiniteSets

CONSTANTS
  Jobs,       \* the mails ever queued
  Senders,    \* the worker processes, each with one job at a time
  Attempts,   \* defaultJobOptions.attempts
  Deaths,     \* whether a worker process may die
  None

(* BullMQ's maxStalledCount, left at its default.                          *)
MaxStalled == 1

VARIABLES
  job,     \* of each mail: None before it is added, or its state in the queue
  failed,  \* attemptsMade: how often sending it was seen to fail
  stalls,  \* how often it was put back because its worker had died
  sent     \* how often the SMTP server accepted it

queue == <<job, failed, stalls, sent>>

(* answered is the moment between the SMTP server's answer and the record  *)
(* of it in Redis; stalled, a job whose worker is dead.                    *)
States == {"waiting", "active", "answered", "delayed", "stalled", "completed", "failed"}

QueueTypeOK ==
  /\ job \in [Jobs -> States \cup {None}]
  /\ failed \in [Jobs -> 0..Attempts]
  /\ stalls \in [Jobs -> 0..MaxStalled]
  /\ sent \in [Jobs -> Nat]

QueueInit ==
  /\ job = [j \in Jobs |-> None]
  /\ failed = [j \in Jobs |-> 0]
  /\ stalls = [j \in Jobs |-> 0]
  /\ sent = [j \in Jobs |-> 0]

Move(j, state) == job' = [job EXCEPT ![j] = state]

(* sendEmailQueue.add                                                      *)
Add(j) ==
  /\ job[j] = None
  /\ Move(j, "waiting")
  /\ UNCHANGED <<failed, stalls, sent>>

Take(j) ==
  /\ job[j] = "waiting"
  /\ Cardinality({i \in Jobs : job[i] \in {"active", "answered", "stalled"}}) < Senders
  /\ Move(j, "active")
  /\ UNCHANGED <<failed, stalls, sent>>

(* The SMTP server takes the mail and the worker reads its answer.         *)
SendEmail(j) ==
  /\ job[j] = "active"
  /\ Move(j, "answered")
  /\ sent' = [sent EXCEPT ![j] = @ + 1]
  /\ UNCHANGED <<failed, stalls>>

(* The job's promise is fulfilled, and BullMQ records it.                  *)
Complete(j) ==
  /\ job[j] = "answered"
  /\ Move(j, "completed")
  /\ UNCHANGED <<failed, stalls, sent>>

(* Mutants: the worker logs the error and does not throw it again, the job *)
(* is tried again without end, or put back without being counted.          *)
FailQuietly(j) ==
  /\ job[j] = "active"
  /\ Move(j, "completed")
  /\ UNCHANGED <<failed, stalls, sent>>

FailForever(j) ==
  /\ job[j] = "active"
  /\ failed' = [failed EXCEPT ![j] = @ + 1]
  /\ Move(j, "delayed")
  /\ UNCHANGED <<stalls, sent>>

FailUncounted(j) ==
  /\ job[j] = "active"
  /\ sent' = [sent EXCEPT ![j] = @ + 1]
  /\ Move(j, "delayed")
  /\ UNCHANGED <<failed, stalls>>

(* sendEmail throws: the template cannot be read, the server refused the   *)
(* mail, or took it and its answer was lost.  The worker throws it again.  *)
Fail(j) ==
  /\ job[j] = "active"
  /\ \/ UNCHANGED sent
     \/ sent' = [sent EXCEPT ![j] = @ + 1]
  /\ failed' = [failed EXCEPT ![j] = @ + 1]
  /\ Move(j, IF failed[j] + 1 < Attempts THEN "delayed" ELSE "failed")
  /\ UNCHANGED stalls

(* The exponential backoff is over.                                        *)
Retry(j) ==
  /\ job[j] = "delayed"
  /\ Move(j, "waiting")
  /\ UNCHANGED <<failed, stalls, sent>>

(* A worker process dies with the job it holds.  One that closes waits for *)
(* its job first, and loses nothing.                                       *)
WorkerDies(j) ==
  /\ Deaths
  /\ job[j] \in {"active", "answered"}
  /\ Move(j, "stalled")
  /\ UNCHANGED <<failed, stalls, sent>>

(* Mutant: a stalled job is forgotten.                                     *)
StalledForgotten(j) ==
  /\ job[j] = "stalled"
  /\ Move(j, "completed")
  /\ stalls' = [stalls EXCEPT ![j] = MaxStalled]
  /\ UNCHANGED <<failed, sent>>

(* BullMQ's stalled check finds a job whose lock has run out.              *)
Stalled(j) ==
  /\ job[j] = "stalled"
  /\ Move(j, IF stalls[j] < MaxStalled THEN "waiting" ELSE "failed")
  /\ stalls' = [stalls EXCEPT ![j] = IF @ < MaxStalled THEN @ + 1 ELSE @]
  /\ UNCHANGED <<failed, sent>>

Work(j) ==
  \/ Take(j) \/ SendEmail(j) \/ Complete(j) \/ Fail(j) \/ Retry(j) \/ Stalled(j)

QueueNext == \E j \in Jobs : Work(j) \/ WorkerDies(j)

-----------------------------------------------------------------------------
(* send-email.queue.ts:7-9: one transient failure never drops a mail.  A   *)
(* mail is given up after Attempts failures or the death of one worker     *)
(* more than it may survive, and recorded as sent only when it was.        *)
NoMailDroppedSilently ==
  \A j \in Jobs :
    /\ job[j] = "completed" => sent[j] > 0
    /\ job[j] = "failed" => failed[j] = Attempts \/ stalls[j] = MaxStalled

(* A mail goes out again only for a failure or a death that came after the *)
(* SMTP server had taken it, and so a bounded number of times in all.      *)
RepeatsAreFaults == \A j \in Jobs : sent[j] <= failed[j] + stalls[j] + 1
=============================================================================
