---------------------------- MODULE MailDelivery ----------------------------
(***************************************************************************)
(* The mailed tokens and the queue that mails them: adding the job is the  *)
(* step the two share, and a user can only follow a link that has arrived. *)
(***************************************************************************)
EXTENDS SingleUseTokens

CONSTANTS Senders, Attempts, Deaths

ASSUME SendersIsPositive == Senders \in Nat \ {0}
ASSUME AttemptsIsPositive == Attempts \in Nat \ {0}
ASSUME DeathsIsBoolean == Deaths \in BOOLEAN

VARIABLES job, failed, stalls, sent

Q == INSTANCE MailQueue WITH Jobs <- Tokens

ASSUME NoneIsNoState == None \notin Q!States

queue == <<job, failed, stalls, sent>>
all == <<vars, queue>>

DeliveryInit == Init /\ Q!QueueInit

(* A mail is added to the queue in the step that queues it.                *)
Queued ==
  IF mailed' = mailed THEN UNCHANGED queue ELSE \E j \in mailed' \ mailed : Q!Add(j)

FollowsALink(t) == req'[t] # req[t] /\ req'[t].pc = "writeUser" => sent[req'[t].with] > 0

DeliveryNext ==
  \/ Next /\ Queued /\ \A t \in Tasks : FollowsALink(t)
  \/ Q!QueueNext /\ UNCHANGED vars

DeliverySpec ==
  /\ DeliveryInit
  /\ [][DeliveryNext]_all
  /\ \A t \in Tasks : WF_all(Continue(t) /\ Queued /\ \A s \in Tasks : FollowsALink(s))
  /\ \A j \in Tokens : WF_all(Q!Work(j) /\ UNCHANGED vars)

-----------------------------------------------------------------------------
(* The types of the queue's variables.                                     *)
DeliveryTypeOK == Q!QueueTypeOK

(* send-email.queue.ts:7-9, "one transient failure never drops a mail": a  *)
(* mail is recorded as sent only when it was, and given up only after      *)
(* Attempts failures or after as many dead workers as it may survive.      *)
NoMailDroppedSilently == Q!NoMailDroppedSilently

(* A link goes out again only for a failure or a death that came after the *)
(* SMTP server had taken it: the user is sent a bounded number of copies.  *)
RepeatsAreFaults == Q!RepeatsAreFaults

(* The link of a committed token that is on nobody's list: no job mails it *)
(* and no handler is about to add one.                                     *)
Abandoned(j) ==
  /\ row[j] # None
  /\ job[j] = None
  /\ \A t \in Tasks : req[t] # Queue(j)

(* auth-mail.service.ts:18-19, queued after the commit: a committed        *)
(* token's link reaches its user, or its mail has visibly failed, or it is *)
(* abandoned.  It is abandoned only by the step that was to queue it, when *)
(* the queue refuses the job or the worker process dies.                   *)
EveryLinkArrivesOrFails ==
  /\ \A j \in Tokens : row[j] # None ~> sent[j] > 0 \/ job[j] = "failed" \/ Abandoned(j)
  /\ [][\A j \in Tokens : ~Abandoned(j) /\ Abandoned(j)' =>
          \E t \in Tasks :
            req[t] = Queue(j) /\ (Crash(t) \/ (QueueFails /\ QueueEmail(t)))]_all
=============================================================================
