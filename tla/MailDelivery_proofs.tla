------------------------ MODULE MailDelivery_proofs ------------------------
(***************************************************************************)
(* Proofs about MailDelivery, for every set of tokens, any number of       *)
(* workers and attempts, with or without deaths: what becomes of a queued  *)
(* mail.                                                                   *)
(***************************************************************************)
EXTENDS MailDelivery, TLAPS

(* The copies of j that went out are paid for by the faults counted so     *)
(* far, except one while j is answered, or once its fate is settled.       *)
Counts(j) ==
  /\ sent[j] <= failed[j] + stalls[j] + 1
  /\ job[j] \in {None, "waiting", "active", "delayed"} => sent[j] <= failed[j] + stalls[j]

(* A mail still being tried has attempts left; one that was answered was   *)
(* sent; one that was given up has used up its chances.                    *)
Chances(j) ==
  /\ job[j] # "failed" => failed[j] < Attempts
  /\ job[j] \in {"answered", "completed"} => sent[j] > 0
  /\ job[j] = "failed" => failed[j] = Attempts \/ stalls[j] = Q!MaxStalled

IInv == DeliveryTypeOK /\ \A j \in Tokens : Counts(j) /\ Chances(j)

-----------------------------------------------------------------------------
LEMMA Initially == DeliveryInit => IInv
BY AttemptsIsPositive, NoneIsNoState
DEF Q!States, DeliveryInit, Q!QueueInit, IInv, DeliveryTypeOK, Q!QueueTypeOK, Counts, Chances, Q!MaxStalled

(* A step works on one job; what it leaves alone stays as it was.          *)
LEMMA OneJob ==
  ASSUME IInv, DeliveryTypeOK', NEW j \in Tokens, Counts(j)', Chances(j)',
         \A i \in Tokens \ {j} : /\ job'[i] = job[i]
                                 /\ failed'[i] = failed[i]
                                 /\ stalls'[i] = stalls[i]
                                 /\ sent'[i] = sent[i]
  PROVE  IInv'
BY DEF IInv, Counts, Chances

LEMMA AddStep ==
  ASSUME IInv, NEW j, Q!Add(j)
  PROVE  IInv'
<1> USE AttemptsIsPositive, NoneIsNoState DEF IInv, DeliveryTypeOK, Q!QueueTypeOK, Q!States, Q!MaxStalled
<1>1. CASE j \in Tokens
  <2>1. DeliveryTypeOK'
    BY DEF Q!Add, Q!Move
  <2>2. Counts(j)' /\ Chances(j)'
    BY <1>1 DEF Q!Add, Q!Move, Counts, Chances
  <2> QED BY <1>1, <2>1, <2>2, OneJob DEF Q!Add, Q!Move
<1>2. CASE j \notin Tokens
  <2>1. UNCHANGED queue
    BY <1>2 DEF Q!Add, Q!Move, queue
  <2> QED BY <2>1 DEF queue, Counts, Chances
<1> QED BY <1>1, <1>2

LEMMA WorkStep ==
  ASSUME IInv, NEW j \in Tokens, Q!Work(j) \/ Q!WorkerDies(j)
  PROVE  IInv'
<1>1. DeliveryTypeOK'
  <2> USE AttemptsIsPositive, NoneIsNoState DEF IInv, DeliveryTypeOK, Q!QueueTypeOK, Q!States, Q!MaxStalled, Q!Move, Chances
  <2>1. CASE Q!Take(j) BY <2>1 DEF Q!Take
  <2>2. CASE Q!SendEmail(j) BY <2>2 DEF Q!SendEmail
  <2>3. CASE Q!Complete(j) BY <2>3 DEF Q!Complete
  <2>4. CASE Q!Fail(j) BY <2>4 DEF Q!Fail
  <2>5. CASE Q!Retry(j) BY <2>5 DEF Q!Retry
  <2>6. CASE Q!Stalled(j) BY <2>6 DEF Q!Stalled
  <2>7. CASE Q!WorkerDies(j) BY <2>7 DEF Q!WorkerDies
  <2> QED BY <2>1, <2>2, <2>3, <2>4, <2>5, <2>6, <2>7 DEF Q!Work
<1>2. Counts(j)' /\ Chances(j)'
  <2> USE AttemptsIsPositive, NoneIsNoState DEF IInv, DeliveryTypeOK, Q!QueueTypeOK, Q!States, Q!MaxStalled, Q!Move, Counts, Chances
  <2>1. CASE Q!Take(j) BY <2>1 DEF Q!Take
  <2>2. CASE Q!SendEmail(j) BY <2>2 DEF Q!SendEmail
  <2>3. CASE Q!Complete(j) BY <2>3 DEF Q!Complete
  <2>4. CASE Q!Fail(j) BY <2>4 DEF Q!Fail
  <2>5. CASE Q!Retry(j) BY <2>5 DEF Q!Retry
  <2>6. CASE Q!Stalled(j) BY <2>6 DEF Q!Stalled
  <2>7. CASE Q!WorkerDies(j) BY <2>7 DEF Q!WorkerDies
  <2> QED BY <2>1, <2>2, <2>3, <2>4, <2>5, <2>6, <2>7 DEF Q!Work
<1>3. \A i \in Tokens \ {j} : /\ job'[i] = job[i]
                              /\ failed'[i] = failed[i]
                              /\ stalls'[i] = stalls[i]
                              /\ sent'[i] = sent[i]
  BY DEF IInv, DeliveryTypeOK, Q!QueueTypeOK, Q!Work, Q!Move, Q!Take, Q!SendEmail,
         Q!Complete, Q!Fail, Q!Retry, Q!Stalled, Q!WorkerDies
<1> QED BY <1>1, <1>2, <1>3, OneJob

LEMMA Inductive == IInv /\ [DeliveryNext]_all => IInv'
<1> SUFFICES ASSUME IInv, [DeliveryNext]_all PROVE IInv'
  OBVIOUS
<1>1. CASE UNCHANGED queue
  BY <1>1 DEF queue, IInv, DeliveryTypeOK, Q!QueueTypeOK, Counts, Chances
<1>2. CASE Queued
  BY <1>1, <1>2, AddStep DEF Queued
<1>3. CASE Q!QueueNext
  BY <1>3, WorkStep DEF Q!QueueNext
<1> QED BY <1>1, <1>2, <1>3 DEF DeliveryNext, all

THEOREM Invariance == DeliverySpec => []IInv
BY Initially, Inductive, PTL DEF DeliverySpec

(* The queue's variables keep their types; the attempts stay within the    *)
(* number configured.                                                      *)
THEOREM DeliveryTypeCorrect == DeliverySpec => []DeliveryTypeOK
<1>1. IInv => DeliveryTypeOK
  BY DEF IInv
<1> QED BY <1>1, Invariance, PTL

(* No mail is lost without a trace, whatever fails and whoever dies.       *)
THEOREM MailsAreNotDropped == DeliverySpec => []NoMailDroppedSilently
<1>1. IInv => NoMailDroppedSilently
  BY DEF IInv, Chances, NoMailDroppedSilently, Q!NoMailDroppedSilently
<1> QED BY <1>1, Invariance, PTL

(* No user is sent more copies of a link than faults account for.          *)
THEOREM CopiesAreFaults == DeliverySpec => []RepeatsAreFaults
<1>1. IInv => RepeatsAreFaults
  BY DEF IInv, Counts, RepeatsAreFaults, Q!RepeatsAreFaults
<1> QED BY <1>1, Invariance, PTL
=============================================================================
