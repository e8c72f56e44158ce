------------------------ MODULE ClusterPrimary_proofs ------------------------
(***************************************************************************)
(* Proofs about ClusterPrimary, for every number of workers to keep and    *)
(* every set of processes: nobody is left behind, and the primary is a     *)
(* Supervisor.                                                             *)
(***************************************************************************)
EXTENDS ClusterPrimary, FiniteSetTheorems, TLAPS

(* The keys of the primary's map are the workers whose exit it has not yet *)
(* seen; while it is not stopping there are Count of them.                 *)
Bookkeeping ==
  /\ forkedAt = {i \in Workers : Alive(i) \/ "exit" \in events[i]}
  /\ \A i \in Workers : events[i] # {} => process[i] = "dead"
  /\ ~shuttingDown => IsFiniteSet(forkedAt) /\ Cardinality(forkedAt) = Count

(* What the primary has recorded of its own end.                           *)
Ends ==
  /\ status # None => shuttingDown
  /\ exitCode = 1 => stopping = "failure"
  /\ status = 1 => stopping = "failure"

IInv == TypeOK /\ NoOrphans /\ Bookkeeping /\ Ends

-----------------------------------------------------------------------------
LEMMA Initially == Init => IInv
<1> SUFFICES ASSUME Init PROVE IInv
  OBVIOUS
<1> USE DEF Init
<1>1. TypeOK
  BY DEF TypeOK
<1>2. \A i \in Workers : /\ process[i] \in {"loading", "none"} /\ events[i] = {}
                         /\ Alive(i) <=> i \in forkedAt
  BY DEF Alive
<1>3. Bookkeeping
  BY <1>2 DEF Bookkeeping
<1>4. NoOrphans /\ Ends
  BY NoneIsNoCode DEF NoOrphans, Ends
<1> QED BY <1>1, <1>3, <1>4 DEF IInv

(* A set that loses an element and gains another one keeps its size.       *)
LEMMA SwapKeepsSize ==
  ASSUME NEW S, IsFiniteSet(S), NEW i \in S, NEW j, j \notin S
  PROVE  IsFiniteSet((S \ {i}) \cup {j}) /\ Cardinality((S \ {i}) \cup {j}) = Cardinality(S)
<1>1. /\ IsFiniteSet(S \ {i})
      /\ Cardinality(S \ {i}) = Cardinality(S) - 1
  BY FS_RemoveElement
<1>2. /\ IsFiniteSet((S \ {i}) \cup {j})
      /\ Cardinality((S \ {i}) \cup {j}) = Cardinality(S \ {i}) + 1
  BY <1>1, FS_AddElement
<1>3. Cardinality(S) \in Nat
  BY FS_CardinalityType
<1> QED BY <1>1, <1>2, <1>3

(* The steps of a worker change its own process and events only.           *)
LEMMA WorkerSteps ==
  ASSUME IInv, NEW i \in Workers,
         InstallHandlers(i) \/ Die(i) \/ GracefulShutdown(i) \/ Age(i) \/ OnDisconnect(i)
  PROVE  IInv'
<1> USE DEF IInv, TypeOK, Alive, shuttingDown, NoOrphans
<1>1. CASE InstallHandlers(i)
  BY <1>1 DEF InstallHandlers, Bookkeeping, Ends
<1>2. CASE Die(i)
  BY <1>2 DEF Die, DeathOf, Bookkeeping, Ends
<1>3. CASE GracefulShutdown(i)
  BY <1>3 DEF GracefulShutdown, DeathOf, Bookkeeping, Ends
<1>4. CASE Age(i)
  BY <1>4 DEF Age, Bookkeeping, Ends
<1>5. CASE OnDisconnect(i)
  BY <1>5 DEF OnDisconnect, Seen, Bookkeeping, Ends
<1> QED BY <1>1, <1>2, <1>3, <1>4, <1>5

(* A signal kills some workers and has others close: whoever it kills has  *)
(* both its events to come.                                                *)
LEMMA SignalKeepsBooks ==
  ASSUME IInv, NEW targets \in SUBSET Workers, Signal(targets)
  PROVE  /\ process' \in [Workers -> {"none", "loading", "running", "closing", "dead"}]
         /\ events' \in [Workers -> SUBSET {"exit", "disconnect"}]
         /\ forkedAt = {i \in Workers : Alive(i)' \/ "exit" \in events'[i]}
         /\ \A i \in Workers : events'[i] # {} => process'[i] = "dead"
         /\ \A i \in Workers : Alive(i)' => Alive(i)
<1> USE DEF IInv, TypeOK, Bookkeeping, Alive
<1>1. \A i \in Workers :
        /\ process'[i] \in {"none", "loading", "running", "closing", "dead"}
        /\ events'[i] \in SUBSET {"exit", "disconnect"}
        /\ Alive(i)' => Alive(i)
        /\ Alive(i)' \/ "exit" \in events'[i] <=> Alive(i) \/ "exit" \in events[i]
        /\ events'[i] # {} => process'[i] = "dead"
  BY DEF Signal, Signalled
<1>2. /\ process' = [i \in Workers |-> process'[i]]
      /\ events' = [i \in Workers |-> events'[i]]
  BY DEF Signal
<1> QED BY <1>1, <1>2

-----------------------------------------------------------------------------
LEMMA RespawnStep ==
  ASSUME IInv, NEW i \in Workers, Respawn(i)
  PROVE  IInv'
<1> USE DEF IInv, TypeOK, Alive, shuttingDown
<1>1. PICK j \in Workers :
        /\ process[j] = "none"
        /\ process' = [process EXCEPT ![j] = "loading"]
        /\ forkedAt' = (forkedAt \ {i}) \cup {j}
  BY DEF Respawn
<1>2. i \in forkedAt /\ j \notin forkedAt
  BY <1>1 DEF Respawn, Bookkeeping
<1>3. IsFiniteSet(forkedAt') /\ Cardinality(forkedAt') = Count
  BY <1>1, <1>2, SwapKeepsSize DEF Respawn, Bookkeeping
<1>4. TypeOK' /\ NoOrphans'
  BY <1>1 DEF Respawn, Seen, NoOrphans
<1>5. Bookkeeping'
  <2>1. \A k \in Workers : events'[k] = IF k = i THEN events[k] \ {"exit"} ELSE events[k]
    BY DEF Respawn, Seen
  <2>2. forkedAt' = {k \in Workers : Alive(k)' \/ "exit" \in events'[k]}
    <3>1. \A k \in Workers :
            Alive(k)' \/ "exit" \in events'[k] <=> k = j \/ (k # i /\ (Alive(k) \/ "exit" \in events[k]))
      BY <1>1, <2>1 DEF Respawn, Bookkeeping
    <3> QED BY <1>1, <1>2, <3>1 DEF Bookkeeping
  <2>3. \A k \in Workers : events'[k] # {} => process'[k] = "dead"
    BY <1>1, <2>1 DEF Bookkeeping
  <2> QED BY <1>3, <2>2, <2>3 DEF Bookkeeping
<1>6. Ends'
  BY DEF Respawn, Ends
<1> QED BY <1>4, <1>5, <1>6

(* process.exit is called when no other worker is listed: the one that is  *)
(* gone was the last one kept.                                             *)
LEMMA LastListed ==
  ASSUME IInv, NEW i \in Workers, "exit" \in events[i],
         NEW code, ExitWhenLast(i, code), status' # None
  PROVE  forkedAt = {i} /\ (\A j \in Workers : ~Alive(j)) /\ status' = code
<1>1. Listed \ {i} = {} /\ status' = code
  BY DEF ExitWhenLast
<1>2. process[i] = "dead"
  BY DEF IInv, Bookkeeping
<1>3. forkedAt \subseteq Listed
  BY DEF IInv, Bookkeeping, Listed
<1>4. i \in forkedAt
  BY DEF IInv, Bookkeeping
<1>5. \A j \in Workers : Alive(j) => j \in Listed
  BY DEF Listed
<1> QED BY <1>1, <1>2, <1>3, <1>4, <1>5 DEF Alive

LEMMA WorkerGoneStep ==
  ASSUME IInv, NEW i \in Workers, WorkerGone(i)
  PROVE  IInv'
<1> USE DEF IInv, TypeOK, shuttingDown
<1>1. /\ "exit" \in events[i] /\ shuttingDown /\ ExitWhenLast(i, exitCode)
      /\ forkedAt' = forkedAt \ {i}
      /\ events' = [events EXCEPT ![i] = @ \ {"exit"}]
      /\ UNCHANGED <<process, old, stopping, interrupted, exitCode>>
  BY DEF WorkerGone, Seen
<1>2. status' \in {None, exitCode}
  BY <1>1 DEF ExitWhenLast
<1>3. process[i] = "dead"
  BY <1>1 DEF Bookkeeping
<1>4. TypeOK'
  BY <1>1, <1>2
<1>5. NoOrphans'
  BY <1>1, LastListed DEF NoOrphans, Alive
<1>6. Bookkeeping'
  BY <1>1, <1>3 DEF Bookkeeping, Alive
<1>7. Ends'
  BY <1>1, <1>2, NoneIsNoCode DEF Ends
<1> QED BY <1>4, <1>5, <1>6, <1>7

LEMMA StartupFailureStep ==
  ASSUME IInv, NEW i \in Workers, StartupFailure(i)
  PROVE  IInv'
<1> USE DEF IInv, TypeOK, shuttingDown
<1>1. /\ "exit" \in events[i] /\ ExitWhenLast(i, 1)
      /\ forkedAt' = forkedAt \ {i}
      /\ stopping' = "failure" /\ exitCode' = 1
      /\ UNCHANGED <<old, interrupted>>
  BY DEF StartupFailure
<1>2. process[i] = "dead"
  BY <1>1 DEF Bookkeeping
<1>3. \A j \in Workers :
        /\ process'[j] = IF j \in Listed THEN Signalled(j) ELSE process[j]
        /\ events'[j] = IF process[j] = "loading" THEN {"exit", "disconnect"}
                        ELSE IF j = i THEN events[j] \ {"exit"} ELSE events[j]
  BY DEF StartupFailure, Seen
<1>4. \A j \in Workers :
        /\ process'[j] \in {"none", "loading", "running", "closing", "dead"}
        /\ events'[j] \in SUBSET {"exit", "disconnect"}
        /\ Alive(j)' => Alive(j)
        /\ events'[j] # {} => process'[j] = "dead"
        /\ Alive(j)' \/ "exit" \in events'[j] <=> j # i /\ (Alive(j) \/ "exit" \in events[j])
  BY <1>2, <1>3 DEF Bookkeeping, Alive, Listed, Signalled
<1>5. status' \in {None, 1}
  BY <1>1 DEF ExitWhenLast
<1>6. TypeOK'
  <2>1. process' = [j \in Workers |-> process'[j]] /\ events' = [j \in Workers |-> events'[j]]
    BY DEF StartupFailure
  <2> QED BY <1>1, <1>4, <1>5, <2>1
<1>7. NoOrphans'
  BY <1>1, <1>4, LastListed DEF NoOrphans
<1>8. Bookkeeping'
  BY <1>1, <1>4, NoneIsNoCode DEF Bookkeeping
<1>9. Ends'
  BY <1>1, <1>5, NoneIsNoCode DEF Ends
<1> QED BY <1>6, <1>7, <1>8, <1>9

LEMMA SignalSteps ==
  ASSUME IInv, Shutdown \/ Terminate \/ Interrupt
  PROVE  IInv'
<1> USE DEF IInv, TypeOK, shuttingDown
<1>1. CASE Terminate
  BY <1>1 DEF Terminate, NoOrphans, Bookkeeping, Ends, Alive
<1>2. CASE Interrupt
  <2>1. /\ Signal(Workers) /\ interrupted' = TRUE
        /\ UNCHANGED <<old, forkedAt, stopping, exitCode, status>>
    BY <1>2 DEF Interrupt
  <2>2. TypeOK' /\ NoOrphans'
    BY <2>1, SignalKeepsBooks DEF NoOrphans
  <2>3. Bookkeeping'
    BY <2>1, SignalKeepsBooks DEF Bookkeeping
  <2>4. Ends'
    BY <2>1 DEF Ends
  <2> QED BY <2>2, <2>3, <2>4
<1>3. CASE Shutdown /\ shuttingDown
  <2>1. /\ interrupted' = FALSE
        /\ UNCHANGED <<process, events, old, forkedAt, stopping, exitCode, status>>
    BY <1>3 DEF Shutdown
  <2> QED BY <2>1 DEF NoOrphans, Bookkeeping, Ends, Alive
<1>4. CASE Shutdown /\ ~shuttingDown
  <2>1. Signal(Listed) /\ Listed \in SUBSET Workers
    BY <1>4 DEF Shutdown, Listed
  <2>2. stopping' = "signal" /\ UNCHANGED <<old, forkedAt, exitCode, status>> /\ status = None
        /\ interrupted' = FALSE
    BY <1>4 DEF Shutdown
  <2>3. exitCode # 1
    BY <1>4, NoneIsNoCode DEF Ends
  <2> QED BY <2>1, <2>2, <2>3, SignalKeepsBooks, NoneIsNoCode DEF NoOrphans, Bookkeeping, Ends
<1> QED BY <1>1, <1>2, <1>3, <1>4

(* The event loop can run empty only while the primary is stopping: until  *)
(* then it has workers.                                                    *)
LEMMA EmptyLoop ==
  ASSUME IInv, EventLoopEmpty
  PROVE  shuttingDown /\ forkedAt = {}
<1>1. forkedAt = {}
  BY DEF IInv, Bookkeeping, EventLoopEmpty
<1>2. Cardinality({}) = 0
  BY FS_EmptySet
<1> QED BY <1>1, <1>2, CountIsPositive DEF IInv, Bookkeeping

LEMMA EventLoopEmptyStep ==
  ASSUME IInv, EventLoopEmpty
  PROVE  IInv'
BY EmptyLoop, NoneIsNoCode
DEF EventLoopEmpty, IInv, TypeOK, NoOrphans, Bookkeeping, Ends, Alive, shuttingDown

LEMMA Inductive == IInv /\ [Next]_vars => IInv'
<1> SUFFICES ASSUME IInv, [Next]_vars PROVE IInv'
  OBVIOUS
<1>1. CASE UNCHANGED vars
  BY <1>1 DEF vars, IInv, TypeOK, NoOrphans, Bookkeeping, Ends, Alive, shuttingDown
<1>2. ASSUME NEW i \in Workers, OnExit(i) PROVE IInv'
  BY <1>2, RespawnStep, StartupFailureStep, WorkerGoneStep DEF OnExit
<1> QED BY <1>1, <1>2, WorkerSteps, SignalSteps, EventLoopEmptyStep DEF Next

THEOREM Invariance == Spec => []IInv
BY Initially, Inductive, PTL DEF Spec

(* The primary's variables keep their types, for every number of workers.  *)
THEOREM TypeCorrect == Spec => []TypeOK
<1>1. IInv => TypeOK
  BY DEF IInv
<1> QED BY <1>1, Invariance, PTL

(* No worker is left running behind the primary, whatever died, closed or  *)
(* was forked when, and in whatever order the events came.                 *)
THEOREM NobodyIsLeftBehind == Spec => []NoOrphans
<1>1. IInv => NoOrphans
  BY DEF IInv
<1> QED BY <1>1, Invariance, PTL

-----------------------------------------------------------------------------
(* The refinement, step by step.                                           *)
LEMMA KeepsInitially == Init => Promised!Init
<1> SUFFICES ASSUME Init PROVE Promised!Init
  OBVIOUS
<1>1. status = None /\ stopping = None
  BY DEF Init
<1>2. /\ forkedAt \in SUBSET Workers
      /\ Promised!IsFiniteSet(forkedAt) /\ Promised!Cardinality(forkedAt) = Count
  <2>1. forkedAt \in SUBSET Workers /\ IsFiniteSet(forkedAt) /\ Cardinality(forkedAt) = Count
    BY DEF Init
  <2>2. Promised!IsFiniteSet(forkedAt) <=> IsFiniteSet(forkedAt)
    BY DEF IsFiniteSet, Promised!IsFiniteSet
  <2>3. Promised!Cardinality(forkedAt) = Cardinality(forkedAt)
    BY Zenon DEF Cardinality, Promised!Cardinality
  <2> QED BY <2>1, <2>2, <2>3
<1>3. (IF status # None THEN "ended" ELSE IF shuttingDown THEN "stopping" ELSE "keeping") = "keeping"
  BY <1>1 DEF shuttingDown
<1> QED BY <1>1, <1>2, <1>3 DEF Promised!Init

LEMMA RespawnReplaces ==
  ASSUME IInv, NEW i \in Workers, Respawn(i)
  PROVE  Promised!Replace
<1>1. PICK j \in Workers : process[j] = "none" /\ forkedAt' = (forkedAt \ {i}) \cup {j}
  BY DEF Respawn
<1>2. i \in forkedAt /\ j \in Workers \ forkedAt
  BY <1>1 DEF Respawn, IInv, Bookkeeping, Alive
<1>3. ~shuttingDown /\ status = None /\ UNCHANGED <<stopping, status>>
  BY DEF Respawn
<1> QED BY <1>1, <1>2, <1>3 DEF Promised!Replace, shuttingDown

LEMMA FailureFails ==
  ASSUME IInv, NEW i \in Workers, StartupFailure(i)
  PROVE  Promised!Fail
<1>1. /\ ~shuttingDown /\ status = None
      /\ forkedAt' = forkedAt \ {i} /\ stopping' = "failure"
      /\ "exit" \in events[i] /\ ExitWhenLast(i, 1)
  BY DEF StartupFailure
<1>2. i \in forkedAt
  BY <1>1 DEF IInv, Bookkeeping
<1>3. Promised!EndOrGoOn
  <2>1. CASE status' = None
    BY <1>1, <2>1, NoneIsNoCode DEF Promised!EndOrGoOn, shuttingDown
  <2>2. CASE status' # None
    <3>1. forkedAt = {i} /\ status' = 1
      BY <1>1, <2>2, LastListed
    <3> QED BY <1>1, <2>2, <3>1 DEF Promised!EndOrGoOn
  <2> QED BY <2>1, <2>2
<1> QED BY <1>1, <1>2, <1>3 DEF Promised!Fail, shuttingDown

LEMMA GoneLeaves ==
  ASSUME IInv, NEW i \in Workers, WorkerGone(i)
  PROVE  Promised!Leave
<1>1. /\ shuttingDown /\ status = None
      /\ forkedAt' = forkedAt \ {i} /\ stopping' = stopping
      /\ "exit" \in events[i] /\ ExitWhenLast(i, exitCode)
  BY DEF WorkerGone
<1>2. i \in forkedAt
  BY <1>1 DEF IInv, Bookkeeping
<1>3. Promised!EndOrGoOn
  <2>1. CASE status' = None
    BY <1>1, <2>1 DEF Promised!EndOrGoOn, shuttingDown
  <2>2. CASE status' # None
    <3>1. forkedAt = {i} /\ status' = exitCode
      BY <1>1, <2>2, LastListed
    <3> QED BY <1>1, <2>2, <3>1 DEF Promised!EndOrGoOn, IInv, TypeOK, Ends
  <2> QED BY <2>1, <2>2
<1> QED BY <1>1, <1>2, <1>3 DEF Promised!Leave, shuttingDown

LEMMA EmptyLoopEnds ==
  ASSUME IInv, EventLoopEmpty
  PROVE  Promised!End
<1>1. shuttingDown /\ forkedAt = {}
  BY EmptyLoop
<1> QED BY <1>1, NoneIsNoCode DEF EventLoopEmpty, Promised!End, Promised!EndOrGoOn, shuttingDown

(* A signal stops it, unless it was stopping already; the rest of what     *)
(* happens, the supervisor does not show.                                  *)
LEMMA SignalStops ==
  ASSUME IInv, Shutdown \/ Terminate \/ Interrupt
  PROVE  [Promised!Stop]_(Promised!vars)
<1>1. UNCHANGED <<forkedAt, status>>
  BY DEF Shutdown, Terminate, Interrupt
<1>2. CASE stopping' = stopping
  BY <1>1, <1>2 DEF Promised!vars, shuttingDown
<1>3. CASE stopping' # stopping
  <2>1. Shutdown /\ ~shuttingDown /\ stopping' = "signal" /\ status = None
    BY <1>3 DEF Shutdown, Terminate, Interrupt
  <2> QED BY <1>1, <2>1, NoneIsNoCode DEF Promised!Stop, shuttingDown
<1> QED BY <1>2, <1>3

LEMMA WorkersAreHidden ==
  ASSUME NEW i \in Workers,
         InstallHandlers(i) \/ Die(i) \/ GracefulShutdown(i) \/ Age(i) \/ OnDisconnect(i)
  PROVE  UNCHANGED Promised!vars
<1>1. UNCHANGED <<forkedAt, status, stopping>>
  BY DEF InstallHandlers, Die, GracefulShutdown, Age, OnDisconnect
<1> QED BY <1>1 DEF Promised!vars, shuttingDown

LEMMA KeepsStepByStep == IInv /\ [Next]_vars => [Promised!Next]_(Promised!vars)
<1> SUFFICES ASSUME IInv, [Next]_vars PROVE [Promised!Next]_(Promised!vars)
  OBVIOUS
<1>1. CASE UNCHANGED vars
  BY <1>1 DEF vars, Promised!vars, shuttingDown
<1>2. ASSUME NEW i \in Workers, OnExit(i) PROVE Promised!Next
  BY <1>2, RespawnReplaces, FailureFails, GoneLeaves DEF OnExit, Promised!Next
<1>3. CASE EventLoopEmpty
  BY <1>3, EmptyLoopEnds DEF Promised!Next
<1>4. CASE Shutdown \/ Terminate \/ Interrupt
  BY <1>4, SignalStops DEF Promised!Next
<1> QED BY <1>1, <1>2, <1>3, <1>4, WorkersAreHidden DEF Next

(* The primary implements the Supervisor: Count workers kept and crashes   *)
(* made good until it stops, nobody taken on afterwards, an end only when  *)
(* the last exit was seen, a non-zero code only for a startup failure.     *)
THEOREM KeepsPromise == Spec => KeepsItsPromise
BY KeepsInitially, Inductive, Initially, KeepsStepByStep, PTL DEF Spec, Promised!Spec, KeepsItsPromise
=============================================================================
