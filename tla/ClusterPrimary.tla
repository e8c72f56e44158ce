--------------------------- MODULE ClusterPrimary ---------------------------
(***************************************************************************)
(* runWithCluster in the primary, and the processes it forks: the API      *)
(* servers of serve.ts, or the mail workers of bull/index.ts.              *)
(*                                                                         *)
(* node:cluster is external.  A dead worker is reported by two events, its *)
(* "exit" and its "disconnect", in an order Node leaves open, and is in    *)
(* cluster.workers until the later of the two is emitted.                  *)
(***************************************************************************)
EXTENDS Naturals, FiniteSets

CONSTANTS
  Workers,  \* the processes that can ever be forked: the bound on crashes
  Count,    \* APP_CLUSTER_WORKERS, or one per CPU
  None

ASSUME CountIsPositive == Count \in Nat \ {0}
ASSUME NoneIsNoCode == None \notin {0, 1, "signal", "failure"}

VARIABLES
  process,      \* of each worker: "none", "loading", "running", "closing" or "dead"
  old,          \* the workers forked at least MIN_WORKER_UPTIME_MS ago
  events,       \* the events of dead workers the primary has not yet seen
  forkedAt,     \* the keys of its map
  stopping,     \* why shuttingDown is set: None, "signal" or "failure"
  interrupted,  \* whether a signal for the primary is still to be handled
  exitCode,     \* the variable of that name
  status        \* the primary's exit status, None while it runs

vars == <<process, old, events, forkedAt, stopping, interrupted, exitCode, status>>

shuttingDown == stopping # None

Alive(i) == process[i] \in {"loading", "running", "closing"}

(* cluster.workers                                                         *)
Listed == {i \in Workers : Alive(i) \/ (process[i] = "dead" /\ events[i] # {})}

TypeOK ==
  /\ process \in [Workers -> {"none", "loading", "running", "closing", "dead"}]
  /\ old \in SUBSET Workers
  /\ events \in [Workers -> SUBSET {"exit", "disconnect"}]
  /\ forkedAt \in SUBSET Workers
  /\ stopping \in {None, "signal", "failure"}
  /\ interrupted \in BOOLEAN
  /\ exitCode \in {0, 1}
  /\ status \in {None, 0, 1}

Init ==
  /\ forkedAt \in SUBSET Workers
  /\ IsFiniteSet(forkedAt) /\ Cardinality(forkedAt) = Count
  /\ process = [i \in Workers |-> IF i \in forkedAt THEN "loading" ELSE "none"]
  /\ old = {}
  /\ events = [i \in Workers |-> {}]
  /\ stopping = None
  /\ interrupted = FALSE
  /\ exitCode = 0
  /\ status = None

-----------------------------------------------------------------------------
(* The workers.  A signal kills one that has not installed its handlers,   *)
(* and makes another close its server or its queue first.                  *)
Signalled(i) ==
  CASE process[i] = "loading" -> "dead"
    [] process[i] = "running" -> "closing"
    [] OTHER -> process[i]

DeathOf(i) == [events EXCEPT ![i] = {"exit", "disconnect"}]

Signal(targets) ==
  /\ process' = [i \in Workers |-> IF i \in targets THEN Signalled(i) ELSE process[i]]
  /\ events' = [i \in Workers |-> IF i \in targets /\ process[i] = "loading"
                                  THEN {"exit", "disconnect"} ELSE events[i]]

InstallHandlers(i) ==
  /\ process[i] = "loading"
  /\ process' = [process EXCEPT ![i] = "running"]
  /\ UNCHANGED <<old, events, forkedAt, stopping, interrupted, exitCode, status>>

(* A bad environment, a port taken, an uncaught exception, a kill.         *)
Die(i) ==
  /\ process[i] \in {"loading", "running"}
  /\ process' = [process EXCEPT ![i] = "dead"]
  /\ events' = DeathOf(i)
  /\ UNCHANGED <<old, forkedAt, stopping, interrupted, exitCode, status>>

(* gracefulShutdown has closed what it serves, or failed to.               *)
GracefulShutdown(i) ==
  /\ process[i] = "closing"
  /\ process' = [process EXCEPT ![i] = "dead"]
  /\ events' = DeathOf(i)
  /\ UNCHANGED <<old, forkedAt, stopping, interrupted, exitCode, status>>

(* Five seconds pass, whether or not the worker is still there.            *)
Age(i) ==
  /\ i \in forkedAt \ old
  /\ old' = old \cup {i}
  /\ UNCHANGED <<process, events, forkedAt, stopping, interrupted, exitCode, status>>

-----------------------------------------------------------------------------
(* The primary's handlers.                                                 *)
Seen(i, e) == [events EXCEPT ![i] = @ \ {e}]

OnDisconnect(i) ==
  /\ status = None
  /\ "disconnect" \in events[i]
  /\ events' = Seen(i, "disconnect")
  /\ UNCHANGED <<process, old, forkedAt, stopping, interrupted, exitCode, status>>

(* Mutants: an exit is answered with a fork although the primary is        *)
(* stopping, or with nothing.                                              *)
RespawnAlways(i) ==
  /\ status = None
  /\ "exit" \in events[i]
  /\ i \in old
  /\ \E j \in Workers :
       /\ process[j] = "none"
       /\ process' = [process EXCEPT ![j] = "loading"]
       /\ forkedAt' = (forkedAt \ {i}) \cup {j}
  /\ events' = Seen(i, "exit")
  /\ UNCHANGED <<old, stopping, interrupted, exitCode, status>>

RespawnNever(i) ==
  /\ status = None
  /\ "exit" \in events[i]
  /\ ~shuttingDown /\ i \in old
  /\ forkedAt' = forkedAt \ {i}
  /\ events' = Seen(i, "exit")
  /\ UNCHANGED <<process, old, stopping, interrupted, exitCode, status>>

(* The exit of a worker that had run: a replacement is forked.             *)
Respawn(i) ==
  /\ status = None
  /\ "exit" \in events[i]
  /\ ~shuttingDown /\ i \in old
  /\ \E j \in Workers :
       /\ process[j] = "none"
       /\ process' = [process EXCEPT ![j] = "loading"]
       /\ forkedAt' = (forkedAt \ {i}) \cup {j}
  /\ events' = Seen(i, "exit")
  /\ UNCHANGED <<old, stopping, interrupted, exitCode, status>>

(* Mutant: the first exit ends the primary.                                *)
ExitAtOnce(i, code) == status' = code

(* process.exit once the worker that went was the last one listed.         *)
ExitWhenLast(i, code) ==
  status' = IF Listed \ {i} = {} /\ "disconnect" \notin events[i] THEN code ELSE None

(* Mutant: the worker's own code is passed on, null when a signal killed   *)
(* it.                                                                     *)
StartupFailurePassesCode(i) ==
  /\ status = None
  /\ "exit" \in events[i]
  /\ ~shuttingDown /\ i \notin old
  /\ forkedAt' = forkedAt \ {i}
  /\ stopping' = "failure"
  /\ exitCode' \in {1, None}
  /\ Signal(Listed)
  /\ status' = None
  /\ UNCHANGED <<old, interrupted>>

(* The exit of a worker that never came up: the others are told to go.     *)
StartupFailure(i) ==
  /\ status = None
  /\ "exit" \in events[i]
  /\ ~shuttingDown /\ i \notin old
  /\ forkedAt' = forkedAt \ {i}
  /\ stopping' = "failure"
  /\ exitCode' = 1
  /\ process' = [j \in Workers |-> IF j \in Listed THEN Signalled(j) ELSE process[j]]
  /\ events' = [j \in Workers |-> IF process[j] = "loading" THEN {"exit", "disconnect"}
                                  ELSE Seen(i, "exit")[j]]
  /\ ExitWhenLast(i, 1)
  /\ UNCHANGED <<old, interrupted>>

(* The exit of a worker that was told to go, or went on its own then.      *)
WorkerGone(i) ==
  /\ status = None
  /\ "exit" \in events[i]
  /\ shuttingDown
  /\ forkedAt' = forkedAt \ {i}
  /\ events' = Seen(i, "exit")
  /\ ExitWhenLast(i, exitCode)
  /\ UNCHANGED <<process, old, stopping, interrupted, exitCode>>

(* Mutant: the signal is not passed on.                                    *)
ShutdownAlone ==
  /\ status = None
  /\ interrupted
  /\ interrupted' = FALSE
  /\ stopping' = IF shuttingDown THEN stopping ELSE "signal"
  /\ UNCHANGED <<process, events, old, forkedAt, exitCode, status>>

(* shutdown(signal)                                                        *)
Shutdown ==
  /\ status = None
  /\ interrupted
  /\ interrupted' = FALSE
  /\ IF shuttingDown THEN UNCHANGED <<process, events, stopping>>
     ELSE stopping' = "signal" /\ Signal(Listed)
  /\ UNCHANGED <<old, forkedAt, exitCode, status>>

(* SIGTERM from the service manager reaches the primary, SIGINT from a     *)
(* terminal the workers too, and at once.                                  *)
Terminate ==
  /\ status = None
  /\ ~interrupted
  /\ interrupted' = TRUE
  /\ UNCHANGED <<process, old, events, forkedAt, stopping, exitCode, status>>

Interrupt ==
  /\ status = None
  /\ ~interrupted
  /\ interrupted' = TRUE
  /\ Signal(Workers)
  /\ UNCHANGED <<old, forkedAt, stopping, exitCode, status>>

(* Nothing is left to wait for, and no handler has called process.exit.    *)
(* A listener for signals keeps no process alive.                          *)
EventLoopEmpty ==
  /\ status = None
  /\ \A i \in Workers : ~Alive(i) /\ events[i] = {}
  /\ status' = 0
  /\ UNCHANGED <<process, old, events, forkedAt, stopping, interrupted, exitCode>>

OnExit(i) == Respawn(i) \/ StartupFailure(i) \/ WorkerGone(i)

Next ==
  \/ \E i \in Workers : \/ InstallHandlers(i) \/ Die(i) \/ GracefulShutdown(i) \/ Age(i)
                        \/ OnDisconnect(i) \/ OnExit(i)
  \/ Shutdown \/ Terminate \/ Interrupt \/ EventLoopEmpty

(* A worker comes up or dies, closes within a time, and the primary's      *)
(* event loop turns.  No signal need come, and nothing need crash.         *)
Fairness ==
  /\ \A i \in Workers : /\ WF_vars(InstallHandlers(i)) /\ WF_vars(GracefulShutdown(i))
                        /\ WF_vars(OnDisconnect(i)) /\ WF_vars(OnExit(i))
  /\ WF_vars(Shutdown) /\ WF_vars(EventLoopEmpty)

Spec == Init /\ [][Next]_vars /\ Fairness

-----------------------------------------------------------------------------
(* The primary never leaves a worker running behind it, not one it had     *)
(* forked a moment before it was told to stop, nor one that was slow to    *)
(* close.                                                                  *)
NoOrphans == status # None => \A i \in Workers : ~Alive(i)

(* What it promises: Count workers kept until it stops, whatever crashes;  *)
(* none taken on once it is stopping, although exits keep coming; an end   *)
(* only when it has seen every worker go; a non-zero exit code only for a  *)
(* startup failure.                                                        *)
Promised ==
  INSTANCE Supervisor WITH
    mode <- IF status # None THEN "ended" ELSE IF shuttingDown THEN "stopping" ELSE "keeping",
    kept <- forkedAt,
    reason <- stopping,
    status <- status

KeepsItsPromise == Promised!Spec

(* docs/DEPLOYMENT.md, "Cluster mode": crashes do not leave the service    *)
(* short of workers for good.                                              *)
CrashesAreMadeGood ==
  []<>(\/ shuttingDown
       \/ Cardinality({i \in Workers : process[i] = "running"}) = Count
       \/ \A i \in Workers : process[i] # "none")

(* A signal or a startup failure ends the primary, by whatever order the   *)
(* workers go in and their events come.                                    *)
StopsInTheEnd == interrupted \/ shuttingDown ~> status # None

(* cluster.ts:18-19, "the primary stops forking and exits non-zero once    *)
(* the remaining workers are gone".                                        *)
FailureIsReported == status # None /\ stopping = "failure" => status = 1
=============================================================================
