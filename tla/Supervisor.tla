----------------------------- MODULE Supervisor -----------------------------
(***************************************************************************)
(* What the primary of a cluster promises whoever runs it: it keeps Count  *)
(* workers, each replaced as it crashes, until a signal or a worker that   *)
(* cannot start makes it stop; then it takes no more workers on, and ends  *)
(* when it has seen the last one go.                                       *)
(***************************************************************************)
EXTENDS Naturals, FiniteSets

CONSTANTS
  Workers,  \* the processes that can ever be forked
  Count,    \* how many of them run at a time
  None

VARIABLES
  mode,    \* "keeping", "stopping" or "ended"
  kept,    \* the workers not yet known to be gone
  reason,  \* why it stops: None, "signal" or "failure"
  status   \* its own exit code, None before it ends

vars == <<mode, kept, reason, status>>

Init ==
  /\ mode = "keeping"
  /\ kept \in SUBSET Workers
  /\ IsFiniteSet(kept) /\ Cardinality(kept) = Count
  /\ reason = None
  /\ status = None

Replace ==
  \E i \in kept, j \in Workers \ kept :
    /\ mode = "keeping"
    /\ kept' = (kept \ {i}) \cup {j}
    /\ UNCHANGED <<mode, reason, status>>

Stop ==
  /\ mode = "keeping"
  /\ mode' = "stopping"
  /\ reason' = "signal"
  /\ UNCHANGED <<kept, status>>

(* It may end on the last worker's exit, or find out later that nothing    *)
(* is left to wait for.                                                    *)
EndOrGoOn ==
  \/ mode' = "stopping" /\ status' = None
  \/ /\ kept' = {}
     /\ mode' = "ended"
     /\ status' \in {0, 1} /\ (status' = 1 => reason' = "failure")

Fail ==
  \E i \in kept :
    /\ mode = "keeping"
    /\ kept' = kept \ {i}
    /\ reason' = "failure"
    /\ EndOrGoOn

Leave ==
  \E i \in kept :
    /\ mode = "stopping"
    /\ kept' = kept \ {i}
    /\ reason' = reason
    /\ EndOrGoOn

End ==
  /\ mode = "stopping"
  /\ kept = {} /\ kept' = kept
  /\ reason' = reason
  /\ EndOrGoOn

Next == Replace \/ Stop \/ Fail \/ Leave \/ End

Spec == Init /\ [][Next]_vars
=============================================================================
