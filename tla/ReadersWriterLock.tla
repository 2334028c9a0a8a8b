-------------------------- MODULE ReadersWriterLock --------------------------
(***************************************************************************)
(* What the lock table promises its callers, without queues, graph or      *)
(* sleeping: per record, either any number of readers or a single writer.  *)
(* A request that the lock table aborts changes nothing here.              *)
(***************************************************************************)
CONSTANTS Threads, Records

VARIABLE held   \* held[t][r] \in {"NONE", "READ", "WRITE"}

Init == held = [t \in Threads |-> [r \in Records |-> "NONE"]]

Acquire(t, r, phase) ==
    /\ held[t][r] = "NONE"
    /\ \A u \in Threads \ {t} :
          held[u][r] = "NONE" \/ (held[u][r] = "READ" /\ phase = "READ")
    /\ held' = [held EXCEPT ![t][r] = phase]

Release(t, r) ==
    /\ held[t][r] # "NONE"
    /\ held' = [held EXCEPT ![t][r] = "NONE"]

Next ==
    \E t \in Threads, r \in Records :
       \/ \E phase \in {"READ", "WRITE"} : Acquire(t, r, phase)
       \/ Release(t, r)

Spec == Init /\ [][Next]_held
=============================================================================
