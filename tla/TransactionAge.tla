---------------------------- MODULE TransactionAge ----------------------------
(***************************************************************************)
(* Transaction with the order in which the running transactions began, a   *)
(* history variable: main.cc declares global_timestamp and                 *)
(* threads_timestamp for it, but no code sets them.                        *)
(***************************************************************************)
EXTENDS Transaction

VARIABLE began   \* the threads with a transaction, oldest first

ageVars == <<vars, began>>

Without(t) == SelectSeq(began, LAMBDA u : u # t)

Begins(t) == pc[t] = "test" /\ pc'[t] = "lock"

AgeInit == Init /\ began = << >>

AgeNext ==
    /\ Next
    /\ began' = IF \E t \in Threads : Begins(t)
                THEN LET t == CHOOSE u \in Threads : Begins(u) IN Append(Without(t), t)
                ELSE began

AgeSpec == AgeInit /\ [][AgeNext]_ageVars

-----------------------------------------------------------------------------
Age(t) == CHOOSE n \in 1..Len(began) : began[n] = t

\* The members of the deadlock that the request of t closes.
DeadlockMembers(t) ==
    LET with == LT!AddEdges(wait_for_graph, t, LT!NewEdges(t, Target(t), LockPhase(t)))
    IN  {u \in Threads : LT!Reaches(with, t, u) /\ LT!Reaches(with, u, t)}

Refused(t) == pc[t] = "lock" /\ pc'[t] = RollbackEntry(log[t].phase)

\* rw_lock_table.h: "checking who is the newest transaction in deadlock and
\* abort it".  The transaction that a deadlock aborts is the newest member.
NewestIsAborted ==
    [][\A t \in Threads : Refused(t) =>
          \A u \in DeadlockMembers(t) : Age(u) <= Age(t)]_ageVars
=============================================================================
