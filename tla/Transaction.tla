----------------------------- MODULE Transaction -----------------------------
(***************************************************************************)
(* The worker threads of project2 (src/transaction.cc): strict two-phase   *)
(* locking on top of the lock table.  Until the commit ids are used up, a  *)
(* worker picks three records i, j, k, locks them one after the other,     *)
(* reads i, writes j and k, commits under global_mutex and releases; when  *)
(* the lock table refuses a lock because of a deadlock it rolls back.      *)
(*                                                                         *)
(* The data is accessed outside global_mutex, so a read, a load and a store *)
(* of a record are steps of their own.  A lock request is one step, taken  *)
(* when the mutex is free.  Commit, release and rollback keep the mutex    *)
(* over several calls; they are one step per call, with the worker as the  *)
(* owner of global_mutex.                                                  *)
(***************************************************************************)
EXTENDS Integers, Sequences, FiniteSets

CONSTANTS Threads, Records, NoRecord,
          NoThread,          \* the owner of a free mutex
          E,                 \* the number of commit ids
          InitialValue,      \* what a record holds at the start
          MaxInt             \* the largest long long

ASSUME EAssumption == E \in Nat \ {0}
ASSUME RecordsAssumption == IsFiniteSet(Records) /\ Cardinality(Records) >= 3
ASSUME RangeAssumption == MaxInt \in Nat /\ InitialValue \in 0..MaxInt
ASSUME ThreadsAssumption == IsFiniteSet(Threads) /\ NoThread \notin Threads
ASSUME NoRecordAssumption == NoRecord \notin Records

VARIABLES table, readers_count, record_wait_queues, wait_for_graph, waiting,
          woken, held

VARIABLES
    records,                 \* the shared data
    log,                     \* log_t of the running transaction of a thread
    pc,                      \* where in transaction() the thread is
    global_execution_order,  \* the last commit id handed out
    global_mutex,            \* its owner
    committed,               \* the lines of all log files
    exited                   \* the process ended in exit(1)

lockVars == <<table, readers_count, record_wait_queues, wait_for_graph, waiting,
              woken, held>>
dataVars == <<records, log, global_execution_order, committed, exited>>
vars == <<lockVars, dataVars, pc, global_mutex>>

LT == INSTANCE RWLockTable

\* The sums and differences the code computes in long long.
MinInt == -MaxInt - 1

Wrap(x) ==
    IF x > MaxInt THEN x - 2 * (MaxInt + 1)
    ELSE IF x < MinInt THEN x + 2 * (MaxInt + 1)
    ELSE x

\* memset(&log, 0, sizeof(log_t)), before i, j and k are chosen.
NoLog == [phase |-> "INVALID", i |-> NoRecord, j |-> NoRecord, k |-> NoRecord,
          value_of_i |-> 0, value_of_j |-> 0, value_of_k |-> 0, old_value |-> 0]

Init ==
    /\ LT!Init
    /\ records = [r \in Records |-> InitialValue]
    /\ log = [t \in Threads |-> NoLog]
    /\ pc = [t \in Threads |-> "test"]
    /\ global_execution_order = 0
    /\ global_mutex = NoThread
    /\ committed = {}
    /\ exited = FALSE

-----------------------------------------------------------------------------
At(t, label) == pc[t] = label
Goto(t, label) == pc' = [pc EXCEPT ![t] = label]

MutexFree == global_mutex = NoThread

\* The record a phase works on.
Target(t) ==
    CASE log[t].phase = "READ"         -> log[t].i
      [] log[t].phase = "FIRST_WRITE"  -> log[t].j
      [] log[t].phase = "SECOND_WRITE" -> log[t].k

\* Mutant: every record is locked for reading.
LockPhase_Shared(t) == "READ"

LockPhase(t) == IF log[t].phase = "READ" THEN "READ" ELSE "WRITE"

\* The loop test reads global_execution_order without the mutex.  A new
\* transaction chooses three distinct records.
Begin(t) ==
    /\ At(t, "test")
    /\ global_execution_order <= E
    /\ \E i, j, k \in Records :
          /\ j # i /\ k # i /\ k # j
          /\ log' = [log EXCEPT ![t] =
                [NoLog EXCEPT !.phase = "READ", !.i = i, !.j = j, !.k = k]]
    /\ Goto(t, "lock")
    /\ UNCHANGED <<lockVars, records, global_execution_order, committed, exited,
                   global_mutex>>

Leave(t) ==
    /\ At(t, "test")
    /\ global_execution_order > E
    /\ Goto(t, "done")
    /\ UNCHANGED <<lockVars, dataVars, global_mutex>>

\* read_record, first_write_record, second_write_record: the call to rdlock
\* or wrlock returns true, sleeps, or returns false.
LockGranted(t) ==
    /\ At(t, "lock")
    /\ MutexFree
    /\ LT!RequestGranted(t, Target(t), LockPhase(t))
    /\ Goto(t, "access")
    /\ UNCHANGED <<dataVars, global_mutex>>

LockSleeps(t) ==
    /\ At(t, "lock")
    /\ MutexFree
    /\ LT!RequestSleeps(t, Target(t), LockPhase(t))
    /\ UNCHANGED <<dataVars, pc, global_mutex>>

\* rollback(log) enters its switch at the phase that failed.
RollbackEntry(phase) ==
    CASE phase = "READ"         -> "rollback_read"
      [] phase = "FIRST_WRITE"  -> "rollback_first_write"
      [] phase = "SECOND_WRITE" -> "rollback_second_write"
      [] phase = "COMMIT"       -> "rollback_commit"

LockRefused(t) ==
    /\ At(t, "lock")
    /\ MutexFree
    /\ LT!RequestDeadlock(t, Target(t), LockPhase(t))
    /\ Goto(t, RollbackEntry(log[t].phase))
    /\ global_mutex' = t
    /\ UNCHANGED dataVars

WakeGranted(t) ==
    /\ MutexFree
    /\ LT!ResumeGranted(t)
    /\ Goto(t, "access")
    /\ UNCHANGED <<dataVars, global_mutex>>

WakeSleeps(t) ==
    /\ MutexFree
    /\ LT!ResumeSleeps(t)
    /\ UNCHANGED <<dataVars, pc, global_mutex>>

SpuriousWakeup(t) ==
    /\ LT!SpuriousWakeup(t)
    /\ UNCHANGED <<dataVars, pc, global_mutex>>

-----------------------------------------------------------------------------
(* The data, accessed with the record locked and without the mutex *)

Read(t) ==
    /\ At(t, "access")
    /\ log[t].phase = "READ"
    /\ log' = [log EXCEPT ![t].value_of_i = records[log[t].i],
                          ![t].phase = "FIRST_WRITE"]
    /\ Goto(t, "lock")
    /\ UNCHANGED <<lockVars, records, global_execution_order, committed, exited,
                   global_mutex>>

Load(t) ==
    /\ At(t, "access")
    /\ log[t].phase \in {"FIRST_WRITE", "SECOND_WRITE"}
    /\ log' = [log EXCEPT ![t].old_value = records[Target(t)]]
    /\ Goto(t, "store")
    /\ UNCHANGED <<lockVars, records, global_execution_order, committed, exited,
                   global_mutex>>

\* An overflow is undefined: the sum wraps around, and the test for it, which
\* the optimiser may take to be false, ends the process or lets it go on.
MayExit(test) == exited' \in IF test THEN BOOLEAN ELSE {FALSE}

StoreFirst(t) ==
    LET target == Wrap(log[t].value_of_i + 1)
        value  == Wrap(log[t].old_value + target)
    IN  /\ At(t, "store")
        /\ log[t].phase = "FIRST_WRITE"
        /\ records' = [records EXCEPT ![log[t].j] = value]
        /\ log' = [log EXCEPT ![t].value_of_j = value, ![t].phase = "SECOND_WRITE"]
        /\ MayExit(log[t].old_value > 0 /\ target > 0 /\ value < 0)
        /\ Goto(t, "lock")
        /\ UNCHANGED <<lockVars, global_execution_order, committed, global_mutex>>

StoreSecond(t) ==
    LET target == Wrap(-log[t].value_of_i)
        value  == Wrap(log[t].old_value - log[t].value_of_i)
    IN  /\ At(t, "store")
        /\ log[t].phase = "SECOND_WRITE"
        /\ records' = [records EXCEPT ![log[t].k] = value]
        /\ log' = [log EXCEPT ![t].value_of_k = value, ![t].phase = "COMMIT"]
        /\ MayExit(log[t].old_value < 0 /\ target < 0 /\ value > 0)
        /\ Goto(t, "commit")
        /\ UNCHANGED <<lockVars, global_execution_order, committed, global_mutex>>

-----------------------------------------------------------------------------
(* Commit, release and rollback, with the mutex held *)

LogLine(t, id) ==
    [commit_id |-> id, i |-> log[t].i, j |-> log[t].j, k |-> log[t].k,
     value_of_i |-> log[t].value_of_i, value_of_j |-> log[t].value_of_j,
     value_of_k |-> log[t].value_of_k]

\* Mutant: one commit id too many is accepted.
Commit_OneTooMany(t) ==
    LET id == global_execution_order + 1
        ok == id <= E + 1
    IN  /\ At(t, "commit")
        /\ MutexFree
        /\ global_mutex' = t
        /\ global_execution_order' = id
        /\ committed' = IF ok THEN committed \cup {LogLine(t, id)} ELSE committed
        /\ Goto(t, IF ok THEN "unlock_i" ELSE "rollback_commit")
        /\ UNCHANGED <<lockVars, records, log, exited>>

\* The commit id is taken in any case; beyond E the transaction rolls back.
Commit(t) ==
    LET id == global_execution_order + 1
        ok == id <= E
    IN  /\ At(t, "commit")
        /\ MutexFree
        /\ global_mutex' = t
        /\ global_execution_order' = id
        /\ committed' = IF ok THEN committed \cup {LogLine(t, id)} ELSE committed
        /\ Goto(t, IF ok THEN "unlock_i" ELSE "rollback_commit")
        /\ UNCHANGED <<lockVars, records, log, exited>>

\* The mutex is given back and log goes out of scope.
EndOfTransaction(t, label) ==
    /\ global_mutex' = NoThread
    /\ Goto(t, label)
    /\ log' = [log EXCEPT ![t] = NoLog]
    /\ UNCHANGED <<records, global_execution_order, committed, exited>>

\* release_locks, one unlock per step.
ReleaseI(t) ==
    /\ At(t, "unlock_i")
    /\ LT!Unlock(t, log[t].i)
    /\ Goto(t, "unlock_j")
    /\ UNCHANGED <<dataVars, global_mutex>>

ReleaseJ(t) ==
    /\ At(t, "unlock_j")
    /\ LT!Unlock(t, log[t].j)
    /\ Goto(t, "unlock_k")
    /\ UNCHANGED <<dataVars, global_mutex>>

ReleaseK(t) ==
    /\ At(t, "unlock_k")
    /\ LT!Unlock(t, log[t].k)
    /\ EndOfTransaction(t, "test")

\* Mutant: the rollback gives no record back.
UnlockUnless_Never(t, phase, r) == UNCHANGED lockVars

\* A rollback step gives a record back only when its lock was granted.
UnlockUnless(t, phase, r) ==
    IF log[t].phase = phase THEN UNCHANGED lockVars ELSE LT!Unlock(t, r)

\* Mutant: the write to k is not undone.
RollbackCommit_KeepsK(t) ==
    /\ At(t, "rollback_commit")
    /\ Goto(t, "rollback_second_write")
    /\ UNCHANGED <<lockVars, dataVars, global_mutex>>

RollbackCommit(t) ==
    /\ At(t, "rollback_commit")
    /\ records' = [records EXCEPT ![log[t].k] = Wrap(@ + log[t].value_of_i)]
    /\ Goto(t, "rollback_second_write")
    /\ UNCHANGED <<lockVars, log, global_execution_order, committed, exited, global_mutex>>

\* Mutant: j loses the value of i and not the value plus one.
RollbackSecondWrite_OffByOne(t) ==
    /\ At(t, "rollback_second_write")
    /\ UnlockUnless(t, "SECOND_WRITE", log[t].k)
    /\ records' = [records EXCEPT ![log[t].j] = Wrap(@ - log[t].value_of_i)]
    /\ Goto(t, "rollback_first_write")
    /\ UNCHANGED <<log, global_execution_order, committed, exited, global_mutex>>

RollbackSecondWrite(t) ==
    /\ At(t, "rollback_second_write")
    /\ UnlockUnless(t, "SECOND_WRITE", log[t].k)
    /\ records' = [records EXCEPT ![log[t].j] = Wrap(@ - Wrap(log[t].value_of_i + 1))]
    /\ Goto(t, "rollback_first_write")
    /\ UNCHANGED <<log, global_execution_order, committed, exited, global_mutex>>

RollbackFirstWrite(t) ==
    /\ At(t, "rollback_first_write")
    /\ UnlockUnless(t, "FIRST_WRITE", log[t].j)
    /\ Goto(t, "rollback_read")
    /\ UNCHANGED <<dataVars, global_mutex>>

\* After the rollback the worker continues with a new transaction, or leaves
\* the loop when it was the commit that failed.
RollbackRead(t) ==
    /\ At(t, "rollback_read")
    /\ UnlockUnless(t, "READ", log[t].i)
    /\ EndOfTransaction(t, IF log[t].phase = "COMMIT" THEN "done" ELSE "test")

-----------------------------------------------------------------------------
AllDone == \A t \in Threads : At(t, "done")

\* One step of the code of thread t.
Step(t) ==
    /\ ~exited
    /\ \/ Begin(t) \/ Leave(t)
       \/ LockGranted(t) \/ LockSleeps(t) \/ LockRefused(t)
       \/ WakeGranted(t) \/ WakeSleeps(t)
       \/ Read(t) \/ Load(t) \/ StoreFirst(t) \/ StoreSecond(t)
       \/ Commit(t)
       \/ ReleaseI(t) \/ ReleaseJ(t) \/ ReleaseK(t)
       \/ RollbackCommit(t) \/ RollbackSecondWrite(t)
       \/ RollbackFirstWrite(t) \/ RollbackRead(t)

\* The process has ended: after exit(1), or main has joined every worker.
Ended ==
    /\ exited \/ AllDone
    /\ UNCHANGED vars

Next ==
    \/ \E t \in Threads : Step(t) \/ (~exited /\ SpuriousWakeup(t))
    \/ Ended

Spec == Init /\ [][Next]_vars

\* Every thread that can take a step of its own code eventually does.
FairSpec == Spec /\ \A t \in Threads : WF_vars(Step(t))

-----------------------------------------------------------------------------
(* Properties *)

Phases == {"INVALID", "READ", "FIRST_WRITE", "SECOND_WRITE", "COMMIT"}
Labels == {"test", "lock", "access", "store", "commit", "unlock_i", "unlock_j",
           "unlock_k", "rollback_commit", "rollback_second_write",
           "rollback_first_write", "rollback_read", "done"}
Values == MinInt..MaxInt

\* The locks that a worker owes to the point it has reached.
OwnsI(t) ==
    \/ pc[t] = "access"
    \/ /\ log[t].phase \in {"FIRST_WRITE", "SECOND_WRITE", "COMMIT"}
       /\ pc[t] \notin {"unlock_j", "unlock_k"}
OwnsJ(t) ==
    \/ log[t].phase = "FIRST_WRITE" /\ pc[t] \in {"access", "store"}
    \/ /\ log[t].phase \in {"SECOND_WRITE", "COMMIT"}
       /\ pc[t] \notin {"unlock_k", "rollback_read"}
OwnsK(t) ==
    \/ log[t].phase = "SECOND_WRITE" /\ pc[t] \in {"access", "store"}
    \/ /\ log[t].phase = "COMMIT"
       /\ pc[t] \notin {"rollback_first_write", "rollback_read"}

\* Strict two-phase locking: at every point a worker holds exactly the locks
\* of the phases it has gone through, in the right mode, until it commits or
\* rolls back; and it sleeps only for the record its phase asks for.  So every
\* unlock of release_locks and rollback is for a lock the worker has, and it
\* forgets none.
StrictTwoPhase ==
    \A t \in Threads :
       /\ \A r \in Records : held[t][r] =
             CASE r = log[t].i /\ OwnsI(t) -> "READ"
               [] r = log[t].j /\ OwnsJ(t) -> "WRITE"
               [] r = log[t].k /\ OwnsK(t) -> "WRITE"
               [] OTHER -> "NONE"
       /\ waiting[t] # NoRecord => At(t, "lock") /\ waiting[t] = Target(t)

\* The records that the next step of t loads or stores without regard to
\* global_mutex.
Loads(t) == IF At(t, "access") THEN {Target(t)} ELSE {}
Stores(t) ==
    CASE At(t, "store") -> {Target(t)}
      [] At(t, "rollback_commit") -> {log[t].k}
      [] At(t, "rollback_second_write") -> {log[t].j}
      [] OTHER -> {}

\* No data race on records: while a worker is about to store into a record,
\* no other is about to load it or to store into it.
NoDataRace ==
    \A t, u \in Threads : t # u => Stores(t) \cap (Loads(u) \cup Stores(u)) = {}

-----------------------------------------------------------------------------
(* marking/main.cc: replay the log lines in the order of their commit ids *)

Line(n) == CHOOSE line \in committed : line.commit_id = n

Replayed(store, line) ==
    LET vi == store[line.i] IN
    [store EXCEPT ![line.j] = Wrap(@ + Wrap(vi + 1)), ![line.k] = Wrap(@ - vi)]

\* The records after the first n transactions, run one at a time.
Replay ==
    LET After[n \in 0..Cardinality(committed)] ==
          IF n = 0 THEN [r \in Records |-> InitialValue]
                   ELSE Replayed(After[n - 1], Line(n))
    IN  After

\* The commit ids in the log files are 1, 2, ... without a gap or a double,
\* and the replay finds in every line the values that the replay computes:
\* "All commits are correct!" at any time, not only at the end.
MarkingAccepts ==
    /\ {line.commit_id : line \in committed} = 1..Cardinality(committed)
    /\ \A line \in committed :
          /\ line.value_of_i = Replay[line.commit_id - 1][line.i]
          /\ line.value_of_j = Replay[line.commit_id][line.j]
          /\ line.value_of_k = Replay[line.commit_id][line.k]

\* When all workers are gone, every failed transaction has been undone, all
\* E commit ids are used, and the lock table is empty.
QuiescentAtEnd ==
    AllDone =>
       /\ Cardinality(committed) = E
       /\ records = Replay[E]
       /\ LT!Init

\* The replay in unbounded arithmetic.
ExactReplay ==
    LET After[n \in 0..Cardinality(committed)] ==
          IF n = 0 THEN [r \in Records |-> InitialValue]
          ELSE LET line == Line(n)
                   vi == After[n - 1][line.i]
               IN  [After[n - 1] EXCEPT ![line.j] = @ + vi + 1, ![line.k] = @ - vi]
    IN  After

\* main.cc prints "No overflow!" when every worker has been joined: no sum or
\* difference of a committed transaction left the range of a long long.
NoOverflowClaim == AllDone => records = ExactReplay[Cardinality(committed)]

-----------------------------------------------------------------------------
(* The workers implement a store with atomic transactions. *)

\* A write to j (to k) that is neither committed nor undone yet.
PendingJ(t) ==
    /\ log[t].phase \in {"SECOND_WRITE", "COMMIT"}
    /\ pc[t] \in {"lock", "access", "store", "commit", "rollback_commit",
                  "rollback_second_write"}
PendingK(t) == pc[t] \in {"commit", "rollback_commit"}

\* The committed value of a record: the value with a pending write undone.
CommittedValue(r) ==
    LET undo == {<<t, Wrap(log[t].value_of_i + 1)>> :
                    t \in {u \in Threads : PendingJ(u) /\ log[u].j = r}} \cup
                {<<t, -log[t].value_of_i>> :
                    t \in {u \in Threads : PendingK(u) /\ log[u].k = r}}
    IN  IF undo = {} THEN records[r]
        ELSE Wrap(records[r] - (CHOOSE d \in undo : TRUE)[2])

Serial == INSTANCE SerialStore WITH store <- [r \in Records |-> CommittedValue(r)]

\* Strict two-phase locking makes the transactions serializable in the order
\* of their commit ids, and a rolled-back one leaves no trace.
Serializable == Serial!Spec

-----------------------------------------------------------------------------
(* Liveness *)

\* Nobody sleeps for ever: the queues are served in order and every holder
\* commits or rolls back, or the process ends.
SleeperWakes ==
    \A t \in Threads : waiting[t] # NoRecord ~> waiting[t] = NoRecord \/ exited

Aborting == \E t \in Threads : At(t, "rollback_read") /\ log[t].phase # "COMMIT"

\* The only way for the program not to finish is an endless series of
\* deadlock aborts.
TerminatesOrAborts == (<>[](exited \/ AllDone)) \/ ([]<>Aborting)
=============================================================================
