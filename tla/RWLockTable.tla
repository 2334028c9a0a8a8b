----------------------------- MODULE RWLockTable -----------------------------
(***************************************************************************)
(* The readers-writer lock table of project2 (src/rw_lock_table.cc).       *)
(*                                                                         *)
(* Every member function runs with global_mutex held, and the only place   *)
(* where a caller gives the mutex up is pthread_cond_wait.  So a call is    *)
(* one action, split where it sleeps: a request is granted, aborted, or    *)
(* goes to sleep, and a sleeper that was woken resumes by testing its loop *)
(* condition again.                                                        *)
(*                                                                         *)
(* The client of this module is the most general one: a thread asks for    *)
(* any record it is not queued on and unlocks any record it holds, in any  *)
(* order.  Transaction replaces it by the code of transaction.cc.          *)
(***************************************************************************)
EXTENDS WaitForGraph, Integers, Sequences, FiniteSets

CONSTANTS Records,   \* record ids
          NoRecord   \* the value of waiting[t] while t is not asleep

ASSUME ThreadsAssumption == IsFiniteSet(Threads)
ASSUME NoRecordAssumption == NoRecord \notin Records

VARIABLES
    table,               \* lock status of every record
    readers_count,       \* number of readers that hold the record
    record_wait_queues,  \* per record: holders and waiters in arrival order
    wait_for_graph,      \* thread -> threads it waits for
    waiting,             \* the record a thread sleeps for, or NoRecord
    woken,               \* sleepers whose condition variable was signalled
    held                 \* what the caller was granted: NONE, READ or WRITE

vars == <<table, readers_count, record_wait_queues, wait_for_graph, waiting,
          woken, held>>

\* phase_t as far as the lock table looks at it: READ, or one of the two
\* write phases, which it never tells apart.
Phases == {"READ", "WRITE"}
WaitQElem == [tid : Threads, phase : Phases]
LockStatus == {"RW_UNLOCK", "RW_READER_LOCK", "RW_WRITER_LOCK"}

Init ==
    /\ table = [r \in Records |-> "RW_UNLOCK"]
    /\ readers_count = [r \in Records |-> 0]
    /\ record_wait_queues = [r \in Records |-> << >>]
    /\ wait_for_graph = NoEdges
    /\ waiting = [t \in Threads |-> NoRecord]
    /\ woken = {}
    /\ held = [t \in Threads |-> [r \in Records |-> "NONE"]]

-----------------------------------------------------------------------------
(* Looking at a queue *)

IsReader(q, n) == q[n].phase = "READ"

\* find_ahead_writer: the position of the last writer ahead of position n;
\* empty when the code returns 0.
NearestWriter(q, n) ==
    {m \in 1..(n - 1) : ~IsReader(q, m) /\ \A l \in (m + 1)..(n - 1) : IsReader(q, l)}

\* Mutant: only the entry directly ahead.
AheadGroup_Nearest(q, n) == {n - 1} \cap 1..(n - 1)

\* The positions a writer at n waits for: all the readers directly ahead of
\* it, or the single writer directly ahead of it.
AheadGroup(q, n) ==
    {m \in 1..(n - 1) : m = n - 1 \/ \A l \in m..(n - 1) : IsReader(q, l)}

\* The threads the request at position n has to wait for.
WaitsFor(q, n) ==
    {q[m].tid : m \in IF IsReader(q, n) THEN NearestWriter(q, n) ELSE AheadGroup(q, n)}

\* Mutant: a writer that resumes looks for writers only.
Blocked_WritersOnly(q, n) == \E m \in 1..(n - 1) : ~IsReader(q, m)

\* The conditions of the two sleeping loops: find_ahead_writer for a reader,
\* find_ahead_reader_or_writer for a writer.
Blocked(q, n) ==
    IF IsReader(q, n) THEN \E m \in 1..(n - 1) : ~IsReader(q, m) ELSE n > 1

\* vector::erase at position n.
Erase(q, n) == [m \in 1..(Len(q) - 1) |-> q[IF m < n THEN m ELSE m + 1]]

Position(t, q) == {n \in 1..Len(q) : q[n].tid = t}

Asleep == {t \in Threads : waiting[t] # NoRecord}

\* Mutant: the signal is forgotten.
Signal_Forgotten(U) == woken' = woken

\* pthread_cond_signal on cond_var[u], u in U: it has an effect only on a
\* thread that sleeps now.
Signal(U) == woken' = woken \cup (U \cap Asleep)

-----------------------------------------------------------------------------
(* rdlock and wrlock *)

\* The end of rdlock and wrlock: the lock is written into the table.
Grant(t, r, phase) ==
    /\ table' = [table EXCEPT ![r] =
                   IF phase = "READ" THEN "RW_READER_LOCK" ELSE "RW_WRITER_LOCK"]
    /\ readers_count' = [readers_count EXCEPT ![r] =
                   IF phase = "READ" THEN @ + 1 ELSE @]
    /\ held' = [held EXCEPT ![t][r] = phase]

\* A thread that is running asks for a record it is not queued on.
MayRequest(t, r) ==
    /\ waiting[t] = NoRecord
    /\ held[t][r] = "NONE"

Pushed(t, r, phase) ==
    Append(record_wait_queues[r], [tid |-> t, phase |-> phase])

\* Mutant: a reader looks at the lock status and passes the waiting writers.
NewEdges_ByStatus(t, r, phase) ==
    IF phase = "READ" /\ table[r] # "RW_WRITER_LOCK" THEN {}
    ELSE WaitsFor(Pushed(t, r, phase), Len(record_wait_queues[r]) + 1)

\* Mutant: wrlock searches the queue as rdlock does.
NewEdges_AsReader(t, r, phase) ==
    WaitsFor(Pushed(t, r, "READ"), Len(record_wait_queues[r]) + 1)

\* The edges a request adds; none when it need not wait.
NewEdges(t, r, phase) ==
    WaitsFor(Pushed(t, r, phase), Len(record_wait_queues[r]) + 1)

RequestGranted(t, r, phase) ==
    /\ MayRequest(t, r)
    /\ NewEdges(t, r, phase) = {}
    /\ record_wait_queues' = [record_wait_queues EXCEPT ![r] = Pushed(t, r, phase)]
    /\ Grant(t, r, phase)
    /\ UNCHANGED <<wait_for_graph, waiting, woken>>

RequestSleeps(t, r, phase) ==
    /\ MayRequest(t, r)
    /\ NewEdges(t, r, phase) # {}
    /\ record_wait_queues' = [record_wait_queues EXCEPT ![r] = Pushed(t, r, phase)]
    /\ wait_for_graph' = AddEdges(wait_for_graph, t, NewEdges(t, r, phase))
    /\ ~HasCycle(wait_for_graph', t)
    /\ waiting' = [waiting EXCEPT ![t] = r]
    /\ UNCHANGED <<table, readers_count, woken, held>>

\* rdlock_clear_abort and wrlock_clear_abort: the caller, which has just been
\* appended and closes the cycle, signals the thread that waits for it on the
\* cycle, takes its edges back and leaves the queue.
RequestDeadlock(t, r, phase) ==
    LET new  == NewEdges(t, r, phase)
        with == AddEdges(wait_for_graph, t, new)
    IN  /\ MayRequest(t, r)
        /\ new # {}
        /\ HasCycle(with, t)
        /\ \E u \in CyclePredecessors(with, t) : Signal({u})
        /\ wait_for_graph' = RemoveEdges(with, t, new)
        /\ record_wait_queues' = [record_wait_queues EXCEPT ![r] =
                Erase(Pushed(t, r, phase), Len(@) + 1)]
        /\ UNCHANGED <<table, readers_count, waiting, held>>

\* pthread_cond_wait returns with the mutex held and the loop condition of
\* rdlock or wrlock is false: the request is granted.
ResumeGranted(t) ==
    /\ t \in woken
    /\ LET r == waiting[t] IN
       \E n \in Position(t, record_wait_queues[r]) :
          /\ ~Blocked(record_wait_queues[r], n)
          /\ Grant(t, r, record_wait_queues[r][n].phase)
    /\ waiting' = [waiting EXCEPT ![t] = NoRecord]
    /\ woken' = woken \ {t}
    /\ UNCHANGED <<record_wait_queues, wait_for_graph>>

\* ... or it still holds, and the thread sleeps again.
ResumeSleeps(t) ==
    /\ t \in woken
    /\ \E n \in Position(t, record_wait_queues[waiting[t]]) :
          Blocked(record_wait_queues[waiting[t]], n)
    /\ woken' = woken \ {t}
    /\ UNCHANGED <<table, readers_count, record_wait_queues, wait_for_graph,
                   waiting, held>>

\* pthread_cond_wait may return although nobody signalled.
SpuriousWakeup(t) ==
    /\ t \in Asleep \ woken
    /\ woken' = woken \cup {t}
    /\ UNCHANGED <<table, readers_count, record_wait_queues, wait_for_graph,
                   waiting, held>>

-----------------------------------------------------------------------------
(* unlock *)

\* Mutant: the writer is looked for at the next position only.
NextWriter_Adjacent(q, n) == {m \in {n + 1} \cap 1..Len(q) : ~IsReader(q, m)}

\* The first writer behind position n: the one that has an edge to a reader
\* at n.
NextWriter(q, n) ==
    {m \in (n + 1)..Len(q) : ~IsReader(q, m) /\ \A l \in (n + 1)..(m - 1) : IsReader(q, l)}

\* Mutant: one follower only, as if the loop over the readers were missing.
FollowingGroup_One(q) == {2} \cap 1..Len(q)

\* The followers that a writer at the top wakes: the readers up to the next
\* writer, or the writer that comes directly behind it.
FollowingGroup(q) ==
    {m \in 2..Len(q) : m = 2 \/ \A l \in 2..m : IsReader(q, l)}

Tids(q, P) == {q[m].tid : m \in P}

\* Mutant: the top of the queue, whoever follows.
LastReader_Top(q, n) == n = 1

\* The test of rd_unlock: the caller is the top of the queue and no other
\* reader follows it.
LastReader(q, n) == n = 1 /\ (Len(q) = 1 \/ ~IsReader(q, 2))

\* rd_unlock.  Only the last reader resets the status and signals.
RdUnlock(t, r) ==
    LET q == record_wait_queues[r] IN
    \E n \in Position(t, q) :
       LET last == LastReader(q, n) IN
       /\ table' = [table EXCEPT ![r] = IF last THEN "RW_UNLOCK" ELSE @]
       /\ readers_count' = [readers_count EXCEPT ![r] = @ - 1]
       /\ wait_for_graph' = RemoveEdgesTo(wait_for_graph, Tids(q, NextWriter(q, n)), t)
       /\ Signal(IF last THEN Tids(q, NextWriter(q, n)) ELSE {})
       /\ record_wait_queues' = [record_wait_queues EXCEPT ![r] = Erase(q, n)]

\* wr_unlock.
WrUnlock(t, r) ==
    LET q     == record_wait_queues[r]
        group == Tids(q, FollowingGroup(q))
    IN  /\ table' = [table EXCEPT ![r] = "RW_UNLOCK"]
        /\ wait_for_graph' = RemoveEdgesTo(wait_for_graph, group, t)
        /\ Signal(group)
        /\ record_wait_queues' = [record_wait_queues EXCEPT ![r] = Erase(q, 1)]
        /\ UNCHANGED readers_count

\* unlock dispatches on the status in the table, not on what the caller holds.
Unlock(t, r) ==
    /\ waiting[t] = NoRecord
    /\ held[t][r] # "NONE"
    /\ \/ table[r] = "RW_READER_LOCK" /\ RdUnlock(t, r)
       \/ table[r] = "RW_WRITER_LOCK" /\ WrUnlock(t, r)
    /\ held' = [held EXCEPT ![t][r] = "NONE"]
    /\ UNCHANGED waiting

-----------------------------------------------------------------------------
Request(t, r, phase) ==
    \/ RequestGranted(t, r, phase)
    \/ RequestSleeps(t, r, phase)
    \/ RequestDeadlock(t, r, phase)

Resume(t) == ResumeGranted(t) \/ ResumeSleeps(t)

Next ==
    \E t \in Threads :
       \/ \E r \in Records :
             \/ \E phase \in Phases : Request(t, r, phase)
             \/ Unlock(t, r)
       \/ Resume(t)
       \/ SpuriousWakeup(t)

Spec == Init /\ [][Next]_vars

-----------------------------------------------------------------------------
(* Properties *)

\* Every variable has its type.
TypeOK ==
    /\ table \in [Records -> LockStatus]
    /\ readers_count \in [Records -> Nat]
    /\ record_wait_queues \in [Records -> Seq(WaitQElem)]
    /\ wait_for_graph \in Graphs
    /\ waiting \in [Threads -> Records \cup {NoRecord}]
    /\ woken \in SUBSET Threads
    /\ held \in [Threads -> [Records -> Phases \cup {"NONE"}]]

\* A record that a thread holds for writing is held by no other thread: what
\* the data accesses of transaction.cc outside global_mutex rely on.
MutualExclusion ==
    \A t, u \in Threads : \A r \in Records :
       t # u /\ held[t][r] = "WRITE" => held[u][r] = "NONE"

\* No request overtakes a conflicting one that came earlier: the entry of a
\* granted request has nothing ahead of it that its sleeping loop waits for.
\* So a stream of readers cannot starve a waiting writer.
NoOvertaking ==
    \A r \in Records : \A n \in 1..Len(record_wait_queues[r]) :
       held[record_wait_queues[r][n].tid][r] # "NONE"
          => ~Blocked(record_wait_queues[r], n)

\* No wakeup is lost: a thread whose loop condition is already false has been
\* signalled, so nobody sleeps on a lock that is free for it.
NoLostWakeup ==
    \A r \in Records : \A n \in 1..Len(record_wait_queues[r]) :
       LET t == record_wait_queues[r][n].tid IN
       waiting[t] = r /\ t \notin woken => Blocked(record_wait_queues[r], n)

\* The wait-for graph, which the code keeps up to date edge by edge, always
\* equals what the queues say: a waiting request has an edge to every thread
\* it waits for and to no other, a running thread has none.
GraphExact ==
    /\ \A r \in Records : \A n \in 1..Len(record_wait_queues[r]) :
          LET t == record_wait_queues[r][n].tid IN
          waiting[t] = r => wait_for_graph[t] = WaitsFor(record_wait_queues[r], n)
    /\ \A t \in Threads : waiting[t] = NoRecord => wait_for_graph[t] = {}

\* Sleeping threads never form a cycle.
WaitForAcyclic == Acyclic(wait_for_graph)

\* Never is every thread asleep with nobody to wake it: some thread is
\* running or was signalled.
SomeThreadRuns == \E t \in Threads : waiting[t] = NoRecord \/ t \in woken

-----------------------------------------------------------------------------
(* The assertions of the code, each as a condition on the states in which  *)
(* the call that contains it can be made.                                  *)

\* wrlock before it writes the table: nobody holds the record, and the caller
\* is the top of the queue q.
WrLockAsserts(t, r, q) ==
    /\ table[r] # "RW_WRITER_LOCK"
    /\ readers_count[r] = 0
    /\ q[1].tid = t

\* rd_unlock: the reader is counted, in the queue and has only readers ahead;
\* remove_edge finds the edge of the writer behind it.
RdUnlockAsserts(t, r) ==
    LET q == record_wait_queues[r] IN
    /\ readers_count[r] > 0
    /\ \E n \in Position(t, q) :
          /\ \A m \in 1..n : IsReader(q, m)
          /\ \A u \in Tids(q, NextWriter(q, n)) : t \in wait_for_graph[u]

\* wr_unlock: the writer is the top; every follower it wakes had its edge.
WrUnlockAsserts(t, r) ==
    LET q == record_wait_queues[r] IN
    /\ Len(q) > 0
    /\ q[1].tid = t
    /\ \A u \in Tids(q, FollowingGroup(q)) : t \in wait_for_graph[u]

\* add_edge: no self edge, and the edge is new (the "is this possible case?"
\* branch, which asserts false, is not taken).
AddEdgeAsserts(t, r, phase) ==
    LET D == NewEdges(t, r, phase) IN
    t \notin D /\ D \cap wait_for_graph[t] = {}

\* clear_abort: get_cycle finds the cycle again and it has a second member,
\* which is the one to signal.
ClearAbortAsserts(t, r, phase) ==
    LET with == AddEdges(wait_for_graph, t, NewEdges(t, r, phase)) IN
    HasCycle(with, t) => CyclePredecessors(with, t) # {}

\* No call that a client can make fails an assertion of rw_lock_table.cc or
\* directed_graph.cc, and unlock never finds the status RW_UNLOCK.
AssertionsHold ==
    \A t \in Threads : \A r \in Records :
       /\ held[t][r] # "NONE" =>
             /\ table[r] # "RW_UNLOCK"
             /\ table[r] = "RW_READER_LOCK" => RdUnlockAsserts(t, r)
             /\ table[r] = "RW_WRITER_LOCK" => WrUnlockAsserts(t, r)
       /\ MayRequest(t, r) => \A phase \in Phases :
             /\ AddEdgeAsserts(t, r, phase)
             /\ ClearAbortAsserts(t, r, phase)
             /\ phase = "WRITE" /\ NewEdges(t, r, phase) = {}
                   => WrLockAsserts(t, r, Pushed(t, r, phase))
       /\ waiting[t] = r =>
             /\ Position(t, record_wait_queues[r]) # {}
             /\ \A n \in Position(t, record_wait_queues[r]) :
                   ~IsReader(record_wait_queues[r], n) /\ ~Blocked(record_wait_queues[r], n)
                      => WrLockAsserts(t, r, record_wait_queues[r])

-----------------------------------------------------------------------------
(* The lock table implements a readers-writer lock. *)

RW == INSTANCE ReadersWriterLock

ImplementsReadersWriterLock == RW!Spec

-----------------------------------------------------------------------------
(* The inductive invariant: the properties above and what ties the queues,  *)
(* the table and the callers' grants together.                             *)

\* A thread has at most one entry per queue.
QueueDistinct ==
    \A r \in Records : \A m, n \in 1..Len(record_wait_queues[r]) :
       record_wait_queues[r][m].tid = record_wait_queues[r][n].tid => m = n

\* An entry is a grant of the same phase or a sleeping request ...
EntryInv ==
    \A r \in Records : \A n \in 1..Len(record_wait_queues[r]) :
       LET e == record_wait_queues[r][n] IN
       IF waiting[e.tid] = r THEN held[e.tid][r] = "NONE"
                             ELSE held[e.tid][r] = e.phase

\* ... and every grant and every sleeping request has its entry.
HasEntry ==
    \A t \in Threads : \A r \in Records :
       held[t][r] # "NONE" \/ waiting[t] = r => Position(t, record_wait_queues[r]) # {}

WokenInv == woken \subseteq Asleep

\* The status in the table against the top of the queue.
StatusInv ==
    \A r \in Records :
       LET q == record_wait_queues[r] IN
       /\ table[r] = "RW_WRITER_LOCK" => q # << >> /\ held[q[1].tid][r] = "WRITE"
       /\ table[r] = "RW_READER_LOCK" => q # << >> /\ IsReader(q, 1)
       /\ \A t \in Threads :
             /\ held[t][r] = "READ" => table[r] = "RW_READER_LOCK"
             /\ held[t][r] = "WRITE" => table[r] = "RW_WRITER_LOCK"

Readers(r) == {t \in Threads : held[t][r] = "READ"}

CountInv == \A r \in Records : readers_count[r] = Cardinality(Readers(r))

LockInv ==
    /\ TypeOK
    /\ QueueDistinct
    /\ EntryInv
    /\ HasEntry
    /\ WokenInv
    /\ StatusInv
    /\ CountInv
    /\ NoOvertaking
    /\ NoLostWakeup
    /\ GraphExact
=============================================================================
