-------------------------- MODULE TransactionProofs --------------------------
(***************************************************************************)
(* Proofs about Transaction for any finite set of threads, any set of at   *)
(* least three records, any number of commit ids and any range of values:  *)
(* strict two-phase locking, no data race, serializability, and log files  *)
(* that the replay of marking accepts.  They rest on the invariant that    *)
(* RWLockTableProofs proves of the lock table for any client.              *)
(*                                                                         *)
(* The last part is about DirectedGraph, for any set of nodes: the search  *)
(* on which the lock table relies for its deadlocks finds a cycle exactly  *)
(* when there is one.                                                      *)
(***************************************************************************)
EXTENDS Transaction, DirectedGraph, FiniteSetTheorems, SequenceTheorems, TLAPS

L == INSTANCE RWLockTableProofs

-----------------------------------------------------------------------------
(* The steps of the lock table as a worker sees them.  LT and L are the     *)
(* same module; L has the proofs.                                           *)

LEMMA LockTableAssumptions == L!IsFiniteSet(Threads) /\ NoRecord \notin Records
BY ThreadsAssumption, NoRecordAssumption DEF L!IsFiniteSet, IsFiniteSet

LEMMA LockStep == L!LockInv /\ [L!Next]_(L!vars) => L!LockInv'
BY LockTableAssumptions, L!NextInv

LEMMA LockInit == LT!Init => L!LockInv
<1>1. LT!Init => L!Init
  BY DEF LT!Init, LT!NoEdges, L!Init, L!NoEdges
<1> QED
  BY <1>1, LockTableAssumptions, L!InitInv

Modes == {"READ", "WRITE"}

LEMMA RequestGrantedStep ==
    ASSUME L!LockInv, NEW t \in Threads, NEW r \in Records, NEW mode \in Modes,
           LT!RequestGranted(t, r, mode)
    PROVE  /\ L!LockInv'
           /\ waiting[t] = NoRecord /\ waiting' = waiting
           /\ held' = [held EXCEPT ![t][r] = mode]
           /\ record_wait_queues' = [record_wait_queues EXCEPT ![r] =
                                        Append(@, [tid |-> t, phase |-> mode])]
<1>1. L!RequestGranted(t, r, mode)
  BY DEF LT!RequestGranted, LT!MayRequest, LT!NewEdges, LT!Pushed, LT!Grant, LT!WaitsFor,
         LT!NearestWriter, LT!AheadGroup, LT!IsReader,
         L!RequestGranted, L!MayRequest, L!NewEdges, L!Pushed, L!Grant, L!WaitsFor,
         L!NearestWriter, L!AheadGroup, L!IsReader
<1>2. L!LockInv'
  BY <1>1, LockStep DEF L!Next, L!Request, L!Phases, Modes
<1> QED
  BY <1>2 DEF LT!RequestGranted, LT!MayRequest, LT!Pushed, LT!Grant

LEMMA RequestSleepsStep ==
    ASSUME L!LockInv, NEW t \in Threads, NEW r \in Records, NEW mode \in Modes,
           LT!RequestSleeps(t, r, mode)
    PROVE  /\ L!LockInv'
           /\ waiting[t] = NoRecord /\ waiting' = [waiting EXCEPT ![t] = r]
           /\ held[t][r] = "NONE" /\ held' = held
           /\ \A n \in 1..Len(record_wait_queues[r]) : record_wait_queues[r][n].tid # t
           /\ record_wait_queues' = [record_wait_queues EXCEPT ![r] =
                                        Append(@, [tid |-> t, phase |-> mode])]
<1>1. L!RequestSleeps(t, r, mode)
  BY DEF LT!RequestSleeps, LT!MayRequest, LT!NewEdges, LT!Pushed, LT!WaitsFor,
         LT!NearestWriter, LT!AheadGroup, LT!IsReader, LT!AddEdges, LT!HasCycle, LT!Reaches,
         LT!ClosedUnder,
         L!RequestSleeps, L!MayRequest, L!NewEdges, L!Pushed, L!WaitsFor,
         L!NearestWriter, L!AheadGroup, L!IsReader, L!AddEdges, L!HasCycle, L!Reaches,
         L!ClosedUnder
<1>2. L!LockInv'
  BY <1>1, LockStep DEF L!Next, L!Request, L!Phases, Modes
<1>3. \A n \in 1..Len(record_wait_queues[r]) : record_wait_queues[r][n].tid # t
  <2>1. L!MayRequest(t, r) /\ mode \in L!Phases
    BY <1>1 DEF L!RequestSleeps, L!Phases, Modes
  <2> QED
    BY <2>1, LockTableAssumptions, L!RequesterFacts
<1> QED
  BY <1>2, <1>3 DEF LT!RequestSleeps, LT!MayRequest, LT!Pushed

LEMMA RequestDeadlockStep ==
    ASSUME L!LockInv, NEW t \in Threads, NEW r \in Records, NEW mode \in Modes,
           LT!RequestDeadlock(t, r, mode)
    PROVE  /\ L!LockInv' /\ waiting[t] = NoRecord
           /\ UNCHANGED <<waiting, held, record_wait_queues>>
<1>1. L!RequestDeadlock(t, r, mode)
  BY DEF LT!RequestDeadlock, LT!MayRequest, LT!NewEdges, LT!Pushed, LT!WaitsFor,
         LT!NearestWriter, LT!AheadGroup, LT!IsReader, LT!AddEdges, LT!RemoveEdges, LT!HasCycle,
         LT!Reaches, LT!ClosedUnder, LT!CyclePredecessors, LT!Signal, LT!Asleep, LT!Erase,
         L!RequestDeadlock, L!MayRequest, L!NewEdges, L!Pushed, L!WaitsFor,
         L!NearestWriter, L!AheadGroup, L!IsReader, L!AddEdges, L!RemoveEdges, L!HasCycle,
         L!Reaches, L!ClosedUnder, L!CyclePredecessors, L!Signal, L!Asleep, L!Erase
<1>2. L!LockInv'
  BY <1>1, LockStep DEF L!Next, L!Request, L!Phases, Modes
<1>3. record_wait_queues' = record_wait_queues
  <2> DEFINE q == record_wait_queues[r]
             e == [tid |-> t, phase |-> mode]
  <2>1. /\ q \in Seq(L!WaitQElem) /\ e \in L!WaitQElem
        /\ record_wait_queues \in [Records -> Seq(L!WaitQElem)]
    BY DEF L!LockInv, L!TypeOK, L!WaitQElem, L!Phases, Modes
  <2>2. L!Erase(Append(q, e), Len(q) + 1) = q
    BY <2>1, LockTableAssumptions, L!EraseAppended
  <2>3. record_wait_queues' = [record_wait_queues EXCEPT ![r] =
                                 L!Erase(L!Pushed(t, r, mode), Len(@) + 1)]
    BY <1>1 DEF L!RequestDeadlock
  <2> QED
    BY <2>1, <2>2, <2>3 DEF L!Pushed
<1> QED
  BY <1>2, <1>3 DEF LT!RequestDeadlock, LT!MayRequest

LEMMA ResumeGrantedStep ==
    ASSUME L!LockInv, NEW t \in Threads, LT!ResumeGranted(t)
    PROVE  /\ L!LockInv'
           /\ waiting[t] \in Records /\ waiting' = [waiting EXCEPT ![t] = NoRecord]
           /\ record_wait_queues' = record_wait_queues
           /\ \E n \in 1..Len(record_wait_queues[waiting[t]]) :
                /\ record_wait_queues[waiting[t]][n].tid = t
                /\ held' = [held EXCEPT ![t][waiting[t]] =
                               record_wait_queues[waiting[t]][n].phase]
<1>1. L!ResumeGranted(t)
  BY DEF LT!ResumeGranted, LT!Position, LT!Blocked, LT!IsReader, LT!Grant,
         L!ResumeGranted, L!Position, L!Blocked, L!IsReader, L!Grant
<1>2. L!LockInv'
  BY <1>1, LockStep DEF L!Next, L!Resume
<1>3. waiting[t] \in Records
  BY DEF LT!ResumeGranted, L!LockInv, L!TypeOK, L!WokenInv, L!Asleep
<1> QED
  BY <1>2, <1>3 DEF LT!ResumeGranted, LT!Grant, LT!Position

LEMMA ResumeSleepsStep ==
    ASSUME L!LockInv, NEW t \in Threads, LT!ResumeSleeps(t) \/ LT!SpuriousWakeup(t)
    PROVE  L!LockInv' /\ UNCHANGED <<waiting, held, record_wait_queues>>
<1>1. L!ResumeSleeps(t) \/ L!SpuriousWakeup(t)
  BY DEF LT!ResumeSleeps, LT!SpuriousWakeup, LT!Position, LT!Blocked, LT!IsReader, LT!Asleep,
         L!ResumeSleeps, L!SpuriousWakeup, L!Position, L!Blocked, L!IsReader, L!Asleep
<1>2. L!LockInv'
  BY <1>1, LockStep DEF L!Next, L!Resume
<1> QED
  BY <1>2 DEF LT!ResumeSleeps, LT!SpuriousWakeup

\* unlock takes one entry out of the queue.
LEMMA UnlockStep ==
    ASSUME L!LockInv, NEW t \in Threads, NEW r \in Records, LT!Unlock(t, r)
    PROVE  /\ L!LockInv' /\ waiting' = waiting
           /\ held' = [held EXCEPT ![t][r] = "NONE"]
           /\ \A s \in Records : \A n \in 1..Len(record_wait_queues'[s]) :
                \E m \in 1..Len(record_wait_queues[s]) :
                   record_wait_queues'[s][n] = record_wait_queues[s][m]
<1>1. L!Unlock(t, r)
  BY DEF LT!Unlock, LT!RdUnlock, LT!WrUnlock, LT!Position, LT!LastReader, LT!IsReader,
         LT!RemoveEdgesTo, LT!Tids, LT!NextWriter, LT!FollowingGroup, LT!Signal, LT!Asleep,
         LT!Erase,
         L!Unlock, L!RdUnlock, L!WrUnlock, L!Position, L!LastReader, L!IsReader,
         L!RemoveEdgesTo, L!Tids, L!NextWriter, L!FollowingGroup, L!Signal, L!Asleep,
         L!Erase
<1>2. L!LockInv'
  BY <1>1, LockStep DEF L!Next
<1> DEFINE q == record_wait_queues[r]
<1>3. PICK n \in 1..Len(q) : record_wait_queues' = [record_wait_queues EXCEPT ![r] = L!Erase(q, n)]
  <2>1. CASE L!RdUnlock(t, r)
    BY <2>1 DEF L!RdUnlock, L!Position
  <2>2. CASE L!WrUnlock(t, r) /\ table[r] = "RW_WRITER_LOCK"
    <3>1. q \in Seq(L!WaitQElem) /\ q # << >>
      BY <2>2 DEF L!LockInv, L!TypeOK, L!StatusInv
    <3>2. 1 \in 1..Len(q)
      BY <3>1
    <3> QED
      BY <2>2, <3>2 DEF L!WrUnlock
  <2> QED
    BY <1>1, <2>1, <2>2 DEF L!Unlock
<1>4. /\ q \in Seq(L!WaitQElem)
      /\ record_wait_queues \in [Records -> Seq(L!WaitQElem)]
  BY DEF L!LockInv, L!TypeOK
<1>5. ASSUME NEW s \in Records, NEW m \in 1..Len(record_wait_queues'[s])
      PROVE  \E l \in 1..Len(record_wait_queues[s]) :
                record_wait_queues'[s][m] = record_wait_queues[s][l]
  <2>1. CASE s = r
    <3>1. record_wait_queues'[r] = L!Erase(q, n)
      BY <1>3, <1>4
    <3>2. /\ Len(L!Erase(q, n)) = Len(q) - 1 /\ Len(q) \in Nat
          /\ \A x \in 1..(Len(q) - 1) : L!Erase(q, n)[x] = q[IF x < n THEN x ELSE x + 1]
      <4>1. Len(q) \in Nat
        BY <1>4
      <4> HIDE DEF q
      <4>2. /\ Len(L!Erase(q, n)) = Len(q) - 1
            /\ \A x \in 1..(Len(q) - 1) : L!Erase(q, n)[x] = q[IF x < n THEN x ELSE x + 1]
        BY <1>4, LockTableAssumptions, L!EraseFacts, Zenon
      <4> QED
        BY <4>1, <4>2
    <3>3. m \in 1..(Len(q) - 1)
      BY <2>1, <3>1, <3>2
    <3>4. (IF m < n THEN m ELSE m + 1) \in 1..Len(q)
      BY <3>2, <3>3
    <3> QED
      BY <2>1, <3>1, <3>2, <3>3, <3>4
  <2>2. CASE s # r
    <3>1. record_wait_queues'[s] = record_wait_queues[s]
      BY <2>2, <1>3, <1>4
    <3> QED
      BY <3>1
  <2> QED
    BY <2>1, <2>2
<1> QED
  BY <1>2, <1>5 DEF LT!Unlock

-----------------------------------------------------------------------------
(* The inductive invariant *)

LogType ==
    [phase : Phases, i : Records \cup {NoRecord}, j : Records \cup {NoRecord},
     k : Records \cup {NoRecord},
     value_of_i : Values, value_of_j : Values, value_of_k : Values, old_value : Values]

\* Every value that the workers read, compute and log is a long long.
TypeOK ==
    /\ records \in [Records -> Values]
    /\ log \in [Threads -> LogType]
    /\ pc \in [Threads -> Labels]
    /\ global_execution_order \in Nat

\* The phases in which a worker can be at a place of the code.
PhasesAt(label) ==
    CASE label \in {"test", "done"} -> {"INVALID"}
      [] label \in {"lock", "access"} -> {"READ", "FIRST_WRITE", "SECOND_WRITE"}
      [] label = "store" -> {"FIRST_WRITE", "SECOND_WRITE"}
      [] label = "rollback_second_write" -> {"SECOND_WRITE", "COMMIT"}
      [] label = "rollback_first_write" -> {"FIRST_WRITE", "SECOND_WRITE", "COMMIT"}
      [] label = "rollback_read" -> {"READ", "FIRST_WRITE", "SECOND_WRITE", "COMMIT"}
      [] OTHER -> {"COMMIT"}

PhaseOK(t) ==
    /\ log[t].phase \in PhasesAt(pc[t])
    /\ log[t].phase = "INVALID" =>
          log[t].i = NoRecord /\ log[t].j = NoRecord /\ log[t].k = NoRecord
    /\ log[t].phase # "INVALID" =>
          /\ log[t].i \in Records /\ log[t].j \in Records /\ log[t].k \in Records
          /\ log[t].j # log[t].i /\ log[t].k # log[t].i /\ log[t].k # log[t].j

\* StrictTwoPhase for one worker, record by record.
LocksOK(t) ==
    /\ \A r \in Records \ {log[t].i, log[t].j, log[t].k} : held[t][r] = "NONE"
    /\ log[t].phase # "INVALID" =>
          /\ held[t][log[t].i] = IF OwnsI(t) THEN "READ" ELSE "NONE"
          /\ held[t][log[t].j] = IF OwnsJ(t) THEN "WRITE" ELSE "NONE"
          /\ held[t][log[t].k] = IF OwnsK(t) THEN "WRITE" ELSE "NONE"
    /\ waiting[t] # NoRecord => pc[t] = "lock" /\ waiting[t] = Target(t)

\* A waiting request is in the queue with the mode that its phase asks for.
EntryPhase ==
    \A r \in Records : \A n \in 1..Len(record_wait_queues[r]) :
       waiting[record_wait_queues[r][n].tid] = r =>
          record_wait_queues[r][n].phase = LockPhase(record_wait_queues[r][n].tid)

WorkerInv ==
    /\ TypeOK
    /\ \A t \in Threads : PhaseOK(t) /\ LocksOK(t)
    /\ EntryPhase
    /\ L!LockInv

LEMMA WorkerInvTwoPhase == WorkerInv => StrictTwoPhase
<1> SUFFICES ASSUME WorkerInv, NEW t \in Threads
             PROVE  /\ \A r \in Records : held[t][r] =
                          CASE r = log[t].i /\ OwnsI(t) -> "READ"
                            [] r = log[t].j /\ OwnsJ(t) -> "WRITE"
                            [] r = log[t].k /\ OwnsK(t) -> "WRITE"
                            [] OTHER -> "NONE"
                    /\ waiting[t] # NoRecord => At(t, "lock") /\ waiting[t] = Target(t)
  BY DEF StrictTwoPhase
<1>1. PhaseOK(t) /\ LocksOK(t)
  BY DEF WorkerInv
<1>2. log[t].phase = "INVALID" => ~ OwnsI(t) /\ ~ OwnsJ(t) /\ ~ OwnsK(t)
  BY <1>1 DEF PhaseOK, PhasesAt, OwnsI, OwnsJ, OwnsK
<1> QED
  BY <1>1, <1>2, NoRecordAssumption DEF PhaseOK, LocksOK, At

-----------------------------------------------------------------------------
(* Arithmetic in long long *)

LEMMA WrapFacts ==
    /\ MaxInt \in Nat /\ 0 \in Values /\ InitialValue \in Values
    /\ \A a, b \in Values :
          /\ Wrap(a + b) \in Values /\ Wrap(a - b) \in Values
          /\ Wrap(a + 1) \in Values /\ Wrap(-a) \in Values
          /\ Wrap(Wrap(a + b) - b) = a /\ Wrap(Wrap(a - b) + b) = a
BY RangeAssumption DEF Values, MinInt, Wrap

-----------------------------------------------------------------------------
(* Every step keeps the invariant *)

LEMMA InitInv == Init => WorkerInv
<1> SUFFICES ASSUME Init PROVE WorkerInv
  OBVIOUS
<1>1. TypeOK
  BY WrapFacts DEF Init, TypeOK, LogType, NoLog, Phases, Labels
<1>2. ASSUME NEW t \in Threads PROVE PhaseOK(t) /\ LocksOK(t)
  BY DEF Init, PhaseOK, PhasesAt, LocksOK, NoLog, LT!Init
<1>3. EntryPhase
  BY DEF Init, EntryPhase, LT!Init
<1>4. L!LockInv
  BY LockInit DEF Init
<1> QED
  BY <1>1, <1>2, <1>3, <1>4 DEF WorkerInv

\* The other workers do not notice a step of t.
LEMMA OneWorkerMoves ==
    ASSUME WorkerInv, NEW t \in Threads,
           TypeOK', L!LockInv', EntryPhase', PhaseOK(t)', LocksOK(t)',
           \A u \in Threads : u # t =>
              /\ pc'[u] = pc[u] /\ log'[u] = log[u]
              /\ held'[u] = held[u] /\ waiting'[u] = waiting[u]
    PROVE  WorkerInv'
<1>1. ASSUME NEW u \in Threads, u # t PROVE PhaseOK(u)' /\ LocksOK(u)'
  <2>1. PhaseOK(u) /\ LocksOK(u)
    BY DEF WorkerInv
  <2>2. /\ pc'[u] = pc[u] /\ log'[u] = log[u]
        /\ held'[u] = held[u] /\ waiting'[u] = waiting[u]
    BY <1>1
  <2>3. PhaseOK(u)'
    BY <2>1, <2>2 DEF PhaseOK
  <2>4. LocksOK(u)'
    <3>1. /\ OwnsI(u)' <=> OwnsI(u)
          /\ OwnsJ(u)' <=> OwnsJ(u)
          /\ OwnsK(u)' <=> OwnsK(u)
      BY <2>2 DEF OwnsI, OwnsJ, OwnsK
    <3>2. Target(u)' = Target(u)
      BY <2>2 DEF Target
    <3> QED
      BY <2>1, <2>2, <3>1, <3>2 DEF LocksOK
  <2> QED
    BY <2>3, <2>4
<1> QED
  BY <1>1 DEF WorkerInv

\* A step that brings no new entry into a queue and no thread to sleep.
LEMMA EntriesKept ==
    ASSUME WorkerInv, L!LockInv',
           \A s \in Records : \A n \in 1..Len(record_wait_queues'[s]) :
              \E m \in 1..Len(record_wait_queues[s]) :
                 record_wait_queues'[s][n] = record_wait_queues[s][m],
           \A u \in Threads : waiting'[u] # NoRecord =>
              waiting'[u] = waiting[u] /\ log'[u].phase = log[u].phase
    PROVE  EntryPhase'
<1> SUFFICES ASSUME NEW r \in Records, NEW n \in 1..Len(record_wait_queues'[r]),
                    waiting'[record_wait_queues'[r][n].tid] = r
             PROVE  record_wait_queues'[r][n].phase = LockPhase(record_wait_queues[r][n].tid)'
  BY DEF EntryPhase
<1> DEFINE e == record_wait_queues'[r][n]
<1>1. PICK m \in 1..Len(record_wait_queues[r]) : e = record_wait_queues[r][m]
  OBVIOUS
<1>2. e.tid \in Threads
  <2>1. record_wait_queues[r] \in Seq(L!WaitQElem)
    BY DEF WorkerInv, L!LockInv, L!TypeOK
  <2>2. e \in L!WaitQElem
    BY <1>1, <2>1
  <2> QED
    BY <2>2 DEF L!WaitQElem
<1>3. waiting[e.tid] = r /\ log'[e.tid].phase = log[e.tid].phase
  BY <1>2, NoRecordAssumption
<1>4. e.phase = LockPhase(e.tid)
  BY <1>1, <1>3 DEF WorkerInv, EntryPhase
<1> QED
  BY <1>3, <1>4 DEF LockPhase

\* A step of t outside the lock table.
LEMMA DataStep ==
    ASSUME WorkerInv, NEW t \in Threads, pc[t] # "lock",
           UNCHANGED lockVars, TypeOK', PhaseOK(t)', LocksOK(t)',
           \A u \in Threads : u # t => pc'[u] = pc[u] /\ log'[u] = log[u]
    PROVE  WorkerInv'
<1>1. UNCHANGED <<held, waiting, record_wait_queues>>
  BY DEF lockVars
<1>2. L!LockInv'
  BY LockStep DEF WorkerInv, lockVars, L!vars
<1>3. waiting[t] = NoRecord
  BY DEF WorkerInv, LocksOK
<1>4. EntryPhase'
  BY <1>1, <1>2, <1>3, EntriesKept
<1> QED
  BY <1>1, <1>2, <1>4, OneWorkerMoves

\* A step in which t gives a record back.
LEMMA ReleaseStep ==
    ASSUME WorkerInv, NEW t \in Threads, pc[t] # "lock", NEW r \in Records,
           LT!Unlock(t, r), TypeOK', PhaseOK(t)', LocksOK(t)',
           \A u \in Threads : u # t => pc'[u] = pc[u] /\ log'[u] = log[u]
    PROVE  WorkerInv'
<1>1. /\ L!LockInv' /\ waiting' = waiting
      /\ held' = [held EXCEPT ![t][r] = "NONE"]
      /\ \A s \in Records : \A n \in 1..Len(record_wait_queues'[s]) :
            \E m \in 1..Len(record_wait_queues[s]) :
               record_wait_queues'[s][n] = record_wait_queues[s][m]
  BY UnlockStep DEF WorkerInv
<1>2. \A u \in Threads : u # t => held'[u] = held[u]
  BY <1>1 DEF WorkerInv, L!LockInv, L!TypeOK
<1>3. waiting[t] = NoRecord
  BY DEF WorkerInv, LocksOK
<1>4. EntryPhase'
  BY <1>1, <1>3, EntriesKept
<1> QED
  BY <1>1, <1>2, <1>4, OneWorkerMoves

LEMMA BeginInv == ASSUME WorkerInv, NEW t \in Threads, Begin(t) PROVE WorkerInv'
<1> PICK i \in Records, j \in Records, k \in Records :
          /\ j # i /\ k # i /\ k # j
          /\ log' = [log EXCEPT ![t] =
                [NoLog EXCEPT !.phase = "READ", !.i = i, !.j = j, !.k = k]]
  BY DEF Begin
<1> DEFINE l == [NoLog EXCEPT !.phase = "READ", !.i = i, !.j = j, !.k = k]
<1>0. /\ pc[t] = "test" /\ pc' = [pc EXCEPT ![t] = "lock"]
      /\ UNCHANGED lockVars /\ UNCHANGED <<records, global_execution_order>>
  BY DEF Begin, At, Goto
<1>1. l \in LogType /\ l.phase = "READ" /\ l.i = i /\ l.j = j /\ l.k = k
  BY WrapFacts DEF NoLog, LogType, Phases
<1> HIDE DEF l
<1>2. log' = [log EXCEPT ![t] = l]
  BY DEF l
<1>3. TypeOK'
  BY <1>0, <1>1, <1>2 DEF WorkerInv, TypeOK, Labels
<1>4. pc'[t] = "lock" /\ log'[t] = l
  BY <1>0, <1>2 DEF WorkerInv, TypeOK
<1>5. PhaseOK(t)'
  BY <1>1, <1>4 DEF PhaseOK, PhasesAt
<1>6. \A r \in Records : held'[t][r] = "NONE"
  BY <1>0, NoRecordAssumption DEF WorkerInv, PhaseOK, PhasesAt, LocksOK, lockVars
<1>7. waiting'[t] = NoRecord
  BY <1>0 DEF WorkerInv, LocksOK, lockVars
<1>8. LocksOK(t)'
  BY <1>1, <1>4, <1>6, <1>7 DEF LocksOK, OwnsI, OwnsJ, OwnsK
<1>9. \A u \in Threads : u # t => pc'[u] = pc[u] /\ log'[u] = log[u]
  BY <1>0, <1>2 DEF WorkerInv, TypeOK
<1> QED
  BY <1>0, <1>3, <1>5, <1>8, <1>9, DataStep

LEMMA LeaveInv == ASSUME WorkerInv, NEW t \in Threads, Leave(t) PROVE WorkerInv'
<1>0. /\ pc[t] = "test" /\ pc' = [pc EXCEPT ![t] = "done"]
      /\ UNCHANGED lockVars /\ UNCHANGED <<records, log, global_execution_order>>
  BY DEF Leave, At, Goto, dataVars
<1>1. TypeOK'
  BY <1>0 DEF WorkerInv, TypeOK, Labels
<1>2. pc'[t] = "done" /\ \A u \in Threads : u # t => pc'[u] = pc[u]
  BY <1>0 DEF WorkerInv, TypeOK
<1>3. PhaseOK(t) /\ LocksOK(t)
  BY DEF WorkerInv
<1>4. PhaseOK(t)'
  BY <1>0, <1>2, <1>3 DEF PhaseOK, PhasesAt
<1>5. LocksOK(t)'
  BY <1>0, <1>2, <1>3 DEF LocksOK, PhaseOK, PhasesAt, lockVars
<1> QED
  BY <1>0, <1>1, <1>2, <1>4, <1>5, DataStep

\* The record that a worker at a lock or an access works on.
LEMMA TargetFacts ==
    ASSUME WorkerInv, NEW t \in Threads, log[t].phase \in {"READ", "FIRST_WRITE", "SECOND_WRITE"}
    PROVE  /\ Target(t) \in Records /\ LockPhase(t) \in Modes
           /\ log[t].phase = "READ" => Target(t) = log[t].i /\ LockPhase(t) = "READ"
           /\ log[t].phase = "FIRST_WRITE" => Target(t) = log[t].j /\ LockPhase(t) = "WRITE"
           /\ log[t].phase = "SECOND_WRITE" => Target(t) = log[t].k /\ LockPhase(t) = "WRITE"
BY DEF WorkerInv, PhaseOK, Target, LockPhase, Modes

\* The lock of the phase is granted: the worker goes on to the access.
LEMMA GrantedLocks ==
    ASSUME WorkerInv, NEW t \in Threads, pc[t] = "lock",
           pc' = [pc EXCEPT ![t] = "access"], log' = log, waiting'[t] = NoRecord,
           held' = [held EXCEPT ![t][Target(t)] = LockPhase(t)]
    PROVE  PhaseOK(t)' /\ LocksOK(t)'
<1>1. PhaseOK(t) /\ LocksOK(t) /\ pc'[t] = "access"
  BY DEF WorkerInv, TypeOK
<1>2. log[t].phase \in {"READ", "FIRST_WRITE", "SECOND_WRITE"}
  BY <1>1 DEF PhaseOK, PhasesAt
<1>3. PhaseOK(t)'
  BY <1>1, <1>2 DEF PhaseOK, PhasesAt
<1>4. \A r \in Records : held'[t][r] = IF r = Target(t) THEN LockPhase(t) ELSE held[t][r]
  BY DEF WorkerInv, L!LockInv, L!TypeOK
<1>5. LocksOK(t)'
  BY <1>1, <1>2, <1>4, TargetFacts DEF LocksOK, PhaseOK, OwnsI, OwnsJ, OwnsK
<1> QED
  BY <1>3, <1>5

LEMMA LockGrantedInv == ASSUME WorkerInv, NEW t \in Threads, LockGranted(t) PROVE WorkerInv'
<1> DEFINE r == Target(t)
           e == [tid |-> t, phase |-> LockPhase(t)]
<1>0. /\ pc[t] = "lock" /\ pc' = [pc EXCEPT ![t] = "access"]
      /\ LT!RequestGranted(t, r, LockPhase(t))
      /\ UNCHANGED <<records, log, global_execution_order>>
  BY DEF LockGranted, At, Goto, dataVars
<1>1. r \in Records /\ LockPhase(t) \in Modes
  BY <1>0, TargetFacts DEF WorkerInv, PhaseOK, PhasesAt
<1>2. /\ L!LockInv' /\ waiting[t] = NoRecord /\ waiting' = waiting
      /\ held' = [held EXCEPT ![t][r] = LockPhase(t)]
      /\ record_wait_queues' = [record_wait_queues EXCEPT ![r] = Append(@, e)]
  BY <1>0, <1>1, RequestGrantedStep DEF WorkerInv
<1>3. TypeOK'
  BY <1>0 DEF WorkerInv, TypeOK, Labels
<1>4. PhaseOK(t)' /\ LocksOK(t)'
  BY <1>0, <1>2, GrantedLocks
<1>5. \A u \in Threads : u # t => pc'[u] = pc[u] /\ held'[u] = held[u]
  BY <1>0, <1>2 DEF WorkerInv, TypeOK, L!LockInv, L!TypeOK
<1>6. EntryPhase'
  <2> SUFFICES ASSUME NEW s \in Records, NEW n \in 1..Len(record_wait_queues'[s]),
                      waiting[record_wait_queues'[s][n].tid] = s
               PROVE  record_wait_queues'[s][n].phase = LockPhase(record_wait_queues'[s][n].tid)
    BY <1>0, <1>2 DEF EntryPhase, LockPhase
  <2>1. record_wait_queues \in [Records -> Seq(L!WaitQElem)] /\ e \in L!WaitQElem
    BY <1>1 DEF WorkerInv, L!LockInv, L!TypeOK, L!WaitQElem, L!Phases, Modes
  <2>2. CASE record_wait_queues'[s][n] = e
    BY <2>2, <1>2, NoRecordAssumption
  <2>3. CASE record_wait_queues'[s][n] # e
    <3>1. n \in 1..Len(record_wait_queues[s]) /\ record_wait_queues'[s][n] = record_wait_queues[s][n]
      BY <2>1, <2>3, <1>2
    <3> QED
      BY <3>1 DEF WorkerInv, EntryPhase
  <2> QED
    BY <2>2, <2>3
<1> QED
  BY <1>0, <1>2, <1>3, <1>4, <1>5, <1>6, OneWorkerMoves

LEMMA LockSleepsInv == ASSUME WorkerInv, NEW t \in Threads, LockSleeps(t) PROVE WorkerInv'
<1> DEFINE r == Target(t)
           e == [tid |-> t, phase |-> LockPhase(t)]
<1>0. /\ pc[t] = "lock" /\ LT!RequestSleeps(t, r, LockPhase(t))
      /\ UNCHANGED <<records, log, pc, global_execution_order>>
  BY DEF LockSleeps, At, dataVars
<1>1. r \in Records /\ LockPhase(t) \in Modes
  BY <1>0, TargetFacts DEF WorkerInv, PhaseOK, PhasesAt
<1>2. /\ L!LockInv' /\ waiting[t] = NoRecord /\ waiting' = [waiting EXCEPT ![t] = r]
      /\ held' = held
      /\ \A n \in 1..Len(record_wait_queues[r]) : record_wait_queues[r][n].tid # t
      /\ record_wait_queues' = [record_wait_queues EXCEPT ![r] = Append(@, e)]
  BY <1>0, <1>1, RequestSleepsStep DEF WorkerInv
<1>3. TypeOK'
  BY <1>0 DEF WorkerInv, TypeOK
<1>a. /\ waiting'[t] = r
      /\ \A u \in Threads : u # t => waiting'[u] = waiting[u]
  BY <1>2 DEF WorkerInv, L!LockInv, L!TypeOK
<1>4. PhaseOK(t)' /\ LocksOK(t)'
  <2>1. PhaseOK(t) /\ LocksOK(t)
    BY DEF WorkerInv
  <2>2. PhaseOK(t)'
    BY <1>0, <2>1 DEF PhaseOK
  <2>3. /\ OwnsI(t)' <=> OwnsI(t)
        /\ OwnsJ(t)' <=> OwnsJ(t)
        /\ OwnsK(t)' <=> OwnsK(t)
        /\ Target(t)' = Target(t)
    BY <1>0 DEF OwnsI, OwnsJ, OwnsK, Target
  <2>4. LocksOK(t)'
    BY <1>0, <1>2, <1>a, <2>1, <2>3 DEF LocksOK
  <2> QED
    BY <2>2, <2>4
<1>5. EntryPhase'
  <2> SUFFICES ASSUME NEW s \in Records, NEW n \in 1..Len(record_wait_queues'[s]),
                      waiting'[record_wait_queues'[s][n].tid] = s
               PROVE  record_wait_queues'[s][n].phase = LockPhase(record_wait_queues'[s][n].tid)
    BY <1>0 DEF EntryPhase, LockPhase
  <2>1. record_wait_queues \in [Records -> Seq(L!WaitQElem)] /\ e \in L!WaitQElem
    BY <1>1 DEF WorkerInv, L!LockInv, L!TypeOK, L!WaitQElem, L!Phases, Modes
  <2>2. CASE record_wait_queues'[s][n] = e
    BY <2>2
  <2>3. CASE record_wait_queues'[s][n] # e
    <3>1. n \in 1..Len(record_wait_queues[s]) /\ record_wait_queues'[s][n] = record_wait_queues[s][n]
      BY <2>1, <2>3, <1>2
    <3>2. record_wait_queues[s][n] \in L!WaitQElem
      BY <2>1, <3>1
    <3>3. record_wait_queues[s][n].tid \in Threads
      BY <3>2 DEF L!WaitQElem
    <3>4. CASE record_wait_queues[s][n].tid = t
      BY <3>1, <3>4, <1>2, <1>a
    <3>5. CASE record_wait_queues[s][n].tid # t
      BY <3>1, <3>3, <3>5, <1>a DEF WorkerInv, EntryPhase
    <3> QED
      BY <3>4, <3>5
  <2> QED
    BY <2>2, <2>3
<1> QED
  BY <1>0, <1>2, <1>3, <1>a, <1>4, <1>5, OneWorkerMoves

LEMMA LockRefusedInv == ASSUME WorkerInv, NEW t \in Threads, LockRefused(t) PROVE WorkerInv'
<1>0. /\ pc[t] = "lock" /\ pc' = [pc EXCEPT ![t] = RollbackEntry(log[t].phase)]
      /\ LT!RequestDeadlock(t, Target(t), LockPhase(t))
      /\ UNCHANGED <<records, log, global_execution_order>>
  BY DEF LockRefused, At, Goto, dataVars
<1>1. PhaseOK(t) /\ LocksOK(t)
  BY DEF WorkerInv
<1>2. log[t].phase \in {"READ", "FIRST_WRITE", "SECOND_WRITE"}
  BY <1>0, <1>1 DEF PhaseOK, PhasesAt
<1>3. L!LockInv' /\ waiting[t] = NoRecord /\ UNCHANGED <<waiting, held, record_wait_queues>>
  BY <1>0, <1>2, TargetFacts, RequestDeadlockStep DEF WorkerInv
<1>4. pc'[t] = RollbackEntry(log[t].phase) /\ \A u \in Threads : u # t => pc'[u] = pc[u]
  BY <1>0 DEF WorkerInv, TypeOK
<1>5. TypeOK'
  BY <1>0, <1>2 DEF WorkerInv, TypeOK, Labels, RollbackEntry
<1>6. PhaseOK(t)'
  BY <1>0, <1>1, <1>2, <1>4 DEF PhaseOK, PhasesAt, RollbackEntry
<1>7. LocksOK(t)'
  BY <1>0, <1>1, <1>2, <1>3, <1>4 DEF LocksOK, OwnsI, OwnsJ, OwnsK, RollbackEntry
<1>8. EntryPhase'
  BY <1>0, <1>3, EntriesKept
<1> QED
  BY <1>0, <1>3, <1>4, <1>5, <1>6, <1>7, <1>8, OneWorkerMoves

LEMMA WakeGrantedInv == ASSUME WorkerInv, NEW t \in Threads, WakeGranted(t) PROVE WorkerInv'
<1>0. /\ pc' = [pc EXCEPT ![t] = "access"] /\ LT!ResumeGranted(t)
      /\ UNCHANGED <<records, log, global_execution_order>>
  BY DEF WakeGranted, Goto, dataVars
<1> DEFINE r == waiting[t]
<1>1. /\ L!LockInv' /\ r \in Records /\ waiting' = [waiting EXCEPT ![t] = NoRecord]
      /\ record_wait_queues' = record_wait_queues
      /\ \E n \in 1..Len(record_wait_queues[r]) :
            /\ record_wait_queues[r][n].tid = t
            /\ held' = [held EXCEPT ![t][r] = record_wait_queues[r][n].phase]
  BY <1>0, ResumeGrantedStep DEF WorkerInv
<1>2. pc[t] = "lock" /\ r = Target(t)
  BY <1>1, NoRecordAssumption DEF WorkerInv, LocksOK
<1>3. held' = [held EXCEPT ![t][Target(t)] = LockPhase(t)]
  <2>1. PICK n \in 1..Len(record_wait_queues[r]) :
            /\ record_wait_queues[r][n].tid = t
            /\ held' = [held EXCEPT ![t][r] = record_wait_queues[r][n].phase]
    BY <1>1
  <2>2. record_wait_queues[r][n].phase = LockPhase(t)
    BY <1>1, <2>1 DEF WorkerInv, EntryPhase
  <2> QED
    BY <1>2, <2>1, <2>2
<1>4. /\ waiting'[t] = NoRecord
      /\ \A u \in Threads : u # t => waiting'[u] = waiting[u] /\ held'[u] = held[u] /\ pc'[u] = pc[u]
  BY <1>0, <1>1, <1>3 DEF WorkerInv, TypeOK, L!LockInv, L!TypeOK
<1>5. TypeOK'
  BY <1>0 DEF WorkerInv, TypeOK, Labels
<1>6. PhaseOK(t)' /\ LocksOK(t)'
  BY <1>0, <1>2, <1>3, <1>4, GrantedLocks
<1>7. EntryPhase'
  BY <1>0, <1>1, <1>4, EntriesKept
<1> QED
  BY <1>0, <1>1, <1>4, <1>5, <1>6, <1>7, OneWorkerMoves

LEMMA WakeSleepsInv ==
    ASSUME WorkerInv, NEW t \in Threads, WakeSleeps(t) \/ SpuriousWakeup(t) PROVE WorkerInv'
<1>0. /\ LT!ResumeSleeps(t) \/ LT!SpuriousWakeup(t)
      /\ UNCHANGED <<records, log, pc, global_execution_order>>
  BY DEF WakeSleeps, SpuriousWakeup, dataVars
<1>1. L!LockInv' /\ UNCHANGED <<waiting, held, record_wait_queues>>
  BY <1>0, ResumeSleepsStep DEF WorkerInv
<1>2. TypeOK'
  BY <1>0 DEF WorkerInv, TypeOK
<1>3. EntryPhase'
  BY <1>0, <1>1, EntriesKept
<1>4. PhaseOK(t)'
  BY <1>0 DEF WorkerInv, PhaseOK
<1>5. LocksOK(t)'
  <2>1. /\ OwnsI(t)' <=> OwnsI(t)
        /\ OwnsJ(t)' <=> OwnsJ(t)
        /\ OwnsK(t)' <=> OwnsK(t)
        /\ Target(t)' = Target(t)
    BY <1>0 DEF OwnsI, OwnsJ, OwnsK, Target
  <2> QED
    BY <1>0, <1>1, <2>1 DEF WorkerInv, LocksOK
<1> QED
  BY <1>0, <1>1, <1>2, <1>3, <1>4, <1>5, OneWorkerMoves

LEMMA ReadInv == ASSUME WorkerInv, NEW t \in Threads, Read(t) PROVE WorkerInv'
<1> DEFINE v == records[log[t].i]
<1>0. /\ pc[t] = "access" /\ log[t].phase = "READ" /\ pc' = [pc EXCEPT ![t] = "lock"]
      /\ log' = [log EXCEPT ![t].value_of_i = v, ![t].phase = "FIRST_WRITE"]
      /\ UNCHANGED lockVars /\ UNCHANGED <<records, global_execution_order>>
  BY DEF Read, At, Goto
<1>1. PhaseOK(t) /\ LocksOK(t)
  BY DEF WorkerInv
<1>2. v \in Values
  BY <1>0, <1>1 DEF WorkerInv, TypeOK, PhaseOK
<1>3. TypeOK'
  BY <1>0, <1>2 DEF WorkerInv, TypeOK, LogType, Labels, Phases
<1>4. /\ pc'[t] = "lock" /\ log'[t].phase = "FIRST_WRITE"
      /\ log'[t].i = log[t].i /\ log'[t].j = log[t].j /\ log'[t].k = log[t].k
      /\ \A u \in Threads : u # t => pc'[u] = pc[u] /\ log'[u] = log[u]
  BY <1>0 DEF WorkerInv, TypeOK, LogType
<1>5. PhaseOK(t)'
  BY <1>0, <1>1, <1>4 DEF PhaseOK, PhasesAt
<1>6. LocksOK(t)'
  BY <1>0, <1>1, <1>4 DEF LocksOK, OwnsI, OwnsJ, OwnsK, lockVars
<1> QED
  BY <1>0, <1>3, <1>4, <1>5, <1>6, DataStep

LEMMA LoadInv == ASSUME WorkerInv, NEW t \in Threads, Load(t) PROVE WorkerInv'
<1> DEFINE v == records[Target(t)]
<1>0. /\ pc[t] = "access" /\ log[t].phase \in {"FIRST_WRITE", "SECOND_WRITE"}
      /\ pc' = [pc EXCEPT ![t] = "store"]
      /\ log' = [log EXCEPT ![t].old_value = v]
      /\ UNCHANGED lockVars /\ UNCHANGED <<records, global_execution_order>>
  BY DEF Load, At, Goto
<1>1. PhaseOK(t) /\ LocksOK(t)
  BY DEF WorkerInv
<1>2. v \in Values
  BY <1>0, TargetFacts DEF WorkerInv, TypeOK
<1>3. TypeOK'
  BY <1>0, <1>2 DEF WorkerInv, TypeOK, LogType, Labels, Phases
<1>4. /\ pc'[t] = "store" /\ log'[t].phase = log[t].phase
      /\ log'[t].i = log[t].i /\ log'[t].j = log[t].j /\ log'[t].k = log[t].k
      /\ \A u \in Threads : u # t => pc'[u] = pc[u] /\ log'[u] = log[u]
  BY <1>0 DEF WorkerInv, TypeOK, LogType
<1>5. PhaseOK(t)'
  BY <1>0, <1>1, <1>4 DEF PhaseOK, PhasesAt
<1>6. LocksOK(t)'
  BY <1>0, <1>1, <1>4 DEF LocksOK, OwnsI, OwnsJ, OwnsK, lockVars
<1> QED
  BY <1>0, <1>3, <1>4, <1>5, <1>6, DataStep

LEMMA StoreFirstInv == ASSUME WorkerInv, NEW t \in Threads, StoreFirst(t) PROVE WorkerInv'
<1> DEFINE v == Wrap(log[t].old_value + Wrap(log[t].value_of_i + 1))
<1>0. /\ pc[t] = "store" /\ log[t].phase = "FIRST_WRITE" /\ pc' = [pc EXCEPT ![t] = "lock"]
      /\ records' = [records EXCEPT ![log[t].j] = v]
      /\ log' = [log EXCEPT ![t].value_of_j = v, ![t].phase = "SECOND_WRITE"]
      /\ UNCHANGED lockVars /\ UNCHANGED global_execution_order
  BY DEF StoreFirst, At, Goto
<1>1. PhaseOK(t) /\ LocksOK(t)
  BY DEF WorkerInv
<1>2. v \in Values
  BY WrapFacts DEF WorkerInv, TypeOK, LogType
<1> HIDE DEF v
<1>3. TypeOK'
  BY <1>0, <1>2 DEF WorkerInv, TypeOK, LogType, Labels, Phases
<1>4. /\ pc'[t] = "lock" /\ log'[t].phase = "SECOND_WRITE"
      /\ log'[t].i = log[t].i /\ log'[t].j = log[t].j /\ log'[t].k = log[t].k
      /\ \A u \in Threads : u # t => pc'[u] = pc[u] /\ log'[u] = log[u]
  BY <1>0 DEF WorkerInv, TypeOK, LogType
<1>5. PhaseOK(t)'
  BY <1>0, <1>1, <1>4 DEF PhaseOK, PhasesAt
<1>6. LocksOK(t)'
  BY <1>0, <1>1, <1>4 DEF LocksOK, OwnsI, OwnsJ, OwnsK, lockVars
<1> QED
  BY <1>0, <1>3, <1>4, <1>5, <1>6, DataStep

LEMMA StoreSecondInv == ASSUME WorkerInv, NEW t \in Threads, StoreSecond(t) PROVE WorkerInv'
<1> DEFINE v == Wrap(log[t].old_value - log[t].value_of_i)
<1>0. /\ pc[t] = "store" /\ log[t].phase = "SECOND_WRITE" /\ pc' = [pc EXCEPT ![t] = "commit"]
      /\ records' = [records EXCEPT ![log[t].k] = v]
      /\ log' = [log EXCEPT ![t].value_of_k = v, ![t].phase = "COMMIT"]
      /\ UNCHANGED lockVars /\ UNCHANGED global_execution_order
  BY DEF StoreSecond, At, Goto
<1>1. PhaseOK(t) /\ LocksOK(t)
  BY DEF WorkerInv
<1>2. v \in Values
  BY WrapFacts DEF WorkerInv, TypeOK, LogType
<1> HIDE DEF v
<1>3. TypeOK'
  BY <1>0, <1>2 DEF WorkerInv, TypeOK, LogType, Labels, Phases
<1>4. /\ pc'[t] = "commit" /\ log'[t].phase = "COMMIT"
      /\ log'[t].i = log[t].i /\ log'[t].j = log[t].j /\ log'[t].k = log[t].k
      /\ \A u \in Threads : u # t => pc'[u] = pc[u] /\ log'[u] = log[u]
  BY <1>0 DEF WorkerInv, TypeOK, LogType
<1>5. PhaseOK(t)'
  BY <1>0, <1>1, <1>4 DEF PhaseOK, PhasesAt
<1>6. LocksOK(t)'
  BY <1>0, <1>1, <1>4 DEF LocksOK, OwnsI, OwnsJ, OwnsK, lockVars
<1> QED
  BY <1>0, <1>3, <1>4, <1>5, <1>6, DataStep

LEMMA CommitInv == ASSUME WorkerInv, NEW t \in Threads, Commit(t) PROVE WorkerInv'
<1>0. /\ pc[t] = "commit"
      /\ pc' = [pc EXCEPT ![t] = IF global_execution_order + 1 <= E
                                 THEN "unlock_i" ELSE "rollback_commit"]
      /\ global_execution_order' = global_execution_order + 1
      /\ UNCHANGED lockVars /\ UNCHANGED <<records, log>>
  BY DEF Commit, At, Goto
<1>1. PhaseOK(t) /\ LocksOK(t)
  BY DEF WorkerInv
<1>2. TypeOK'
  BY <1>0 DEF WorkerInv, TypeOK, Labels
<1>3. pc'[t] \in {"unlock_i", "rollback_commit"} /\ \A u \in Threads : u # t => pc'[u] = pc[u]
  BY <1>0 DEF WorkerInv, TypeOK
<1>4. PhaseOK(t)'
  BY <1>0, <1>1, <1>3 DEF PhaseOK, PhasesAt
<1>5. LocksOK(t)'
  BY <1>0, <1>1, <1>3 DEF LocksOK, PhaseOK, PhasesAt, OwnsI, OwnsJ, OwnsK, lockVars
<1> QED
  BY <1>0, <1>2, <1>3, <1>4, <1>5, DataStep

\* The locks of t after it has given r back.
LEMMA HeldAfterUnlock ==
    ASSUME WorkerInv, NEW t \in Threads, NEW r \in Records, LT!Unlock(t, r)
    PROVE  /\ waiting' = waiting
           /\ \A s \in Records : held'[t][s] = IF s = r THEN "NONE" ELSE held[t][s]
<1>1. waiting' = waiting /\ held' = [held EXCEPT ![t][r] = "NONE"]
  BY UnlockStep DEF WorkerInv
<1> QED
  BY <1>1 DEF WorkerInv, L!LockInv, L!TypeOK

LEMMA ReleaseIJInv ==
    ASSUME WorkerInv, NEW t \in Threads, ReleaseI(t) \/ ReleaseJ(t) PROVE WorkerInv'
<1> DEFINE r == IF pc[t] = "unlock_i" THEN log[t].i ELSE log[t].j
           label == IF pc[t] = "unlock_i" THEN "unlock_j" ELSE "unlock_k"
<1>0. /\ pc[t] \in {"unlock_i", "unlock_j"} /\ pc' = [pc EXCEPT ![t] = label]
      /\ LT!Unlock(t, r) /\ UNCHANGED <<records, log, global_execution_order>>
  BY DEF ReleaseI, ReleaseJ, At, Goto, dataVars
<1>1. PhaseOK(t) /\ LocksOK(t)
  BY DEF WorkerInv
<1>2. log[t].phase = "COMMIT" /\ r \in Records
  BY <1>0, <1>1 DEF PhaseOK, PhasesAt
<1>3. TypeOK'
  BY <1>0 DEF WorkerInv, TypeOK, Labels
<1>4. pc'[t] = label /\ \A u \in Threads : u # t => pc'[u] = pc[u]
  BY <1>0 DEF WorkerInv, TypeOK
<1>5. PhaseOK(t)'
  BY <1>0, <1>1, <1>2, <1>4 DEF PhaseOK, PhasesAt
<1>6. LocksOK(t)'
  BY <1>0, <1>1, <1>2, <1>4, HeldAfterUnlock DEF LocksOK, PhaseOK, OwnsI, OwnsJ, OwnsK
<1> QED
  BY <1>0, <1>2, <1>3, <1>4, <1>5, <1>6, ReleaseStep

\* A worker without a transaction, and without a lock.
LEMMA EndedLocks ==
    ASSUME WorkerInv, NEW t \in Threads, NEW label \in {"test", "done"},
           EndOfTransaction(t, label), waiting' = waiting, waiting[t] = NoRecord,
           \A r \in Records : held'[t][r] = "NONE"
    PROVE  /\ TypeOK' /\ PhaseOK(t)' /\ LocksOK(t)'
           /\ \A u \in Threads : u # t => pc'[u] = pc[u] /\ log'[u] = log[u]
<1>0. /\ pc' = [pc EXCEPT ![t] = label] /\ log' = [log EXCEPT ![t] = NoLog]
      /\ UNCHANGED <<records, global_execution_order>>
  BY DEF EndOfTransaction, Goto
<1>1. NoLog \in LogType
  BY WrapFacts DEF NoLog, LogType, Phases
<1>2. TypeOK'
  BY <1>0, <1>1 DEF WorkerInv, TypeOK, Labels
<1>3. /\ pc'[t] = label /\ log'[t] = NoLog
      /\ \A u \in Threads : u # t => pc'[u] = pc[u] /\ log'[u] = log[u]
  BY <1>0 DEF WorkerInv, TypeOK
<1>4. PhaseOK(t)'
  BY <1>3 DEF PhaseOK, PhasesAt, NoLog
<1>5. LocksOK(t)'
  BY <1>3 DEF LocksOK, NoLog
<1> QED
  BY <1>2, <1>3, <1>4, <1>5

LEMMA ReleaseKInv == ASSUME WorkerInv, NEW t \in Threads, ReleaseK(t) PROVE WorkerInv'
<1>0. pc[t] = "unlock_k" /\ LT!Unlock(t, log[t].k) /\ EndOfTransaction(t, "test")
  BY DEF ReleaseK, At
<1>1. PhaseOK(t) /\ LocksOK(t)
  BY DEF WorkerInv
<1>2. log[t].phase = "COMMIT" /\ log[t].k \in Records
  BY <1>0, <1>1 DEF PhaseOK, PhasesAt
<1>3. /\ waiting' = waiting /\ waiting[t] = NoRecord
      /\ \A r \in Records : held'[t][r] = "NONE"
  BY <1>0, <1>1, <1>2, HeldAfterUnlock DEF LocksOK, PhaseOK, OwnsI, OwnsJ
<1> QED
  BY <1>0, <1>2, <1>3, EndedLocks, ReleaseStep

LEMMA RollbackCommitInv == ASSUME WorkerInv, NEW t \in Threads, RollbackCommit(t) PROVE WorkerInv'
<1> DEFINE v == Wrap(records[log[t].k] + log[t].value_of_i)
<1>0. /\ pc[t] = "rollback_commit" /\ pc' = [pc EXCEPT ![t] = "rollback_second_write"]
      /\ records' = [records EXCEPT ![log[t].k] = v]
      /\ UNCHANGED lockVars /\ UNCHANGED <<log, global_execution_order>>
  BY DEF RollbackCommit, At, Goto
<1>1. PhaseOK(t) /\ LocksOK(t)
  BY DEF WorkerInv
<1>2. v \in Values
  BY <1>0, <1>1, WrapFacts DEF WorkerInv, TypeOK, LogType, PhaseOK, PhasesAt
<1> HIDE DEF v
<1>3. TypeOK'
  BY <1>0, <1>2 DEF WorkerInv, TypeOK, Labels
<1>4. pc'[t] = "rollback_second_write" /\ \A u \in Threads : u # t => pc'[u] = pc[u]
  BY <1>0 DEF WorkerInv, TypeOK
<1>5. PhaseOK(t)'
  BY <1>0, <1>1, <1>4 DEF PhaseOK, PhasesAt
<1>6. LocksOK(t)'
  BY <1>0, <1>1, <1>4 DEF LocksOK, PhaseOK, PhasesAt, OwnsI, OwnsJ, OwnsK, lockVars
<1> QED
  BY <1>0, <1>3, <1>4, <1>5, <1>6, DataStep

\* The locks of t after a step of rollback: the record is given back unless
\* its lock is the one that was refused.
LEMMA HeldAfterRollback ==
    ASSUME WorkerInv, NEW t \in Threads, NEW r \in Records, NEW phase,
           UnlockUnless(t, phase, r)
    PROVE  /\ waiting' = waiting
           /\ \A s \in Records : held'[t][s] =
                IF s = r /\ log[t].phase # phase THEN "NONE" ELSE held[t][s]
BY HeldAfterUnlock DEF UnlockUnless, lockVars

\* ReleaseStep for a step of rollback.
LEMMA RollbackStep ==
    ASSUME WorkerInv, NEW t \in Threads, pc[t] # "lock", NEW r \in Records, NEW phase,
           UnlockUnless(t, phase, r), TypeOK', PhaseOK(t)', LocksOK(t)',
           \A u \in Threads : u # t => pc'[u] = pc[u] /\ log'[u] = log[u]
    PROVE  WorkerInv'
BY DataStep, ReleaseStep DEF UnlockUnless

LEMMA RollbackSecondWriteInv ==
    ASSUME WorkerInv, NEW t \in Threads, RollbackSecondWrite(t) PROVE WorkerInv'
<1> DEFINE v == Wrap(records[log[t].j] - Wrap(log[t].value_of_i + 1))
<1>0. /\ pc[t] = "rollback_second_write" /\ pc' = [pc EXCEPT ![t] = "rollback_first_write"]
      /\ UnlockUnless(t, "SECOND_WRITE", log[t].k)
      /\ records' = [records EXCEPT ![log[t].j] = v]
      /\ UNCHANGED <<log, global_execution_order>>
  BY DEF RollbackSecondWrite, At, Goto
<1>1. PhaseOK(t) /\ LocksOK(t)
  BY DEF WorkerInv
<1>2. /\ log[t].phase \in {"SECOND_WRITE", "COMMIT"}
      /\ log[t].i \in Records /\ log[t].j \in Records /\ log[t].k \in Records
  BY <1>0, <1>1 DEF PhaseOK, PhasesAt
<1>3. v \in Values
  BY <1>2, WrapFacts DEF WorkerInv, TypeOK, LogType
<1> HIDE DEF v
<1>4. TypeOK'
  BY <1>0, <1>3 DEF WorkerInv, TypeOK, Labels
<1>5. pc'[t] = "rollback_first_write" /\ \A u \in Threads : u # t => pc'[u] = pc[u]
  BY <1>0 DEF WorkerInv, TypeOK
<1>6. PhaseOK(t)'
  BY <1>0, <1>1, <1>2, <1>5 DEF PhaseOK, PhasesAt
<1>7. LocksOK(t)'
  BY <1>0, <1>1, <1>2, <1>5, HeldAfterRollback DEF LocksOK, PhaseOK, OwnsI, OwnsJ, OwnsK
<1> QED
  BY <1>0, <1>2, <1>4, <1>5, <1>6, <1>7, RollbackStep

LEMMA RollbackFirstWriteInv ==
    ASSUME WorkerInv, NEW t \in Threads, RollbackFirstWrite(t) PROVE WorkerInv'
<1>0. /\ pc[t] = "rollback_first_write" /\ pc' = [pc EXCEPT ![t] = "rollback_read"]
      /\ UnlockUnless(t, "FIRST_WRITE", log[t].j)
      /\ UNCHANGED <<records, log, global_execution_order>>
  BY DEF RollbackFirstWrite, At, Goto, dataVars
<1>1. PhaseOK(t) /\ LocksOK(t)
  BY DEF WorkerInv
<1>2. /\ log[t].phase \in {"FIRST_WRITE", "SECOND_WRITE", "COMMIT"}
      /\ log[t].i \in Records /\ log[t].j \in Records /\ log[t].k \in Records
  BY <1>0, <1>1 DEF PhaseOK, PhasesAt
<1>3. TypeOK'
  BY <1>0 DEF WorkerInv, TypeOK, Labels
<1>4. pc'[t] = "rollback_read" /\ \A u \in Threads : u # t => pc'[u] = pc[u]
  BY <1>0 DEF WorkerInv, TypeOK
<1>5. PhaseOK(t)'
  BY <1>0, <1>1, <1>2, <1>4 DEF PhaseOK, PhasesAt
<1>6. LocksOK(t)'
  BY <1>0, <1>1, <1>2, <1>4, HeldAfterRollback DEF LocksOK, PhaseOK, OwnsI, OwnsJ, OwnsK
<1> QED
  BY <1>0, <1>2, <1>3, <1>4, <1>5, <1>6, RollbackStep

LEMMA RollbackReadInv == ASSUME WorkerInv, NEW t \in Threads, RollbackRead(t) PROVE WorkerInv'
<1> DEFINE label == IF log[t].phase = "COMMIT" THEN "done" ELSE "test"
<1>0. /\ pc[t] = "rollback_read" /\ UnlockUnless(t, "READ", log[t].i)
      /\ EndOfTransaction(t, label)
  BY DEF RollbackRead, At
<1>1. PhaseOK(t) /\ LocksOK(t)
  BY DEF WorkerInv
<1>2. /\ log[t].phase \in {"READ", "FIRST_WRITE", "SECOND_WRITE", "COMMIT"}
      /\ log[t].i \in Records
  BY <1>0, <1>1 DEF PhaseOK, PhasesAt
<1>3. /\ waiting' = waiting /\ waiting[t] = NoRecord
      /\ \A r \in Records : held'[t][r] = "NONE"
  BY <1>0, <1>1, <1>2, HeldAfterRollback DEF LocksOK, PhaseOK, OwnsI, OwnsJ, OwnsK
<1>4. label \in {"test", "done"}
  OBVIOUS
<1> QED
  BY <1>0, <1>2, <1>3, <1>4, EndedLocks, RollbackStep

LEMMA NextInv == WorkerInv /\ [Next]_vars => WorkerInv'
<1> SUFFICES ASSUME WorkerInv, [Next]_vars PROVE WorkerInv'
  OBVIOUS
<1>1. CASE UNCHANGED vars
  <2>1. UNCHANGED lockVars /\ UNCHANGED <<records, log, pc, global_execution_order>>
    BY <1>1 DEF vars, dataVars
  <2>2. L!LockInv'
    BY <2>1, LockStep DEF WorkerInv, lockVars, L!vars
  <2>3. TypeOK' /\ EntryPhase'
    BY <2>1 DEF WorkerInv, TypeOK, EntryPhase, LockPhase, lockVars
  <2>4. ASSUME NEW t \in Threads PROVE PhaseOK(t)' /\ LocksOK(t)'
    <3>1. PhaseOK(t)'
      BY <2>1 DEF WorkerInv, PhaseOK
    <3>2. /\ OwnsI(t)' <=> OwnsI(t)
          /\ OwnsJ(t)' <=> OwnsJ(t)
          /\ OwnsK(t)' <=> OwnsK(t)
          /\ Target(t)' = Target(t)
      BY <2>1 DEF OwnsI, OwnsJ, OwnsK, Target
    <3>3. LocksOK(t)'
      BY <2>1, <3>2 DEF WorkerInv, LocksOK, lockVars
    <3> QED
      BY <3>1, <3>3
  <2> QED
    BY <2>2, <2>3, <2>4 DEF WorkerInv
<1>2. ASSUME NEW t \in Threads, Step(t) PROVE WorkerInv'
  BY <1>2, BeginInv, LeaveInv, LockGrantedInv, LockSleepsInv, LockRefusedInv, WakeGrantedInv,
     WakeSleepsInv, ReadInv, LoadInv, StoreFirstInv, StoreSecondInv, CommitInv, ReleaseIJInv,
     ReleaseKInv, RollbackCommitInv, RollbackSecondWriteInv, RollbackFirstWriteInv,
     RollbackReadInv
  DEF Step
<1>3. ASSUME NEW t \in Threads, SpuriousWakeup(t) PROVE WorkerInv'
  BY <1>3, WakeSleepsInv
<1> QED
  BY <1>1, <1>2, <1>3 DEF Next, Ended

\* transaction.cc on top of rw_lock_table.cc: the locks, the logs and the
\* queues stay consistent, every value stays in the range of a long long, and
\* the lock table keeps every invariant that it has for any client.
THEOREM WorkerInvariant == Spec => []WorkerInv
<1> QED
  BY InitInv, NextInv, PTL DEF Spec

\* Every worker holds, at every place of transaction.cc, exactly the locks of
\* the phases it has gone through, and sleeps only for the lock of its phase.
THEOREM TwoPhaseLocking == Spec => []StrictTwoPhase
<1> QED
  BY WorkerInvTwoPhase, WorkerInvariant, PTL

\* A store to a record is under its write lock, a load under either lock.
LEMMA AccessIsLocked ==
    ASSUME WorkerInv, NEW t \in Threads, NEW r
    PROVE  /\ r \in Stores(t) => r \in Records /\ held[t][r] = "WRITE"
           /\ r \in Loads(t) => r \in Records /\ held[t][r] # "NONE"
<1>1. PhaseOK(t) /\ LocksOK(t)
  BY DEF WorkerInv
<1>2. CASE pc[t] = "access"
  <2>1. log[t].phase \in {"READ", "FIRST_WRITE", "SECOND_WRITE"}
    BY <1>1, <1>2 DEF PhaseOK, PhasesAt
  <2>2. Stores(t) = {} /\ Loads(t) = {Target(t)}
    BY <1>2 DEF Stores, Loads, At
  <2>3. Target(t) \in Records /\ held[t][Target(t)] # "NONE"
    BY <1>1, <1>2, <2>1, TargetFacts DEF LocksOK, PhaseOK, OwnsI, OwnsJ, OwnsK
  <2> QED
    BY <2>2, <2>3
<1>3. CASE pc[t] = "store"
  <2>1. log[t].phase \in {"FIRST_WRITE", "SECOND_WRITE"}
    BY <1>1, <1>3 DEF PhaseOK, PhasesAt
  <2>2. Stores(t) = {Target(t)} /\ Loads(t) = {}
    BY <1>3 DEF Stores, Loads, At
  <2>3. Target(t) \in Records /\ held[t][Target(t)] = "WRITE"
    BY <1>1, <1>3, <2>1, TargetFacts DEF LocksOK, PhaseOK, OwnsJ, OwnsK
  <2> QED
    BY <2>2, <2>3
<1>4. CASE pc[t] = "rollback_commit"
  <2>1. Stores(t) = {log[t].k} /\ Loads(t) = {}
    BY <1>4 DEF Stores, Loads, At
  <2>2. log[t].k \in Records /\ held[t][log[t].k] = "WRITE"
    BY <1>1, <1>4 DEF LocksOK, PhaseOK, PhasesAt, OwnsK
  <2> QED
    BY <2>1, <2>2
<1>5. CASE pc[t] = "rollback_second_write"
  <2>1. Stores(t) = {log[t].j} /\ Loads(t) = {}
    BY <1>5 DEF Stores, Loads, At
  <2>2. log[t].j \in Records /\ held[t][log[t].j] = "WRITE"
    BY <1>1, <1>5 DEF LocksOK, PhaseOK, PhasesAt, OwnsJ
  <2> QED
    BY <2>1, <2>2
<1>6. CASE pc[t] \notin {"access", "store", "rollback_commit", "rollback_second_write"}
  BY <1>6 DEF Stores, Loads, At
<1> QED
  BY <1>2, <1>3, <1>4, <1>5, <1>6

\* A writer is alone with its record.
LEMMA WriterAlone ==
    ASSUME WorkerInv, NEW t \in Threads, NEW u \in Threads, NEW r \in Records,
           t # u, held[t][r] = "WRITE"
    PROVE  held[u][r] = "NONE"
BY LockTableAssumptions, L!LockInvExcludes DEF WorkerInv, L!MutualExclusion

\* The plain loads and stores of records in transaction.cc never race.
THEOREM RecordsAreRaceFree == Spec => []NoDataRace
<1>1. WorkerInv => NoDataRace
  <2> SUFFICES ASSUME WorkerInv, NEW t \in Threads, NEW u \in Threads, t # u,
                      NEW r \in Stores(t), r \in Loads(u) \cup Stores(u)
               PROVE  FALSE
    BY DEF NoDataRace
  <2>1. r \in Records /\ held[t][r] = "WRITE" /\ held[u][r] # "NONE"
    BY AccessIsLocked
  <2> QED
    BY <2>1, WriterAlone
<1> QED
  BY <1>1, WorkerInvariant, PTL

-----------------------------------------------------------------------------
(* The transactions are serializable in the order of their commit ids, and  *)
(* a rolled-back one leaves no trace: Transaction implements SerialStore.   *)

\* What a worker remembers of the data it has locked is still true: nobody
\* else writes a record between its lock and its release.
ValuesOK(t) ==
    /\ log[t].phase \in {"FIRST_WRITE", "SECOND_WRITE", "COMMIT"} /\ OwnsI(t)
          => log[t].value_of_i = records[log[t].i]
    /\ pc[t] = "store" => log[t].old_value = records[Target(t)]
    /\ PendingJ(t) /\ pc[t] # "rollback_second_write"
          => log[t].value_of_j = records[log[t].j]
    /\ pc[t] = "commit" => log[t].value_of_k = records[log[t].k]

\* The commit ids of the log lines are the ids handed out so far, up to E; a
\* worker leaves, or rolls a finished transaction back, only beyond E.
CommitsOK ==
    /\ IsFiniteSet(committed)
    /\ Cardinality(committed) = IF global_execution_order <= E THEN global_execution_order ELSE E
    /\ {line.commit_id : line \in committed} = 1..Cardinality(committed)
    /\ \A t \in Threads :
          \/ pc[t] = "done"
          \/ /\ log[t].phase = "COMMIT"
             /\ pc[t] \in {"rollback_commit", "rollback_second_write", "rollback_first_write",
                           "rollback_read"}
          => global_execution_order > E

SerialInv == WorkerInv /\ (\A t \in Threads : ValuesOK(t)) /\ CommitsOK

\* The writes of a worker that are neither committed nor undone are under its
\* write locks.
LEMMA PendingIsLocked ==
    ASSUME WorkerInv, NEW t \in Threads
    PROVE  /\ PendingJ(t) => /\ log[t].j \in Records /\ held[t][log[t].j] = "WRITE"
                             /\ log[t].phase \in {"SECOND_WRITE", "COMMIT"}
           /\ PendingK(t) => /\ log[t].k \in Records /\ held[t][log[t].k] = "WRITE"
                             /\ log[t].phase = "COMMIT"
<1>1. PhaseOK(t) /\ LocksOK(t)
  BY DEF WorkerInv
<1>2. ASSUME PendingJ(t)
      PROVE  /\ log[t].j \in Records /\ held[t][log[t].j] = "WRITE"
             /\ log[t].phase \in {"SECOND_WRITE", "COMMIT"}
  BY <1>1, <1>2 DEF PendingJ, PhaseOK, LocksOK, OwnsJ
<1>3. ASSUME PendingK(t)
      PROVE  /\ log[t].k \in Records /\ held[t][log[t].k] = "WRITE"
             /\ log[t].phase = "COMMIT"
  BY <1>1, <1>3 DEF PendingK, PhaseOK, PhasesAt, LocksOK, OwnsK
<1> QED
  BY <1>2, <1>3

\* The committed value of a record, case by case: at most one write to it is
\* pending.
CommittedFacts ==
    /\ \A t \in Threads : PendingJ(t) =>
          CommittedValue(log[t].j) = Wrap(records[log[t].j] - Wrap(log[t].value_of_i + 1))
    /\ \A t \in Threads : PendingK(t) =>
          CommittedValue(log[t].k) = Wrap(records[log[t].k] + log[t].value_of_i)
    /\ \A r \in Records :
          (\A t \in Threads : ~ (PendingJ(t) /\ log[t].j = r) /\ ~ (PendingK(t) /\ log[t].k = r))
          => CommittedValue(r) = records[r]

Undo(r) ==
    {<<t, Wrap(log[t].value_of_i + 1)>> :
        t \in {u \in Threads : PendingJ(u) /\ log[u].j = r}} \cup
    {<<t, -log[t].value_of_i>> :
        t \in {u \in Threads : PendingK(u) /\ log[u].k = r}}

LEMMA CommittedValueUndo ==
    ASSUME NEW r
    PROVE  CommittedValue(r) =
              IF Undo(r) = {} THEN records[r]
              ELSE Wrap(records[r] - (CHOOSE d \in Undo(r) : TRUE)[2])
BY DEF CommittedValue, Undo

LEMMA CommittedCases == WorkerInv => CommittedFacts
<1> SUFFICES ASSUME WorkerInv PROVE CommittedFacts
  OBVIOUS
<1>0. ASSUME NEW t \in Threads
      PROVE  /\ log[t].value_of_i \in Int
             /\ log[t].phase # "INVALID" => log[t].k # log[t].j
  <2>1. log[t].value_of_i \in Values
    BY DEF WorkerInv, TypeOK, LogType
  <2>2. Values \subseteq Int
    BY WrapFacts DEF Values, MinInt
  <2> QED
    BY <2>1, <2>2 DEF WorkerInv, PhaseOK
<1>1. ASSUME NEW t \in Threads, PendingJ(t)
      PROVE  CommittedValue(log[t].j) = Wrap(records[log[t].j] - Wrap(log[t].value_of_i + 1))
  <2> DEFINE r == log[t].j
             d == <<t, Wrap(log[t].value_of_i + 1)>>
  <2>1. /\ r \in Records /\ held[t][r] = "WRITE" /\ log[t].k # r
    BY <1>0, <1>1, PendingIsLocked
  <2>2. \A u \in Threads : /\ PendingJ(u) /\ log[u].j = r => u = t
                           /\ ~ (PendingK(u) /\ log[u].k = r)
    <3> TAKE u \in Threads
    <3>1. CASE u = t
      BY <3>1, <2>1
    <3>2. CASE u # t
      BY <3>2, <2>1, WriterAlone, PendingIsLocked
    <3> QED
      BY <3>1, <3>2
  <2>3. Undo(r) = {d}
    BY <1>1, <2>2 DEF Undo
  <2>4. (CHOOSE x \in {d} : TRUE) = d
    OBVIOUS
  <2> QED
    BY <2>3, <2>4, CommittedValueUndo
<1>2. ASSUME NEW t \in Threads, PendingK(t)
      PROVE  CommittedValue(log[t].k) = Wrap(records[log[t].k] + log[t].value_of_i)
  <2> DEFINE r == log[t].k
             d == <<t, -log[t].value_of_i>>
  <2>1. /\ r \in Records /\ held[t][r] = "WRITE" /\ log[t].j # r
    BY <1>0, <1>2, PendingIsLocked
  <2>2. \A u \in Threads : /\ PendingK(u) /\ log[u].k = r => u = t
                           /\ ~ (PendingJ(u) /\ log[u].j = r)
    <3> TAKE u \in Threads
    <3>1. CASE u = t
      BY <3>1, <2>1
    <3>2. CASE u # t
      BY <3>2, <2>1, WriterAlone, PendingIsLocked
    <3> QED
      BY <3>1, <3>2
  <2>3. Undo(r) = {d}
    BY <1>2, <2>2 DEF Undo
  <2>4. (CHOOSE x \in {d} : TRUE) = d
    OBVIOUS
  <2>5. CommittedValue(r) = Wrap(records[r] - (-log[t].value_of_i))
    BY <2>3, <2>4, CommittedValueUndo
  <2>6. records[r] - (-log[t].value_of_i) = records[r] + log[t].value_of_i
    <3>1. records[r] \in Values /\ Values \subseteq Int
      BY <2>1, WrapFacts DEF WorkerInv, TypeOK, Values, MinInt
    <3>2. records[r] \in Int /\ log[t].value_of_i \in Int
      BY <3>1, <1>0
    <3>3. \A a, b \in Int : a - (-b) = a + b
      OBVIOUS
    <3> QED
      BY <3>2, <3>3
  <2> QED
    BY <2>5, <2>6
<1>3. ASSUME NEW r \in Records,
             \A t \in Threads : ~ (PendingJ(t) /\ log[t].j = r) /\ ~ (PendingK(t) /\ log[t].k = r)
      PROVE  CommittedValue(r) = records[r]
  <2>1. Undo(r) = {}
    BY <1>3 DEF Undo
  <2> QED
    BY <2>1, CommittedValueUndo
<1> QED
  BY <1>1, <1>2, <1>3 DEF CommittedFacts

LEMMA CommittedCasesNext == WorkerInv' => CommittedFacts'
BY CommittedCases, PTL

-----------------------------------------------------------------------------
(* What a step of t leaves alone *)

\* A step of t moves no other worker, and writes only records that t has
\* locked for writing.
Frame(t) ==
    /\ \A u \in Threads : u # t => pc'[u] = pc[u] /\ log'[u] = log[u]
    /\ \A r \in Records : held[t][r] # "WRITE" => records'[r] = records[r]

LEMMA StepFrame ==
    ASSUME WorkerInv, NEW t \in Threads, Step(t) \/ SpuriousWakeup(t)
    PROVE  Frame(t)
<1> USE DEF dataVars
<1>0. /\ pc \in [Threads -> Labels] /\ log \in [Threads -> LogType]
      /\ records \in [Records -> Values]
  BY DEF WorkerInv, TypeOK
<1>1. \A u \in Threads : u # t => pc'[u] = pc[u] /\ log'[u] = log[u]
  <2>1. CASE \/ LockGranted(t) \/ LockSleeps(t) \/ LockRefused(t) \/ WakeGranted(t)
             \/ WakeSleeps(t) \/ SpuriousWakeup(t) \/ Leave(t) \/ ReleaseI(t) \/ ReleaseJ(t)
             \/ RollbackFirstWrite(t) \/ RollbackSecondWrite(t) \/ RollbackCommit(t)
             \/ Commit(t)
    BY <1>0, <2>1 DEF LockGranted, LockSleeps, LockRefused, WakeGranted, WakeSleeps,
       SpuriousWakeup, Leave, ReleaseI, ReleaseJ, RollbackFirstWrite, RollbackSecondWrite,
       RollbackCommit, Commit, Goto
  <2>2. CASE Begin(t) \/ Read(t) \/ Load(t) \/ StoreFirst(t) \/ StoreSecond(t)
    BY <1>0, <2>2 DEF Begin, Read, Load, StoreFirst, StoreSecond, Goto
  <2>3. CASE ReleaseK(t) \/ RollbackRead(t)
    BY <1>0, <2>3 DEF ReleaseK, RollbackRead, EndOfTransaction, Goto
  <2> QED
    BY <2>1, <2>2, <2>3 DEF Step
<1>2. ASSUME NEW r \in Records, held[t][r] # "WRITE" PROVE records'[r] = records[r]
  <2>1. r \notin Stores(t)
    BY <1>2, AccessIsLocked
  <2>2. CASE StoreFirst(t) \/ StoreSecond(t)
    <3>1. r # Target(t)
      BY <2>1, <2>2 DEF StoreFirst, StoreSecond, Stores, At
    <3> QED
      BY <1>0, <2>2, <3>1 DEF StoreFirst, StoreSecond, Target
  <2>3. CASE RollbackCommit(t) \/ RollbackSecondWrite(t)
    BY <1>0, <2>1, <2>3 DEF RollbackCommit, RollbackSecondWrite, Stores, At
  <2>4. CASE records' = records
    BY <2>4
  <2> QED
    BY <2>2, <2>3, <2>4
    DEF Step, Begin, Leave, LockGranted, LockSleeps, LockRefused, WakeGranted, WakeSleeps,
        SpuriousWakeup, Read, Load, Commit, ReleaseI, ReleaseJ, ReleaseK, RollbackFirstWrite,
        RollbackRead, EndOfTransaction
<1> QED
  BY <1>1, <1>2 DEF Frame

\* The values that another worker remembers stay true.
LEMMA OthersValues ==
    ASSUME WorkerInv, NEW t \in Threads, Frame(t), NEW u \in Threads, u # t, ValuesOK(u)
    PROVE  ValuesOK(u)'
<1>1. PhaseOK(u) /\ LocksOK(u)
  BY DEF WorkerInv
<1>2. pc'[u] = pc[u] /\ log'[u] = log[u]
  BY DEF Frame
<1>3. \A r \in Records : held[u][r] # "NONE" => records'[r] = records[r]
  BY WriterAlone DEF Frame
<1>4. /\ OwnsI(u)' <=> OwnsI(u)
      /\ PendingJ(u)' <=> PendingJ(u)
      /\ Target(u)' = Target(u)
  BY <1>2 DEF OwnsI, PendingJ, Target
<1>5. log[u].phase \in {"FIRST_WRITE", "SECOND_WRITE", "COMMIT"} /\ OwnsI(u)
         => records'[log[u].i] = records[log[u].i]
  BY <1>1, <1>3 DEF PhaseOK, LocksOK
<1>6. pc[u] = "store" => records'[Target(u)] = records[Target(u)]
  BY <1>3, AccessIsLocked DEF Stores, At
<1>7. PendingJ(u) => records'[log[u].j] = records[log[u].j]
  BY <1>3, PendingIsLocked
<1>8. pc[u] = "commit" => records'[log[u].k] = records[log[u].k]
  BY <1>3, PendingIsLocked DEF PendingK
<1> QED
  BY <1>2, <1>4, <1>5, <1>6, <1>7, <1>8 DEF ValuesOK

-----------------------------------------------------------------------------
(* Every step keeps the values *)

LEMMA ReadValues == ASSUME SerialInv, NEW t \in Threads, Read(t) PROVE ValuesOK(t)'
<1>0. /\ pc[t] = "access" /\ log[t].phase = "READ" /\ pc' = [pc EXCEPT ![t] = "lock"]
      /\ log' = [log EXCEPT ![t].value_of_i = records[log[t].i], ![t].phase = "FIRST_WRITE"]
      /\ records' = records
  BY DEF Read, At, Goto
<1>1. /\ pc'[t] = "lock" /\ log'[t].phase = "FIRST_WRITE" /\ log'[t].i = log[t].i
      /\ log'[t].value_of_i = records[log[t].i]
  BY <1>0 DEF SerialInv, WorkerInv, TypeOK, LogType
<1> QED
  BY <1>0, <1>1 DEF ValuesOK, PendingJ

LEMMA LoadValues == ASSUME SerialInv, NEW t \in Threads, Load(t) PROVE ValuesOK(t)'
<1>0. /\ pc[t] = "access" /\ log[t].phase \in {"FIRST_WRITE", "SECOND_WRITE"}
      /\ pc' = [pc EXCEPT ![t] = "store"]
      /\ log' = [log EXCEPT ![t].old_value = records[Target(t)]]
      /\ records' = records
  BY DEF Load, At, Goto
<1>1. /\ pc'[t] = "store" /\ log'[t].phase = log[t].phase
      /\ log'[t].i = log[t].i /\ log'[t].j = log[t].j /\ log'[t].k = log[t].k
      /\ log'[t].value_of_i = log[t].value_of_i /\ log'[t].value_of_j = log[t].value_of_j
      /\ log'[t].old_value = records[Target(t)]
  BY <1>0 DEF SerialInv, WorkerInv, TypeOK, LogType
<1>2. Target(t)' = Target(t)
  BY <1>0, <1>1 DEF Target
<1>3. ValuesOK(t)
  BY DEF SerialInv
<1> QED
  BY <1>0, <1>1, <1>2, <1>3 DEF ValuesOK, PendingJ, OwnsI

LEMMA StoreFirstValues == ASSUME SerialInv, NEW t \in Threads, StoreFirst(t) PROVE ValuesOK(t)'
<1> DEFINE v == Wrap(log[t].old_value + Wrap(log[t].value_of_i + 1))
<1>0. /\ pc[t] = "store" /\ log[t].phase = "FIRST_WRITE" /\ pc' = [pc EXCEPT ![t] = "lock"]
      /\ records' = [records EXCEPT ![log[t].j] = v]
      /\ log' = [log EXCEPT ![t].value_of_j = v, ![t].phase = "SECOND_WRITE"]
  BY DEF StoreFirst, At, Goto
<1> HIDE DEF v
<1>1. /\ pc'[t] = "lock" /\ log'[t].phase = "SECOND_WRITE"
      /\ log'[t].i = log[t].i /\ log'[t].j = log[t].j
      /\ log'[t].value_of_i = log[t].value_of_i /\ log'[t].value_of_j = v
  BY <1>0 DEF SerialInv, WorkerInv, TypeOK, LogType
<1>2. log[t].i \in Records /\ log[t].j \in Records /\ log[t].i # log[t].j
  BY <1>0 DEF SerialInv, WorkerInv, PhaseOK
<1>3. records'[log[t].i] = records[log[t].i] /\ records'[log[t].j] = v
  BY <1>0, <1>2 DEF SerialInv, WorkerInv, TypeOK
<1>4. log[t].value_of_i = records[log[t].i]
  BY <1>0 DEF SerialInv, ValuesOK, OwnsI
<1> QED
  BY <1>1, <1>3, <1>4 DEF ValuesOK

LEMMA StoreSecondValues == ASSUME SerialInv, NEW t \in Threads, StoreSecond(t) PROVE ValuesOK(t)'
<1> DEFINE v == Wrap(log[t].old_value - log[t].value_of_i)
<1>0. /\ pc[t] = "store" /\ log[t].phase = "SECOND_WRITE" /\ pc' = [pc EXCEPT ![t] = "commit"]
      /\ records' = [records EXCEPT ![log[t].k] = v]
      /\ log' = [log EXCEPT ![t].value_of_k = v, ![t].phase = "COMMIT"]
  BY DEF StoreSecond, At, Goto
<1> HIDE DEF v
<1>1. /\ pc'[t] = "commit" /\ log'[t].phase = "COMMIT"
      /\ log'[t].i = log[t].i /\ log'[t].j = log[t].j /\ log'[t].k = log[t].k
      /\ log'[t].value_of_i = log[t].value_of_i /\ log'[t].value_of_j = log[t].value_of_j
      /\ log'[t].value_of_k = v
  BY <1>0 DEF SerialInv, WorkerInv, TypeOK, LogType
<1>2. /\ log[t].i \in Records /\ log[t].j \in Records /\ log[t].k \in Records
      /\ log[t].i # log[t].k /\ log[t].j # log[t].k
  BY <1>0 DEF SerialInv, WorkerInv, PhaseOK
<1>3. /\ records'[log[t].i] = records[log[t].i] /\ records'[log[t].j] = records[log[t].j]
      /\ records'[log[t].k] = v
  BY <1>0, <1>2 DEF SerialInv, WorkerInv, TypeOK
<1>4. log[t].value_of_i = records[log[t].i] /\ log[t].value_of_j = records[log[t].j]
  BY <1>0 DEF SerialInv, ValuesOK, OwnsI, PendingJ
<1> QED
  BY <1>1, <1>3, <1>4 DEF ValuesOK

LEMMA RollbackCommitValues ==
    ASSUME SerialInv, NEW t \in Threads, RollbackCommit(t) PROVE ValuesOK(t)'
<1> DEFINE v == Wrap(records[log[t].k] + log[t].value_of_i)
<1>0. /\ pc[t] = "rollback_commit" /\ pc' = [pc EXCEPT ![t] = "rollback_second_write"]
      /\ records' = [records EXCEPT ![log[t].k] = v] /\ log' = log
  BY DEF RollbackCommit, At, Goto
<1> HIDE DEF v
<1>1. pc'[t] = "rollback_second_write"
  BY <1>0 DEF SerialInv, WorkerInv, TypeOK
<1>2. /\ log[t].phase = "COMMIT" /\ log[t].i \in Records /\ log[t].i # log[t].k
  BY <1>0 DEF SerialInv, WorkerInv, PhaseOK, PhasesAt
<1>3. records'[log[t].i] = records[log[t].i]
  BY <1>0, <1>2 DEF SerialInv, WorkerInv, TypeOK
<1>4. log[t].value_of_i = records[log[t].i]
  BY <1>0, <1>2 DEF SerialInv, ValuesOK, OwnsI
<1> QED
  BY <1>0, <1>1, <1>3, <1>4 DEF ValuesOK

LEMMA RollbackSecondWriteValues ==
    ASSUME SerialInv, NEW t \in Threads, RollbackSecondWrite(t) PROVE ValuesOK(t)'
<1> DEFINE v == Wrap(records[log[t].j] - Wrap(log[t].value_of_i + 1))
<1>0. /\ pc[t] = "rollback_second_write" /\ pc' = [pc EXCEPT ![t] = "rollback_first_write"]
      /\ records' = [records EXCEPT ![log[t].j] = v] /\ log' = log
  BY DEF RollbackSecondWrite, At, Goto
<1> HIDE DEF v
<1>1. pc'[t] = "rollback_first_write"
  BY <1>0 DEF SerialInv, WorkerInv, TypeOK
<1>2. /\ log[t].phase \in {"SECOND_WRITE", "COMMIT"}
      /\ log[t].i \in Records /\ log[t].i # log[t].j
  BY <1>0 DEF SerialInv, WorkerInv, PhaseOK, PhasesAt
<1>3. records'[log[t].i] = records[log[t].i]
  BY <1>0, <1>2 DEF SerialInv, WorkerInv, TypeOK
<1>4. log[t].value_of_i = records[log[t].i]
  BY <1>0, <1>2 DEF SerialInv, ValuesOK, OwnsI
<1> QED
  BY <1>0, <1>1, <1>3, <1>4 DEF ValuesOK, PendingJ

\* The steps that touch neither the log of t nor the records.
LEMMA ControlValues ==
    ASSUME SerialInv, NEW t \in Threads,
           \/ LockGranted(t) \/ LockSleeps(t) \/ LockRefused(t) \/ WakeGranted(t)
           \/ WakeSleeps(t) \/ SpuriousWakeup(t) \/ Commit(t) \/ ReleaseI(t) \/ ReleaseJ(t)
           \/ RollbackFirstWrite(t)
    PROVE  ValuesOK(t)'
<1>0. pc \in [Threads -> Labels] /\ ValuesOK(t) /\ PhaseOK(t) /\ LocksOK(t)
  BY DEF SerialInv, WorkerInv, TypeOK
<1>1. log' = log /\ records' = records
  BY DEF LockGranted, LockSleeps, LockRefused, WakeGranted, WakeSleeps, SpuriousWakeup, Commit,
         ReleaseI, ReleaseJ, RollbackFirstWrite, dataVars
<1>2. \/ pc'[t] = pc[t]
      \/ pc[t] = "lock" /\ pc'[t] \in {"access", RollbackEntry(log[t].phase)}
      \/ pc[t] = "commit" /\ pc'[t] \in {"unlock_i", "rollback_commit"}
      \/ pc[t] = "unlock_i" /\ pc'[t] = "unlock_j"
      \/ pc[t] = "unlock_j" /\ pc'[t] = "unlock_k"
      \/ pc[t] = "rollback_first_write" /\ pc'[t] = "rollback_read"
  <2>1. CASE WakeGranted(t)
    <3>1. pc[t] = "lock"
      <4>1. LT!ResumeGranted(t)
        BY <2>1 DEF WakeGranted
      <4>2. waiting[t] \in Records
        BY <4>1, ResumeGrantedStep DEF SerialInv, WorkerInv
      <4> QED
        BY <4>2, <1>0, NoRecordAssumption DEF LocksOK
    <3> QED
      BY <2>1, <3>1, <1>0 DEF WakeGranted, Goto
  <2>2. CASE ~ WakeGranted(t)
    BY <2>2, <1>0 DEF LockGranted, LockSleeps, LockRefused, WakeSleeps, SpuriousWakeup, Commit,
                      ReleaseI, ReleaseJ, RollbackFirstWrite, At, Goto
  <2> QED
    BY <2>1, <2>2
<1>3. pc[t] = "lock" =>
        RollbackEntry(log[t].phase) \in {"rollback_read", "rollback_first_write", "rollback_second_write"}
  BY <1>0 DEF PhaseOK, PhasesAt, RollbackEntry
<1>4. /\ log[t].phase # "READ" /\ OwnsI(t)' => OwnsI(t)
      /\ PendingJ(t)' => PendingJ(t)
      /\ pc'[t] = "store" => pc[t] = "store"
      /\ pc'[t] = "commit" => pc[t] = "commit"
      /\ pc[t] = "rollback_second_write" => pc'[t] = pc[t]
  BY <1>0, <1>1, <1>2, <1>3 DEF OwnsI, PendingJ, PhaseOK, PhasesAt
<1>5. Target(t)' = Target(t)
  BY <1>1 DEF Target
<1> QED
  BY <1>0, <1>1, <1>4, <1>5 DEF ValuesOK

\* A worker at the start or the end of a transaction remembers nothing.
LEMMA EdgeValues ==
    ASSUME SerialInv, NEW t \in Threads,
           Begin(t) \/ Leave(t) \/ ReleaseK(t) \/ RollbackRead(t)
    PROVE  ValuesOK(t)'
<1>0. pc \in [Threads -> Labels] /\ log \in [Threads -> LogType] /\ PhaseOK(t)
  BY DEF SerialInv, WorkerInv, TypeOK
<1>1. CASE Begin(t)
  <2>1. PICK i, j, k \in Records : log' = [log EXCEPT ![t] =
           [NoLog EXCEPT !.phase = "READ", !.i = i, !.j = j, !.k = k]]
    BY <1>1 DEF Begin
  <2> DEFINE l == [NoLog EXCEPT !.phase = "READ", !.i = i, !.j = j, !.k = k]
  <2>2. l.phase = "READ"
    BY DEF NoLog
  <2> HIDE DEF l
  <2>3. log'[t] = l
    BY <1>0, <2>1 DEF l
  <2>4. pc'[t] = "lock"
    BY <1>0, <1>1 DEF Begin, Goto
  <2> QED
    BY <2>2, <2>3, <2>4 DEF ValuesOK, PendingJ
<1>2. CASE Leave(t)
  <2>1. log'[t].phase = "INVALID" /\ pc'[t] = "done"
    BY <1>0, <1>2 DEF Leave, Goto, At, dataVars, PhaseOK, PhasesAt
  <2> QED
    BY <2>1 DEF ValuesOK, PendingJ
<1>3. CASE ReleaseK(t) \/ RollbackRead(t)
  <2>1. log'[t].phase = "INVALID" /\ pc'[t] \in {"test", "done"}
    BY <1>0, <1>3 DEF ReleaseK, RollbackRead, EndOfTransaction, Goto, NoLog
  <2> QED
    BY <2>1 DEF ValuesOK, PendingJ
<1> QED
  BY <1>1, <1>2, <1>3

LEMMA StepValues ==
    ASSUME SerialInv, NEW t \in Threads, Step(t) \/ SpuriousWakeup(t)
    PROVE  \A u \in Threads : ValuesOK(u)'
<1>1. ValuesOK(t)'
  BY ReadValues, LoadValues, StoreFirstValues, StoreSecondValues, RollbackCommitValues,
     RollbackSecondWriteValues, ControlValues, EdgeValues
  DEF Step
<1>2. Frame(t)
  BY StepFrame DEF SerialInv
<1> QED
  BY <1>1, <1>2, OthersValues DEF SerialInv

-----------------------------------------------------------------------------
(* Every step keeps the commit ids *)

\* The line of a commit is new, and is the only new line.
LEMMA CommitCounts ==
    ASSUME SerialInv, NEW t \in Threads, Commit(t), global_execution_order + 1 <= E
    PROVE  /\ Cardinality(committed) = global_execution_order
           /\ committed' = committed \cup {LogLine(t, global_execution_order + 1)}
           /\ IsFiniteSet(committed')
           /\ Cardinality(committed') = global_execution_order + 1
           /\ {line.commit_id : line \in committed'} = 1..Cardinality(committed')
<1> DEFINE line == LogLine(t, global_execution_order + 1)
           ids(S) == {l.commit_id : l \in S}
<1>0. global_execution_order \in Nat /\ E \in Nat
  BY EAssumption DEF SerialInv, WorkerInv, TypeOK
<1>1. /\ Cardinality(committed) = global_execution_order /\ IsFiniteSet(committed)
      /\ ids(committed) = 1..global_execution_order
  BY <1>0 DEF SerialInv, CommitsOK
<1>2. committed' = committed \cup {line}
  BY DEF Commit
<1>3. line.commit_id = global_execution_order + 1
  BY DEF LogLine
<1>4. line \notin committed
  <2>1. SUFFICES ASSUME line \in committed PROVE FALSE
    OBVIOUS
  <2>2. line.commit_id \in ids(committed)
    BY <2>1
  <2> QED
    BY <1>0, <1>1, <1>3, <2>2
<1> HIDE DEF line
<1>5. IsFiniteSet(committed') /\ Cardinality(committed') = global_execution_order + 1
  BY <1>1, <1>2, <1>4, FS_AddElement
<1>6. ids(committed') = ids(committed) \cup {line.commit_id}
  BY <1>2
<1>7. 1..(global_execution_order + 1) = (1..global_execution_order) \cup {global_execution_order + 1}
  BY <1>0
<1> QED
  BY <1>1, <1>2, <1>3, <1>5, <1>6, <1>7 DEF line

\* A worker that is done, or undoes a finished transaction.
Finished(t) ==
    \/ pc[t] = "done"
    \/ /\ log[t].phase = "COMMIT"
       /\ pc[t] \in {"rollback_commit", "rollback_second_write", "rollback_first_write",
                     "rollback_read"}

LEMMA StepFinishes ==
    ASSUME SerialInv, NEW t \in Threads, Step(t) \/ SpuriousWakeup(t), ~ Commit(t)
    PROVE  /\ committed' = committed /\ global_execution_order' = global_execution_order
           /\ Finished(t)' => Finished(t) \/ global_execution_order > E
<1> USE DEF dataVars
<1>0. pc \in [Threads -> Labels] /\ log \in [Threads -> LogType] /\ PhaseOK(t) /\ LocksOK(t)
  BY DEF SerialInv, WorkerInv, TypeOK
<1>1. committed' = committed /\ global_execution_order' = global_execution_order
  BY DEF Step, Begin, Leave, LockGranted, LockSleeps, LockRefused, WakeGranted, WakeSleeps,
         SpuriousWakeup, Read, Load, StoreFirst, StoreSecond, ReleaseI, ReleaseJ, ReleaseK,
         RollbackCommit, RollbackSecondWrite, RollbackFirstWrite, RollbackRead, EndOfTransaction
<1>2. ASSUME Finished(t)' PROVE Finished(t) \/ global_execution_order > E
  <2>1. CASE Leave(t)
    BY <2>1 DEF Leave
  <2>2. CASE RollbackCommit(t) \/ RollbackSecondWrite(t) \/ RollbackFirstWrite(t)
    BY <1>0, <1>2, <2>2 DEF RollbackCommit, RollbackSecondWrite, RollbackFirstWrite, Finished,
                            Goto, At
  <2>3. CASE RollbackRead(t)
    BY <1>0, <1>2, <2>3 DEF RollbackRead, EndOfTransaction, Finished, Goto, At
  <2>4. CASE LockRefused(t)
    BY <1>0, <1>2, <2>4 DEF LockRefused, Finished, Goto, At, PhaseOK, PhasesAt, RollbackEntry,
                            Labels
  <2>5. CASE WakeSleeps(t) \/ SpuriousWakeup(t) \/ LockSleeps(t)
    BY <1>2, <2>5 DEF WakeSleeps, SpuriousWakeup, LockSleeps, Finished
  <2>6. CASE \/ Begin(t) \/ LockGranted(t) \/ WakeGranted(t) \/ Read(t) \/ Load(t)
             \/ StoreFirst(t) \/ StoreSecond(t) \/ ReleaseI(t) \/ ReleaseJ(t) \/ ReleaseK(t)
    <3>1. pc'[t] \in {"lock", "access", "store", "commit", "unlock_j", "unlock_k", "test"}
      BY <1>0, <2>6 DEF Begin, LockGranted, WakeGranted, Read, Load, StoreFirst, StoreSecond,
                        ReleaseI, ReleaseJ, ReleaseK, EndOfTransaction, Goto
    <3> QED
      BY <1>2, <3>1 DEF Finished
  <2> QED
    BY <2>1, <2>2, <2>3, <2>4, <2>5, <2>6 DEF Step
<1> QED
  BY <1>1, <1>2

LEMMA StepCommits ==
    ASSUME SerialInv, NEW t \in Threads, Step(t) \/ SpuriousWakeup(t)
    PROVE  CommitsOK'
<1>0. /\ global_execution_order \in Nat /\ E \in Nat /\ CommitsOK /\ Frame(t)
      /\ pc \in [Threads -> Labels]
  BY EAssumption, StepFrame DEF SerialInv, WorkerInv, TypeOK
<1>a. \A u \in Threads : Finished(u) => global_execution_order > E
  BY <1>0 DEF CommitsOK, Finished
<1>b. \A u \in Threads : u # t => (Finished(u)' <=> Finished(u))
  BY <1>0 DEF Frame, Finished
<1>1. CASE Commit(t) /\ global_execution_order + 1 <= E
  <2>1. global_execution_order' = global_execution_order + 1 /\ pc' = [pc EXCEPT ![t] = "unlock_i"]
    BY <1>1 DEF Commit, Goto
  <2>2. pc'[t] = "unlock_i"
    BY <2>1, <1>0
  <2>3. \A u \in Threads : ~ Finished(u)'
    BY <1>0, <1>1, <1>a, <1>b, <2>2 DEF Finished
  <2>4. /\ IsFiniteSet(committed)'
        /\ Cardinality(committed') = global_execution_order'
        /\ {line.commit_id : line \in committed'} = 1..Cardinality(committed')
    BY <1>1, <2>1, CommitCounts
  <2> QED
    BY <1>1, <2>1, <2>3, <2>4 DEF CommitsOK, Finished
<1>2. CASE Commit(t) /\ ~ (global_execution_order + 1 <= E)
  <2>1. global_execution_order' = global_execution_order + 1 /\ committed' = committed
    BY <1>2 DEF Commit
  <2>2. Cardinality(committed) = E
    BY <1>0, <1>2 DEF CommitsOK
  <2>3. global_execution_order' > E
    BY <1>0, <1>2, <2>1
  <2> QED
    BY <1>0, <2>1, <2>2, <2>3 DEF CommitsOK
<1>3. CASE ~ Commit(t)
  <2>1. /\ committed' = committed /\ global_execution_order' = global_execution_order
        /\ Finished(t)' => Finished(t) \/ global_execution_order > E
    BY <1>3, StepFinishes
  <2>2. \A u \in Threads : Finished(u)' => global_execution_order' > E
    BY <1>a, <1>b, <2>1
  <2> QED
    BY <1>0, <2>1, <2>2 DEF CommitsOK, Finished
<1> QED
  BY <1>1, <1>2, <1>3

LEMMA SerialInit == Init => SerialInv
<1> SUFFICES ASSUME Init PROVE SerialInv
  OBVIOUS
<1>1. \A t \in Threads : log[t].phase = "INVALID" /\ pc[t] = "test"
  BY DEF Init, NoLog
<1>2. \A t \in Threads : ValuesOK(t)
  BY <1>1 DEF ValuesOK, PendingJ
<1>3. IsFiniteSet(committed) /\ Cardinality(committed) = 0
  BY FS_EmptySet DEF Init
<1>4. {line.commit_id : line \in committed} = 1..0
  BY DEF Init
<1>5. CommitsOK
  BY <1>1, <1>3, <1>4, EAssumption DEF CommitsOK, Init
<1> QED
  BY <1>2, <1>5, InitInv DEF SerialInv

LEMMA SerialNext == SerialInv /\ [Next]_vars => SerialInv'
<1> SUFFICES ASSUME SerialInv, [Next]_vars PROVE SerialInv'
  OBVIOUS
<1>0. WorkerInv'
  BY NextInv DEF SerialInv
<1>1. CASE UNCHANGED vars
  <2>1. UNCHANGED <<records, log, pc, global_execution_order, committed>>
    BY <1>1 DEF vars, dataVars
  <2>2. ASSUME NEW t \in Threads PROVE ValuesOK(t)'
    <3>1. /\ OwnsI(t)' <=> OwnsI(t)
          /\ PendingJ(t)' <=> PendingJ(t)
          /\ Target(t)' = Target(t)
      BY <2>1 DEF OwnsI, PendingJ, Target
    <3> QED
      BY <2>1, <3>1 DEF SerialInv, ValuesOK
  <2>3. CommitsOK'
    BY <2>1 DEF SerialInv, CommitsOK
  <2> QED
    BY <1>0, <2>2, <2>3 DEF SerialInv
<1>2. ASSUME NEW t \in Threads, Step(t) \/ SpuriousWakeup(t) PROVE SerialInv'
  BY <1>0, <1>2, StepValues, StepCommits DEF SerialInv
<1> QED
  BY <1>1, <1>2 DEF Next, Ended

\* What a worker of transaction.cc remembers of a locked record is the value
\* of the record until it gives the lock back, and the commit ids of the log
\* lines are 1, 2, ... up to the last one handed out, and at most E.
THEOREM SerialInvariant == Spec => []SerialInv
<1> QED
  BY SerialInit, SerialNext, PTL DEF Spec

-----------------------------------------------------------------------------
(* The committed values *)

LEMMA SerialOperators ==
    /\ \A S : Serial!Cardinality(S) = Cardinality(S)
    /\ \A x : Serial!Wrap(x) = Wrap(x)
BY DEF Serial!Cardinality, Cardinality, Serial!Wrap, Wrap, Serial!MinInt, MinInt

\* A pending write can be taken back.
LEMMA WrapBack ==
    ASSUME NEW a \in Values, NEW b \in Values
    PROVE  Wrap(Wrap(a - b) + b) = a /\ Wrap(Wrap(a + b) - b) = a
BY WrapFacts

WritesJ(t, r) == PendingJ(t) /\ log[t].j = r
WritesK(t, r) == PendingK(t) /\ log[t].k = r

\* A step of t that neither begins nor ends a pending write to r keeps the
\* committed value of r.
LEMMA SameWrites ==
    ASSUME NEW t \in Threads, Frame(t), NEW r \in Records, records'[r] = records[r],
           WritesJ(t, r)' <=> WritesJ(t, r),
           WritesK(t, r)' <=> WritesK(t, r),
           WritesJ(t, r) \/ WritesK(t, r) => log'[t].value_of_i = log[t].value_of_i
    PROVE  CommittedValue(r)' = CommittedValue(r)
<1> DEFINE J == {u \in Threads : PendingJ(u) /\ log[u].j = r}
           K == {u \in Threads : PendingK(u) /\ log[u].k = r}
<1>1. \A u \in Threads : /\ WritesJ(u, r)' <=> WritesJ(u, r)
                         /\ WritesK(u, r)' <=> WritesK(u, r)
  BY DEF Frame, WritesJ, WritesK, PendingJ, PendingK
<1>2. J' = J /\ K' = K
  BY <1>1 DEF WritesJ, WritesK
<1>3. \A u \in J \cup K : log'[u].value_of_i = log[u].value_of_i
  BY DEF Frame, WritesJ, WritesK
<1> DEFINE UJ == {<<u, Wrap(log[u].value_of_i + 1)>> : u \in J}
           UK == {<<u, -log[u].value_of_i>> : u \in K}
<1>4. UJ' = UJ /\ UK' = UK
  <2>1. UJ' = {<<u, Wrap(log'[u].value_of_i + 1)>> : u \in J}
    BY <1>2 DEF Wrap, MinInt
  <2>2. UK' = {<<u, -log'[u].value_of_i>> : u \in K}
    BY <1>2
  <2> HIDE DEF J, K
  <2> QED
    BY <1>3, <2>1, <2>2
<1>5. Undo(r)' = Undo(r)
  BY <1>4 DEF Undo
<1>6. CommittedValue(r)' = IF Undo(r)' = {} THEN records'[r]
                           ELSE Wrap(records'[r] - (CHOOSE d \in Undo(r)' : TRUE)[2])
  BY DEF CommittedValue, Undo, Wrap, MinInt
<1> QED
  BY <1>5, <1>6, CommittedValueUndo

\* The record that t has locked for writing has no pending write of another
\* worker, before and after a step of t.
LEMMA OthersDoNotWrite ==
    ASSUME WorkerInv, NEW t \in Threads, Frame(t), NEW r \in Records, held[t][r] = "WRITE",
           NEW u \in Threads, u # t
    PROVE  /\ ~ WritesJ(u, r) /\ ~ WritesK(u, r)
           /\ ~ WritesJ(u, r)' /\ ~ WritesK(u, r)'
<1>1. ~ WritesJ(u, r) /\ ~ WritesK(u, r)
  BY WriterAlone, PendingIsLocked DEF WritesJ, WritesK
<1> QED
  BY <1>1 DEF Frame, WritesJ, WritesK, PendingJ, PendingK

\* The value of a record without a pending write is the committed one.
LEMMA NothingPending ==
    ASSUME WorkerInv, NEW t \in Threads, Frame(t), NEW r \in Records, held[t][r] = "WRITE",
           WorkerInv'
    PROVE  /\ ~ WritesJ(t, r) /\ ~ WritesK(t, r) => CommittedValue(r) = records[r]
           /\ ~ WritesJ(t, r)' /\ ~ WritesK(t, r)' => CommittedValue(r)' = records'[r]
<1>1. CommittedFacts /\ CommittedFacts'
  BY CommittedCases, CommittedCasesNext
<1>2. ASSUME ~ WritesJ(t, r), ~ WritesK(t, r) PROVE CommittedValue(r) = records[r]
  BY <1>1, <1>2, OthersDoNotWrite DEF CommittedFacts, WritesJ, WritesK
<1>3. ASSUME ~ WritesJ(t, r)', ~ WritesK(t, r)' PROVE CommittedValue(r)' = records'[r]
  BY <1>1, <1>3, OthersDoNotWrite DEF CommittedFacts, WritesJ, WritesK
<1> QED
  BY <1>2, <1>3

Quiet == \A r \in Records : CommittedValue(r)' = CommittedValue(r)

\* The steps that write no record and end no pending write.
LEMMA ControlIsQuiet ==
    ASSUME SerialInv, NEW t \in Threads,
           \/ Begin(t) \/ Leave(t) \/ Read(t) \/ Load(t) \/ ReleaseK(t) \/ RollbackRead(t)
           \/ LockGranted(t) \/ LockSleeps(t) \/ LockRefused(t) \/ WakeGranted(t)
           \/ WakeSleeps(t) \/ SpuriousWakeup(t) \/ ReleaseI(t) \/ ReleaseJ(t)
           \/ RollbackFirstWrite(t)
           \/ Commit(t) /\ ~ (global_execution_order + 1 <= E),
           Step(t) \/ SpuriousWakeup(t)
    PROVE  Quiet
<1> USE DEF dataVars
<1>0. /\ pc \in [Threads -> Labels] /\ log \in [Threads -> LogType]
      /\ PhaseOK(t) /\ LocksOK(t) /\ Frame(t)
  BY StepFrame DEF SerialInv, WorkerInv, TypeOK
<1>1. records' = records
  BY DEF Begin, Leave, Read, Load, ReleaseK, RollbackRead, EndOfTransaction, LockGranted,
         LockSleeps, LockRefused, WakeGranted, WakeSleeps, SpuriousWakeup, ReleaseI, ReleaseJ,
         RollbackFirstWrite, Commit
<1>2. \/ ~ PendingJ(t) /\ ~ PendingK(t) /\ ~ PendingJ(t)' /\ ~ PendingK(t)'
      \/ /\ log'[t].j = log[t].j /\ log'[t].k = log[t].k
         /\ log'[t].value_of_i = log[t].value_of_i
         /\ PendingJ(t)' <=> PendingJ(t)
         /\ PendingK(t)' <=> PendingK(t)
  <2>1. CASE Begin(t)
    <3>1. PICK i, j, k \in Records : log' = [log EXCEPT ![t] =
             [NoLog EXCEPT !.phase = "READ", !.i = i, !.j = j, !.k = k]]
      BY <2>1 DEF Begin
    <3> DEFINE l == [NoLog EXCEPT !.phase = "READ", !.i = i, !.j = j, !.k = k]
    <3>2. l.phase = "READ"
      BY DEF NoLog
    <3> HIDE DEF l
    <3>3. log'[t] = l
      BY <1>0, <3>1 DEF l
    <3>4. pc[t] = "test" /\ pc'[t] = "lock"
      BY <1>0, <2>1 DEF Begin, Goto, At
    <3> QED
      BY <3>2, <3>3, <3>4 DEF PendingJ, PendingK
  <2>2. CASE Leave(t) \/ ReleaseK(t) \/ RollbackRead(t)
    <3>1. pc[t] \in {"test", "unlock_k", "rollback_read"} /\ pc'[t] \in {"test", "done"}
      BY <1>0, <2>2 DEF Leave, ReleaseK, RollbackRead, EndOfTransaction, Goto, At
    <3> QED
      BY <3>1 DEF PendingJ, PendingK
  <2>3. CASE Read(t)
    <3>1. /\ pc[t] = "access" /\ log[t].phase = "READ"
          /\ pc'[t] = "lock" /\ log'[t].phase = "FIRST_WRITE"
      BY <1>0, <2>3 DEF Read, Goto, At, LogType
    <3> QED
      BY <3>1 DEF PendingJ, PendingK
  <2>4. CASE Load(t)
    <3>1. /\ pc[t] = "access" /\ pc'[t] = "store"
          /\ log' = [log EXCEPT ![t].old_value = records[Target(t)]]
      BY <1>0, <2>4 DEF Load, Goto, At
    <3>2. /\ log'[t].j = log[t].j /\ log'[t].k = log[t].k
          /\ log'[t].value_of_i = log[t].value_of_i /\ log'[t].phase = log[t].phase
      BY <1>0, <3>1 DEF LogType
    <3> QED
      BY <3>1, <3>2 DEF PendingJ, PendingK
  <2>5. CASE LockRefused(t)
    <3>1. /\ pc[t] = "lock" /\ log' = log /\ pc'[t] = RollbackEntry(log[t].phase)
      BY <1>0, <2>5 DEF LockRefused, Goto, At
    <3>2. log[t].phase \in {"READ", "FIRST_WRITE", "SECOND_WRITE"}
      BY <1>0, <3>1 DEF PhaseOK, PhasesAt
    <3> QED
      BY <3>1, <3>2 DEF PendingJ, PendingK, RollbackEntry
  <2>6. CASE WakeGranted(t)
    <3>1. pc[t] = "lock"
      <4>1. waiting[t] \in Records
        BY <2>6, ResumeGrantedStep DEF SerialInv, WorkerInv, WakeGranted
      <4> QED
        BY <4>1, <1>0, NoRecordAssumption DEF LocksOK
    <3>2. log' = log /\ pc'[t] = "access"
      BY <1>0, <2>6 DEF WakeGranted, Goto
    <3> QED
      BY <3>1, <3>2 DEF PendingJ, PendingK
  <2>7. CASE LockSleeps(t) \/ WakeSleeps(t) \/ SpuriousWakeup(t)
    <3>1. log' = log /\ pc' = pc
      BY <2>7 DEF LockSleeps, WakeSleeps, SpuriousWakeup
    <3> QED
      BY <3>1 DEF PendingJ, PendingK
  <2>8. CASE LockGranted(t)
    <3>1. log' = log /\ pc[t] = "lock" /\ pc'[t] = "access"
      BY <1>0, <2>8 DEF LockGranted, Goto, At
    <3> QED
      BY <3>1 DEF PendingJ, PendingK
  <2>9. CASE ReleaseI(t) \/ ReleaseJ(t) \/ RollbackFirstWrite(t)
    <3>1. /\ pc[t] \in {"unlock_i", "unlock_j", "rollback_first_write"}
          /\ pc'[t] \in {"unlock_j", "unlock_k", "rollback_read"}
      BY <1>0, <2>9 DEF ReleaseI, ReleaseJ, RollbackFirstWrite, Goto, At
    <3> QED
      BY <3>1 DEF PendingJ, PendingK
  <2>10. CASE Commit(t) /\ ~ (global_execution_order + 1 <= E)
    <3>1. log' = log /\ pc[t] = "commit" /\ pc'[t] = "rollback_commit"
      BY <1>0, <2>10 DEF Commit, Goto, At
    <3> QED
      BY <3>1 DEF PendingJ, PendingK
  <2> QED
    BY <2>1, <2>2, <2>3, <2>4, <2>5, <2>6, <2>7, <2>8, <2>9, <2>10
<1>3. \A r \in Records :
        /\ WritesJ(t, r)' <=> WritesJ(t, r)
        /\ WritesK(t, r)' <=> WritesK(t, r)
        /\ WritesJ(t, r) \/ WritesK(t, r) => log'[t].value_of_i = log[t].value_of_i
  BY <1>2 DEF WritesJ, WritesK
<1> QED
  BY <1>0, <1>1, <1>3, SameWrites DEF Quiet

\* The increment of j is pending from the store on.
LEMMA StoreFirstIsQuiet ==
    ASSUME SerialInv, WorkerInv', NEW t \in Threads, StoreFirst(t), Frame(t)
    PROVE  Quiet
<1> DEFINE d == Wrap(log[t].value_of_i + 1)
           v == Wrap(log[t].old_value + d)
           j == log[t].j
<1>0. /\ pc[t] = "store" /\ log[t].phase = "FIRST_WRITE" /\ pc' = [pc EXCEPT ![t] = "lock"]
      /\ records' = [records EXCEPT ![j] = v]
      /\ log' = [log EXCEPT ![t].value_of_j = v, ![t].phase = "SECOND_WRITE"]
  BY DEF StoreFirst, At, Goto
<1>1. /\ j \in Records /\ held[t][j] = "WRITE" /\ records[j] = log[t].old_value
  BY <1>0 DEF SerialInv, WorkerInv, PhaseOK, LocksOK, OwnsJ, ValuesOK, Target
<1>2. /\ log[t].old_value \in Values /\ d \in Values /\ Wrap(v - d) = log[t].old_value
  BY WrapFacts DEF SerialInv, WorkerInv, TypeOK, LogType
<1>3. Wrap(log[t].value_of_i + 1) = d
  OBVIOUS
<1> HIDE DEF d, v
<1>4. /\ pc'[t] = "lock" /\ log'[t].phase = "SECOND_WRITE"
      /\ log'[t].j = j /\ log'[t].k = log[t].k /\ log'[t].value_of_i = log[t].value_of_i
      /\ records'[j] = v /\ \A r \in Records : r # j => records'[r] = records[r]
  BY <1>0, <1>1 DEF SerialInv, WorkerInv, TypeOK, LogType
<1>5. ~ PendingJ(t) /\ ~ PendingK(t) /\ PendingJ(t)' /\ ~ PendingK(t)'
  BY <1>0, <1>4 DEF PendingJ, PendingK
<1>6. ASSUME NEW r \in Records, r = j PROVE CommittedValue(r)' = CommittedValue(r)
  <2>1. CommittedValue(r) = records[r]
    BY <1>1, <1>5, <1>6, NothingPending DEF SerialInv, WritesJ, WritesK
  <2>2. CommittedFacts'
    BY CommittedCasesNext
  <2>3. CommittedValue(r)' = Wrap(v - d)
    BY <1>3, <1>4, <1>5, <1>6, <2>2 DEF CommittedFacts, Wrap, MinInt
  <2> QED
    BY <1>1, <1>2, <1>6, <2>1, <2>3
<1>7. ASSUME NEW r \in Records, r # j PROVE CommittedValue(r)' = CommittedValue(r)
  BY <1>4, <1>5, <1>7, SameWrites DEF WritesJ, WritesK
<1> QED
  BY <1>6, <1>7 DEF Quiet

\* So is the decrement of k.
LEMMA StoreSecondIsQuiet ==
    ASSUME SerialInv, WorkerInv', NEW t \in Threads, StoreSecond(t), Frame(t)
    PROVE  Quiet
<1> DEFINE d == log[t].value_of_i
           v == Wrap(log[t].old_value - d)
           k == log[t].k
<1>0. /\ pc[t] = "store" /\ log[t].phase = "SECOND_WRITE" /\ pc' = [pc EXCEPT ![t] = "commit"]
      /\ records' = [records EXCEPT ![k] = v]
      /\ log' = [log EXCEPT ![t].value_of_k = v, ![t].phase = "COMMIT"]
  BY DEF StoreSecond, At, Goto
<1>1. /\ k \in Records /\ held[t][k] = "WRITE" /\ records[k] = log[t].old_value
      /\ log[t].j # k
  BY <1>0 DEF SerialInv, WorkerInv, PhaseOK, LocksOK, OwnsK, ValuesOK, Target
<1>2. /\ log[t].old_value \in Values /\ d \in Values /\ Wrap(v + d) = log[t].old_value
  BY WrapFacts DEF SerialInv, WorkerInv, TypeOK, LogType
<1> HIDE DEF v
<1>4. /\ pc'[t] = "commit" /\ log'[t].phase = "COMMIT"
      /\ log'[t].j = log[t].j /\ log'[t].k = k /\ log'[t].value_of_i = d
      /\ records'[k] = v /\ \A r \in Records : r # k => records'[r] = records[r]
  BY <1>0, <1>1 DEF SerialInv, WorkerInv, TypeOK, LogType
<1>5. PendingJ(t) /\ ~ PendingK(t) /\ PendingJ(t)' /\ PendingK(t)'
  BY <1>0, <1>4 DEF PendingJ, PendingK
<1>6. ASSUME NEW r \in Records, r = k PROVE CommittedValue(r)' = CommittedValue(r)
  <2>1. CommittedValue(r) = records[r]
    BY <1>1, <1>5, <1>6, NothingPending DEF SerialInv, WritesJ, WritesK
  <2>2. CommittedFacts'
    BY CommittedCasesNext
  <2>3. CommittedValue(r)' = Wrap(v + d)
    BY <1>4, <1>5, <1>6, <2>2 DEF CommittedFacts, Wrap, MinInt
  <2> QED
    BY <1>1, <1>2, <1>6, <2>1, <2>3
<1>7. ASSUME NEW r \in Records, r # k PROVE CommittedValue(r)' = CommittedValue(r)
  BY <1>4, <1>5, <1>7, SameWrites DEF WritesJ, WritesK
<1> QED
  BY <1>6, <1>7 DEF Quiet

\* rollback takes a pending write back by writing the committed value.
LEMMA RollbackCommitIsQuiet ==
    ASSUME SerialInv, WorkerInv', NEW t \in Threads, RollbackCommit(t), Frame(t)
    PROVE  Quiet
<1> DEFINE v == Wrap(records[log[t].k] + log[t].value_of_i)
           k == log[t].k
<1>0. /\ pc[t] = "rollback_commit" /\ pc' = [pc EXCEPT ![t] = "rollback_second_write"]
      /\ records' = [records EXCEPT ![k] = v] /\ log' = log
  BY DEF RollbackCommit, At, Goto
<1>1. /\ k \in Records /\ held[t][k] = "WRITE" /\ log[t].j # k /\ PendingJ(t) /\ PendingK(t)
  BY <1>0 DEF SerialInv, WorkerInv, PhaseOK, PhasesAt, LocksOK, OwnsK, PendingJ, PendingK
<1>2. CommittedValue(k) = v
  BY <1>1, CommittedCases DEF CommittedFacts, SerialInv
<1> HIDE DEF v
<1>4. /\ pc'[t] = "rollback_second_write"
      /\ records'[k] = v /\ \A r \in Records : r # k => records'[r] = records[r]
  BY <1>0, <1>1 DEF SerialInv, WorkerInv, TypeOK
<1>5. PendingJ(t)' /\ ~ PendingK(t)'
  BY <1>0, <1>1, <1>4 DEF PendingJ, PendingK
<1>6. ASSUME NEW r \in Records, r = k PROVE CommittedValue(r)' = CommittedValue(r)
  <2>1. CommittedValue(r)' = records'[r]
    BY <1>0, <1>1, <1>5, <1>6, NothingPending DEF SerialInv, WritesJ, WritesK
  <2> QED
    BY <1>2, <1>4, <1>6, <2>1
<1>7. ASSUME NEW r \in Records, r # k PROVE CommittedValue(r)' = CommittedValue(r)
  BY <1>0, <1>1, <1>4, <1>5, <1>7, SameWrites DEF WritesJ, WritesK
<1> QED
  BY <1>6, <1>7 DEF Quiet

LEMMA RollbackSecondWriteIsQuiet ==
    ASSUME SerialInv, WorkerInv', NEW t \in Threads, RollbackSecondWrite(t), Frame(t)
    PROVE  Quiet
<1> DEFINE v == Wrap(records[log[t].j] - Wrap(log[t].value_of_i + 1))
           j == log[t].j
<1>0. /\ pc[t] = "rollback_second_write" /\ pc' = [pc EXCEPT ![t] = "rollback_first_write"]
      /\ records' = [records EXCEPT ![j] = v] /\ log' = log
  BY DEF RollbackSecondWrite, At, Goto
<1>1. /\ j \in Records /\ held[t][j] = "WRITE" /\ PendingJ(t) /\ ~ PendingK(t)
  BY <1>0 DEF SerialInv, WorkerInv, PhaseOK, PhasesAt, LocksOK, OwnsJ, PendingJ, PendingK
<1>2. CommittedValue(j) = v
  BY <1>1, CommittedCases DEF CommittedFacts, SerialInv
<1> HIDE DEF v
<1>4. /\ pc'[t] = "rollback_first_write"
      /\ records'[j] = v /\ \A r \in Records : r # j => records'[r] = records[r]
  BY <1>0, <1>1 DEF SerialInv, WorkerInv, TypeOK
<1>5. ~ PendingJ(t)' /\ ~ PendingK(t)'
  BY <1>4 DEF PendingJ, PendingK
<1>6. ASSUME NEW r \in Records, r = j PROVE CommittedValue(r)' = CommittedValue(r)
  <2>1. CommittedValue(r)' = records'[r]
    BY <1>1, <1>5, <1>6, NothingPending DEF SerialInv, WritesJ, WritesK
  <2> QED
    BY <1>2, <1>4, <1>6, <2>1
<1>7. ASSUME NEW r \in Records, r # j PROVE CommittedValue(r)' = CommittedValue(r)
  BY <1>0, <1>1, <1>4, <1>5, <1>7, SameWrites DEF WritesJ, WritesK
<1> QED
  BY <1>6, <1>7 DEF Quiet

LEMMA ThreeRecords ==
    ASSUME NEW a, NEW b, NEW c, a # b, a # c, b # c
    PROVE  Cardinality({a, b, c}) = 3
<1>1. IsFiniteSet({a}) /\ Cardinality({a}) = 1
  BY FS_Singleton
<1>2. b \notin {a} /\ c \notin {a} \cup {b}
  OBVIOUS
<1>3. IsFiniteSet({a} \cup {b}) /\ Cardinality({a} \cup {b}) = 1 + 1
  BY <1>1, <1>2, FS_AddElement
<1>4. Cardinality(({a} \cup {b}) \cup {c}) = 1 + 1 + 1
  BY <1>2, <1>3, FS_AddElement
<1>5. {a, b, c} = ({a} \cup {b}) \cup {c}
  OBVIOUS
<1>6. 1 + 1 + 1 = 3
  OBVIOUS
<1> QED
  BY <1>4, <1>5, <1>6

\* A transaction of the abstract store, on three records.
SerialCommit ==
    \E i, j, k \in Records : i # j /\ i # k /\ j # k /\ Serial!Commit(i, j, k)

LEMMA SerialCommitNext == SerialCommit => Serial!Next
BY DEF SerialCommit, Serial!Next

\* A commit is a transaction of the abstract store.
LEMMA CommitIsSerial ==
    ASSUME SerialInv, WorkerInv', NEW t \in Threads, Commit(t), Frame(t),
           global_execution_order + 1 <= E
    PROVE  SerialCommit
<1> DEFINE i == log[t].i
           j == log[t].j
           k == log[t].k
           id == global_execution_order + 1
           store == [r \in Records |-> CommittedValue(r)]
<1>0. /\ pc[t] = "commit" /\ pc' = [pc EXCEPT ![t] = "unlock_i"]
      /\ records' = records /\ log' = log
  BY DEF Commit, At, Goto
<1>1. /\ i \in Records /\ j \in Records /\ k \in Records /\ i # j /\ i # k /\ j # k
      /\ held[t][i] = "READ" /\ held[t][j] = "WRITE" /\ held[t][k] = "WRITE"
      /\ log[t].phase = "COMMIT"
  BY <1>0 DEF SerialInv, WorkerInv, PhaseOK, PhasesAt, LocksOK, OwnsI, OwnsJ, OwnsK
<1>2. PendingJ(t) /\ PendingK(t)
  BY <1>0, <1>1 DEF PendingJ, PendingK
<1>3. /\ log[t].value_of_i = records[i] /\ log[t].value_of_j = records[j]
      /\ log[t].value_of_k = records[k]
  BY <1>0, <1>1, <1>2 DEF SerialInv, ValuesOK, OwnsI
<1>4. pc'[t] = "unlock_i"
  BY <1>0 DEF SerialInv, WorkerInv, TypeOK
<1>5. ~ PendingJ(t)' /\ ~ PendingK(t)'
  BY <1>4 DEF PendingJ, PendingK
<1>6. ASSUME NEW r \in Records
      PROVE  CommittedValue(r)' = IF r \in {j, k} THEN records[r] ELSE CommittedValue(r)
  <2>1. CASE r \in {j, k}
    BY <1>0, <1>1, <1>5, <2>1, NothingPending DEF SerialInv, WritesJ, WritesK
  <2>2. CASE r \notin {j, k}
    BY <1>0, <1>5, <2>2, SameWrites DEF WritesJ, WritesK
  <2> QED
    BY <2>1, <2>2
<1>7. CommittedFacts
  BY CommittedCases DEF SerialInv
<1>8. /\ CommittedValue(i) = records[i]
      /\ CommittedValue(j) = Wrap(records[j] - Wrap(records[i] + 1))
      /\ CommittedValue(k) = Wrap(records[k] + records[i])
  <2>1. \A u \in Threads : ~ WritesJ(u, i) /\ ~ WritesK(u, i)
    <3> TAKE u \in Threads
    <3>1. CASE u = t
      BY <1>1, <3>1 DEF WritesJ, WritesK
    <3>2. CASE u # t
      BY <1>1, <3>2, WriterAlone, PendingIsLocked DEF WritesJ, WritesK, SerialInv
    <3> QED
      BY <3>1, <3>2
  <2> QED
    BY <1>1, <1>2, <1>3, <1>7, <2>1 DEF CommittedFacts, WritesJ, WritesK
<1>9. /\ Wrap(CommittedValue(j) + Wrap(records[i] + 1)) = records[j]
      /\ Wrap(CommittedValue(k) - records[i]) = records[k]
  <2>1. \A r \in {i, j, k} : records[r] \in Values
    BY <1>1 DEF SerialInv, WorkerInv, TypeOK
  <2>2. Wrap(records[i] + 1) \in Values
    BY <2>1, WrapFacts
  <2> QED
    BY <1>8, <2>1, <2>2, WrapBack
<1>10. Cardinality({i, j, k}) = 3
  <2>1. \A a, b, c : a # b /\ a # c /\ b # c => Cardinality({a, b, c}) = 3
    BY ThreeRecords
  <2>2. i # j /\ i # k /\ j # k
    BY <1>1
  <2> HIDE DEF i, j, k
  <2> QED
    BY <2>1, <2>2, Zenon
<1>11. /\ Cardinality(committed) + 1 = id
       /\ committed' = committed \cup {LogLine(t, id)}
  BY CommitCounts
<1>12. store' = [store EXCEPT ![j] = records[j], ![k] = records[k]]
  BY <1>1, <1>6
<1>13. Serial!Commit(i, j, k)
  <2>1. /\ store[i] = records[i]
        /\ Wrap(store[j] + Wrap(store[i] + 1)) = records[j]
        /\ Wrap(store[k] - store[i]) = records[k]
    BY <1>1, <1>8, <1>9
  <2>2. LogLine(t, id) = [commit_id |-> id, i |-> i, j |-> j, k |-> k,
           value_of_i |-> records[i], value_of_j |-> records[j], value_of_k |-> records[k]]
    BY <1>3 DEF LogLine
  <2> HIDE DEF store, i, j, k, id
  <2> QED
    BY <1>10, <1>11, <1>12, <2>1, <2>2, SerialOperators DEF Serial!Commit, store, id
<1> QED
  BY <1>1, <1>13 DEF SerialCommit

\* Every step of a worker is a transaction of the abstract store or leaves
\* the store and the log lines alone.
LEMMA StepIsSerial ==
    ASSUME SerialInv, WorkerInv', NEW t \in Threads, Step(t) \/ SpuriousWakeup(t)
    PROVE  SerialCommit \/ (Quiet /\ committed' = committed)
<1>0. Frame(t)
  BY StepFrame DEF SerialInv
<1>1. CASE Commit(t) /\ global_execution_order + 1 <= E
  BY <1>0, <1>1, CommitIsSerial
<1>2. CASE ~ (Commit(t) /\ global_execution_order + 1 <= E)
  <2>1. committed' = committed
    BY <1>2, StepFinishes DEF Commit
  <2>2. Quiet
    BY <1>0, <1>2, ControlIsQuiet, StoreFirstIsQuiet, StoreSecondIsQuiet, RollbackCommitIsQuiet,
       RollbackSecondWriteIsQuiet
    DEF Step
  <2> QED
    BY <2>1, <2>2
<1> QED
  BY <1>1, <1>2

LEMMA NextIsSerial ==
    ASSUME SerialInv, WorkerInv', [Next]_vars
    PROVE  SerialCommit \/ (Quiet /\ committed' = committed)
<1>1. CASE UNCHANGED vars
  BY <1>1 DEF vars, dataVars, Quiet, CommittedValue, PendingJ, PendingK, Wrap, MinInt
<1>2. ASSUME NEW t \in Threads, Step(t) \/ SpuriousWakeup(t)
      PROVE  SerialCommit \/ (Quiet /\ committed' = committed)
  BY <1>2, StepIsSerial
<1> QED
  BY <1>1, <1>2 DEF Next, Ended

\* The committed values are the initial ones at the start.
LEMMA InitStore == Init => \A r \in Records : CommittedValue(r) = InitialValue
<1> SUFFICES ASSUME Init PROVE \A r \in Records : CommittedValue(r) = InitialValue
  OBVIOUS
<1>1. \A t \in Threads : ~ PendingJ(t) /\ ~ PendingK(t)
  BY DEF Init, PendingJ, PendingK
<1>2. CommittedFacts
  BY InitInv, CommittedCases
<1> QED
  BY <1>1, <1>2 DEF CommittedFacts, Init

\* The transactions of transaction.cc are serializable in the order of their
\* commit ids, every log line holds the values of that serial execution, and
\* a transaction that is rolled back, for a deadlock or for want of a commit
\* id, leaves no trace.
THEOREM TransactionsSerializable == Spec => Serializable
<1> DEFINE store == [r \in Records |-> CommittedValue(r)]
<1>1. Init => Serial!Init
  BY InitStore DEF Serial!Init, Init
<1>2. SerialInv /\ SerialInv' /\ [Next]_vars => [Serial!Next]_<<store, committed>>
  <2> SUFFICES ASSUME SerialInv, SerialInv', [Next]_vars
               PROVE  Serial!Next \/ (Quiet /\ committed' = committed)
    BY DEF Quiet
  <2> QED
    BY NextIsSerial, SerialCommitNext DEF SerialInv
<1>3. Spec => Serial!Spec
  BY <1>1, <1>2, SerialInvariant, PTL DEF Spec, Serial!Spec
<1> QED
  BY <1>3 DEF Serializable

-----------------------------------------------------------------------------
(* The replay of marking/main.cc *)

\* f is the replay of the log lines, as the recursive function of Replay.
IsReplay(f) ==
    f = [n \in 0..Cardinality(committed) |->
            IF n = 0 THEN [r \in Records |-> InitialValue]
                     ELSE Replayed(f[n - 1], Line(n))]

\* The replay ends with the committed values and meets those of the lines.
Accepts(f) ==
    /\ f[Cardinality(committed)] = [r \in Records |-> CommittedValue(r)]
    /\ \A line \in committed :
          /\ line.value_of_i = f[line.commit_id - 1][line.i]
          /\ line.value_of_j = f[line.commit_id][line.j]
          /\ line.value_of_k = f[line.commit_id][line.k]

\* A commit id is on one line, so that the line to replay next is determined.
IdsDiffer == \A l, m \in committed : l.commit_id = m.commit_id => l = m

\* Every step that commits makes the replay longer by its line: an induction
\* over the steps of the program takes the place of one over the log.
ReplayInv ==
    /\ IdsDiffer
    /\ \E f : IsReplay(f)
    /\ \A f : IsReplay(f) => Accepts(f)

LEMMA LineIs == ASSUME IdsDiffer, NEW l \in committed PROVE Line(l.commit_id) = l
BY DEF IdsDiffer, Line

LEMMA LineIsNext == ASSUME IdsDiffer', NEW l \in committed' PROVE Line(l.commit_id)' = l
BY DEF IdsDiffer, Line

LEMMA ReplayInit == Init => ReplayInv
<1> SUFFICES ASSUME Init PROVE ReplayInv
  OBVIOUS
<1> DEFINE S == [r \in Records |-> InitialValue]
<1>1. committed = {} /\ Cardinality(committed) = 0
  BY FS_EmptySet DEF Init
<1>2. S = [r \in Records |-> CommittedValue(r)]
  BY InitStore
<1>3. \A f : IsReplay(f) <=> f = [n \in 0..0 |-> S]
  <2>1. ASSUME NEW f
        PROVE  [n \in 0..0 |-> IF n = 0 THEN S ELSE Replayed(f[n - 1], Line(n))] = [n \in 0..0 |-> S]
    OBVIOUS
  <2> QED
    BY <1>1, <2>1 DEF IsReplay
<1>4. \A f : IsReplay(f) => Accepts(f)
  BY <1>1, <1>2, <1>3 DEF Accepts
<1> QED
  BY <1>1, <1>3, <1>4 DEF ReplayInv, IdsDiffer

LEMMA QuietReplay ==
    ASSUME ReplayInv, Quiet, committed' = committed
    PROVE  ReplayInv'
<1>1. \A n : Line(n)' = Line(n)
  BY DEF Line
<1>2. \A f, n : Replayed(f, n)' = Replayed(f, n)
  BY DEF Replayed, Wrap, MinInt
<1>3. \A f : IsReplay(f)' <=> IsReplay(f)
  BY <1>1, <1>2 DEF IsReplay
<1>4. [r \in Records |-> CommittedValue(r)]' = [r \in Records |-> CommittedValue(r)]
  BY DEF Quiet
<1>5. \A f : Accepts(f)' <=> Accepts(f)
  BY <1>4 DEF Accepts
<1> QED
  BY <1>3, <1>5 DEF ReplayInv, IdsDiffer

\* The replay g of the log with the new line is that of the log before, and
\* one more line.
LEMMA CommitReplay ==
    ASSUME SerialInv, SerialInv', ReplayInv, SerialCommit
    PROVE  ReplayInv'
<1>1. PICK i, j, k \in Records : i # j /\ i # k /\ j # k /\ Serial!Commit(i, j, k)
  BY DEF SerialCommit
<1>c. PICK c : c = Cardinality(committed)
  OBVIOUS
<1> DEFINE store == [r \in Records |-> CommittedValue(r)]
           vi == store[i]
           vj == Wrap(store[j] + Wrap(vi + 1))
           vk == Wrap(store[k] - vi)
           line == [commit_id |-> c + 1, i |-> i, j |-> j, k |-> k,
                    value_of_i |-> vi, value_of_j |-> vj, value_of_k |-> vk]
           start == [r \in Records |-> InitialValue]
<1>2. /\ committed' = committed \cup {line}
      /\ store' = [store EXCEPT ![j] = vj, ![k] = vk]
  BY <1>1, <1>c, SerialOperators DEF Serial!Commit
<1>3. /\ c \in Nat /\ IsFiniteSet(committed)
      /\ {l.commit_id : l \in committed} = 1..c
  BY <1>c, FS_CardinalityType DEF SerialInv, CommitsOK
<1>4. \A l \in committed : l.commit_id \in 1..c
  BY <1>3
<1>5. line.commit_id = c + 1 /\ line \notin committed
  BY <1>3, <1>4
<1>6. Cardinality(committed') = c + 1
  BY <1>2, <1>3, <1>5, <1>c, FS_AddElement
<1>7. IdsDiffer'
  BY <1>2, <1>3, <1>4, <1>5 DEF IdsDiffer, ReplayInv
<1>8. \A n \in 1..c : Line(n)' = Line(n)
  <2> SUFFICES ASSUME NEW n \in 1..c PROVE Line(n)' = Line(n)
    OBVIOUS
  <2>1. PICK l \in committed : l.commit_id = n
    BY <1>3
  <2>2. Line(n) = l
    BY <2>1, LineIs DEF ReplayInv
  <2>3. Line(n)' = l
    BY <1>2, <1>7, <2>1, LineIsNext
  <2> QED
    BY <2>2, <2>3
<1>9. Line(c + 1)' = line
  BY <1>2, <1>5, <1>7, LineIsNext
<1>10. Replayed(store, line) = store'
  <2>1. line.i = i /\ line.j = j /\ line.k = k /\ store \in [Records -> {store[r] : r \in Records}]
    OBVIOUS
  <2> HIDE DEF line, store
  <2> QED
    BY <1>1, <1>2, <2>1 DEF Replayed
<1>11. \A f, l : Replayed(f, l)' = Replayed(f, l)
  BY DEF Replayed, Wrap, MinInt
<1>12. \E g : IsReplay(g)'
  <2>1. PICK f : IsReplay(f)
    BY DEF ReplayInv
  <2>g. PICK g : g = [n \in 0..(c + 1) |-> IF n = c + 1 THEN Replayed(f[c], line) ELSE f[n]]
    OBVIOUS
  <2>2. ASSUME NEW n \in 0..(c + 1)
        PROVE  g[n] = IF n = 0 THEN start ELSE Replayed(g[n - 1], Line(n)')
    <3> HIDE DEF line, start
    <3>1. CASE n = 0
      BY <1>3, <1>c, <2>1, <2>g, <3>1 DEF IsReplay, start
    <3>2. CASE n \in 1..c
      <4>1. f[n] = Replayed(f[n - 1], Line(n))
        BY <1>3, <1>c, <2>1, <3>2 DEF IsReplay
      <4>2. g[n] = f[n] /\ g[n - 1] = f[n - 1]
        BY <1>3, <2>g, <3>2
      <4> QED
        BY <1>3, <1>8, <3>2, <4>1, <4>2
    <3>3. CASE n = c + 1
      <4>1. g[n] = Replayed(f[c], line) /\ g[n - 1] = f[c]
        BY <1>3, <2>g, <3>3
      <4> QED
        BY <1>3, <1>9, <3>3, <4>1
    <3> QED
      BY <1>3, <3>1, <3>2, <3>3
  <2>3. g = [n \in 0..(c + 1) |-> IF n = 0 THEN start ELSE Replayed(g[n - 1], Line(n)')]
    <3>1. g = [n \in 0..(c + 1) |-> g[n]]
      BY <2>g
    <3> HIDE DEF start, line
    <3> QED
      BY <2>2, <3>1
  <2>4. IsReplay(g)'
    BY <1>6, <1>11, <2>3 DEF IsReplay
  <2> QED
    BY <2>4
<1>13. ASSUME NEW g, IsReplay(g)' PROVE Accepts(g)'
  <2> DEFINE f == [n \in 0..c |-> g[n]]
  <2>1. g = [n \in 0..(c + 1) |-> IF n = 0 THEN start ELSE Replayed(g[n - 1], Line(n)')]
    BY <1>6, <1>11, <1>13 DEF IsReplay
  <2>2. ASSUME NEW n \in 0..c
        PROVE  f[n] = IF n = 0 THEN start ELSE Replayed(f[n - 1], Line(n))
    <3>1. g[n] = IF n = 0 THEN start ELSE Replayed(g[n - 1], Line(n)')
      <4> HIDE DEF start
      <4> QED
        BY <1>3, <2>1
    <3>2. f[n] = g[n] /\ (n # 0 => f[n - 1] = g[n - 1] /\ n \in 1..c)
      BY <1>3
    <3> HIDE DEF f, start
    <3> QED
      BY <1>8, <3>1, <3>2
  <2>3. IsReplay(f)
    <3>1. f = [n \in 0..c |-> f[n]]
      OBVIOUS
    <3>2. f = [n \in 0..c |-> IF n = 0 THEN start ELSE Replayed(f[n - 1], Line(n))]
      <4> HIDE DEF f, start
      <4> QED
        BY <2>2, <3>1
    <3> QED
      BY <1>c, <3>2 DEF IsReplay
  <2>4. Accepts(f)
    BY <2>3 DEF ReplayInv
  <2>5. g[c] = store
    BY <1>3, <1>c, <2>4 DEF Accepts
  <2>6. g[c + 1] = store'
    <3>1. g[c + 1] = Replayed(g[c], Line(c + 1)')
      <4> HIDE DEF start
      <4>1. c + 1 \in 0..(c + 1) /\ c + 1 # 0 /\ (c + 1) - 1 = c
        BY <1>3
      <4>2. g[c + 1] = Replayed(g[(c + 1) - 1], Line(c + 1)')
        BY <2>1, <4>1
      <4> QED
        BY <4>1, <4>2
    <3> HIDE DEF line, store
    <3> QED
      BY <1>9, <1>10, <2>5, <3>1
  <2>7. ASSUME NEW l \in committed
        PROVE  /\ l.value_of_i = g[l.commit_id - 1][l.i]
               /\ l.value_of_j = g[l.commit_id][l.j]
               /\ l.value_of_k = g[l.commit_id][l.k]
    <3>1. f[l.commit_id - 1] = g[l.commit_id - 1] /\ f[l.commit_id] = g[l.commit_id]
      BY <1>3, <1>4
    <3> HIDE DEF f
    <3> QED
      BY <2>4, <3>1 DEF Accepts
  <2>8. /\ line.value_of_i = g[line.commit_id - 1][line.i]
        /\ line.value_of_j = g[line.commit_id][line.j]
        /\ line.value_of_k = g[line.commit_id][line.k]
    <3>1. store'[j] = vj /\ store'[k] = vk
      <4>1. store \in [Records -> {store[r] : r \in Records}]
        OBVIOUS
      <4> HIDE DEF store, vj, vk
      <4> QED
        BY <1>1, <1>2, <4>1
    <3>2. line.commit_id - 1 = c
      BY <1>3
    <3> HIDE DEF store, vi, vj, vk
    <3> QED
      BY <2>5, <2>6, <3>1, <3>2 DEF vi
  <2>9. ASSUME NEW l \in committed'
        PROVE  /\ l.value_of_i = g[l.commit_id - 1][l.i]
               /\ l.value_of_j = g[l.commit_id][l.j]
               /\ l.value_of_k = g[l.commit_id][l.k]
    <3> HIDE DEF line
    <3> QED
      BY <1>2, <2>7, <2>8
  <2> QED
    BY <1>6, <2>6, <2>9 DEF Accepts
<1> QED
  BY <1>7, <1>12, <1>13 DEF ReplayInv

\* The records that marking computes by running the log lines one at a time
\* in the order of their commit ids are the committed values, at any time.
THEOREM ReplayInvariant == Spec => []ReplayInv
<1>1. SerialInv /\ SerialInv' /\ ReplayInv /\ [Next]_vars => ReplayInv'
  <2> SUFFICES ASSUME SerialInv, SerialInv', ReplayInv, [Next]_vars PROVE ReplayInv'
    OBVIOUS
  <2>1. SerialCommit \/ (Quiet /\ committed' = committed)
    BY NextIsSerial DEF SerialInv
  <2> QED
    BY <2>1, CommitReplay, QuietReplay
<1> QED
  BY <1>1, ReplayInit, SerialInvariant, PTL DEF Spec

LEMMA ReplayAccepted == ReplayInv => Accepts(Replay)
<1>1. Replay = CHOOSE f : IsReplay(f)
  BY DEF Replay, IsReplay
<1> QED
  BY <1>1, Zenon DEF ReplayInv

\* marking/main.cc accepts the log files of any run of the workers of
\* transaction.cc, finished or not: the commit ids have no gap, and every line
\* holds the values that the replay computes.
THEOREM MarkingAcceptsLogs == Spec => []MarkingAccepts
<1>1. SerialInv /\ ReplayInv => MarkingAccepts
  BY ReplayAccepted DEF SerialInv, CommitsOK, Accepts, MarkingAccepts
<1> QED
  BY <1>1, SerialInvariant, ReplayInvariant, PTL

\* When main has joined every worker, all E commit ids are used, no write of
\* a failed transaction is left in the records, and the lock table is as it
\* was at the start.
LEMMA AllJoined ==
    ASSUME Threads # {}, SerialInv, AllDone
    PROVE  /\ Cardinality(committed) = E
           /\ \A r \in Records : records[r] = CommittedValue(r)
           /\ LT!Init
<1>0. \A t \in Threads : pc[t] = "done" /\ log[t].phase = "INVALID" /\ PhaseOK(t) /\ LocksOK(t)
  BY DEF SerialInv, WorkerInv, AllDone, At, PhaseOK, PhasesAt
<1>1. Cardinality(committed) = E
  <2>1. PICK t \in Threads : TRUE
    OBVIOUS
  <2>2. global_execution_order > E
    BY <1>0, <2>1 DEF SerialInv, CommitsOK
  <2>3. ~ (global_execution_order <= E)
    BY <2>2, EAssumption DEF SerialInv, WorkerInv, TypeOK
  <2> QED
    BY <2>3 DEF SerialInv, CommitsOK
<1>2. \A r \in Records : records[r] = CommittedValue(r)
  <2>1. \A t \in Threads : ~ PendingJ(t) /\ ~ PendingK(t)
    BY <1>0 DEF PendingJ, PendingK
  <2>2. CommittedFacts
    BY CommittedCases DEF SerialInv
  <2> QED
    BY <2>1, <2>2 DEF CommittedFacts
<1>3. L!Idle
  <2>1. ASSUME NEW t \in Threads
        PROVE  waiting[t] = NoRecord /\ \A r \in Records : held[t][r] = "NONE"
    BY <1>0, NoRecordAssumption DEF LocksOK, PhaseOK
  <2> QED
    BY <2>1 DEF L!Idle
<1>4. L!Init
  BY <1>3, LockTableAssumptions, L!IdleTable DEF SerialInv, WorkerInv
<1>5. LT!Init
  BY <1>4 DEF LT!Init, LT!NoEdges, L!Init, L!NoEdges
<1> QED
  BY <1>1, <1>2, <1>5

\* The workers of transaction.cc leave nothing behind: when main has joined
\* them, E transactions are committed, the records are what marking computes
\* from the log lines, and the lock table is as it was at the start.
THEOREM QuietEnd == ASSUME Threads # {} PROVE Spec => []QuiescentAtEnd
<1>1. SerialInv /\ ReplayInv => QuiescentAtEnd
  <2> SUFFICES ASSUME SerialInv, ReplayInv, AllDone
               PROVE  Cardinality(committed) = E /\ records = Replay[E] /\ LT!Init
    BY DEF QuiescentAtEnd
  <2>1. /\ Cardinality(committed) = E /\ LT!Init
        /\ \A r \in Records : records[r] = CommittedValue(r)
    BY AllJoined
  <2>2. Replay[E] = [r \in Records |-> CommittedValue(r)]
    BY <2>1, ReplayAccepted DEF Accepts
  <2>3. records = [r \in Records |-> records[r]]
    BY DEF SerialInv, WorkerInv, TypeOK
  <2> QED
    BY <2>1, <2>2, <2>3
<1> QED
  BY <1>1, SerialInvariant, ReplayInvariant, PTL

-----------------------------------------------------------------------------
(* The wait-for graph.  The rest of the module is about DirectedGraph: the  *)
(* vectors represent the graph of WaitForGraph that the lock table works    *)
(* with, and the depth-first search answers as W!HasCycle does, for any set *)
(* of nodes.                                                                *)

Frames == [node : Nodes, n : Nat]

GraphTypeOK ==
    /\ nodes \in [Nodes -> Seq(Nodes)]
    /\ search \in {"idle", "down", "up", "done"}
    /\ stack \in Seq(Frames)
    /\ visited \subseteq Nodes
    /\ cycle_member_nodes \in Seq(Nodes)
    /\ search # "idle" => Len(stack) >= 1

\* No destination is listed twice, and no node is its own destination.
SimpleGraph ==
    \A a \in Nodes :
       /\ \A m, n \in 1..Len(nodes[a]) : nodes[a][m] = nodes[a][n] => m = n
       /\ \A m \in 1..Len(nodes[a]) : nodes[a][m] # a

\* The frames of a stack s are a path of distinct nodes; v is the set of the
\* nodes visited.
StackIsPath(s, v) ==
    /\ \A i \in 1..Len(s) : s[i].n >= 1
    /\ \A i \in 1..(Len(s) - 1) :
          /\ s[i].n <= Len(nodes[s[i].node])
          /\ s[i + 1].node = nodes[s[i].node][s[i].n]
    /\ \A i \in 2..Len(s) : s[i].node \in v /\ s[i].node # s[1].node
    /\ \A i, j \in 2..Len(s) : s[i].node = s[j].node => i = j

VisitedReached(s, v) == \A a \in v : W!Reaches(Edges, s[1].node, a)

DestsIn(a, v) == \A m \in 1..Len(nodes[a]) : nodes[a][m] \in v

\* While the search looks for from, the destinations that the loop of a frame
\* has passed are visited, and so are those of a visited node that is not on
\* the stack any more.
SearchedSoFar(s, v) ==
    /\ s[1].node \notin v
    /\ \A i \in 1..Len(s) :
          /\ s[i].n <= Len(nodes[s[i].node]) + 1
          /\ \A m \in 1..(s[i].n - 1) : nodes[s[i].node][m] \in v
    /\ \A a \in v : (\A i \in 1..Len(s) : s[i].node # a) => DestsIn(a, v)

\* While the calls return true, the vector is the end of a path that leads
\* from the next member, Dest, to from.
CycleSoFar ==
    /\ More
    /\ Dest \in visited /\ from \in visited
    /\ cycle_member_nodes = << >> => Dest = from
    /\ cycle_member_nodes # << >> =>
          /\ cycle_member_nodes[1] = from
          /\ IsEdge(Dest, cycle_member_nodes[Len(cycle_member_nodes)])
    /\ \A m \in 1..Len(cycle_member_nodes) :
          /\ cycle_member_nodes[m] \in visited
          /\ cycle_member_nodes[m] # Dest
          /\ \A i \in 2..Len(stack) : cycle_member_nodes[m] # stack[i].node
    /\ \A i \in 2..Len(stack) : Dest # stack[i].node
    /\ \A m, n \in 1..Len(cycle_member_nodes) :
          cycle_member_nodes[m] = cycle_member_nodes[n] => m = n
    /\ \A m \in 2..Len(cycle_member_nodes) :
          IsEdge(cycle_member_nodes[m], cycle_member_nodes[m - 1])

GraphInv ==
    /\ GraphTypeOK
    /\ SimpleGraph
    /\ search \in {"down", "up"} =>
          StackIsPath(stack, visited) /\ VisitedReached(stack, visited)
    /\ search = "down" =>
          SearchedSoFar(stack, visited) /\ cycle_member_nodes = << >>
    /\ search = "up" => CycleSoFar
    /\ CycleFoundIffExists
    /\ CycleIsGenuine

LEMMA EdgeFacts ==
    ASSUME nodes \in [Nodes -> Seq(Nodes)], NEW a \in Nodes
    PROVE  /\ Edges[a] = ToSet(nodes[a])
           /\ Edges[a] \subseteq Nodes
           /\ \A b : IsEdge(a, b) <=> \E m \in 1..Len(nodes[a]) : nodes[a][m] = b
           /\ \A b : b \in Edges[a] <=> \E m \in 1..Len(nodes[a]) : nodes[a][m] = b
<1>1. DOMAIN nodes[a] = 1..Len(nodes[a])
  OBVIOUS
<1>2. /\ Edges[a] = ToSet(nodes[a])
      /\ \A b : IsEdge(a, b) <=> \E m \in 1..Len(nodes[a]) : nodes[a][m] = b
  BY <1>1 DEF Edges, ToSet, IsEdge
<1>3. \A b : b \in Edges[a] <=> \E m \in 1..Len(nodes[a]) : nodes[a][m] = b
  BY <1>2, Zenon DEF IsEdge
<1>4. \A m \in 1..Len(nodes[a]) : nodes[a][m] \in Nodes
  OBVIOUS
<1>5. Edges[a] \subseteq Nodes
  BY <1>3, <1>4
<1> QED
  BY <1>2, <1>3, <1>5

\* An edge leads from a node that f reaches, or from f, to one that f reaches.
LEMMA ReachStep ==
    ASSUME nodes \in [Nodes -> Seq(Nodes)], NEW f \in Nodes, NEW a \in Nodes,
           a = f \/ W!Reaches(Edges, f, a),
           NEW m \in 1..Len(nodes[a])
    PROVE  W!Reaches(Edges, f, nodes[a][m])
<1>1. nodes[a][m] \in Edges[a]
  BY EdgeFacts
<1> QED
  BY <1>1 DEF W!Reaches, W!ClosedUnder

\* A set without f that holds the destinations of f and that no edge leaves
\* shows that there is no cycle through f.
LEMMA ClosedNoCycle ==
    ASSUME nodes \in [Nodes -> Seq(Nodes)], NEW f \in Nodes, NEW V \in SUBSET Nodes,
           f \notin V,
           \A m \in 1..Len(nodes[f]) : nodes[f][m] \in V,
           \A a \in V : \A m \in 1..Len(nodes[a]) : nodes[a][m] \in V
    PROVE  ~W!HasCycle(Edges, f)
<1>1. ASSUME NEW a \in V \cup {f}, NEW b \in Edges[a] PROVE b \in V
  <2>1. PICK m \in 1..Len(nodes[a]) : nodes[a][m] = b
    BY EdgeFacts
  <2> QED
    BY <2>1
<1> QED
  BY <1>1 DEF W!HasCycle, W!Reaches, W!ClosedUnder

LEMMA RemoveAtFacts ==
    ASSUME NEW S, NEW s \in Seq(S), NEW i \in 1..Len(s)
    PROVE  /\ RemoveAt(s, i) \in Seq(S)
           /\ Len(RemoveAt(s, i)) = Len(s) - 1
           /\ \A k \in 1..(Len(s) - 1) :
                 RemoveAt(s, i)[k] = IF k < i THEN s[k] ELSE s[k + 1]
<1> DEFINE p == SubSeq(s, 1, i - 1)
           q == SubSeq(s, i + 1, Len(s))
<1>1. p \in Seq(S) /\ Len(p) = i - 1 /\ \A k \in 1..(i - 1) : p[k] = s[k]
  OBVIOUS
<1>2. q \in Seq(S) /\ Len(q) = Len(s) - i /\ \A k \in 1..(Len(s) - i) : q[k] = s[k + i]
  <2>1. q \in Seq(S) /\ Len(q) = Len(s) - i
    OBVIOUS
  <2>2. ASSUME NEW k \in 1..(Len(s) - i) PROVE q[k] = s[k + i]
    OBVIOUS
  <2> QED
    BY <2>1, <2>2
<1>3. RemoveAt(s, i) = p \o q
  BY DEF RemoveAt
<1> HIDE DEF p, q
<1>4. Len(p \o q) = Len(s) - 1 /\ p \o q \in Seq(S)
  <2>1. p \o q \in Seq(S) /\ Len(p \o q) = Len(p) + Len(q)
    BY <1>1, <1>2, ConcatProperties, Zenon
  <2>2. (i - 1) + (Len(s) - i) = Len(s) - 1
    OBVIOUS
  <2> QED
    BY <2>1, <2>2, <1>1, <1>2
<1>5. ASSUME NEW k \in 1..(Len(s) - 1)
      PROVE  (p \o q)[k] = IF k < i THEN s[k] ELSE s[k + 1]
  <2>1. CASE k < i
    BY <2>1, <1>1, <1>2, ConcatProperties
  <2>2. CASE ~(k < i)
    <3>1. (p \o q)[k] = q[k - (i - 1)]
      BY <2>2, <1>1, <1>2, ConcatProperties
    <3>2. k - (i - 1) \in 1..(Len(s) - i)
      BY <2>2
    <3>3. q[k - (i - 1)] = s[(k - (i - 1)) + i]
      BY <3>2, <1>2
    <3> QED
      BY <3>1, <3>3, <2>2
  <2> QED
    BY <2>1, <2>2
<1> QED
  BY <1>3, <1>4, <1>5

LEMMA OneOrMore ==
    ASSUME NEW S, NEW s \in Seq(S), Len(s) >= 1
    PROVE  Len(s) = 1 \/ (Len(s) > 1 /\ Len(s) # 1)
OBVIOUS

LEMMA FrontFacts ==
    ASSUME NEW S, NEW s \in Seq(S), Len(s) >= 1
    PROVE  /\ Front(s) \in Seq(S)
           /\ Len(Front(s)) = Len(s) - 1
           /\ \A i \in 1..(Len(s) - 1) : Front(s)[i] = s[i]
<1> DEFINE k == Len(s) - 1
<1>1. k \in Nat /\ \A i \in 1..k : s[i] \in S
  OBVIOUS
<1>2. Front(s) = SubSeq(s, 1, k)
  BY DEF Front
<1> HIDE DEF k
<1>3. /\ SubSeq(s, 1, k) \in Seq(S)
      /\ Len(SubSeq(s, 1, k)) = k
      /\ \A i \in 1..k : SubSeq(s, 1, k)[i] = s[i]
  BY <1>1, SubSeqProperties
<1> QED
  BY <1>2, <1>3 DEF k

LEMMA FrameFacts ==
    ASSUME NEW s \in Seq(Frames), NEW i \in 1..Len(s)
    PROVE  s[i] \in Frames /\ s[i].node \in Nodes /\ s[i].n \in Nat
<1>1. s[i] \in Frames
  OBVIOUS
<1> QED
  BY <1>1 DEF Frames

LEMMA AdvanceFacts ==
    ASSUME NEW s \in Seq(Frames), Len(s) >= 1
    PROVE  /\ Advance(s) \in Seq(Frames)
           /\ Len(Advance(s)) = Len(s)
           /\ \A i \in 1..Len(s) : Advance(s)[i].node = s[i].node
           /\ \A i \in 1..(Len(s) - 1) : Advance(s)[i] = s[i]
           /\ Advance(s)[Len(s)].n = s[Len(s)].n + 1
<1>1. Len(s) \in 1..Len(s) /\ s[Len(s)].node \in Nodes /\ s[Len(s)].n \in Nat
  BY FrameFacts
<1> DEFINE fr == [node |-> s[Len(s)].node, n |-> s[Len(s)].n + 1]
<1>2. fr \in Frames
  BY <1>1 DEF Frames
<1>3. Advance(s) = [s EXCEPT ![Len(s)] = fr]
  BY DEF Advance, Call
<1>4. fr.node = s[Len(s)].node /\ fr.n = s[Len(s)].n + 1
  OBVIOUS
<1> HIDE DEF fr
<1> QED
  BY <1>1, <1>2, <1>3, <1>4

\* A shorter stack, or one whose loops have gone on, is a path still.
LEMMA PathPrefix ==
    ASSUME nodes \in [Nodes -> Seq(Nodes)],
           NEW s \in Seq(Frames), NEW v, StackIsPath(s, v),
           NEW r \in Seq(Frames), NEW l \in Nat, Len(r) = l, l <= Len(s),
           \A i \in 1..l : r[i].node = s[i].node /\ r[i].n >= 1,
           \A i \in 1..(l - 1) : r[i] = s[i],
           NEW w, v \subseteq w
    PROVE  StackIsPath(r, w)
<1>1. Len(s) \in Nat
  OBVIOUS
<1>2. ASSUME NEW i \in 1..(l - 1)
      PROVE  r[i].n <= Len(nodes[r[i].node]) /\ r[i + 1].node = nodes[r[i].node][r[i].n]
  <2>1. i \in 1..(Len(s) - 1) /\ i + 1 \in 1..l
    BY <1>1
  <2>2. s[i].n <= Len(nodes[s[i].node]) /\ s[i + 1].node = nodes[s[i].node][s[i].n]
    BY <2>1 DEF StackIsPath
  <2> QED
    BY <2>1, <2>2
<1>3. ASSUME NEW i \in 2..l PROVE r[i].node \in w /\ r[i].node # r[1].node
  <2>1. i \in 2..Len(s) /\ i \in 1..l /\ 1 \in 1..l
    BY <1>1
  <2> QED
    BY <2>1 DEF StackIsPath
<1>4. ASSUME NEW i \in 2..l, NEW j \in 2..l, r[i].node = r[j].node PROVE i = j
  <2>1. i \in 2..Len(s) /\ i \in 1..l /\ j \in 2..Len(s) /\ j \in 1..l
    BY <1>1
  <2> QED
    BY <2>1, <1>4 DEF StackIsPath
<1> QED
  BY <1>2, <1>3, <1>4 DEF StackIsPath

\* d is the destination that the innermost loop of s has come to.
AtDest(s, d) ==
    /\ s[Len(s)].n <= Len(nodes[s[Len(s)].node])
    /\ d = nodes[s[Len(s)].node][s[Len(s)].n]
    /\ d # s[1].node

\* The innermost loop goes on when its destination has been visited and is
\* searched, or has no destinations itself.
LEMMA AdvanceSearched ==
    ASSUME nodes \in [Nodes -> Seq(Nodes)], NEW s \in Seq(Frames), Len(s) >= 1,
           NEW v \in SUBSET Nodes, StackIsPath(s, v), SearchedSoFar(s, v),
           NEW d \in Nodes, NEW v2 \in SUBSET Nodes, v2 = v \cup {d},
           AtDest(s, d), d \in v \/ DestsIn(d, v)
    PROVE  StackIsPath(Advance(s), v2) /\ SearchedSoFar(Advance(s), v2)
<1> DEFINE s2 == Advance(s)
           l == Len(s)
<1>1. /\ s2 \in Seq(Frames)
      /\ Len(s2) = l
      /\ \A i \in 1..l : s2[i].node = s[i].node
      /\ \A i \in 1..(l - 1) : s2[i] = s[i]
      /\ s2[l].n = s[l].n + 1
  BY AdvanceFacts
<1>2. \A i \in 1..l : s[i].node \in Nodes /\ s[i].n \in Nat /\ s[i].n >= 1
  BY FrameFacts DEF StackIsPath
<1>3. l \in Nat /\ l >= 1 /\ l = Len(s)
  OBVIOUS
<1> HIDE DEF s2, l
<1>4. StackIsPath(s2, v2)
  <2>1. ASSUME NEW i \in 1..l PROVE s2[i].n >= 1
    <3>1. CASE i = l
      <4> DEFINE k == s[l].n
      <4>1. k \in Nat /\ s2[i].n = k + 1
        BY <3>1, <1>1, <1>2
      <4> HIDE DEF k
      <4> QED
        BY <4>1
    <3>2. CASE i # l
      <4>1. s2[i] = s[i]
        BY <3>2, <1>1, <1>3
      <4> QED
        BY <4>1, <1>2
    <3> QED
      BY <3>1, <3>2
  <2>2. v \subseteq v2 /\ l <= Len(s)
    BY <1>3
  <2> QED
    BY <2>1, <2>2, <1>1, <1>3, PathPrefix
<1>5. ASSUME NEW i \in 1..l
      PROVE  /\ s2[i].n <= Len(nodes[s2[i].node]) + 1
             /\ \A m \in 1..(s2[i].n - 1) : nodes[s2[i].node][m] \in v2
  <2>0. /\ s[i].n <= Len(nodes[s[i].node]) + 1
        /\ \A m \in 1..(s[i].n - 1) : nodes[s[i].node][m] \in v
    BY <1>3 DEF SearchedSoFar
  <2>1. CASE i = l
    <3> DEFINE k == s[l].n
               q == nodes[s[l].node]
    <3>1. k \in Nat /\ s2[i].n = k + 1 /\ s2[i].node = s[l].node
      BY <2>1, <1>1, <1>2
    <3>2. q \in Seq(Nodes) /\ Len(q) \in Nat /\ k <= Len(q) /\ q[k] = d
      BY <2>1, <1>2, <1>3 DEF AtDest, l
    <3>3. \A m \in 1..(k - 1) : q[m] \in v
      BY <2>0, <2>1
    <3>4. nodes[s2[i].node] = q
      BY <3>1
    <3> HIDE DEF k, q
    <3>5. s2[i].n - 1 = k /\ s2[i].n <= Len(q) + 1
      BY <3>1, <3>2
    <3>6. ASSUME NEW m \in 1..k PROVE q[m] \in v2
      <4>1. m = k \/ m \in 1..(k - 1)
        BY <3>1
      <4> QED
        BY <4>1, <3>2, <3>3
    <3> QED
      BY <3>4, <3>5, <3>6
  <2>2. CASE i # l
    <3>1. s2[i] = s[i]
      BY <2>2, <1>1, <1>3
    <3> QED
      BY <3>1, <2>0
  <2> QED
    BY <2>1, <2>2
<1>6. ASSUME NEW a \in v2, \A i \in 1..l : s2[i].node # a
      PROVE  DestsIn(a, v2)
  <2>1. \A i \in 1..Len(s) : s[i].node # a
    BY <1>1, <1>3, <1>6
  <2>2. DestsIn(a, v)
    BY <2>1 DEF SearchedSoFar
  <2> QED
    BY <2>2 DEF DestsIn
<1>7. s2[1].node \notin v2
  BY <1>1, <1>3 DEF SearchedSoFar, AtDest
<1> QED
  BY <1>1, <1>4, <1>5, <1>6, <1>7 DEF SearchedSoFar, s2

\* A call whose loop has ended returns.
LEMMA FrontSearched ==
    ASSUME nodes \in [Nodes -> Seq(Nodes)], NEW s \in Seq(Frames), Len(s) >= 2,
           NEW v \in SUBSET Nodes, StackIsPath(s, v), SearchedSoFar(s, v),
           ~(s[Len(s)].n <= Len(nodes[s[Len(s)].node]))
    PROVE  StackIsPath(Front(s), v) /\ SearchedSoFar(Front(s), v)
<1> DEFINE s2 == Front(s)
           l == Len(s)
<1>1. s2 \in Seq(Frames) /\ Len(s2) = l - 1 /\ \A i \in 1..(l - 1) : s2[i] = s[i]
  BY FrontFacts
<1>2. \A i \in 1..l : s[i].node \in Nodes /\ s[i].n \in Nat /\ s[i].n >= 1
  BY FrameFacts DEF StackIsPath
<1>3. l \in Nat /\ l >= 2 /\ l = Len(s) /\ l - 1 \in Nat
  OBVIOUS
<1> HIDE DEF s2, l
<1>4. StackIsPath(s2, v)
  <2>1. ASSUME NEW i \in 1..(l - 1) PROVE s2[i].node = s[i].node /\ s2[i].n >= 1
    <3>1. i \in 1..l
      BY <1>3
    <3>2. s2[i] = s[i] /\ s[i].n >= 1
      BY <1>1, <1>2, <3>1
    <3> QED
      BY <3>2
  <2>2. l - 1 <= Len(s) /\ \A i \in 1..((l - 1) - 1) : s2[i] = s[i]
    BY <1>1, <1>3
  <2> QED
    BY <2>1, <2>2, <1>1, <1>3, PathPrefix
<1>5. ASSUME NEW a \in v, \A i \in 1..(l - 1) : s2[i].node # a
      PROVE  DestsIn(a, v)
  <2>1. CASE a = s[l].node
    <3> DEFINE k == s[l].n
    <3>1. k \in Nat /\ Len(nodes[a]) \in Nat /\ ~(k <= Len(nodes[a]))
      BY <2>1, <1>2, <1>3
    <3>2. \A j \in 1..(k - 1) : nodes[a][j] \in v
      <4>1. l \in 1..Len(s)
        BY <1>3
      <4> QED
        BY <4>1, <2>1 DEF SearchedSoFar
    <3> HIDE DEF k
    <3>3. \A m \in 1..Len(nodes[a]) : m \in 1..(k - 1)
      BY <3>1
    <3> QED
      BY <3>2, <3>3 DEF DestsIn
  <2>2. CASE a # s[l].node
    <3>1. ASSUME NEW i \in 1..Len(s) PROVE s[i].node # a
      <4>1. CASE i = l
        BY <4>1, <2>2
      <4>2. CASE i # l
        <5>1. i \in 1..(l - 1)
          BY <4>2, <1>3
        <5> QED
          BY <5>1, <1>1, <1>5
      <4> QED
        BY <4>1, <4>2
    <3> QED
      BY <3>1 DEF SearchedSoFar
  <2> QED
    BY <2>1, <2>2
<1>6. ASSUME NEW i \in 1..(l - 1)
      PROVE  /\ s2[i].n <= Len(nodes[s2[i].node]) + 1
             /\ \A m \in 1..(s2[i].n - 1) : nodes[s2[i].node][m] \in v
  <2>1. i \in 1..Len(s) /\ s2[i] = s[i]
    BY <1>1, <1>3
  <2> QED
    BY <2>1 DEF SearchedSoFar
<1>7. s2[1].node \notin v
  BY <1>1, <1>3 DEF SearchedSoFar
<1> QED
  BY <1>1, <1>4, <1>5, <1>6, <1>7 DEF SearchedSoFar, s2

LEMMA SearchFacts ==
    ASSUME GraphInv, search \in {"down", "up"}
    PROVE  /\ Len(stack) \in Nat /\ Len(stack) >= 1
           /\ Len(stack) = 1 \/ (Len(stack) > 1 /\ Len(stack) # 1)
           /\ from \in Nodes
           /\ Top.node \in Nodes /\ Top.n \in Nat /\ Top.n >= 1
           /\ Len(nodes[Top.node]) \in Nat
           /\ More => Dest \in Nodes /\ W!Reaches(Edges, from, Dest)
<1>1. /\ stack \in Seq(Frames) /\ Len(stack) \in Nat /\ Len(stack) >= 1
      /\ nodes \in [Nodes -> Seq(Nodes)]
      /\ StackIsPath(stack, visited) /\ VisitedReached(stack, visited)
  BY DEF GraphInv, GraphTypeOK
<1>0. Len(stack) = 1 \/ (Len(stack) > 1 /\ Len(stack) # 1)
  BY <1>1, OneOrMore
<1>2. Len(stack) \in 1..Len(stack) /\ 1 \in 1..Len(stack)
  BY <1>1
<1>3. from \in Nodes /\ Top.node \in Nodes /\ Top.n \in Nat
  BY <1>1, <1>2, FrameFacts DEF from, Top
<1>4. Top.n >= 1
  BY <1>1, <1>2 DEF StackIsPath, Top
<1>5. Top.node = from \/ W!Reaches(Edges, from, Top.node)
  <2>1. CASE Len(stack) = 1
    BY <2>1 DEF Top, from
  <2>2. CASE Len(stack) > 1
    <3>1. Len(stack) \in 2..Len(stack)
      BY <2>2, <1>1
    <3>2. Top.node \in visited
      BY <3>1, <1>1 DEF StackIsPath, Top
    <3> QED
      BY <3>2, <1>1 DEF VisitedReached, from
  <2> QED
    BY <2>1, <2>2, <1>0
<1>6. Len(nodes[Top.node]) \in Nat
  BY <1>1, <1>3
<1>7. ASSUME More PROVE Dest \in Nodes /\ W!Reaches(Edges, from, Dest)
  <2>1. Top.n \in 1..Len(nodes[Top.node])
    BY <1>3, <1>4, <1>6, <1>7 DEF More
  <2>2. Dest \in Nodes
    BY <2>1, <1>1, <1>3 DEF Dest
  <2> QED
    BY <2>1, <2>2, <1>1, <1>3, <1>5, ReachStep DEF Dest
<1> QED
  BY <1>0, <1>1, <1>3, <1>4, <1>6, <1>7

\* The edges do not change during a search.
LEMMA SameEdges ==
    ASSUME nodes' = nodes, StackIsPath(stack', visited'), VisitedReached(stack', visited')
    PROVE  StackIsPath(stack, visited)' /\ VisitedReached(stack, visited)'
<1>1. StackIsPath(stack, visited)'
  BY DEF StackIsPath
<1>2. VisitedReached(stack, visited)'
  BY DEF VisitedReached, Edges, W!Reaches, W!ClosedUnder
<1> QED
  BY <1>1, <1>2

\* A step of the search that goes on looking for from.
LEMMA DownAgain ==
    ASSUME GraphInv, nodes' = nodes, search' = "down",
           stack' \in Seq(Frames), Len(stack') >= 1, visited' \subseteq Nodes,
           cycle_member_nodes' = << >>,
           StackIsPath(stack', visited'), VisitedReached(stack', visited'),
           SearchedSoFar(stack', visited')
    PROVE  GraphInv'
<1>1. GraphTypeOK' /\ SimpleGraph'
  BY DEF GraphInv, GraphTypeOK, SimpleGraph
<1>2. SearchedSoFar(stack, visited)'
  BY DEF SearchedSoFar, DestsIn
<1>3. StackIsPath(stack, visited)' /\ VisitedReached(stack, visited)'
  BY SameEdges
<1> QED
  BY <1>1, <1>2, <1>3 DEF GraphInv, CycleFoundIffExists, CycleIsGenuine

\* What a step adds to the nodes visited is a destination of the innermost loop.
LEMMA StillReached ==
    ASSUME GraphInv, search \in {"down", "up"}, More, NEW r, r[1].node = from,
           NEW v, v \subseteq visited \cup {Dest}
    PROVE  VisitedReached(r, v)
<1>1. W!Reaches(Edges, from, Dest) /\ VisitedReached(stack, visited)
  BY SearchFacts DEF GraphInv
<1> QED
  BY <1>1 DEF VisitedReached, from

LEMMA CallDeadEndInv == ASSUME GraphInv, CallDeadEnd PROVE GraphInv'
<1>1. /\ search = "down" /\ search' = "down" /\ nodes' = nodes
      /\ More /\ visited' = visited \cup {Dest}
      /\ stack' = Advance(stack) /\ cycle_member_nodes' = cycle_member_nodes
  BY DEF CallDeadEnd, Visit
<1>2. nodes[Dest] = << >> /\ Len(nodes[Dest]) = 0
  BY DEF CallDeadEnd
<1>3. /\ stack \in Seq(Frames) /\ Len(stack) >= 1 /\ nodes \in [Nodes -> Seq(Nodes)]
      /\ visited \in SUBSET Nodes /\ cycle_member_nodes = << >>
      /\ StackIsPath(stack, visited) /\ SearchedSoFar(stack, visited)
  BY <1>1 DEF GraphInv, GraphTypeOK
<1>4. /\ Len(stack) \in Nat /\ from \in Nodes /\ Dest \in Nodes
      /\ Top.n \in Nat /\ Top.n >= 1 /\ Len(nodes[Top.node]) \in Nat
  BY <1>1, SearchFacts
<1>5. Dest # from
  <2>1. CASE Len(stack) = 1
    <3>1. Top.node = from
      BY <2>1 DEF Top, from
    <3>2. Len(nodes[from]) >= 1
      BY <3>1, <1>1, <1>4 DEF More
    <3> QED
      BY <3>2, <1>2
  <2>2. CASE Len(stack) > 1
    <3>1. Dest # from \/ nodes[from] = << >>
      BY <1>2
    <3>2. Len(nodes[from]) >= 1
      <4>1. 1 \in 1..(Len(stack) - 1) /\ 1 \in 1..Len(stack)
        BY <2>2, <1>3, <1>4
      <4>2. stack[1].n >= 1 /\ stack[1].n <= Len(nodes[from])
        BY <4>1, <1>3 DEF StackIsPath, from
      <4>3. stack[1].n \in Nat /\ Len(nodes[from]) \in Nat
        BY <4>1, <1>3, <1>4, FrameFacts
      <4> QED
        BY <4>2, <4>3
    <3> QED
      BY <3>1, <3>2
  <2> QED
    BY <2>1, <2>2, <1>1, SearchFacts
<1>6. visited' \in SUBSET Nodes
  BY <1>1, <1>3, <1>4
<1>7. DestsIn(Dest, visited)
  BY <1>2 DEF DestsIn
<1>8. StackIsPath(stack', visited') /\ SearchedSoFar(stack', visited')
  <2>1. /\ stack[Len(stack)].n <= Len(nodes[stack[Len(stack)].node])
        /\ Dest = nodes[stack[Len(stack)].node][stack[Len(stack)].n]
        /\ Dest # stack[1].node
    BY <1>1, <1>5 DEF More, Dest, Top, from
  <2>2. AtDest(stack, Dest)
    BY <2>1 DEF AtDest
  <2>3. /\ StackIsPath(Advance(stack), visited \cup {Dest})
        /\ SearchedSoFar(Advance(stack), visited \cup {Dest})
    BY <2>2, <1>1, <1>3, <1>4, <1>6, <1>7, AdvanceSearched
  <2> QED
    BY <2>3, <1>1
<1>9. stack' \in Seq(Frames) /\ Len(stack') >= 1 /\ stack'[1].node = from
  BY <1>1, <1>3, AdvanceFacts DEF from
<1>10. VisitedReached(stack', visited')
  BY <1>1, <1>9, StillReached
<1> QED
  BY <1>1, <1>3, <1>6, <1>8, <1>9, <1>10, DownAgain

LEMMA SkipInv == ASSUME GraphInv, Skip PROVE GraphInv'
<1>1. /\ search = "down" /\ search' = "down" /\ nodes' = nodes
      /\ More /\ visited' = visited /\ Dest \in visited
      /\ stack' = Advance(stack) /\ cycle_member_nodes' = cycle_member_nodes
  BY DEF Skip
<1>2. /\ stack \in Seq(Frames) /\ Len(stack) >= 1 /\ nodes \in [Nodes -> Seq(Nodes)]
      /\ visited \in SUBSET Nodes /\ cycle_member_nodes = << >>
      /\ StackIsPath(stack, visited) /\ SearchedSoFar(stack, visited)
  BY <1>1 DEF GraphInv, GraphTypeOK
<1>3. Dest # from /\ visited = visited \cup {Dest}
  BY <1>1, <1>2 DEF SearchedSoFar, from
<1>4. StackIsPath(stack', visited') /\ SearchedSoFar(stack', visited')
  <2>1. AtDest(stack, Dest)
    BY <1>1, <1>3 DEF AtDest, More, Dest, Top, from
  <2>2. Dest \in Nodes
    BY <1>1, SearchFacts
  <2> QED
    BY <2>1, <2>2, <1>1, <1>2, <1>3, AdvanceSearched
<1>5. stack' \in Seq(Frames) /\ Len(stack') >= 1 /\ stack'[1].node = from
  BY <1>1, <1>2, AdvanceFacts DEF from
<1>6. VisitedReached(stack', visited')
  BY <1>1, <1>3, <1>5, StillReached
<1> QED
  BY <1>1, <1>2, <1>4, <1>5, <1>6, DownAgain

LEMMA LoopEndsInv == ASSUME GraphInv, LoopEnds PROVE GraphInv'
<1>1. /\ search = "down" /\ nodes' = nodes /\ ~More /\ visited' = visited
      /\ cycle_member_nodes' = cycle_member_nodes
  BY DEF LoopEnds
<1>2. /\ stack \in Seq(Frames) /\ Len(stack) >= 1 /\ nodes \in [Nodes -> Seq(Nodes)]
      /\ visited \in SUBSET Nodes /\ cycle_member_nodes = << >>
      /\ StackIsPath(stack, visited) /\ SearchedSoFar(stack, visited)
      /\ VisitedReached(stack, visited)
  BY <1>1 DEF GraphInv, GraphTypeOK
<1>3. /\ Len(stack) \in Nat /\ from \in Nodes /\ Top.node \in Nodes
      /\ Len(stack) = 1 \/ Len(stack) > 1
      /\ Top.n \in Nat /\ Len(nodes[Top.node]) \in Nat
  BY <1>1, SearchFacts
<1>4. CASE Len(stack) = 1
  <2>1. search' = "done" /\ stack' = stack
    BY <1>4 DEF LoopEnds
  <2>2. Top.node = from
    BY <1>4 DEF Top, from
  <2>3. DestsIn(from, visited)
    <3>1. \A m \in 1..(Top.n - 1) : nodes[from][m] \in visited
      <4>1. 1 \in 1..Len(stack) /\ Top = stack[1]
        BY <1>4 DEF Top
      <4> QED
        BY <4>1, <1>2 DEF SearchedSoFar, from
    <3>2. Top.n > Len(nodes[from])
      BY <2>2, <1>1, <1>3 DEF More
    <3>3. \A m \in 1..Len(nodes[from]) : m \in 1..(Top.n - 1)
      BY <3>2, <2>2, <1>3
    <3> QED
      BY <3>1, <3>3 DEF DestsIn
  <2>4. ASSUME NEW a \in visited PROVE DestsIn(a, visited)
    <3>1. from # a
      BY <1>2 DEF SearchedSoFar, from
    <3>2. \A i \in 1..Len(stack) : stack[i].node # a
      BY <3>1, <1>4 DEF from
    <3> QED
      BY <3>2, <1>2 DEF SearchedSoFar
  <2>5. from \notin visited
    BY <1>2 DEF SearchedSoFar, from
  <2>6. ~W!HasCycle(Edges, from)
    BY <2>3, <2>4, <2>5, <1>2, <1>3, ClosedNoCycle DEF DestsIn
  <2>7. ~W!HasCycle(Edges, from)'
    BY <2>1, <2>6, <1>1 DEF Edges, from, W!HasCycle, W!Reaches, W!ClosedUnder
  <2>8. CycleFoundIffExists' /\ CycleIsGenuine'
    BY <2>7, <1>1, <1>2 DEF CycleFoundIffExists, CycleIsGenuine
  <2>9. GraphTypeOK' /\ SimpleGraph'
    BY <1>1, <1>2, <2>1 DEF GraphInv, GraphTypeOK, SimpleGraph
  <2> QED
    BY <2>1, <2>8, <2>9 DEF GraphInv
<1>5. CASE Len(stack) > 1
  <2> DEFINE r == Front(stack)
             l == Len(r)
  <2>1. search' = "down" /\ stack' = Advance(r)
    BY <1>1, <1>5 DEF LoopEnds
  <2>2. /\ r \in Seq(Frames) /\ l = Len(stack) - 1
        /\ \A i \in 1..(Len(stack) - 1) : r[i] = stack[i]
    BY <1>2, FrontFacts
  <2>3. StackIsPath(r, visited) /\ SearchedSoFar(r, visited)
    <3>1. ~(stack[Len(stack)].n <= Len(nodes[stack[Len(stack)].node]))
      BY <1>1 DEF More, Top
    <3>2. Len(stack) >= 2
      BY <1>3, <1>5
    <3> QED
      BY <3>1, <3>2, <1>2, FrontSearched
  <2>4. l \in Nat /\ l >= 1 /\ l \in 1..(Len(stack) - 1) /\ l + 1 = Len(stack)
    BY <1>3, <1>5, <2>2
  <2>5. r[1].node = from /\ r[l] = stack[l]
    BY <2>2, <2>4 DEF from
  <2> HIDE DEF r, l
  <2>6. /\ r[l].n <= Len(nodes[r[l].node])
        /\ Top.node = nodes[r[l].node][r[l].n]
    BY <1>2, <2>4, <2>5 DEF StackIsPath, Top
  <2>7. Top.node \in visited /\ Top.node # from
    <3>1. Len(stack) \in 2..Len(stack)
      BY <1>3, <1>5
    <3> QED
      BY <3>1, <1>2 DEF StackIsPath, Top, from
  <2>8. visited = visited \cup {Top.node}
    BY <2>7
  <2>9. StackIsPath(stack', visited') /\ SearchedSoFar(stack', visited')
    <3>1. Len(r) >= 1 /\ l = Len(r)
      BY <2>4 DEF l
    <3>2. AtDest(r, Top.node)
      BY <3>1, <2>5, <2>6, <2>7 DEF AtDest
    <3> QED
      BY <3>1, <3>2, <2>1, <2>2, <2>3, <2>7, <2>8, <1>1, <1>2, <1>3, AdvanceSearched
  <2>10. stack' \in Seq(Frames) /\ Len(stack') >= 1 /\ stack'[1].node = from
    BY <2>1, <2>2, <2>4, <2>5, AdvanceFacts DEF l
  <2>11. VisitedReached(stack', visited')
    BY <2>10, <1>1, <1>2 DEF VisitedReached, from
  <2> QED
    BY <1>1, <1>2, <2>1, <2>9, <2>10, <2>11, DownAgain
<1> QED
  BY <1>3, <1>4, <1>5

LEMMA CallDescendsInv == ASSUME GraphInv, CallDescends PROVE GraphInv'
<1>1. /\ search = "down" /\ search' = "down" /\ nodes' = nodes
      /\ More /\ visited' = visited \cup {Dest} /\ Dest # from
      /\ Len(stack) = 1 \/ Dest \notin visited
      /\ stack' = Append(stack, Call(Dest, 1)) /\ cycle_member_nodes' = cycle_member_nodes
  BY DEF CallDescends, Visit
<1>2. /\ stack \in Seq(Frames) /\ Len(stack) >= 1 /\ nodes \in [Nodes -> Seq(Nodes)]
      /\ visited \in SUBSET Nodes /\ cycle_member_nodes = << >>
      /\ StackIsPath(stack, visited) /\ SearchedSoFar(stack, visited)
  BY <1>1 DEF GraphInv, GraphTypeOK
<1>3. Len(stack) \in Nat /\ Dest \in Nodes /\ Top.n \in Nat /\ from \in Nodes
  BY <1>1, SearchFacts
<1> DEFINE l == Len(stack)
           r == stack'
           fr == Call(Dest, 1)
<1>4. fr \in Frames /\ fr.node = Dest /\ fr.n = 1
  BY <1>3 DEF Frames, Call
<1> HIDE DEF fr
<1>5. /\ r \in Seq(Frames) /\ Len(r) = l + 1
      /\ \A i \in 1..l : r[i] = stack[i]
      /\ r[l + 1] = fr
  BY <1>1, <1>2, <1>4 DEF fr
<1>6. \A i \in 1..l : stack[i].node \in Nodes /\ stack[i].n \in Nat /\ stack[i].n >= 1
  BY <1>2, FrameFacts DEF StackIsPath
<1>7. l \in Nat /\ l >= 1 /\ 1 \in 1..l /\ l \in 1..l
  BY <1>2, <1>3
<1> HIDE DEF l, r
<1>8. ASSUME NEW i \in 1..(l + 1) PROVE i \in 1..l \/ i = l + 1
  BY <1>7
<1>9. r[1].node = from
  BY <1>5, <1>7 DEF from
<1>10. StackIsPath(r, visited')
  <2>1. \A i \in 1..(l + 1) : r[i].n >= 1
    BY <1>4, <1>5, <1>6, <1>8
  <2>2. ASSUME NEW i \in 1..l
        PROVE  r[i].n <= Len(nodes[r[i].node]) /\ r[i + 1].node = nodes[r[i].node][r[i].n]
    <3>1. CASE i = l
      <4>1. r[i] = Top /\ r[i + 1].node = Dest
        BY <3>1, <1>4, <1>5 DEF Top, l
      <4> QED
        BY <4>1, <1>1 DEF More, Dest
    <3>2. CASE i # l
      <4>1. i \in 1..(l - 1) /\ i + 1 \in 1..l
        BY <3>2, <1>7
      <4> QED
        BY <4>1, <1>2, <1>5 DEF StackIsPath, l
    <3> QED
      BY <3>1, <3>2
  <2>3. ASSUME NEW i \in 2..(l + 1) PROVE r[i].node \in visited' /\ r[i].node # r[1].node
    <3>1. CASE i = l + 1
      BY <3>1, <1>1, <1>4, <1>5, <1>9
    <3>2. CASE i # l + 1
      <4>1. i \in 2..l /\ i \in 1..l
        BY <3>2, <1>7
      <4> QED
        BY <4>1, <1>1, <1>2, <1>5, <1>7 DEF StackIsPath, l
    <3> QED
      BY <3>1, <3>2
  <2>4. ASSUME NEW i \in 2..l PROVE r[i].node # Dest
    <3>0. i \in 1..l /\ i \in 2..l /\ l # 1
      BY <1>7
    <3>1. i \in 2..Len(stack) /\ i \in 1..l /\ Len(stack) # 1
      BY <3>0, Zenon DEF l
    <3> QED
      BY <3>1, <1>1, <1>2, <1>5 DEF StackIsPath
  <2>5. ASSUME NEW i \in 2..(l + 1), NEW j \in 2..(l + 1), r[i].node = r[j].node PROVE i = j
    <3>1. CASE i \in 2..l /\ j \in 2..l
      <4>1. i \in 2..Len(stack) /\ i \in 1..l /\ j \in 2..Len(stack) /\ j \in 1..l
        BY <3>1, <1>7 DEF l
      <4> QED
        BY <4>1, <2>5, <1>2, <1>5 DEF StackIsPath
    <3>2. CASE i = l + 1 \/ j = l + 1
      <4>1. ASSUME NEW k \in 2..(l + 1), r[k].node = Dest PROVE k = l + 1
        <5>1. k \in 2..l \/ k = l + 1
          BY <1>7
        <5> QED
          BY <5>1, <4>1, <2>4
      <4> QED
        BY <3>2, <4>1, <2>5, <1>4, <1>5
    <3>3. (i \in 2..l /\ j \in 2..l) \/ i = l + 1 \/ j = l + 1
      BY <1>7
    <3> QED
      BY <3>1, <3>2, <3>3
  <2>6. Len(r) = l + 1 /\ Len(r) - 1 = l
    BY <1>5, <1>7
  <2> QED
    BY <2>1, <2>2, <2>3, <2>5, <2>6 DEF StackIsPath
<1>11. SearchedSoFar(r, visited')
  <2>1. r[1].node \notin visited'
    BY <1>1, <1>2, <1>9 DEF SearchedSoFar, from
  <2>2. ASSUME NEW i \in 1..(l + 1)
        PROVE  /\ r[i].n <= Len(nodes[r[i].node]) + 1
               /\ \A m \in 1..(r[i].n - 1) : nodes[r[i].node][m] \in visited'
    <3>1. CASE i = l + 1
      <4>1. r[i].n = 1 /\ r[i].node = Dest
        BY <3>1, <1>4, <1>5
      <4>2. Len(nodes[Dest]) \in Nat
        BY <1>2, <1>3
      <4> QED
        BY <4>1, <4>2
    <3>2. CASE i \in 1..l
      BY <3>2, <1>1, <1>2, <1>5 DEF SearchedSoFar, l
    <3> QED
      BY <3>1, <3>2, <1>8
  <2>3. ASSUME NEW a \in visited', \A i \in 1..(l + 1) : r[i].node # a
        PROVE  DestsIn(a, visited')
    <3>1. a # Dest
      <4>1. l + 1 \in 1..(l + 1)
        BY <1>7
      <4> QED
        BY <4>1, <2>3, <1>4, <1>5
    <3>2. \A i \in 1..Len(stack) : stack[i].node # a
      <4>1. \A i \in 1..l : i \in 1..(l + 1)
        BY <1>7
      <4> QED
        BY <4>1, <2>3, <1>5 DEF l
    <3>3. DestsIn(a, visited)
      BY <3>1, <3>2, <1>1, <1>2 DEF SearchedSoFar
    <3> QED
      BY <3>3, <1>1 DEF DestsIn
  <2> QED
    BY <2>1, <2>2, <2>3, <1>5 DEF SearchedSoFar
<1>12. VisitedReached(r, visited')
  BY <1>1, <1>9, StillReached
<1>13. visited' \subseteq Nodes /\ Len(r) >= 1
  BY <1>1, <1>2, <1>3, <1>5, <1>7
<1> QED
  BY <1>1, <1>2, <1>5, <1>10, <1>11, <1>12, <1>13, DownAgain DEF r

LEMMA CallFoundInv == ASSUME GraphInv, CallFound PROVE GraphInv'
<1>1. /\ search = "down" /\ search' = "up" /\ nodes' = nodes /\ stack' = stack
      /\ More /\ visited' = visited \cup {Dest} /\ Dest = from
      /\ cycle_member_nodes' = cycle_member_nodes
  BY DEF CallFound, Visit
<1>2. /\ stack \in Seq(Frames) /\ Len(stack) >= 1 /\ nodes \in [Nodes -> Seq(Nodes)]
      /\ visited \in SUBSET Nodes /\ cycle_member_nodes = << >>
      /\ StackIsPath(stack, visited)
  BY <1>1 DEF GraphInv, GraphTypeOK
<1>3. Len(stack) \in Nat /\ Dest \in Nodes
  BY <1>1, SearchFacts
<1>4. StackIsPath(stack, visited')
  <2>1. \A i \in 1..Len(stack) : stack[i].n >= 1
    BY <1>2 DEF StackIsPath
  <2>2. visited \subseteq visited' /\ Len(stack) <= Len(stack)
    BY <1>1, <1>3
  <2> QED
    BY <2>1, <2>2, <1>2, <1>3, PathPrefix
<1>5. VisitedReached(stack, visited')
  BY <1>1, StillReached DEF from
<1>6. StackIsPath(stack, visited)' /\ VisitedReached(stack, visited)'
  BY <1>1, <1>4, <1>5, SameEdges
<1>7. More' /\ Dest' = Dest /\ from' = from
  BY <1>1 DEF More, Dest, Top, from
<1>8. cycle_member_nodes' = << >> /\ Len(cycle_member_nodes') = 0
  BY <1>1, <1>2
<1>9. \A i \in 2..Len(stack') : Dest' # stack'[i].node
  BY <1>1, <1>2, <1>7 DEF StackIsPath, from
<1>10. CycleSoFar'
  <2>1. Dest' \in visited' /\ from' \in visited' /\ Dest' = from'
    BY <1>1, <1>7
  <2>2. \A m \in 1..Len(cycle_member_nodes') : FALSE
    BY <1>8
  <2>3. \A m \in 2..Len(cycle_member_nodes') : FALSE
    BY <1>8
  <2> QED
    BY <2>1, <2>2, <2>3, <1>7, <1>8, <1>9 DEF CycleSoFar
<1>11. GraphTypeOK' /\ SimpleGraph'
  BY <1>1, <1>2, <1>3 DEF GraphInv, GraphTypeOK, SimpleGraph
<1> QED
  BY <1>1, <1>6, <1>10, <1>11 DEF GraphInv, CycleFoundIffExists, CycleIsGenuine

\* The vector after the push, whether or not the call was the outermost one.
PushedCycle(c) ==
    /\ c \in Seq(Nodes) /\ Len(c) >= 1
    /\ c[1] = from
    /\ c[Len(c)] = Dest
    /\ \A m \in 1..Len(c) : c[m] \in visited
    /\ \A m \in 1..Len(c) : \A i \in 2..Len(stack) : c[m] # stack[i].node
    /\ \A m, n \in 1..Len(c) : c[m] = c[n] => m = n
    /\ \A m \in 2..Len(c) : IsEdge(c[m], c[m - 1])

LEMMA PushFacts ==
    ASSUME GraphInv, search = "up"
    PROVE  PushedCycle(Append(cycle_member_nodes, Dest))
<1> DEFINE c == cycle_member_nodes
           k == Len(c)
           d == Append(c, Dest)
<1>1. /\ c \in Seq(Nodes) /\ CycleSoFar /\ visited \subseteq Nodes
  BY DEF GraphInv, GraphTypeOK
<1>2. Dest \in Nodes /\ Dest \in visited
  BY <1>1, SearchFacts DEF CycleSoFar
<1>3. k \in Nat /\ k + 1 \in 1..(k + 1)
  BY <1>1
<1>4. /\ d \in Seq(Nodes) /\ Len(d) = k + 1
      /\ \A m \in 1..k : d[m] = c[m]
      /\ d[k + 1] = Dest
  BY <1>1, <1>2
<1>5. /\ c = << >> => Dest = from
      /\ c # << >> => c[1] = from /\ IsEdge(Dest, c[k])
      /\ \A m \in 1..k : c[m] \in visited /\ c[m] # Dest
      /\ \A m \in 1..k : \A i \in 2..Len(stack) : c[m] # stack[i].node
      /\ \A i \in 2..Len(stack) : Dest # stack[i].node
      /\ \A m, n \in 1..k : c[m] = c[n] => m = n
      /\ \A m \in 2..k : IsEdge(c[m], c[m - 1])
  BY <1>1, Zenon DEF CycleSoFar
<1>6. c = << >> <=> k = 0
  BY <1>1, EmptySeq
<1> HIDE DEF c, k, d
<1>7. ASSUME NEW m \in 1..(k + 1) PROVE m \in 1..k \/ m = k + 1
  BY <1>3
<1>8. d[1] = from
  <2>1. CASE k = 0
    BY <2>1, <1>4, <1>5, <1>6
  <2>2. CASE k > 0
    <3>1. 1 \in 1..k /\ k # 0
      BY <2>2, <1>3
    <3> QED
      BY <3>1, <1>4, <1>5, <1>6
  <2> QED
    BY <2>1, <2>2, <1>3
<1>9. ASSUME NEW m \in 1..(k + 1)
      PROVE  d[m] \in visited /\ \A i \in 2..Len(stack) : d[m] # stack[i].node
  BY <1>2, <1>4, <1>5, <1>7
<1>10. ASSUME NEW m \in 1..(k + 1), NEW n \in 1..(k + 1), d[m] = d[n] PROVE m = n
  BY <1>4, <1>5, <1>7, <1>10
<1>11. ASSUME NEW m \in 2..(k + 1) PROVE IsEdge(d[m], d[m - 1])
  <2>1. CASE m = k + 1
    <3>1. k \in 1..k /\ m - 1 = k /\ k # 0
      BY <2>1, <1>3
    <3> QED
      BY <3>1, <2>1, <1>4, <1>5, <1>6
  <2>2. CASE m \in 2..k
    <3>1. m \in 1..k /\ m - 1 \in 1..k
      BY <2>2, <1>3
    <3> QED
      BY <3>1, <2>2, <1>4, <1>5
  <2>3. m = k + 1 \/ m \in 2..k
    BY <1>3
  <2> QED
    BY <2>1, <2>2, <2>3
<1>12. Len(d) >= 1 /\ d[Len(d)] = Dest
  BY <1>3, <1>4
<1> QED
  BY <1>4, <1>8, <1>9, <1>10, <1>11, <1>12 DEF PushedCycle, d, c

LEMMA ReturnTrueInv == ASSUME GraphInv, ReturnTrue PROVE GraphInv'
<1> DEFINE c == cycle_member_nodes'
           k == Len(c)
<1>1. /\ search = "up" /\ nodes' = nodes /\ visited' = visited
      /\ c = Append(cycle_member_nodes, Dest)
  BY DEF ReturnTrue
<1>2. PushedCycle(c)
  BY <1>1, PushFacts
<1>3. /\ stack \in Seq(Frames) /\ Len(stack) >= 1 /\ nodes \in [Nodes -> Seq(Nodes)]
      /\ visited \in SUBSET Nodes /\ CycleSoFar /\ SimpleGraph
      /\ StackIsPath(stack, visited) /\ VisitedReached(stack, visited)
  BY <1>1 DEF GraphInv, GraphTypeOK
<1>4. /\ Len(stack) \in Nat /\ from \in Nodes /\ Top.node \in Nodes
      /\ Len(stack) = 1 \/ (Len(stack) > 1 /\ Len(stack) # 1)
      /\ Top.n \in Nat /\ Top.n >= 1 /\ Len(nodes[Top.node]) \in Nat /\ Dest \in Nodes
  BY <1>1, <1>3, SearchFacts DEF CycleSoFar
<1>5. Top.n \in 1..Len(nodes[Top.node]) /\ IsEdge(Top.node, Dest)
  <2>1. Top.n \in 1..Len(nodes[Top.node])
    BY <1>3, <1>4 DEF CycleSoFar, More
  <2> QED
    BY <2>1, <1>3, <1>4, EdgeFacts DEF Dest
<1>6. c \in Seq(Nodes) /\ k \in Nat /\ k >= 1 /\ c # << >>
  <2>1. c \in Seq(Nodes) /\ k >= 1
    BY <1>2 DEF PushedCycle
  <2>2. k \in Nat
    BY <2>1
  <2>3. c # << >>
    BY <2>1, EmptySeq
  <2> QED
    BY <2>1, <2>2, <2>3
<1>7. \A a, b : IsEdge(a, b)' <=> IsEdge(a, b)
  BY <1>1 DEF IsEdge
<1>8. Edges' = Edges
  BY <1>1 DEF Edges
<1>9. CASE Len(stack) = 1
  <2>1. search' = "done" /\ stack' = stack
    BY <1>9 DEF ReturnTrue
  <2>2. Top.node = from /\ from' = from
    BY <1>9, <2>1 DEF Top, from
  <2>3. W!Reaches(Edges, from, from)
    BY <1>3 DEF CycleSoFar, VisitedReached, from
  <2>4. CycleFoundIffExists'
    <3>1. W!HasCycle(Edges, from)'
      BY <2>2, <2>3, <1>8 DEF W!HasCycle, W!Reaches, W!ClosedUnder
    <3> QED
      BY <3>1, <1>6 DEF CycleFoundIffExists
  <2>5. k >= 2
    <3>1. Dest # from
      BY <2>2, <1>3, <1>4, <1>5 DEF SimpleGraph, Dest
    <3>2. c[1] = from /\ c[k] = Dest
      BY <1>2 DEF PushedCycle
    <3>3. k # 1
      BY <3>1, <3>2
    <3>4. k = 1 \/ k > 1
      BY <1>6, OneOrMore
    <3> QED
      BY <3>3, <3>4, <1>6
  <2>6. c[1] = from /\ c[k] = Dest /\ IsEdge(from, c[k])
    BY <2>2, <1>2, <1>5 DEF PushedCycle
  <2>7. c[2] \in W!CyclePredecessors(Edges, from)
    <3>1. 2 \in 1..k /\ 2 \in 2..k
      BY <2>5, <1>6
    <3>2. c[2] \in visited /\ IsEdge(c[2], c[2 - 1]) /\ c[2] \in Nodes
      BY <3>1, <1>2, <1>3 DEF PushedCycle
    <3>3. from \in Edges[c[2]]
      <4>1. IsEdge(c[2], from)
        BY <3>2, <2>6
      <4> QED
        BY <4>1, <3>2, <1>3, EdgeFacts DEF IsEdge
    <3>4. W!Reaches(Edges, from, c[2])
      BY <3>2, <1>3 DEF VisitedReached, from
    <3> QED
      BY <3>2, <3>3, <3>4 DEF W!CyclePredecessors
  <2>8. IsInjective(c)
    <3>1. DOMAIN c = 1..k
      BY <1>6
    <3>2. \A m, n \in 1..k : c[m] = c[n] => m = n
      BY <1>2 DEF PushedCycle
    <3> QED
      BY <3>1, <3>2 DEF IsInjective
  <2>9. \A m \in 2..k : IsEdge(c[m], c[m - 1])
    BY <1>2 DEF PushedCycle
  <2>10. CycleIsGenuine'
    <3>1. (W!CyclePredecessors(Edges, from))' = W!CyclePredecessors(Edges, from)
      BY <2>2, <1>8 DEF W!CyclePredecessors, W!Reaches, W!ClosedUnder
    <3>2. IsInjective(cycle_member_nodes)'
      BY <2>8 DEF IsInjective
    <3> QED
      BY <3>1, <3>2, <2>2, <2>5, <2>6, <2>7, <2>9, <1>7 DEF CycleIsGenuine
  <2>11. GraphTypeOK' /\ SimpleGraph'
    BY <1>1, <1>3, <1>6, <2>1 DEF GraphTypeOK, SimpleGraph
  <2> QED
    BY <2>1, <2>4, <2>10, <2>11 DEF GraphInv
<1>10. CASE Len(stack) > 1 /\ Len(stack) # 1
  <2> DEFINE r == stack'
             l == Len(r)
  <2>1. search' = "up" /\ r = Front(stack)
    BY <1>1, <1>10 DEF ReturnTrue
  <2>2. /\ r \in Seq(Frames) /\ l = Len(stack) - 1
        /\ \A i \in 1..(Len(stack) - 1) : r[i] = stack[i]
    BY <1>3, <2>1, FrontFacts
  <2>3. /\ l \in Nat /\ l >= 1 /\ l \in 1..(Len(stack) - 1) /\ l + 1 = Len(stack)
        /\ l <= Len(stack)
    BY <1>4, <1>10, <2>2
  <2>4. r[1].node = from /\ r[l] = stack[l] /\ from' = from
    BY <2>2, <2>3 DEF from
  <2> HIDE DEF r, l
  <2>5. StackIsPath(r, visited')
    <3>1. \A i \in 1..l : r[i].node = stack[i].node /\ r[i].n >= 1
      BY <1>3, <2>2, <2>3 DEF StackIsPath
    <3>2. \A i \in 1..(l - 1) : r[i] = stack[i]
      BY <2>2, <2>3
    <3>3. Len(r) = l
      BY DEF l
    <3> QED
      BY <3>1, <3>2, <3>3, <1>1, <1>3, <2>2, <2>3, PathPrefix
  <2>6. VisitedReached(r, visited')
    BY <1>1, <1>3, <2>4 DEF VisitedReached, from
  <2>7. StackIsPath(stack, visited)' /\ VisitedReached(stack, visited)'
    BY <1>1, <2>5, <2>6, SameEdges DEF r
  <2>8. Top' = r[l]
    BY DEF Top, r, l
  <2>9. /\ r[l].n <= Len(nodes[r[l].node])
        /\ Top.node = nodes[r[l].node][r[l].n]
    BY <1>3, <2>3, <2>4 DEF StackIsPath, Top
  <2>10. More' /\ Dest' = Top.node
    BY <2>8, <2>9, <1>1 DEF More, Dest
  <2>11. Len(stack) \in 2..Len(stack)
    BY <1>4, <1>10
  <2>12. Top.node \in visited /\ \A m \in 1..k : c[m] # Top.node
    BY <2>11, <1>2, <1>3 DEF StackIsPath, PushedCycle, Top
  <2>13. ASSUME NEW i \in 2..l
         PROVE  r[i].node # Top.node /\ \A m \in 1..k : c[m] # r[i].node
    <3>1. i \in 2..Len(stack) /\ i \in 1..(Len(stack) - 1) /\ i # Len(stack)
      BY <2>2, <2>3, <1>4
    <3>2. stack[i].node # Top.node
      BY <3>1, <2>11, <1>3 DEF StackIsPath, Top
    <3> QED
      BY <3>1, <3>2, <2>2, <1>2 DEF PushedCycle
  <2>14. CycleSoFar'
    <3>1. /\ c[1] = from' /\ IsEdge(Dest', c[k])
          /\ \A m \in 1..k : c[m] \in visited' /\ c[m] # Dest'
          /\ \A m, n \in 1..k : c[m] = c[n] => m = n
          /\ \A m \in 2..k : IsEdge(c[m], c[m - 1])
      BY <1>1, <1>2, <1>5, <2>4, <2>10, <2>12 DEF PushedCycle
    <3>2. Dest' \in visited' /\ from' \in visited'
      BY <1>1, <1>3, <2>4, <2>10, <2>12 DEF CycleSoFar
    <3>3. /\ \A i \in 2..Len(stack') : Dest' # stack'[i].node
          /\ \A m \in 1..k : \A i \in 2..Len(stack') : c[m] # stack'[i].node
      BY <2>10, <2>13 DEF r, l
    <3>4. /\ IsEdge(Dest, cycle_member_nodes[Len(cycle_member_nodes)])'
          /\ \A m \in 2..k : IsEdge(cycle_member_nodes[m], cycle_member_nodes[m - 1])'
      BY <3>1, <1>1 DEF IsEdge
    <3> QED
      BY <3>1, <3>2, <3>3, <3>4, <1>6, <2>10 DEF CycleSoFar
  <2>15. GraphTypeOK' /\ SimpleGraph'
    BY <1>1, <1>3, <1>6, <2>1, <2>2, <2>3 DEF GraphTypeOK, SimpleGraph, r, l
  <2> QED
    BY <2>1, <2>7, <2>14, <2>15 DEF GraphInv, CycleFoundIffExists, CycleIsGenuine
<1> QED
  BY <1>4, <1>9, <1>10

LEMMA AddEdgeInv ==
    ASSUME GraphInv, NEW a \in Nodes, NEW b \in Nodes, add_edge(a, b)
    PROVE  GraphInv' /\ Edges' = W!AddEdges(Edges, a, {b})
<1>1. /\ search = "idle" /\ search' = "idle" /\ a # b /\ ~IsEdge(a, b)
      /\ nodes' = [nodes EXCEPT ![a] = Append(@, b)]
      /\ stack' = stack /\ visited' = visited /\ cycle_member_nodes' = cycle_member_nodes
  BY DEF add_edge, searchVars
<1>2. nodes \in [Nodes -> Seq(Nodes)]
  BY DEF GraphInv, GraphTypeOK
<1> DEFINE q == nodes[a]
           k == Len(q)
<1>3. /\ nodes' \in [Nodes -> Seq(Nodes)]
      /\ nodes'[a] = Append(q, b)
      /\ \A x \in Nodes : x # a => nodes'[x] = nodes[x]
  BY <1>1, <1>2
<1>4. /\ k \in Nat /\ Len(nodes'[a]) = k + 1
      /\ \A m \in 1..k : nodes'[a][m] = nodes[a][m]
      /\ nodes'[a][k + 1] = b
  BY <1>2, <1>3
<1>5. \A m \in 1..k : nodes[a][m] # b
  BY <1>1, <1>2, EdgeFacts
<1> HIDE DEF q
<1>6. \A m \in 1..(k + 1) : m \in 1..k \/ m = k + 1
  BY <1>4
<1>7. SimpleGraph'
  <2>1. \A m, n \in 1..k : nodes[a][m] = nodes[a][n] => m = n
    BY DEF GraphInv, SimpleGraph, k, q
  <2>2. \A m \in 1..k : nodes[a][m] # a
    BY DEF GraphInv, SimpleGraph, k, q
  <2> HIDE DEF k
  <2>3. ASSUME NEW m \in 1..(k + 1), NEW n \in 1..(k + 1), nodes'[a][m] = nodes'[a][n]
        PROVE  m = n
    BY <2>1, <2>3, <1>4, <1>5, <1>6
  <2>4. ASSUME NEW m \in 1..(k + 1) PROVE nodes'[a][m] # a
    BY <2>2, <1>1, <1>4, <1>6
  <2>5. ASSUME NEW x \in Nodes
        PROVE  /\ \A m, n \in 1..Len(nodes'[x]) : nodes'[x][m] = nodes'[x][n] => m = n
               /\ \A m \in 1..Len(nodes'[x]) : nodes'[x][m] # x
    <3>1. CASE x = a
      BY <3>1, <2>3, <2>4, <1>4
    <3>2. CASE x # a
      BY <3>2, <1>3 DEF GraphInv, SimpleGraph
    <3> QED
      BY <3>1, <3>2
  <2> QED
    BY <2>5 DEF SimpleGraph
<1>8. ASSUME NEW x \in Nodes PROVE Edges'[x] = (IF x = a THEN Edges[a] \cup {b} ELSE Edges[x])
  <2>1. /\ DOMAIN nodes'[x] = 1..Len(nodes'[x])
        /\ Edges'[x] = ToSet(nodes'[x]) /\ Edges[x] = ToSet(nodes[x])
    BY <1>2, <1>3, EdgeFacts DEF Edges
  <2>2. CASE x = a
    <3>1. \A d : d \in Edges'[a] <=> \E m \in 1..(k + 1) : nodes'[a][m] = d
      BY <2>1, <2>2, <1>4 DEF ToSet
    <3>2. \A d : d \in Edges[a] <=> \E m \in 1..k : nodes[a][m] = d
      BY <1>2, EdgeFacts DEF k, q
    <3>3. k + 1 \in 1..(k + 1) /\ \A m \in 1..k : m \in 1..(k + 1)
      BY <1>4
    <3> HIDE DEF k
    <3>4. \A d : d \in Edges'[a] <=> d \in Edges[a] \cup {b}
      BY <3>1, <3>2, <3>3, <1>4, <1>6
    <3> QED
      BY <2>2, <3>4
  <2>3. CASE x # a
    BY <2>1, <2>3, <1>3
  <2> QED
    BY <2>2, <2>3
<1>9. Edges' = W!AddEdges(Edges, a, {b})
  BY <1>8 DEF W!AddEdges, Edges
<1>10. GraphTypeOK'
  BY <1>1, <1>3 DEF GraphInv, GraphTypeOK
<1> QED
  BY <1>1, <1>7, <1>9, <1>10 DEF GraphInv, CycleFoundIffExists, CycleIsGenuine

LEMMA RemoveEdgeInv ==
    ASSUME GraphInv, NEW a \in Nodes, NEW b \in Nodes, remove_edge(a, b)
    PROVE  GraphInv' /\ Edges' = W!RemoveEdges(Edges, a, {b})
<1>1. /\ search = "idle" /\ search' = "idle"
      /\ stack' = stack /\ visited' = visited /\ cycle_member_nodes' = cycle_member_nodes
  BY DEF remove_edge, searchVars
<1>2. nodes \in [Nodes -> Seq(Nodes)]
  BY DEF GraphInv, GraphTypeOK
<1> DEFINE q == nodes[a]
           k == Len(q)
           s == nodes'[a]
<1>3. PICK i \in 1..k : nodes[a][i] = b /\ nodes' = [nodes EXCEPT ![a] = RemoveAt(@, i)]
  BY DEF remove_edge
<1>4. q \in Seq(Nodes) /\ k \in Nat /\ k >= 1 /\ k - 1 \in Nat
  BY <1>2
<1>5. /\ RemoveAt(q, i) \in Seq(Nodes) /\ Len(RemoveAt(q, i)) = k - 1
      /\ \A m \in 1..(k - 1) : RemoveAt(q, i)[m] = IF m < i THEN q[m] ELSE q[m + 1]
  BY <1>3, <1>4, RemoveAtFacts
<1>6. /\ nodes' \in [Nodes -> Seq(Nodes)]
      /\ s = RemoveAt(q, i)
      /\ \A x \in Nodes : x # a => nodes'[x] = nodes[x]
  BY <1>2, <1>3, <1>5
<1>7. /\ \A m, n \in 1..k : q[m] = q[n] => m = n
      /\ \A m \in 1..k : q[m] # a
  BY DEF GraphInv, SimpleGraph
<1>8. q[i] = b /\ Len(s) = k - 1
  BY <1>3, <1>5, <1>6
<1> DEFINE old(m) == IF m < i THEN m ELSE m + 1
<1> HIDE DEF q, k, s
<1>9. ASSUME NEW m \in 1..(k - 1)
      PROVE  old(m) \in 1..k /\ old(m) # i /\ s[m] = q[old(m)]
  BY <1>4, <1>5, <1>6
<1>10. ASSUME NEW m \in 1..(k - 1), NEW n \in 1..(k - 1), old(m) = old(n) PROVE m = n
  BY <1>4, <1>10
<1>11. ASSUME NEW j \in 1..k, j # i PROVE \E m \in 1..(k - 1) : old(m) = j
  <2>1. CASE j < i
    <3>1. j \in 1..(k - 1) /\ old(j) = j
      BY <2>1, <1>4
    <3> QED
      BY <3>1
  <2>2. CASE j > i
    <3>1. j - 1 \in 1..(k - 1) /\ old(j - 1) = j
      BY <2>2, <1>4
    <3> QED
      BY <3>1
  <2> QED
    BY <2>1, <2>2, <1>4, <1>11
<1> HIDE DEF old
<1>12. SimpleGraph'
  <2>1. ASSUME NEW m \in 1..(k - 1), NEW n \in 1..(k - 1), s[m] = s[n] PROVE m = n
    <3>1. q[old(m)] = q[old(n)]
      BY <2>1, <1>9
    <3>2. old(m) = old(n)
      BY <3>1, <1>7, <1>9
    <3> QED
      BY <3>2, <1>10
  <2>2. ASSUME NEW m \in 1..(k - 1) PROVE s[m] # a
    BY <1>7, <1>9
  <2> QED
    BY <2>1, <2>2, <1>6, <1>8 DEF GraphInv, SimpleGraph, s
<1>13. ASSUME NEW x \in Nodes
       PROVE  Edges'[x] = (IF x = a THEN Edges[a] \ {b} ELSE Edges[x])
  <2>1. /\ DOMAIN nodes'[x] = 1..Len(nodes'[x])
        /\ Edges'[x] = ToSet(nodes'[x]) /\ Edges[x] = ToSet(nodes[x])
    BY <1>2, <1>6, EdgeFacts DEF Edges
  <2>2. CASE x = a
    <3>1. \A d : d \in Edges'[a] <=> \E m \in 1..(k - 1) : s[m] = d
      BY <2>1, <2>2, <1>8 DEF ToSet, s
    <3>2. \A d : d \in Edges[a] <=> \E m \in 1..k : q[m] = d
      BY <1>2, EdgeFacts DEF k, q
    <3>3. ASSUME NEW d PROVE d \in Edges'[a] <=> d \in Edges[a] \ {b}
      <4>1. ASSUME d \in Edges'[a] PROVE d \in Edges[a] /\ d # b
        <5>1. PICK m \in 1..(k - 1) : s[m] = d
          BY <4>1, <3>1
        <5>2. old(m) \in 1..k /\ old(m) # i /\ q[old(m)] = d
          BY <5>1, <1>9
        <5> QED
          BY <5>2, <3>2, <1>3, <1>7, <1>8
      <4>2. ASSUME d \in Edges[a], d # b PROVE d \in Edges'[a]
        <5>1. PICK j \in 1..k : q[j] = d
          BY <4>2, <3>2
        <5>2. j # i
          BY <5>1, <4>2, <1>8
        <5>3. PICK m \in 1..(k - 1) : old(m) = j
          BY <5>2, <1>11
        <5> QED
          BY <5>1, <5>3, <3>1, <1>9
      <4> QED
        BY <4>1, <4>2
    <3> QED
      BY <2>2, <3>3
  <2>3. CASE x # a
    BY <2>1, <2>3, <1>6
  <2> QED
    BY <2>2, <2>3
<1>14. Edges' = W!RemoveEdges(Edges, a, {b})
  BY <1>13 DEF W!RemoveEdges, Edges
<1>15. GraphTypeOK'
  BY <1>1, <1>6 DEF GraphInv, GraphTypeOK
<1> QED
  BY <1>1, <1>12, <1>14, <1>15 DEF GraphInv, CycleFoundIffExists, CycleIsGenuine

LEMMA GetCycleInv == ASSUME GraphInv, NEW a \in Nodes, get_cycle(a) PROVE GraphInv'
<1>1. /\ search' = "down" /\ nodes' = nodes /\ visited' = {}
      /\ stack' = <<Call(a, 1)>> /\ cycle_member_nodes' = << >>
  BY DEF get_cycle
<1> DEFINE fr == Call(a, 1)
           r == stack'
<1>2. fr \in Frames /\ fr.node = a /\ fr.n = 1
  BY DEF Frames, Call
<1>3. nodes \in [Nodes -> Seq(Nodes)] /\ Len(nodes[a]) \in Nat
  BY DEF GraphInv, GraphTypeOK
<1> HIDE DEF fr
<1>4. r \in Seq(Frames) /\ Len(r) = 1 /\ r[1] = fr
  BY <1>1, <1>2 DEF fr
<1> HIDE DEF r
<1>5. StackIsPath(r, visited')
  BY <1>2, <1>4 DEF StackIsPath
<1>6. VisitedReached(r, visited')
  BY <1>1 DEF VisitedReached
<1>7. SearchedSoFar(r, visited')
  BY <1>1, <1>2, <1>3, <1>4 DEF SearchedSoFar
<1>8. visited' \subseteq Nodes /\ Len(r) >= 1
  BY <1>1, <1>4
<1> QED
  BY <1>1, <1>4, <1>5, <1>6, <1>7, <1>8, DownAgain DEF r

LEMMA ReturnedInv == ASSUME GraphInv, Returned PROVE GraphInv'
<1>1. /\ search' = "idle" /\ nodes' = nodes /\ visited' = {}
      /\ stack' = << >> /\ cycle_member_nodes' = << >>
  BY DEF Returned
<1>2. GraphTypeOK' /\ SimpleGraph'
  BY <1>1, EmptySeq DEF GraphInv, GraphTypeOK, SimpleGraph
<1> QED
  BY <1>1, <1>2 DEF GraphInv, CycleFoundIffExists, CycleIsGenuine

LEMMA GraphStutter == ASSUME GraphInv, UNCHANGED graphVars PROVE GraphInv'
<1>1. /\ nodes' = nodes /\ search' = search /\ stack' = stack /\ visited' = visited
      /\ cycle_member_nodes' = cycle_member_nodes
  BY DEF graphVars, searchVars
<1>2. GraphTypeOK' /\ SimpleGraph'
  BY <1>1 DEF GraphInv, GraphTypeOK, SimpleGraph
<1>3. search' = "down" => SearchedSoFar(stack, visited)' /\ cycle_member_nodes' = << >>
  BY <1>1 DEF GraphInv, SearchedSoFar, DestsIn
<1>4. search' \in {"down", "up"} =>
         StackIsPath(stack, visited)' /\ VisitedReached(stack, visited)'
  BY <1>1, SameEdges DEF GraphInv
<1>5. search' = "up" => CycleSoFar'
  BY <1>1 DEF GraphInv, CycleSoFar, More, Dest, Top, from, IsEdge
<1>6. CycleFoundIffExists'
  BY <1>1 DEF GraphInv, CycleFoundIffExists, Edges, from, W!HasCycle, W!Reaches, W!ClosedUnder
<1>7. CycleIsGenuine'
  <2>1. from' = from /\ Edges' = Edges
    BY <1>1 DEF from, Edges
  <2>2. (W!CyclePredecessors(Edges, from))' = W!CyclePredecessors(Edges, from)
    BY <2>1 DEF W!CyclePredecessors, W!Reaches, W!ClosedUnder
  <2>3. IsInjective(cycle_member_nodes)' <=> IsInjective(cycle_member_nodes)
    BY <1>1 DEF IsInjective
  <2>4. \A a, b : IsEdge(a, b)' <=> IsEdge(a, b)
    BY <1>1 DEF IsEdge
  <2> QED
    BY <2>1, <2>2, <2>3, <2>4, <1>1 DEF GraphInv, CycleIsGenuine
<1> QED
  BY <1>2, <1>3, <1>4, <1>5, <1>6, <1>7 DEF GraphInv

LEMMA GraphInitInv == GraphInit => GraphInv
<1> SUFFICES ASSUME GraphInit PROVE GraphInv
  OBVIOUS
<1>1. /\ nodes = [n \in Nodes |-> << >>] /\ search = "idle" /\ stack = << >>
      /\ visited = {} /\ cycle_member_nodes = << >>
  BY DEF GraphInit
<1>2. GraphTypeOK
  BY <1>1, EmptySeq DEF GraphTypeOK
<1>3. \A a \in Nodes : nodes[a] = << >> /\ Len(nodes[a]) = 0
  BY <1>1
<1>4. SimpleGraph
  BY <1>3 DEF SimpleGraph
<1> QED
  BY <1>1, <1>2, <1>4 DEF GraphInv, CycleFoundIffExists, CycleIsGenuine

LEMMA GraphNextInv == GraphInv /\ [GraphNext]_graphVars => GraphInv'
<1> SUFFICES ASSUME GraphInv, [GraphNext]_graphVars PROVE GraphInv'
  OBVIOUS
<1>1. CASE \E a, b \in Nodes : add_edge(a, b) \/ remove_edge(a, b)
  BY <1>1, AddEdgeInv, RemoveEdgeInv
<1>2. CASE \E a \in Nodes : get_cycle(a)
  BY <1>2, GetCycleInv
<1>3. CASE SearchStep
  BY <1>3, CallDeadEndInv, CallFoundInv, CallDescendsInv, SkipInv, LoopEndsInv,
     ReturnTrueInv, ReturnedInv DEF SearchStep
<1>4. CASE UNCHANGED graphVars
  BY <1>4, GraphStutter
<1> QED
  BY <1>1, <1>2, <1>3, <1>4 DEF GraphNext

\* The invariant of the search: the stack is a path from the node asked for,
\* what the search has left behind leads nowhere new, and a vector that is
\* being filled ends a path back to that node.
THEOREM GraphInvariant == GraphSpec => []GraphInv
BY GraphInitInv, GraphNextInv, PTL DEF GraphSpec

\* get_cycle returns a nonempty vector exactly when there is a cycle through
\* the node, for every graph that add_edge and remove_edge can build over any
\* set of nodes: visiting no node twice loses nothing.
THEOREM SearchFindsCycles == GraphSpec => []CycleFoundIffExists
<1>1. GraphInv => CycleFoundIffExists
  BY DEF GraphInv
<1> QED
  BY <1>1, GraphInvariant, PTL

\* The vector is a simple cycle, listed against the edges from the node asked
\* for: cycle_member[1] waits for cycle_member[0], its caller.
THEOREM SearchReturnsCycles == GraphSpec => []CycleIsGenuine
<1>1. GraphInv => CycleIsGenuine
  BY DEF GraphInv
<1> QED
  BY <1>1, GraphInvariant, PTL

\* add_edge and remove_edge change the destinations as W!AddEdges and
\* W!RemoveEdges do, and a search does not change them.
EdgesFollow ==
    /\ \A a, b \in Nodes : add_edge(a, b) => Edges' = W!AddEdges(Edges, a, {b})
    /\ \A a, b \in Nodes : remove_edge(a, b) => Edges' = W!RemoveEdges(Edges, a, {b})
    /\ (\E a \in Nodes : get_cycle(a)) \/ SearchStep => Edges' = Edges

\* The vectors represent a graph as the lock table sees it.  remove_edge needs
\* that add_edge never lists a destination twice: erase takes one entry away.
THEOREM VectorsRepresentGraph == GraphSpec => [][EdgesFollow]_graphVars
<1>1. ASSUME GraphInv PROVE EdgesFollow
  <2>1. ASSUME (\E a \in Nodes : get_cycle(a)) \/ SearchStep PROVE Edges' = Edges
    <3>1. nodes' = nodes
      BY <2>1 DEF get_cycle, SearchStep, CallDeadEnd, CallFound, CallDescends, Visit,
                  Skip, LoopEnds, ReturnTrue, Returned
    <3> QED
      BY <3>1 DEF Edges
  <2> QED
    BY <2>1, <1>1, AddEdgeInv, RemoveEdgeInv DEF EdgesFollow
<1> QED
  BY <1>1, GraphInvariant, PTL
=============================================================================
