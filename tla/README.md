# Formal models of the concurrent-programming class repository

TLA+ models, TLC runs and TLAPS proofs for the programs in `src/`. The largest is
project2, a store of integer records that worker threads change in transactions
under strict two-phase locking, with a readers-writer lock table, sleeping on
condition variables, a wait-for graph and deadlock detection. The other programs
are a wait-free snapshot (project3), a trie searched by a pool of threads
(project1), and the CLH lock, the sorted lists and the lock-free queue of the labs.

How to run, inside this directory:

    tlc -workers 2 -config MCRWLockTable.cfg MCRWLockTable
    tlapm RWLockTableProofs.tla

## Inventory

### project2: transactions over a lock table

| Part | State | Operations | Interaction |
|---|---|---|---|
| `rw_lock_table.cc` | lock status, reader count and wait queue per record, condition variable per thread, wait-for graph | `rdlock`, `wrlock`, `unlock` (`rd_unlock`, `wr_unlock`), `rdlock_clear_abort`, `wrlock_clear_abort` | called by the workers with `global_mutex` held, which `pthread_cond_wait` gives up; calls the graph |
| `directed_graph.cc` | a vector of destinations per node | `add_edge`, `remove_edge`, `get_cycle` | called by the lock table |
| `transaction.cc` | `records`, `global_execution_order`, a `log_t` per transaction, a log file per thread | `transaction` (choose, lock, read, write, commit, release), `rollback` | one thread per worker; data accessed outside the mutex |
| `main.cc` | globals, threads | initialise, create and join the workers | prints "No overflow!" after the last join |
| `marking/main.cc` | the log lines | sort by commit id, replay, compare | reads the log files of a finished run |

Hard: every request can sleep in the middle while all the shared state changes;
holders leave a queue in any order; edges of the graph are added and removed one
by one; a victim undoes its request and its transaction while others wait for it;
the data is protected by the lock table only; wakeups may be spurious; the last
commit ids are contended.

Correct means: a readers-writer lock per record, requests served in arrival
order, nobody asleep without need, no deadlock, no failed assertion; transactions
serializable in the order of their commit ids, aborted ones without a trace; the
program ends.

### The other programs

| Program | State | Operations | Hard | Correct means |
|---|---|---|---|---|
| project3 `WFSnapshot.cc`, `stamped_snap.cc`, `main.cc` | a cell `(stamp, value, snap)` per thread | `update`, which begins with `scan`, which calls `collect` | no lock: cells are written and copied field by field, old arrays are deleted | `scan` ends in bounded steps and returns values that were in the cells together during the scan |
| project1 `trie.cc` | a trie of words with ids | `insert`, `erase`, `erase_all` | words that are prefixes of others | the trie holds the set of words |
| project1 `trie.cc`, `main.cc` | per search thread: arguments, answers, a sleep flag, a mutex and a condition variable | `search_all_patterns` (main) and `search_substring` (threads) | flag set before the wait and polled without the mutex; wakeups | every query prints every word that occurs in it, once, in order; the program ends |
| lab10 `prac_CLH_lock.cpp` | a queue of nodes on the heap, a counter | `lock`, `unlock` | freed and reused nodes, a queue that no variable holds | mutual exclusion, first come first served, nothing leaked |
| lab10, the other programs | a lock word and a counter; an array of flags | `lock`, `unlock`; take a ticket, set its flag | nothing beyond the atomic builtin | mutual exclusion; every flag is set once |
| lab11 | a sorted linked list | `list_add`, `list_remove`, `list_contains` | hand-over-hand and optimistic locking, freed nodes | a linearizable set |
| lab13 | a ring of slots, two counters | `enqueue`, `dequeue` | tickets, plain accesses of a slot, a full or empty ring | FIFO, nothing lost or delivered twice |
| lab04, lab05 | a range, a result per thread, one mutex and condition variable | main broadcasts a range, threads count, main polls | lost broadcasts, a shared counter | the number of primes; the program ends |
| lab07 `new.cpp` | two `io_service` queues | main posts ranges, a pool counts, one thread prints | the order in which the pools are taken down | every range is answered |
| lab06 | a counter, two timers | two handlers on a strand in two threads | stale tests | each number once and in order |

* **lab01, lab02, lab03** and the valgrind inputs of lab05 are first exercises with a
  few calls of a thread library.
* **project4** is the MariaDB server: third-party code.

`PROJECT.json` lists every component with its status, and under "hazards" what is
hard to test, each at its line.

## Modules

| Module | Models |
|---|---|
| `WaitForGraph` | the graph as the lock table uses it: a set of destinations per thread, adding and removing edges, cycles |
| `DirectedGraph` | `directed_graph.cc` itself: adjacency vectors and the depth-first search |
| `RWLockTable` | `rw_lock_table.cc` with the most general client |
| `ReadersWriterLock` | abstract: what the lock table promises |
| `Transaction` | `transaction.cc`, the initial state and the join of `main.cc`, the replay of `marking/main.cc`; composes `RWLockTable` (`LT == INSTANCE RWLockTable`) |
| `SerialStore` | abstract: transactions one at a time |
| `TransactionAge` | `Transaction` with a history variable for the age of transactions |
| `WFSnapshot` | project3 |
| `Trie`, `SearchThreads` | project1: the trie; main with the search threads, on top of it (`EXTENDS Trie`) |
| `CLHLock` | lab10 `prac_CLH_lock.cpp` |
| `LockedCounter` | abstract: a lock with a counter incremented under it; implemented by `CLHLock` |
| `FineGrainedList`, `OptimisticList` | lab11 `fine_grained.cpp` and `optimistic.cpp` |
| `ConcurrentSet` | abstract: a linearizable set; implemented by `FineGrainedList` |
| `TicketQueue` | lab13 `concurrent_queue.cpp` |
| `FifoQueue` | abstract: a FIFO queue; implemented by `TicketQueue` |
| `MC...` | instances for TLC; `MCRWLockTable` has the lock table and the graph of project2 and `MCSortedLists` both lists of lab11, of which one runs |
| `RWLockTableProofs` | proofs about the lock table and its graph |
| `TransactionProofs` | proofs about the workers, on top of those of the lock table (`L == INSTANCE RWLockTableProofs`), and about `DirectedGraph` |
| `CLHLockProofs`, `WFSnapshotProofs`, `SearchThreadsProofs`, `OptimisticListProofs`, `TicketQueueProofs` | proofs about the module of that name |
| `SortedListsProofs` | proofs about `FineGrainedList`; the theorems about `OptimisticList` for `MCSortedLists` |

### RWLockTable

The variables `table`, `readers_count`, `record_wait_queues` and `wait_for_graph`
are those of the class. `waiting[t]` is the record thread `t` sleeps for inside
`pthread_cond_wait`, `woken` the sleepers whose condition variable was signalled
and that have not got the mutex back yet, and `held[t][r]` what the caller was
granted: `rdlock` or `wrlock` returned true and `unlock` was not called yet.

All member functions run under `global_mutex` and only `pthread_cond_wait` gives it
up, so a call is one action up to its end or its sleep:

| Action | Code |
|---|---|
| `RequestGranted` | `rdlock` / `wrlock` that finds nothing to wait for |
| `RequestSleeps` | ... that adds edges, finds no cycle and sleeps |
| `RequestDeadlock` | ... that finds a cycle: `clear_abort`, return false |
| `ResumeGranted` | `pthread_cond_wait` returns, the loop ends, the lock is granted |
| `ResumeSleeps` | ... the loop condition still holds |
| `SpuriousWakeup` | `pthread_cond_wait` returns without a signal |
| `Unlock` | `unlock`: `RdUnlock` or `WrUnlock`, by the status of the record |

Queue entries keep a phase `READ` or `WRITE`: the lock table never tells
`FIRST_WRITE` from `SECOND_WRITE`. The signal of `clear_abort` goes to
`cycle_member[1]`; which cycle the search finds depends on the order of the edges,
which `RWLockTable` leaves open (`CyclePredecessors`); `DirectedGraph` is checked and
proved to return a member of that set. The assertions of the code are the state predicate
`AssertionsHold` over all calls a client could make next.

### DirectedGraph

`nodes[n]` is the vector of destinations in insertion order. `get_cycle` is a state
machine: `stack` holds the calls of `get_cycle` and `get_cycle_recur` that have not
returned, each with the node and the place of its loop; `visited` and
`cycle_member_nodes` are the two local containers, passed by reference. While
`search = "down"` a step is a call up to its loop or its return false (`CallDescends`,
`CallDeadEnd`), a destination that is skipped (`Skip`) or the end of a loop (`LoopEnds`);
once a call has met the node asked for (`CallFound`), every step is the return of one
call, which pushes its destination (`ReturnTrue`). `count` in `dest_and_count_t` is
always 1, because `add_edge` asserts that an edge is new; the assertion is a guard here
and shown of the lock table by `AssertionsHold`. The callers hold `global_mutex`, so no
edge changes during a search.

### Transaction

`pc[t]` is the point in `transaction()`, `log[t]` the `log_t`. A lock request, a
resumption, a read, a load, a store and a commit are steps; commit, release and
rollback hold `global_mutex` over several calls and are one step per call with the
worker as owner of the mutex. Loads and stores of `records` do not need the mutex
and interleave with everything.

`long long` is a two's complement range `MinInt..MaxInt` of small width. A signed
overflow is undefined; in the model the sum wraps, as the generated code does, and
the test for overflow, when its condition is met, may or may not end the process,
since an optimiser may take it to be false.

### The models of the other programs

`pc[t]` is where thread `t` is; an action is named after the statement or the call
it stands for. What the steps are:

* **Without a lock** (`WFSnapshot`, `TicketQueue`, `CLHLock`, the walks of
  `OptimisticList`) every load and every store of a shared variable is a step, a plain
  `x++` is two, and an atomic builtin is one. Loads and stores of a thread take effect
  in program order. The sources use plain variables where C++ asks for atomics; a
  compiler may merge or move such accesses and the models do not follow it there. On the
  x86 machines the labs were written for, stores are not reordered with one another, nor
  loads, nor a store with an earlier load; a load may be done before an earlier store of
  the same thread to another address. None of these protocols has a thread that stores
  one variable and then depends on reading another one without an atomic builtin in
  between. The order in which the three arguments in `collect` are evaluated is
  unspecified in C++, so `WFSnapshot` loads them in any order.
* **Mutexes of nodes** (`FineGrainedList`, `OptimisticList`): acquiring and giving up
  each mutex and each store of a link are steps of their own.
* **Condition variables** (`SearchThreads`): lock, set the flag, wait, being woken and
  resuming are separate steps, as are main's reset, signal and poll of each thread.
  `pthread_cond_wait` may also return without a signal (`SpuriousWakeup`), and the code
  tests nothing after it but `finished` (`trie.cc:188` and `252`). Such a thread is
  called disturbed (it is not in `Undisturbed`): it searches with the arguments of an
  earlier query, or with none, in what the trie and the memory of `str_buffer` hold by
  then (`Bytes`: the argument, its Nul and what longer arguments have left `behind` it),
  then sets its flag, whatever main has asked of it meanwhile. It may hold a root that
  was freed since (`roots` counts the roots; `SearchFreedRoot`), read what main is
  writing (`GoOn`: the step has its outcome, or any other), miss a signal, or miss the
  last broadcast, after which main hangs in its join (`JoinHangs`). After an undefined
  outcome the program is `"corrupt"` and stops. A command that is none of A, D and Q
  ends the process (`UnknownCommand`).
* **The heap**: `CLHLock` and `FineGrainedList` have a set of addresses and give a freed
  one out again, so a pointer to a freed node may point to a new one. In `WFSnapshot`
  the array that thread `t` publishes with its k-th update is `<<t, k>>`; a copy of a
  deleted one is `Junk`. `optimistic.cpp` never frees a node.

Variables commented "history" record the past for a property and influence nothing.
`enqueued` and `got` of `TicketQueue` give the refinement mapping to `FifoQueue`: an
enqueue takes effect with its ticket, a dequeue when both tickets are taken. The set of
`FineGrainedList` changes at the store of the link, which is where `ConcurrentSet` takes
effect; `set` of `OptimisticList` is kept in the same way. In `Trie` a node is named by
the letters on the way to it. `erase` says at once which nodes the recursion of the code
frees (`Freed`); `MCSearchThreads` has the recursion itself (`erase_recur`), and TLC
evaluates that both agree on every trie with words of up to two letters
(`EraseAssumption`). `Words` and `Queries` exclude the empty word.

## Runs

| Run | Instance | Shows |
|---|---|---|
| `lock_table` | lock table: 4 threads, 2 records; search: all graphs over 4 nodes, all orders of the edges, from every node | the safety properties of the lock table, its assertions, the inductive invariant, and that it implements `ReadersWriterLock`; `get_cycle` finds a cycle exactly when there is one; `cycle_member[0]` is the caller and `cycle_member[1]` waits for it |
| `transactions` | 3 workers, 3 records, 2 commit ids | strict two-phase locking, no data race, replay of the log agrees, serializability, nothing left at the end |
| `progress` | 2 workers, 3 records, 2 commit ids | sleepers wake; the program ends or aborts for ever |
| `newest_aborted` | 2 workers | violated: the victim of a deadlock is the requester, not the newest transaction |
| `no_overflow_claim` | 1 worker, narrow integers | violated: main prints "No overflow!" after an overflow |
| `snapshot` | 2 threads, 2 updates each | `scan` is wait-free, a direct scan shows the stamps of one instant, cells point to live arrays, the inductive invariant |
| `snapshot_fresh` | same | violated: a borrowed scan can be older than the scan |
| `search` | 3 threads, 3 words, 2 queries, 4 commands, one spurious return | the trie is the set of words; while no thread is disturbed, a query prints the words that occur in it; an undisturbed thread is quiet while main changes the trie or prints, and ends; main ends, unless it joins a disturbed thread |
| `search_spurious` | same | violated: after a spurious return a query is printed without a word that occurs in it |
| `clh_lock` | 3 threads, 5 addresses, 2 rounds | a FIFO lock without use after free or leaks, the inductive invariant; nobody starves and the total is right |
| `ticket_queue` | 2 producers, 2 consumers, ring of 2, 3 calls each | slots have one owner; FIFO; no call spins for ever and all keys arrive |
| `sorted_lists` | 2 threads, 2 keys; hand over hand: 4 addresses, 3 operations each; optimistic: 2 operations each | hand over hand: a linearizable set, no use after free, no leak; optimistic: sorted and without a lost change in every state, validation stays true while it is relied on; no deadlock |

**Bounds.** Four threads give a writer with several readers ahead and a follower
behind, readers that leave from the middle of a group, and cycles of two and three
threads through a thread that holds nothing; two records are enough for a
deadlock. With three records every transaction uses all of them, the most
contended case; three workers on two commit ids make one worker reach the commit
too late while another sleeps. `MaxInt = 255` lets the second transaction overflow,
so wrapping and the overflow exit happen. Four nodes give the search dead ends that
are reached twice and calls that give up below others that go on. Threads (the
nodes of the graph) and records are symmetric in the safety runs of project2, threads and
nodes in `sorted_lists`; the runs with liveness use no symmetry.

Since every transaction of these instances needs all three records, a worker that
commits has nobody asleep behind a record it has read: a sleeper holds a record of
its own, which the committer would have had to get first. The wakeup of a writer by
the last reader is therefore exercised by `lock_table` (and proved), not by
`transactions` and `progress`; an instance with four records has 2.3 million states
even with two workers and one commit id, too many for a liveness check.

In the other runs: two updates each let a thread be seen moving twice and be
borrowed from, the only way scan has besides the direct one. A ring of two slots with
six tickets goes through three rounds, so that producers and consumers of different
rounds meet at a slot. Five addresses for three threads on the CLH lock let a freed
node come back as anyone's. Three search threads with queries of one and
three letters give shares that end inside and at the end of the query, threads without
work, and a share that a disturbed thread reads behind a query shorter than the one it
was given for; one of the three words is a prefix of another. One return without a signal
(`MaxSpurious`) can happen at any wait of any thread, before, during or after a query or
the end of the input, and leaves two threads undisturbed. Two keys in the list
give neighbours that two threads add and remove at the same time, and two operations
each are enough to unlink the node at which another thread stands; four addresses are
one for each key and one for each thread. `SearchThreads` (`MaxCommands`), `Trie`
(`MaxIds`) and `WFSnapshot` (`MaxUpdates`) bound input that is unbounded in the
program; the input may end earlier.

**Deadlock** is checked in all runs; a program that has ended stutters (`Ended`). In
`Transaction` a call whose precondition does
not hold (unlocking what is not held, requesting what is) has no step, so it would
show up there; `StrictTwoPhase` says the same as an invariant.

**Fairness.** Weak fairness of each thread's own steps is assumed, that is, that the
operating system runs every thread that can run; in `SearchThreads` also that
main runs and the input ends. Nothing is assumed about who gets a mutex, nor that
spurious wakeups happen (`SpuriousWakeup` is no part of a fair action). For
transactions termination does not follow: two workers can abort each other for ever,
which nothing in the code excludes, hence `TerminatesOrAborts`.

**Mutants.** Operators with a name such as `Blocked_WritersOnly`, commented
"Mutant", are variants of a definition with a plausible bug. Nothing uses them; the
property named with each in `PROJECT.json` fails when the variant takes the place of
the definition.

## Findings

Each is a run that is expected to be violated; `PROJECT.json` quotes the line of the
repository that says otherwise.

1. The victim of a deadlock is the requester, not the newest transaction (project2).
2. "No overflow!" is printed after an overflow (project2).
3. A scan that borrows returns the array of the older copy, which may be from before
   the scan (`WFSnapshot.cc:74`).
4. A search thread of project1 takes every return of `pthread_cond_wait` for a signal
   (`trie.cc:252`), so that after a spurious one a query may be printed incomplete.

## Proofs

### The lock table

For any finite set of threads and any set of records (`ThreadsAssumption`,
`NoRecordAssumption`); `NeverAllAsleep` needs at least one thread. The reader count and
the record ids are mathematical integers.

* `LockInvariant`: `LockInv` is inductive. None of the listed
  safety properties is inductive alone: that a wakeup is not lost needs the queue
  positions of the holders, those need that holders are not blocked
  (`NoOvertaking`), that the status dispatch of `unlock` takes the right branch
  (`StatusInv`), that entries are unique and match grants (`QueueDistinct`,
  `EntryInv`, `HasEntry`), and that signals go to sleepers (`WokenInv`); `CountInv`
  ties `readers_count` to the grants. One lemma per action (`RequestGrantedInv`, ...,
  `RdUnlockInv`, `WrUnlockInv`); the two unlocks share `EraseInv`, which says what
  removing a holder from a queue does.
* The lemmas before it are about the graph (what adding and removing edges does to
  paths and cycles) and about queues: a request's position decides what
  it waits for (`PrefixDecides`); it is blocked exactly if it waits for somebody
  (`BlockedIffWaits`), which connects the sleeping loops with the edges; what the
  departure of a reader or of the writer at the top changes for everyone else
  (`ReaderLeaves`, `WriterLeaves`, `UnlockWaits`).
* From `LockInv` follow `TypeCorrect`, `WriterIsAlone`, `ArrivalOrder`,
  `WakeupsSuffice`, `GraphIsExact`, `NoAssertionFails` and `IdleIsInitial` (a table
  that nobody uses is the initial one: no reader counted, no entry and no edge left).
  `NoDeadlock`: acyclicity is preserved, because edges are added for one thread
  only and the search from that thread found no cycle (`AddEdgesAcyclic`), and taking
  edges away closes none. `NeverAllAsleep`: a finite graph without cycles has a
  thread without edges (`AcyclicHasSink`), which by `GraphExact` and
  `BlockedIffWaits` is not blocked, so by `NoLostWakeup` it runs or was signalled.
  `LockTableImplementsLock`: every step is a step of `ReadersWriterLock` or leaves
  `held` alone.

### The search of the graph

For any set of nodes and any graph, finite or not, as long as the search ends.
`VectorsRepresentGraph` connects the vectors with the sets of `WaitForGraph` that the
lock table is proved with: `add_edge` and `remove_edge` add and remove one edge, the
latter because no destination is listed twice (`SimpleGraph`), and a search changes none.
`GraphInv` (`GraphInvariant`) is inductive: the calls under way are a path of distinct
nodes from the node asked for (`StackIsPath`), every visited node is reached from it
(`VisitedReached`), and while the search goes down the destinations that a loop has
passed are visited, as are all destinations of a visited node that is no longer on the
stack (`SearchedSoFar`). The last is what a search that visits no node twice needs: when
it ends without success, the visited nodes are closed under the edges and do not contain
the node asked for, so no cycle goes through it (`ClosedNoCycle`). While the calls return
true, the vector is a path against the edges from the node asked for to the destination
of the innermost call, disjoint from the stack (`CycleSoFar`); at the end it is the cycle.
`SearchFindsCycles` and `SearchReturnsCycles` follow. That a search ends is not proved;
every step visits a node, passes a destination or takes a call off the stack.

### The CLH lock

For any finite set of threads, any heap and any number of rounds. The lock keeps no
list: the queue exists only in the threads' pointers. `ChainInv` (`QueueOfNodes`) says
what it is: every thread's node is its own and true (`OwnInv`), no two threads wait on
the same node and nobody waits on the tail (`PredInv`), at most one node of the chain
is false and none while the lock is given back (`TokenInv`), nothing else is allocated
(`LiveInv`), and `waiters` lists the spinning threads, each on the node of the one ahead
(`QueueInv`). Mutual exclusion needs `TokenInv`; `TokenInv` needs that a node which is
allocated again is not in the chain, hence `OwnInv` and `PredInv`. From it follow
`CLHTypeCorrect`, `NodesAreLive`, `NoNodeLeaks` (an injection of the nodes into the
threads and the tail), `QueueOrder` and `CLHImplementsLock`.

### The snapshot

For any number of threads and of updates. `SnapInv` (`SnapshotInvariant`): the value of
a cell lags its stamp by at most the store under way (`StampInv`); the collects of a
scan are counted by the threads it has seen moving, never itself (`MovedInv`); what a
scan has loaded lies between the stamps at the beginning of its collect and those of
now, and the earlier collect before them (`CollectInv`); a scan sees its own stamp at
rest (`OwnInv`, without which it could count itself as moving); and the live arrays are
those of the cells and the ones about to be deleted (`HeapInv`). `ScanIsWaitFree` follows
by counting, `DirectScanIsPinned` by squeezing equal stamps between the two collects,
`ArraysAreLive` from `HeapInv`.

### The workers

For any finite set of threads, any finite set of at least three records and any number
of commit ids, with integers of any width; `QuietEnd` needs at least one thread.

`WorkerInv` is inductive (`WorkerInvariant`). It says where
each worker is in `transaction()` and `rollback()` for every phase of its log
(`PhaseOK`), which locks it then has and that it sleeps only in a request (`LocksOK`),
that a sleeper's queue entry is of the kind of the request it will resume
(`EntryPhase`), and `LockInv` of the table. Every step of a worker is a call of the lock
table or leaves the table alone, and for the calls the lemmas of `RWLockTableProofs` are
used as they stand. `StrictTwoPhase` alone is not inductive: a worker that resumes is
granted what its queue entry says, so the entry has to be that of its phase, and a
release is a legal call only because the phases in `rollback` retrace those of the
growth. `TwoPhaseLocking` follows; `RecordsAreRaceFree` follows from it together with
mutual exclusion of the lock table, since every load is under a lock and every store
under a write lock of the record.

`SerialInv` (`SerialInvariant`) adds the data: it says what the values that a
worker remembers have to do with the records as long as it holds their locks
(`ValuesOK`: read and not yet written, written, being undone) and that the commit ids are
`1..n` for the `n` committed transactions, that `global_execution_order` counts
them, and that a worker fails its commit only when all ids are used (`CommitsOK`).
`TransactionsSerializable` is the refinement of `SerialStore`: the abstract value of a
record is the stored one, less what a worker has added to it and neither committed nor
taken back (`CommittedValue`). A commit changes the two records of the worker, every other
step changes no abstract value: a store is by the holder of the write lock, adds or takes
back exactly what `CommittedValue` accounts for, and no two workers have changed the
same record because write locks exclude.

The replay of marking is a recursive function over the log. `ReplayInv`
(`ReplayInvariant`) says that there is such a function for the lines logged so far, and
that any function that satisfies its recursion ends with the committed values and meets
the values of every line. A commit makes the log longer by the line with the next id, so
the recursion for the new log is that of the old one and one more step: the induction is
over the steps of the program. `MarkingAcceptsLogs` follows, and with the locks and
pending writes of workers that are done, `QuietEnd`.

### The trie and the search threads

For any number of threads, any set of words and any queries, none of them empty.
`SearchInv` (`SearchInvariant`) holds with any number of spurious returns and has two
parts. The trie (`TrieOK`) is closed under prefixes, its nodes with an id are the words
of the set, and ids are unique. `FreedBelow` is the key to `erase`: a node that the
recursion frees has no child outside of the way to the word, so nothing that stays is
below it (a first difference between two paths, `Least`). The pool (`PoolOK`) speaks of
each thread on its own, as long as it is undisturbed: the place of main, with its loop
counter, determines what such a thread is up to: not created, asleep with its flag set,
asleep with the flag reset by main, working, leaving. Main's signal needs the mutex,
which a thread has from before it sets its flag until it waits, so it finds the thread
waiting and is not lost. `AnswersOK`: a thread that works has found the answers of the
positions of its share before the one it is at; a thread whose flag is set again has
found those of its whole share; and the shares of the threads that got work are all
positions of the query (`SharesOK`). A disturbed thread changes its own flag, mutex,
positions and answers, and otherwise at most ends the run as corrupt, so it keeps what
is said of the others (`DisturbedInv`); a wait that returns without a signal only takes
its thread out of the undisturbed ones (`SpuriousWakeupInv`); and an undisturbed thread
never has a freed root (`RootIsLive`). A search walks the memory of `str_buffer` beyond
the query, but a string that begins in the query is part of it or holds the Nul, which
no word does (`Strings`). `SearchersAreQuiet` and `TrieIsSet` follow, and
`QueriesComplete`: when main prints, every undisturbed thread has found exactly the
occurrences of words of the set that begin in its share, and the shares are the whole
query.

`QueriesPrintWords` says what comes out while all threads are undisturbed: every word
that occurs, once, by first occurrence and length. The lines are an order of the answers
in the model and of the words in the property (`InOrder`: the n-th element is the one
with n - 1 before it). An answer that is printed is the first occurrence of its word,
since ids tell words apart (`ShownFacts`), and every word that occurs has one
(`OccurringShown`), so the two sets have the same order (`ShownOrder`). In a finite
order the ranks are all the numbers less than the size, each taken once (`Ranks`, by
counting), hence equal places hold corresponding elements (`SameOrder`), without an
induction over the lines. It needs besides `SearchInv` that no word is empty
(`PrintInv`).

### The hand-over-hand list

For any set of threads, any heap, any integer keys strictly between `INT_MIN` and
`INT_MAX`, and any number of operations. `ListInv` (`ListInvariant`) does not speak of
paths: the nodes of the list have distinct keys, their keys are those of the set, and
the link of a node goes to the node with the next larger key (`Adjacent`, in `ListOK`),
except at a node that is being linked. Threads that walk stand on adjacent locked nodes
(`PointersOK`, `MutexOK`, `LockedNodes`), so a node can be unlinked only by the thread
that has both; a node which is allocated and not yet linked, or unlinked and not yet
freed, belongs to one thread and to no pointer of another (`OwnedOK`). This is what
`NoUseAfterFree` needs: `list_remove` frees its node after it has given up the mutexes,
and only because whoever reaches a node holds its predecessor's mutex nobody can be
waiting for it. From `ListInv` follow `NoDanglingPointer`, `ListHoldsSet` and
`ListImplementsSet`, where an operation takes effect at the test of the key or at the
store of the link, and its result is that of the set because the keys between two
adjacent nodes are not in the set.

### The optimistic list

For any set of threads, any number of operations and integer keys strictly between
`INT_MIN` and `INT_MAX` (`ConstantsOK`, a hypothesis of the theorems that TLC evaluates
in `MCSortedLists`). The nodes of the list are the least set that contains the head and
is closed under the links (`Reached`). `OptInv` (`OptInvariant`): links go to larger
keys and to nodes that have a link themselves, also from nodes that were taken out, so
that no walk gets stuck (`LinksOK`); the list is the order of the keys of the set
(`ListOK`); nodes of calls still to come have no link (`FreshOK`); a thread has the
mutexes of the two nodes it stopped at (`PointersOK`). The heart is `ValidOK`: while a
thread validates, its prev is in the list, or it is outside of a set of nodes that
contains the list and the validating pointer and that no link leaves (`Unreachable`).
Nobody can take prev out of the list, since that needs its mutex; and a store of a link
opens such a set only for the node that is linked. So a validation that arrives at prev
finds it in the list, however the list has changed during the walk. What a store to a
link does to the reachable nodes is the subject of `ReachedSame`, `ReachedLink` and
`ReachedUnlink`. `OptListHoldsSet` and `ValidationLasts` follow; the latter with the
fact that the key of curr decides membership in the set. `SortedListsProofs` carries
both over to the composition that the run checks (`OptProgramHoldsSet`,
`OptProgramValidates`).

### The ring

For a ring of any size, any disjoint finite sets of producers and consumers, and any
workload with as many dequeues as enqueues (`WorkAssumption`, as in main). `RingInv`
(`RingInvariant`): tickets are drawn once (`TicketInv`); the flag of a slot counts the calls
finished at it, and while a call is past its spinning test the flag is the one it saw
(`TurnInv`); no flag is ahead of the tickets (`UnissuedInv`); a full slot holds the key of
the enqueue of its round (`FullInv`), and so does a call that has stored or taken a key
(`KeyInv`); tickets of dequeues ahead of the enqueues belong to calls that wait
(`HeldInv`). The increment of the flag is a load and a store,
so that `TurnInv` has to say what a call in between has loaded. `SlotIsOwned` follows from
`TurnInv`: two calls at one slot would both be the next one. `RingImplementsFifo`: a
ticket of an enqueue appends its key, a dequeue takes the head when both tickets are
drawn, and the key it loads later is still that of its ticket.

### Only model-checked

Everything under fairness: `Terminates` of the CLH lock, the ring and the search threads,
`SleeperWakes` and `TerminatesOrAborts` of the transactions. The prover has no rule for
`WF`, since that is about `ENABLED`. Every invariant and every refinement that a run checks
is also a theorem, but for the four that runs show to be violated.

`RingInv`, `WorkerInv`, `SerialInv`, `ListInv`, `OptInv`, `SearchInv` and `GraphInv`
were also checked by TLC as invariants on instances of about the size of the runs (66366
to 994437 states); they are not part of a run, since they are proved.

## Not modelled

project4 holds the sources of MariaDB 10.2.11, 2.7 million of the repository's 2.8
million lines, for a project whose result the repository's README says is not reached
("I did not solved the problem yet"): nothing in them was written by the authors of
this repository. The share of all source lines that the models cover is therefore
tiny; the three projects of the class and the hardest program of lab10, lab11 and lab13
are modelled.

Of the labs with a modelled program these are left out: the two test-and-set locks and
the fetch-and-add program of lab10, each of which rests on one atomic builtin; the two
lists of lab11 and the queue of lab13 that hold one mutex during a whole operation,
with the flaw that `list_contains` of `list_template.cpp` reads a node after the unlock
(line 102). The pools of lab04 and lab05 are earlier forms of the one of project1, which
`SearchThreads` models; unlike that one, `prime_cond.cpp` lets main broadcast before a
new thread waits (line 35), and such a thread sleeps through the query. The pool of
lab07 and the timers of lab06 are `boost::asio`.

lab01, lab02, lab03 and the inputs for valgrind of lab05 make single calls of the
thread library. `prime_mt.cpp` of lab04 and lab07 create and join threads for each
query, without shared state besides the result of each thread; `timer_sync`,
`timer_async` and `timer_async_arg` set one timer in one thread.

Throughout: printing, the progress animation, text formats and files (log files,
workload and result files), command lines (`RecordsAssumption` and `EAssumption` exclude
fewer than three records and no commit id), destructors, and the failure of `malloc` and
`pthread_create`. `readers_count` is 32 bits wide and bounded by the number of threads;
stamps, tickets and counters of the labs do not reach the limits of their types under
the workloads in the sources. `list_init` leaves the mutexes of head and tail
uninitialised; the models take them as initialised. The leak of `moved` on the borrowing
path of `scan` (`WFSnapshot.cc:63` and `73-80`) is not modelled: the heap of `WFSnapshot`
is that of the published arrays. `SearchThreads` assumes that the arguments of the
commands fit the `RESERVED_CAPACITY` of `str_buffer`, so that its memory stays where the
threads were told it is. `list_add` of `optimistic.cpp` has no
way out after it has linked its node but the branch that returns false (lines 80-94);
the model does as the code does, and no property is about that result. `set` of
`OptimisticList` follows every link, so that a call which linked its key again after
another thread removed it would not be told from one which linked it once. A copy of a
deleted snap array is the value `Junk` in `WFSnapshot`, which a scan that borrows can
return; `ScanIsFresh` leaves such results out, and no property is about them. What a
program does after it has taken foreign or freed memory for a node, or after a race
with undefined outcome (`corrupt` in `Trie`, `"corrupt"` in `SearchThreads`), is not
modelled.

In project2 the loop test of `transaction()` races with the increment of
`global_execution_order`; the read is of an aligned 64-bit word and is modelled as a
read of the current value at any later time. Sequentially consistent memory is
assumed for `records`; `NoDataRace` with the mutex hand-over between holders
justifies it.

## Plan

What is left:

1. Termination of the search of `DirectedGraph`, as a property under fairness.
2. Arguments of project2's `main`: fewer than three records, no thread.
3. The pools of lab04 and lab05, as variants of `SearchThreads`.
