----------------------------- MODULE WFSnapshot ------------------------------
(***************************************************************************)
(* The wait-free snapshot of project3: N threads, each publishing a value  *)
(* in a cell of its own, and each update beginning with a scan of all      *)
(* cells.                                                                  *)
(*                                                                         *)
(* A cell is not replaced as a whole: update stores its stamp, its value   *)
(* and its snap pointer one after the other, and collect loads the three   *)
(* in an order that C++ leaves open (they are arguments of one call).      *)
(* Each of these is a step.  A snap array is immutable between the swap    *)
(* that publishes it and its delete, so copying it is one step; a copy of  *)
(* an array that has been deleted yields Junk.                             *)
(***************************************************************************)
EXTENDS Integers, FiniteSets

CONSTANTS N,              \* num_of_threads
          MaxUpdates,     \* bound: updates of a thread before end is set
          Junk            \* what an array that was deleted holds

ASSUME NAssumption == N \in Nat \ {0}
ASSUME MaxUpdatesAssumption == MaxUpdates \in Nat

VARIABLES
    a_table,         \* the cells: [stamp, value, snap]
    heap,            \* the live snap arrays; the k-th of thread t is <<t, k>>
    end,             \* set by main after its sleep
    num_of_update,
    pc,
    value,           \* thread_func's counter
    old_copy,        \* the earlier of scan's two collects
    copy,            \* the collect being made
    i,               \* how many cells of copy are made
    part,            \* the fields of cell i loaded so far
    moved,           \* the threads scan has seen moving
    result,          \* the array scan returns
    collects,        \* history: the collects finished by this scan
    start,           \* history: the values when this scan began
    between          \* history: the stamps when the last collect began

scanner == <<value, old_copy, copy, i, part, moved, result>>
history == <<collects, start, between>>
vars == <<a_table, heap, end, num_of_update, pc, scanner, history>>

Threads == 0..(N - 1)
Fields == {"stamp", "value", "snap"}
Blank == [j \in Threads |-> [stamp |-> 0, value |-> 0, snap |-> Junk]]
Zeros == [j \in Threads |-> 0]

Init ==
    /\ a_table = [t \in Threads |-> [stamp |-> 0, value |-> 0, snap |-> <<t, 0>>]]
    /\ heap = [p \in {<<t, 0>> : t \in Threads} |-> Zeros]
    /\ end = FALSE
    /\ num_of_update = Zeros
    /\ pc = [t \in Threads |-> "loop"]
    /\ value = Zeros
    /\ old_copy = [t \in Threads |-> Blank]
    /\ copy = [t \in Threads |-> Blank]
    /\ i = Zeros
    /\ part = [t \in Threads |-> << >>]
    /\ moved = [t \in Threads |-> {}]
    /\ result = [t \in Threads |-> Zeros]
    /\ collects = Zeros
    /\ start = [t \in Threads |-> Zeros]
    /\ between = [t \in Threads |-> Zeros]

-----------------------------------------------------------------------------
At(t, label) == pc[t] = label
Goto(t, label) == pc' = [pc EXCEPT ![t] = label]

Values == [j \in Threads |-> a_table[j].value]
Stamps == [j \in Threads |-> a_table[j].stamp]

\* f with f[x] = y added.
Extend(f, x, y) == [z \in DOMAIN f \cup {x} |-> IF z = x THEN y ELSE f[z]]

\* collect starts over at the first cell.
BeginCollect(t) ==
    /\ i' = [i EXCEPT ![t] = 0]
    /\ between' = [between EXCEPT ![t] = Stamps]

\* thread_func calls update, which calls scan.
Update(t) ==
    /\ At(t, "loop")
    /\ ~end /\ value[t] < MaxUpdates
    /\ value' = [value EXCEPT ![t] = @ + 1]
    /\ start' = [start EXCEPT ![t] = Values]
    /\ BeginCollect(t)
    /\ Goto(t, "collect")
    /\ UNCHANGED <<a_table, heap, end, num_of_update, old_copy, copy, part,
                   moved, result, collects>>

\* Evaluating one of the three arguments.
Load(t, f) ==
    /\ At(t, "collect")
    /\ f \notin DOMAIN part[t]
    /\ part' = [part EXCEPT ![t] = Extend(@, f, a_table[i[t]][f])]
    /\ UNCHANGED <<a_table, heap, end, num_of_update, pc, value, old_copy, copy,
                   i, moved, result, history>>

Memcpy(p) == IF p \in DOMAIN heap THEN heap[p] ELSE Junk

LastCell(t) == i[t] = N - 1

\* The constructor of a copy, which copies the snap array.  The collect that
\* makes the last copy is finished: scan's first one becomes old_copy.
Construct(t) ==
    LET made == [copy[t] EXCEPT ![i[t]] =
                   [part[t] EXCEPT !.snap = Memcpy(part[t].snap)]]
        last == LastCell(t)
    IN
    /\ At(t, "collect")
    /\ DOMAIN part[t] = Fields
    /\ copy' = [copy EXCEPT ![t] = made]
    /\ part' = [part EXCEPT ![t] = << >>]
    /\ collects' = IF last THEN [collects EXCEPT ![t] = @ + 1] ELSE collects
    /\ \/ ~last /\ i' = [i EXCEPT ![t] = @ + 1]
          /\ UNCHANGED <<pc, old_copy, between>>
       \/ last /\ collects[t] = 0 /\ old_copy' = [old_copy EXCEPT ![t] = made]
          /\ BeginCollect(t)
          /\ UNCHANGED pc
       \/ last /\ collects[t] > 0 /\ Goto(t, "compare")
          /\ UNCHANGED <<i, old_copy, between>>
    /\ UNCHANGED <<a_table, heap, end, num_of_update, value, moved, result,
                   start>>

\* The first thread whose stamp differs in the two collects.
Differs(t, j) == old_copy[t][j].stamp # copy[t][j].stamp

FirstMoved(t, j) ==
    /\ j \in Threads /\ Differs(t, j)
    /\ \A k \in Threads : k < j => ~Differs(t, k)

\* Mutant: the comparison leaves the last cell out.
Clean_MissesLast(t) == \A j \in Threads : j < N - 1 => ~Differs(t, j)

Clean(t) == \A j \in Threads : ~Differs(t, j)

\* The end of scan frees its collects.
ScanReturns(t) ==
    /\ old_copy' = [old_copy EXCEPT ![t] = Blank]
    /\ copy' = [copy EXCEPT ![t] = Blank]
    /\ moved' = [moved EXCEPT ![t] = {}]
    /\ i' = [i EXCEPT ![t] = 0]
    /\ between' = [between EXCEPT ![t] = Zeros]
    /\ Goto(t, "stamp")
    /\ UNCHANGED <<a_table, heap, end, num_of_update, value, part, collects, start>>

\* Two equal collects: scan returns the values of the later one.
ReturnDirect(t) ==
    /\ At(t, "compare")
    /\ Clean(t)
    /\ result' = [result EXCEPT ![t] = [j \in Threads |-> copy[t][j].value]]
    /\ ScanReturns(t)

\* j has moved for the second time: scan returns the array of its older copy.
\* (The array moved itself is not freed on this path.)
ReturnBorrowed(t, j) ==
    /\ At(t, "compare")
    /\ FirstMoved(t, j) /\ j \in moved[t]
    /\ result' = [result EXCEPT ![t] = old_copy[t][j].snap]
    /\ ScanReturns(t)

\* Mutant: the move is not recorded.
CollectAgain_Forgets(t, j) ==
    /\ At(t, "compare")
    /\ FirstMoved(t, j) /\ j \notin moved[t]
    /\ old_copy' = [old_copy EXCEPT ![t] = copy[t]]
    /\ BeginCollect(t)
    /\ Goto(t, "collect")
    /\ UNCHANGED <<a_table, heap, end, num_of_update, value, copy, part, moved,
                   result, collects, start>>

CollectAgain(t, j) ==
    /\ At(t, "compare")
    /\ FirstMoved(t, j) /\ j \notin moved[t]
    /\ moved' = [moved EXCEPT ![t] = @ \cup {j}]
    /\ old_copy' = [old_copy EXCEPT ![t] = copy[t]]
    /\ BeginCollect(t)
    /\ Goto(t, "collect")
    /\ UNCHANGED <<a_table, heap, end, num_of_update, value, copy, part, result,
                   collects, start>>

StoreStamp(t) ==
    /\ At(t, "stamp")
    /\ a_table' = [a_table EXCEPT ![t].stamp = @ + 1]
    /\ collects' = [collects EXCEPT ![t] = 0]
    /\ start' = [start EXCEPT ![t] = Zeros]
    /\ Goto(t, "value")
    /\ UNCHANGED <<heap, end, num_of_update, scanner, between>>

\* Mutant: the counter is incremented here too.
StoreValue_Ahead(t) ==
    /\ At(t, "value")
    /\ a_table' = [a_table EXCEPT ![t].value = value[t] + 1]
    /\ Goto(t, "snap")
    /\ UNCHANGED <<heap, end, num_of_update, scanner, history>>

StoreValue(t) ==
    /\ At(t, "value")
    /\ a_table' = [a_table EXCEPT ![t].value = value[t]]
    /\ Goto(t, "snap")
    /\ UNCHANGED <<heap, end, num_of_update, scanner, history>>

\* The new array is published; to_be_deleted is the one before it.
SwapSnap(t) ==
    LET p == <<t, a_table[t].stamp>> IN
    /\ At(t, "snap")
    /\ heap' = Extend(heap, p, result[t])
    /\ a_table' = [a_table EXCEPT ![t].snap = p]
    /\ result' = [result EXCEPT ![t] = Zeros]
    /\ Goto(t, "delete")
    /\ UNCHANGED <<end, num_of_update, value, old_copy, copy, i, part, moved,
                   history>>

\* Mutant: the array that was just published is deleted.
DeleteSnap_Wrong(t) ==
    /\ At(t, "delete")
    /\ heap' = [p \in DOMAIN heap \ {<<t, a_table[t].stamp>>} |-> heap[p]]
    /\ num_of_update' = [num_of_update EXCEPT ![t] = @ + 1]
    /\ Goto(t, "loop")
    /\ UNCHANGED <<a_table, end, scanner, history>>

\* update frees the old array, and thread_func counts the update.
DeleteSnap(t) ==
    /\ At(t, "delete")
    /\ heap' = [p \in DOMAIN heap \ {<<t, a_table[t].stamp - 1>>} |-> heap[p]]
    /\ num_of_update' = [num_of_update EXCEPT ![t] = @ + 1]
    /\ Goto(t, "loop")
    /\ UNCHANGED <<a_table, end, scanner, history>>

Return(t) ==
    /\ At(t, "loop") /\ end
    /\ Goto(t, "done")
    /\ UNCHANGED <<a_table, heap, end, num_of_update, scanner, history>>

\* main wakes up.
End ==
    /\ ~end /\ end' = TRUE
    /\ UNCHANGED <<a_table, heap, num_of_update, pc, scanner, history>>

Joined == \A t \in Threads : At(t, "done")

Step(t) ==
    \/ Update(t)
    \/ \E f \in Fields : Load(t, f)
    \/ Construct(t)
    \/ ReturnDirect(t)
    \/ \E j \in Threads : ReturnBorrowed(t, j) \/ CollectAgain(t, j)
    \/ StoreStamp(t) \/ StoreValue(t) \/ SwapSnap(t) \/ DeleteSnap(t)
    \/ Return(t)

Ended == Joined /\ UNCHANGED vars

Next == (\E t \in Threads : Step(t)) \/ End \/ Ended

Spec == Init /\ [][Next]_vars

-----------------------------------------------------------------------------
(* Properties *)

Labels == {"loop", "collect", "compare", "stamp", "value", "snap", "delete", "done"}

\* Every variable has its type.
TypeOK ==
    /\ a_table \in [Threads -> [stamp : Nat, value : Nat, snap : Threads \X Nat]]
    /\ end \in BOOLEAN
    /\ pc \in [Threads -> Labels]
    /\ value \in [Threads -> Nat] /\ num_of_update \in [Threads -> Nat]
    /\ i \in [Threads -> Threads]
    /\ DOMAIN part = Threads
    /\ \A t \in Threads : DOMAIN part[t] \subseteq Fields
    /\ \A t \in Threads : DOMAIN copy[t] = Threads /\ DOMAIN old_copy[t] = Threads
    /\ DOMAIN copy = Threads /\ DOMAIN old_copy = Threads
    /\ moved \in [Threads -> SUBSET Threads]
    /\ collects \in [Threads -> Nat]
    /\ between \in [Threads -> [Threads -> Nat]]

Returned(t) == At(t, "stamp")

\* scan is wait-free: whatever the other threads do, it returns after at most
\* N + 1 collects, for it sees each of the N - 1 other threads move at most
\* once before it ends.
WaitFree == \A t \in Threads : collects[t] <= N + 1

\* The argument behind a scan that returns its own collect: stamps only grow,
\* so two equal collects show the stamps that all cells had together at the
\* instant between them.  A value lags at most the one store behind its stamp
\* which update had still to make; it may be newer, for collect does not load
\* it together with the stamp.
DirectScanPinned ==
    \A t \in Threads : At(t, "compare") /\ Clean(t) =>
        \A j \in Threads :
            /\ copy[t][j].stamp = between[t][j]
            /\ copy[t][j].value >= between[t][j] - 1

\* A cell always points to a live array, and at the end those are the only
\* arrays that updates published and did not delete, so that the delete of ss
\* frees the last of them.  (The moved of a scan that borrows is never freed;
\* it is not on this heap.)
SnapsAreLive ==
    /\ \A t \in Threads : a_table[t].snap \in DOMAIN heap
    /\ Joined => DOMAIN heap = {a_table[t].snap : t \in Threads}

\* What makes scan a snapshot: its result misses no update that was complete
\* when the scan began.
ScanIsFresh ==
    \A t \in Threads : Returned(t) /\ result[t] # Junk =>
        \A j \in Threads : result[t][j] >= start[t][j]

-----------------------------------------------------------------------------
(* The inductive invariant *)

Scanning(t) == pc[t] \in {"collect", "compare"}

\* The counters of a thread and its cell.
StampInv ==
    \A t \in Threads :
        /\ value[t] = IF Scanning(t) \/ At(t, "stamp") THEN a_table[t].stamp + 1
                                                       ELSE a_table[t].stamp
        /\ a_table[t].value = IF At(t, "value") THEN a_table[t].stamp - 1
                                                ELSE a_table[t].stamp

\* Between its first two collects a scan has seen nobody move; each collect
\* after that was due to one more thread, never to the scanning one.
MovedInv ==
    \A t \in Threads :
        /\ t \notin moved[t]
        /\ At(t, "collect") => \/ collects[t] = 0 /\ moved[t] = {}
                               \/ collects[t] = Cardinality(moved[t]) + 1
        /\ At(t, "compare") => collects[t] = Cardinality(moved[t]) + 2
        /\ At(t, "stamp") => collects[t] <= N + 1
        /\ ~Scanning(t) => moved[t] = {}
        /\ ~Scanning(t) /\ ~At(t, "stamp") => collects[t] = 0

\* What a collect has loaded of cell j lies between the stamp at its
\* beginning and that of now, and the earlier collect before them.
Bracketed(t, j) ==
    /\ between[t][j] <= a_table[j].stamp
    /\ At(t, "compare") \/ j < i[t] =>
          /\ copy[t][j].stamp \in between[t][j]..a_table[j].stamp
          /\ copy[t][j].value \in Nat
          /\ copy[t][j].value >= between[t][j] - 1
    /\ j = i[t] /\ "stamp" \in DOMAIN part[t] =>
          part[t]["stamp"] \in between[t][j]..a_table[j].stamp
    /\ j = i[t] /\ "value" \in DOMAIN part[t] =>
          part[t]["value"] \in Nat /\ part[t]["value"] >= between[t][j] - 1
    /\ collects[t] > 0 => old_copy[t][j].stamp \in 0..between[t][j]

CollectInv ==
    \A t \in Threads :
        /\ ~At(t, "collect") => DOMAIN part[t] = {}
        /\ Scanning(t) => \A j \in Threads : Bracketed(t, j)

\* A scanning thread does not change its own stamp.
OwnInv ==
    \A t \in Threads : Scanning(t) =>
        /\ between[t][t] = a_table[t].stamp
        /\ collects[t] > 0 => old_copy[t][t].stamp = a_table[t].stamp

\* The live arrays: the ones in the cells, and those about to be deleted.
HeapInv ==
    /\ \A t \in Threads :
          a_table[t].snap = <<t, IF pc[t] \in {"value", "snap"}
                                 THEN a_table[t].stamp - 1 ELSE a_table[t].stamp>>
    /\ DOMAIN heap = {a_table[t].snap : t \in Threads} \cup
          {<<t, a_table[t].stamp - 1>> : t \in {u \in Threads : At(u, "delete")}}

\* Stamps only grow, a scan sees its own cell at rest, and the stamps bracket
\* what it has loaded; wait-freedom and the direct scan follow from this.
SnapInv == TypeOK /\ StampInv /\ MovedInv /\ CollectInv /\ OwnInv /\ HeapInv
=============================================================================
