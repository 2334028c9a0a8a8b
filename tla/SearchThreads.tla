---------------------------- MODULE SearchThreads ----------------------------
(***************************************************************************)
(* project1 as a whole: main reads commands and keeps the trie; a query is *)
(* searched by T threads that sleep between queries.                       *)
(*                                                                         *)
(* A thread says that it sleeps (thread_is_sleep) before it waits on its   *)
(* condition variable, with its mutex held; main polls that flag without   *)
(* the mutex, and takes the mutex to signal.  Each step is an access of    *)
(* shared state; searching from one position of the query is one step.     *)
(*                                                                         *)
(* pthread_cond_wait may return without a signal.  Nothing is tested after *)
(* it but finished, so that the thread searches with the arguments of an   *)
(* earlier query, in what the memory of str_buffer and the trie hold by    *)
(* then.                                                                   *)
(***************************************************************************)
EXTENDS Trie

CONSTANTS T,              \* THREAD_NUM
          Queries,        \* the queries of the input
          Nul,            \* the end of a string
          MaxCommands,    \* bound: words and commands before the end of the input
          MaxSpurious     \* bound: waits that return without a signal

ASSUME TAssumption == T \in Nat \ {0}
ASSUME QueriesAssumption == Queries \subseteq (Seq(Letters) \ {<< >>})
ASSUME NulAssumption == Nul \notin Letters

VARIABLES
    main,                 \* where main is
    k,                    \* main's loop counter
    tid,                  \* how many threads the query was given to
    str_buffer,           \* the argument of the last command
    behind,               \* what its memory holds after the Nul at its end
    finished,
    pc,                   \* where each thread is
    cond_mutex,           \* whether a thread holds its mutex
    thread_is_sleep,
    thread_args,          \* [root, at, length]: the positions a thread searches
    data,                 \* the positions left to a thread: [root, at, left]
    local_answers,        \* sets of [at, length, id]
    output,               \* history: what the last query printed
    commands,             \* history: how many words and commands were read
    spurious              \* history: how many waits of each thread returned
                          \* without a signal

buffer == <<str_buffer, behind>>
poolVars == <<finished, pc, cond_mutex, thread_is_sleep, thread_args, data,
              local_answers, spurious>>
vars == <<main, k, tid, buffer, output, commands, poolVars, trieVars>>

Threads == 0..(T - 1)

Init ==
    /\ TrieInit
    /\ main = "load" /\ k = 0 /\ tid = 0
    /\ str_buffer = << >> /\ behind = << >>
    /\ finished = FALSE
    /\ pc = [t \in Threads |-> "none"]
    /\ cond_mutex = [t \in Threads |-> FALSE]
    /\ thread_is_sleep = [t \in Threads |-> FALSE]
    /\ thread_args = [t \in Threads |-> [root |-> 0, at |-> 1, length |-> 0]]
    /\ data = [t \in Threads |-> [root |-> 0, at |-> 1, left |-> 0]]
    /\ local_answers = [t \in Threads |-> {}]
    /\ output = << >>
    /\ commands = 0
    /\ spurious = [t \in Threads |-> 0]

-----------------------------------------------------------------------------
(* A search thread *)

At(t, label) == pc[t] = label
Goto(t, label) == pc' = [pc EXCEPT ![t] = label]
mainVars == <<main, k, tid, buffer, output, commands, finished, thread_args,
              trieVars, spurious>>

\* The process has ended, or has done what C++ does not define: what it does
\* then is not modelled.
Stopped == main \in {"end", "exited", "corrupt"}

\* Going to sleep: lock, set the flag, wait.
LockToSleep(t) ==
    /\ At(t, "lock")
    /\ ~cond_mutex[t]
    /\ cond_mutex' = [cond_mutex EXCEPT ![t] = TRUE]
    /\ Goto(t, "flag")
    /\ UNCHANGED <<mainVars, thread_is_sleep, data, local_answers>>

SetSleep(t) ==
    /\ At(t, "flag")
    /\ thread_is_sleep' = [thread_is_sleep EXCEPT ![t] = TRUE]
    /\ Goto(t, "wait")
    /\ UNCHANGED <<mainVars, cond_mutex, data, local_answers>>

Wait(t) ==
    /\ At(t, "wait")
    /\ cond_mutex' = [cond_mutex EXCEPT ![t] = FALSE]
    /\ Goto(t, "waiting")
    /\ UNCHANGED <<mainVars, thread_is_sleep, data, local_answers>>

\* The wait returns although nothing was signalled.
SpuriousWakeup(t) ==
    /\ At(t, "waiting") /\ ~Stopped
    /\ FoldFunction(+, 0, spurious) < MaxSpurious
    /\ spurious' = [spurious EXCEPT ![t] = @ + 1]
    /\ Goto(t, "woken")
    /\ UNCHANGED <<main, k, tid, buffer, output, commands, finished, thread_args,
                   trieVars, cond_mutex, thread_is_sleep, data, local_answers>>

\* The wait returns with the mutex, which is unlocked; then finished is read.
Resume(t) ==
    /\ At(t, "woken")
    /\ ~cond_mutex[t]
    /\ Goto(t, IF finished THEN "done" ELSE "args")
    /\ UNCHANGED <<mainVars, cond_mutex, thread_is_sleep, data, local_answers>>

ReadArgs(t) ==
    /\ At(t, "args")
    /\ data' = [data EXCEPT ![t] = [root |-> thread_args[t].root, at |-> thread_args[t].at,
                                    left |-> thread_args[t].length]]
    /\ Goto(t, "search")
    /\ UNCHANGED <<mainVars, cond_mutex, thread_is_sleep, local_answers>>

\* The memory of str_buffer.
Bytes == str_buffer \o <<Nul>> \o behind

\* The words of the trie that begin at position p of the memory.
Answers(p) ==
    {a \in [at : {p}, length : 1..(Len(Bytes) - p + 1), id : 1..MaxIds] :
        Node(trie, SubSeq(Bytes, p, p + a.length - 1)) = a.id}

HasPosition(t) == data[t].left > 0 /\ Bytes[data[t].at] # Nul

Search(t) ==
    /\ At(t, "search")
    /\ HasPosition(t)
    /\ data[t].root = roots
    /\ local_answers' = [local_answers EXCEPT ![t] = @ \cup Answers(data[t].at)]
    /\ data' = [data EXCEPT ![t] = [root |-> @.root, at |-> @.at + 1, left |-> @.left - 1]]
    /\ UNCHANGED <<mainVars, pc, cond_mutex, thread_is_sleep>>

\* The root that the thread was given has been freed since.
SearchFreedRoot(t) ==
    /\ At(t, "search")
    /\ HasPosition(t)
    /\ data[t].root # roots
    /\ main' = "corrupt"
    /\ UNCHANGED <<k, tid, buffer, output, commands, poolVars, trieVars>>

SearchEnds(t) ==
    /\ At(t, "search")
    /\ ~HasPosition(t)
    /\ data' = [data EXCEPT ![t] = [root |-> 0, at |-> 1, left |-> 0]]
    /\ Goto(t, "lock")
    /\ UNCHANGED <<mainVars, cond_mutex, thread_is_sleep, local_answers>>

Thread(t) ==
    /\ ~Stopped
    /\ \/ LockToSleep(t) \/ SetSleep(t) \/ Wait(t) \/ Resume(t)
       \/ ReadArgs(t) \/ Search(t) \/ SearchFreedRoot(t) \/ SearchEnds(t)

-----------------------------------------------------------------------------
(* main *)

MainAt(label) == main = label
threadVars == <<cond_mutex, data, spurious>>

\* The argument is read into str_buffer, which keeps its memory: that arguments
\* fit its RESERVED_CAPACITY is assumed.
Read(arg) ==
    /\ commands < MaxCommands
    /\ commands' = commands + 1
    /\ str_buffer' = arg
    /\ behind' = SubSeq(Bytes, Len(arg) + 2, Len(Bytes))

\* The words before the first command.
Load(w) ==
    /\ MainAt("load")
    /\ Read(w) /\ insert(w)
    /\ UNCHANGED <<main, k, tid, output, poolVars>>

StartThreads ==
    /\ MainAt("load")
    /\ main' = "create"
    /\ UNCHANGED <<k, tid, buffer, output, commands, poolVars, trieVars>>

Create ==
    /\ MainAt("create")
    /\ pc' = [pc EXCEPT ![k] = "lock"]
    /\ main' = "started"
    /\ UNCHANGED <<k, tid, buffer, output, commands, finished, threadVars,
                   thread_is_sleep, thread_args, local_answers, trieVars>>

\* main polls until the new thread says that it sleeps.
AwaitStart ==
    /\ MainAt("started")
    /\ thread_is_sleep[k]
    /\ k' = (k + 1) % T
    /\ main' = IF k = T - 1 THEN "command" ELSE "create"
    /\ UNCHANGED <<tid, buffer, output, commands, poolVars, trieVars>>

Command(arg) == MainAt("command") /\ Read(arg)

\* main goes on from a write.  What it writes, the threads of S may be reading:
\* then the outcome is undefined, the step's or any other.
GoOn(label, S) == main' \in IF S = {} THEN {label} ELSE {label, "corrupt"}

\* The threads that read str_buffer and the trie, and write their answers.
Searchers == {t \in Threads : At(t, "search")}

Add(w) ==
    /\ Command(w) /\ insert(w)
    /\ GoOn("command", Searchers)
    /\ UNCHANGED <<k, tid, output, poolVars>>

Del(w) ==
    /\ Command(w) /\ Delete(w)
    /\ IF corrupt' THEN main' = "corrupt" ELSE GoOn("command", Searchers)
    /\ UNCHANGED <<k, tid, output, poolVars>>

Query(q) ==
    /\ Command(q)
    /\ GoOn("args", Searchers)
    /\ k' = 0 /\ tid' = 0
    /\ UNCHANGED <<output, poolVars, trieVars>>

\* Any other command: main returns, which ends the threads too.
UnknownCommand ==
    /\ MainAt("command")
    /\ main' = "exited"
    /\ UNCHANGED <<k, tid, buffer, output, commands, poolVars, trieVars>>

\* Mutant: the share of a thread is rounded down.
search_itertion_number_Floor == Len(str_buffer) \div T

search_itertion_number == Len(str_buffer) \div T + 1

GiveArgs ==
    LET at == 1 + tid * search_itertion_number IN
    /\ MainAt("args")
    /\ \/ /\ tid < T /\ at <= Len(str_buffer)
          /\ thread_args' = [thread_args EXCEPT ![tid] =
                [root |-> roots, at |-> at, length |-> search_itertion_number]]
          /\ tid' = tid + 1
          /\ GoOn("args", {t \in {tid} : At(t, "args")})
          /\ UNCHANGED k
       \/ /\ tid = T \/ at > Len(str_buffer)
          /\ main' = "reset" /\ k' = 0
          /\ UNCHANGED <<tid, thread_args>>
    /\ UNCHANGED <<buffer, output, commands, finished, pc, threadVars,
                   thread_is_sleep, local_answers, trieVars>>

\* The counter of a loop over the threads that have work.
NextOf(label, next) ==
    /\ k' = (k + 1) % tid
    /\ main' = IF k = tid - 1 THEN next ELSE label

ResetSleep ==
    /\ MainAt("reset")
    /\ thread_is_sleep' = [thread_is_sleep EXCEPT ![k] = FALSE]
    /\ NextOf("reset", "signal")
    /\ UNCHANGED <<tid, buffer, output, commands, finished, pc, threadVars,
                   thread_args, local_answers, trieVars>>

\* pthread_cond_signal or broadcast: one thread at most waits on each.
Wake(t) == pc' = [pc EXCEPT ![t] = IF @ = "waiting" THEN "woken" ELSE @]

\* Mutant: the signal is given without the mutex.
Signal_NoMutex ==
    /\ MainAt("signal")
    /\ Wake(k)
    /\ NextOf("signal", "poll")
    /\ UNCHANGED <<tid, buffer, output, commands, finished, threadVars,
                   thread_is_sleep, thread_args, local_answers, trieVars>>

\* Lock, signal, unlock.
Signal ==
    /\ MainAt("signal")
    /\ ~cond_mutex[k]
    /\ Wake(k)
    /\ NextOf("signal", "poll")
    /\ UNCHANGED <<tid, buffer, output, commands, finished, threadVars,
                   thread_is_sleep, thread_args, local_answers, trieVars>>

\* Mutant: main polls until it finds one thread asleep.
Poll_Any ==
    /\ MainAt("poll")
    /\ IF thread_is_sleep[k] THEN k' = 0 /\ main' = "print"
       ELSE k' = (k + 1) % tid /\ UNCHANGED main
    /\ UNCHANGED <<tid, buffer, output, commands, poolVars, trieVars>>

\* "Iterate until all of threads are in sleep."
Poll ==
    /\ MainAt("poll")
    /\ IF thread_is_sleep[k] THEN NextOf("poll", "print")
       ELSE k' = 0 /\ UNCHANGED main
    /\ UNCHANGED <<tid, buffer, output, commands, poolVars, trieVars>>

\* The elements of a finite set in an order: the n-th has n - 1 before it.
InOrder(S, Less(_, _)) ==
    [n \in 1..Cardinality(S) |->
        CHOOSE x \in S : Cardinality({y \in S : Less(y, x)}) = n - 1]

\* By position, then by length.  What is left has the same text, and sort may
\* order it in any way: here by the id.
Before(a, b) ==
    \/ a.at < b.at
    \/ a.at = b.at /\ a.length < b.length
    \/ a.at = b.at /\ a.length = b.length /\ a.id < b.id

\* An id is printed once: the answers before which there is none of the same id.
Shown(answers) == {a \in answers : ~\E b \in answers : b.id = a.id /\ Before(b, a)}

Text(a) == SubSeq(Bytes, a.at, a.at + a.length - 1)

Printed(answers) ==
    LET sorted == InOrder(Shown(answers), Before)
    IN  [n \in DOMAIN sorted |-> Text(sorted[n])]

PrintAnswers ==
    /\ MainAt("print")
    /\ output' = Printed(UNION {local_answers[t] : t \in Threads})
    /\ local_answers' = [t \in Threads |-> {}]
    /\ GoOn("printed", Searchers)
    /\ UNCHANGED <<k, tid, buffer, commands, finished, pc, threadVars,
                   thread_is_sleep, thread_args, trieVars>>

NextCommand ==
    /\ MainAt("printed")
    /\ output' = << >>
    /\ main' = "command"
    /\ UNCHANGED <<k, tid, buffer, commands, poolVars, trieVars>>

EndOfInput ==
    /\ MainAt("command")
    /\ finished' = TRUE
    /\ main' = "broadcast" /\ k' = 0
    /\ UNCHANGED <<tid, buffer, output, commands, pc, threadVars,
                   thread_is_sleep, thread_args, local_answers, trieVars>>

Broadcast ==
    /\ MainAt("broadcast")
    /\ ~cond_mutex[k]
    /\ Wake(k)
    /\ k' = (k + 1) % T
    /\ main' = IF k = T - 1 THEN "join" ELSE "broadcast"
    /\ UNCHANGED <<tid, buffer, output, commands, finished, threadVars,
                   thread_is_sleep, thread_args, local_answers, trieVars>>

\* Every thread is joined, and erase_all frees the trie.
JoinAll ==
    /\ MainAt("join")
    /\ \A t \in Threads : At(t, "done")
    /\ main' = "end"
    /\ trie' = << >>
    /\ UNCHANGED <<k, tid, buffer, output, commands, poolVars,
                   word_id_generator, roots, corrupt, words>>

Main ==
    \/ \E w \in Words : Load(w) \/ Add(w) \/ Del(w)
    \/ \E q \in Queries : Query(q)
    \/ StartThreads \/ Create \/ AwaitStart
    \/ GiveArgs \/ ResetSleep \/ Signal \/ Poll \/ PrintAnswers \/ NextCommand
    \/ UnknownCommand \/ EndOfInput \/ Broadcast \/ JoinAll

\* main joins a thread that waits: it was searching, after a return without a
\* signal, when main broadcast.  Nobody signals it any more.
JoinHangs == MainAt("join") /\ \E t \in Threads : At(t, "waiting")

Ended == (Stopped \/ JoinHangs) /\ UNCHANGED vars

Next == Main \/ (\E t \in Threads : Thread(t) \/ SpuriousWakeup(t)) \/ Ended

Spec == Init /\ [][Next]_vars

\* main and every thread keep running, and the input ends.
FairSpec == Spec /\ WF_vars(Main) /\ \A t \in Threads : WF_vars(Thread(t))

-----------------------------------------------------------------------------
(* Properties *)

\* The nodes with an id are the words that were added and not deleted since,
\* whatever words are prefixes of one another, until erase_all.
TrieHoldsWords ==
    main # "end" => {n \in DOMAIN trie : trie[n] # 0} = words

\* The positions of query q where w begins.
Occurrences(w, q) ==
    {p \in 1..(Len(q) - Len(w) + 1) : SubSeq(q, p, p + Len(w) - 1) = w}

First(w, q) == CHOOSE p \in Occurrences(w, q) :
                   \A r \in Occurrences(w, q) : p <= r

\* The order of the words a query should print: by their first occurrences,
\* the shorter one first.
PrintedBefore(v, w) ==
    \/ First(v, str_buffer) < First(w, str_buffer)
    \/ First(v, str_buffer) = First(w, str_buffer) /\ Len(v) < Len(w)

\* What a query should print: each word of the set that occurs in it, once.
Expected ==
    InOrder({w \in words : Occurrences(w, str_buffer) # {}}, PrintedBefore)

\* The threads of which every wait has returned because of a signal.
Undisturbed == {t \in Threads : spurious[t] = 0}

\* "For each query, all of its substring is searched to find words in the trie
\* data structure": a query prints exactly those.
QueriesCorrect == main = "printed" => output = Expected

\* That is so as long as no wait returns without a signal: main does not read
\* the answers before every thread has found all of its own, and none are lost
\* or left from before.
AnswersComplete == Undisturbed = Threads => QueriesCorrect

\* A thread changes nothing while main changes the trie or prints, whatever the
\* waits of the other threads do.
SearchersQuiet ==
    main \in {"command", "print", "printed", "args"} =>
        \A t \in Undisturbed : pc[t] \in {"wait", "waiting"}

\* No signal is lost: every query is answered, the undisturbed threads end, and
\* main comes to its end, unless it joins a thread that was disturbed.
Terminates ==
    <>(Stopped \/ (/\ main = "join" /\ Undisturbed # Threads
                   /\ \A t \in Undisturbed : At(t, "done")))
=============================================================================
