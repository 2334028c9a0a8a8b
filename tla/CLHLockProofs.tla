---------------------------- MODULE CLHLockProofs ----------------------------
(***************************************************************************)
(* Proofs about CLHLock, for any finite set of threads and any heap.       *)
(***************************************************************************)
EXTENDS CLHLock, FiniteSetTheorems, TLAPS

LEMMA InitInv == Init => ChainInv
<1> SUFFICES ASSUME Init PROVE ChainInv
  OBVIOUS
<1>1. TypeOK
  BY WorkAssumption DEF Init, TypeOK, Labels
<1>2. Chain = {tail}
  BY DEF Init, Chain, Waits
<1>3. OwnInv /\ PredInv /\ CountInv
  BY DEF Init, OwnInv, PredInv, CountInv, Owner, Waits, At, Labels
<1>4. TokenInv /\ LiveInv
  BY <1>2 DEF Init, TokenInv, LiveInv, At
<1>5. QueueInv
  BY DEF Init, QueueInv, At
<1> QED
  BY <1>1, <1>3, <1>4, <1>5 DEF ChainInv

LEMMA AllocInv == ASSUME ChainInv, NEW t \in Threads, Alloc(t) PROVE ChainInv'
<1> USE DEF ChainInv
<1> PICK n \in Nodes \ live :
          /\ live' = live \cup {n}
          /\ my_node' = [my_node EXCEPT ![t] = n]
          /\ node' = [node EXCEPT ![n] = TRUE]
  BY DEF Alloc
<1>0. /\ pc[t] = "loop" /\ i[t] < NUM_WORK
      /\ pc' = [pc EXCEPT ![t] = "swap"]
      /\ UNCHANGED <<tail, my_pred, temp, i, cnt_global, waiters>>
  BY DEF Alloc, At, Goto
<1>1. TypeOK'
  BY <1>0 DEF TypeOK, Labels
<1>2. Chain' = Chain
  BY <1>0 DEF Chain, Waits, TypeOK
<1>3. tail \in live
  BY <1>0, WorkAssumption DEF LiveInv, AllDone, At, TypeOK
<1>4. n \notin Chain
  BY <1>3 DEF Chain, PredInv, Waits
<1>5. OwnInv'
  BY <1>0, <1>2, <1>4 DEF OwnInv, Owner, Queued, Waits, At, Labels, TypeOK
<1>6. PredInv'
  BY <1>0, <1>4 DEF PredInv, Waits, At, TypeOK, Chain
<1>7. TokenInv'
  <2>1. \A m \in Chain : node'[m] = node[m]
    <3>1. Chain \subseteq Nodes
      BY DEF TypeOK, Chain, PredInv
    <3> QED
      BY <3>1, <1>4 DEF TypeOK
  <2>2. \A u \in Threads : At(u, "release")' <=> At(u, "release")
    BY <1>0 DEF At, TypeOK
  <2> QED
    BY <1>2, <2>1, <2>2 DEF TokenInv
<1>8. LiveInv'
  BY <1>0, <1>2, <1>3 DEF LiveInv, At, TypeOK
<1>9. QueueInv'
  BY <1>0 DEF QueueInv, At, TypeOK
<1>10. CountInv'
  BY <1>0 DEF CountInv, At, TypeOK
<1> QED
  BY <1>1, <1>5, <1>6, <1>7, <1>8, <1>9, <1>10

LEMMA SwapInv == ASSUME ChainInv, NEW t \in Threads, Swap(t) PROVE ChainInv'
<1> USE DEF ChainInv
<1>0. /\ pc[t] = "swap" /\ pc' = [pc EXCEPT ![t] = "spin"]
      /\ my_pred' = [my_pred EXCEPT ![t] = tail]
      /\ tail' = my_node[t]
      /\ waiters' = Append(waiters, t)
      /\ UNCHANGED <<live, node, my_node, temp, i, cnt_global>>
  BY DEF Swap, At, Goto
<1>a. my_node[t] \in live /\ node[my_node[t]] /\ my_node[t] \notin Chain
  BY <1>0 DEF OwnInv, Owner, Labels, At
<1>b. tail \in live
  BY <1>0 DEF LiveInv, AllDone, At
<1>1. TypeOK'
  BY <1>0, <1>a DEF TypeOK, Labels
<1>2. Chain' = Chain \cup {my_node[t]}
  BY <1>0 DEF Chain, Waits, TypeOK
<1>5. OwnInv'
  BY <1>0, <1>2, <1>a DEF OwnInv, Owner, Queued, Waits, At, Labels, TypeOK
<1>6. PredInv'
  BY <1>0, <1>a, <1>b DEF PredInv, Waits, At, TypeOK, Chain
<1>7. TokenInv'
  BY <1>0, <1>2, <1>a DEF TokenInv, At, TypeOK
<1>8. LiveInv'
  BY <1>0, <1>2, <1>a DEF LiveInv, At, TypeOK
<1>9. QueueInv'
  <2>1. /\ Len(waiters) \in Nat /\ DOMAIN waiters = 1..Len(waiters)
        /\ waiters' \in Seq(Threads) /\ Len(waiters') = Len(waiters) + 1
        /\ DOMAIN waiters' = 1..(Len(waiters) + 1)
        /\ \A k \in DOMAIN waiters : waiters'[k] = waiters[k] /\ waiters[k] \in Threads
        /\ waiters'[Len(waiters) + 1] = t
    BY <1>0 DEF TypeOK
  <2>2. \A k \in DOMAIN waiters : waiters[k] # t
    BY <1>0 DEF QueueInv, At
  <2>3. \A k \in DOMAIN waiters' : At(waiters[k], "spin")' \/ k = Len(waiters) + 1
    BY <2>1, <2>2, <1>0 DEF QueueInv, At, TypeOK
  <2>4. \A k \in DOMAIN waiters' : At(waiters[k], "spin")'
    BY <2>1, <2>3, <1>0 DEF At, TypeOK
  <2>5. \A u \in Threads : At(u, "spin")' => \E k \in DOMAIN waiters' : waiters'[k] = u
    BY <2>1, <1>0 DEF QueueInv, At, TypeOK
  <2>6. \A k, l \in DOMAIN waiters' : waiters'[k] = waiters'[l] => k = l
    BY <2>1, <2>2 DEF QueueInv
  <2>7. ASSUME NEW k \in DOMAIN waiters', k > 1
        PROVE  my_pred'[waiters'[k]] = my_node'[waiters'[k - 1]]
    <3>1. CASE k = Len(waiters) + 1
      <4>1. waiters # << >> /\ Len(waiters) \in DOMAIN waiters
        BY <3>1, <2>1, <2>7
      <4>2. my_node[waiters[Len(waiters)]] = tail
        BY <4>1 DEF QueueInv
      <4> QED
        BY <3>1, <4>1, <4>2, <2>1, <1>0 DEF TypeOK
    <3>2. CASE k # Len(waiters) + 1
      <4>1. k \in DOMAIN waiters /\ k - 1 \in DOMAIN waiters
        BY <3>2, <2>1, <2>7
      <4>2. my_pred[waiters[k]] = my_node[waiters[k - 1]]
        BY <4>1, <2>7 DEF QueueInv
      <4> QED
        BY <4>1, <4>2, <2>1, <2>2, <1>0 DEF TypeOK
    <3> QED
      BY <3>1, <3>2
  <2>8. my_node'[waiters'[Len(waiters')]] = tail'
    BY <2>1, <1>0
  <2> QED
    BY <2>4, <2>5, <2>6, <2>7, <2>8 DEF QueueInv
<1>10. CountInv'
  BY <1>0 DEF CountInv, At, TypeOK
<1> QED
  BY <1>1, <1>5, <1>6, <1>7, <1>8, <1>9, <1>10

LEMMA StutterInv == ASSUME ChainInv, UNCHANGED vars PROVE ChainInv'
<1> USE DEF ChainInv, vars
<1>1. Chain' = Chain
  BY DEF Chain, Waits
<1>2. TypeOK'
  BY DEF TypeOK
<1>3. OwnInv'
  BY <1>1 DEF OwnInv, Owner, Queued, Waits, At
<1>4. PredInv' /\ CountInv'
  BY DEF PredInv, CountInv, Waits, At
<1>5. TokenInv' /\ LiveInv'
  BY <1>1 DEF TokenInv, LiveInv, At, AllDone
<1>6. QueueInv'
  BY DEF QueueInv, At
<1> QED
  BY <1>2, <1>3, <1>4, <1>5, <1>6

\* A thread whose predecessor's node is false is the first of the queue.
LEMMA FirstInQueue ==
  ASSUME ChainInv, NEW t \in Threads, At(t, "spin"), ~node[my_pred[t]]
  PROVE  /\ waiters # << >> /\ waiters[1] = t /\ Head(waiters) = t
         /\ DOMAIN waiters = 1..Len(waiters) /\ Len(waiters) \in Nat \ {0}
<1> USE DEF ChainInv
<1>1. PICK k \in DOMAIN waiters : waiters[k] = t
  BY DEF QueueInv
<1>2. DOMAIN waiters = 1..Len(waiters) /\ Len(waiters) \in Nat
  BY DEF TypeOK
<1>3. k = 1
  <2>1. SUFFICES ASSUME k > 1 PROVE FALSE
    BY <1>1, <1>2
  <2>2. k - 1 \in DOMAIN waiters
    BY <1>2, <2>1
  <2>3. /\ my_pred[t] = my_node[waiters[k - 1]] /\ At(waiters[k - 1], "spin")
        /\ waiters[k - 1] \in Threads
    BY <1>1, <2>1, <2>2 DEF QueueInv, TypeOK
  <2>4. node[my_node[waiters[k - 1]]]
    BY <2>3 DEF OwnInv, Owner, At, Labels
  <2> QED
    BY <2>3, <2>4
<1> QED
  BY <1>1, <1>2, <1>3

\* Nobody is between lock and unlock when a spinning thread may enter.
LEMMA NobodyInside ==
  ASSUME ChainInv, NEW t \in Threads, At(t, "spin"), ~node[my_pred[t]],
         NEW u \in Threads
  PROVE  ~Locked(u)
<1>1. my_pred[t] \in Chain
  BY DEF Chain, Waits, At
<1>2. ~At(u, "release")
  BY <1>1 DEF ChainInv, TokenInv
<1>3. SUFFICES ASSUME pc[u] \in {"load", "store", "free"} PROVE FALSE
  BY <1>2 DEF Locked, At
<1>4. my_pred[u] \in Chain /\ ~node[my_pred[u]]
  BY <1>3 DEF Chain, Waits, At, ChainInv, PredInv
<1>5. my_pred[u] = my_pred[t]
  BY <1>1, <1>4 DEF ChainInv, TokenInv
<1>6. u = t
  BY <1>5, <1>3 DEF ChainInv, PredInv, Waits, At
<1> QED
  BY <1>6, <1>3 DEF At

\* At most one thread is between lock and unlock.
LEMMA OneInside ==
  ASSUME ChainInv, NEW t \in Threads, NEW u \in Threads, Locked(t), Locked(u)
  PROVE  t = u
<1>1. \A v \in Threads : pc[v] \in {"load", "store", "free"} =>
         my_pred[v] \in Chain /\ ~node[my_pred[v]]
  BY DEF Chain, Waits, At, ChainInv, PredInv
<1>2. CASE pc[t] = "release" \/ pc[u] = "release"
  BY <1>1, <1>2 DEF ChainInv, TokenInv, Locked, At
<1>3. CASE pc[t] # "release" /\ pc[u] # "release"
  <2>1. my_pred[t] = my_pred[u]
    BY <1>1, <1>3 DEF ChainInv, TokenInv, Locked
  <2> QED
    BY <2>1, <1>3 DEF ChainInv, PredInv, Waits, Locked
<1> QED
  BY <1>2, <1>3

LEMMA SpinInv == ASSUME ChainInv, NEW t \in Threads, Spin(t) PROVE ChainInv'
<1> USE DEF ChainInv
<1>0. At(t, "spin") /\ UNCHANGED <<tail, live, node, my_node, my_pred, temp, i, cnt_global>>
  BY DEF Spin
<1>a. CASE node[my_pred[t]]
  <2>1. UNCHANGED vars
    BY <1>a DEF Spin, vars
  <2> QED
    BY <2>1, StutterInv
<1>b. CASE ~node[my_pred[t]]
  <2>0. pc[t] = "spin" /\ pc' = [pc EXCEPT ![t] = "load"] /\ waiters' = Tail(waiters)
    BY <1>b DEF Spin, At, Goto
  <2>q. /\ waiters # << >> /\ waiters[1] = t
        /\ DOMAIN waiters = 1..Len(waiters) /\ Len(waiters) \in Nat \ {0}
    BY <1>0, <1>b, FirstInQueue
  <2>t. /\ waiters' \in Seq(Threads) /\ Len(waiters') = Len(waiters) - 1
        /\ DOMAIN waiters' = 1..(Len(waiters) - 1)
        /\ \A k \in DOMAIN waiters' : waiters'[k] = waiters[k + 1]
        /\ \A k \in DOMAIN waiters : waiters[k] \in Threads
    BY <2>0, <2>q DEF TypeOK
  <2>1. TypeOK'
    BY <1>0, <2>0, <2>t DEF TypeOK, Labels
  <2>2. Chain' = Chain
    BY <1>0, <2>0 DEF Chain, Waits, TypeOK
  <2>5. OwnInv'
    BY <1>0, <2>0, <2>2 DEF OwnInv, Owner, Queued, Waits, At, Labels, TypeOK
  <2>6. PredInv'
    BY <1>0, <2>0, <1>b DEF PredInv, Waits, At, TypeOK
  <2>7. TokenInv'
    BY <1>0, <2>0, <2>2 DEF TokenInv, At, TypeOK
  <2>8. LiveInv'
    BY <1>0, <2>0, <2>2 DEF LiveInv, At, TypeOK, AllDone
  <2>9. QueueInv'
    <3>1. \A k \in DOMAIN waiters' : waiters'[k] # t /\ k + 1 \in DOMAIN waiters
      BY <2>q, <2>t DEF QueueInv
    <3>2. \A k \in DOMAIN waiters' : At(waiters[k], "spin")'
      BY <3>1, <2>t, <2>0 DEF QueueInv, At, TypeOK
    <3>3. ASSUME NEW u \in Threads, At(u, "spin")'
          PROVE  \E k \in DOMAIN waiters' : waiters'[k] = u
      <4>1. u # t /\ At(u, "spin")
        BY <3>3, <2>0 DEF At, TypeOK
      <4>2. PICK k \in DOMAIN waiters : waiters[k] = u
        BY <4>1 DEF QueueInv
      <4>3. k - 1 \in DOMAIN waiters' /\ k - 1 + 1 = k
        BY <4>1, <4>2, <2>q, <2>t
      <4> QED
        BY <4>2, <4>3, <2>t
    <3>4. \A k, l \in DOMAIN waiters' : waiters'[k] = waiters'[l] => k = l
      BY <3>1, <2>t, <2>q DEF QueueInv
    <3>5. ASSUME NEW k \in DOMAIN waiters', k > 1
          PROVE  my_pred'[waiters'[k]] = my_node'[waiters'[k - 1]]
      <4>1. /\ k + 1 \in DOMAIN waiters /\ k + 1 > 1 /\ k - 1 \in DOMAIN waiters'
            /\ k + 1 - 1 = k /\ k - 1 + 1 = k
        BY <3>1, <3>5, <2>t, <2>q
      <4>2. my_pred[waiters[k + 1]] = my_node[waiters[k]]
        <5>1. \A l \in 1..Len(waiters) : l > 1 => my_pred[waiters[l]] = my_node[waiters[l - 1]]
          BY <2>q DEF QueueInv
        <5>2. k \in Nat /\ k + 1 \in 1..Len(waiters)
          BY <4>1, <2>q, <2>t
        <5> QED
          BY <5>1, <5>2, <4>1
      <4> QED
        BY <4>1, <4>2, <2>t, <1>0
    <3>6. ASSUME waiters' # << >> PROVE my_node'[waiters'[Len(waiters')]] = tail'
      <4>1. Len(waiters') \in DOMAIN waiters' /\ Len(waiters') + 1 = Len(waiters)
        BY <3>6, <2>t, <2>q
      <4> QED
        BY <4>1, <2>t, <2>q, <1>0 DEF QueueInv
    <3> QED
      BY <3>2, <3>3, <3>4, <3>5, <3>6 DEF QueueInv
  <2>10. CountInv'
    BY <1>0, <2>0 DEF CountInv, At, TypeOK
  <2> QED
    BY <2>1, <2>5, <2>6, <2>7, <2>8, <2>9, <2>10
<1> QED
  BY <1>a, <1>b

\* The steps of the critical section change neither the nodes nor the queue.
LEMMA CountStepInv ==
  ASSUME ChainInv, NEW t \in Threads, LoadCount(t) \/ StoreCount(t) PROVE ChainInv'
<1> USE DEF ChainInv
<1>0. /\ UNCHANGED <<tail, live, node, my_node, my_pred, i, waiters>>
      /\ \/ pc[t] = "load" /\ pc' = [pc EXCEPT ![t] = "store"]
         \/ pc[t] = "store" /\ pc' = [pc EXCEPT ![t] = "free"]
  BY DEF LoadCount, StoreCount, At, Goto
<1>1. TypeOK'
  <2>1. temp' \in [Threads -> Nat] /\ cnt_global' \in Nat
    <3>1. CASE LoadCount(t)
      BY <3>1 DEF TypeOK, LoadCount
    <3>2. CASE StoreCount(t)
      BY <3>2 DEF TypeOK, StoreCount
    <3> QED
      BY <3>1, <3>2
  <2>2. pc' \in [Threads -> Labels]
    BY <1>0 DEF TypeOK, Labels
  <2> QED
    BY <1>0, <2>1, <2>2 DEF TypeOK
<1>2. Chain' = Chain
  BY <1>0 DEF Chain, Waits, TypeOK
<1>5. OwnInv'
  <2>1. \A u \in Threads : /\ Owner(u)' <=> Owner(u)
                           /\ Queued(u)' <=> Queued(u)
                           /\ At(u, "swap")' <=> At(u, "swap")
    BY <1>0 DEF Owner, Queued, Waits, At, Labels, TypeOK
  <2> QED
    BY <1>0, <1>2, <2>1 DEF OwnInv
<1>6. PredInv'
  BY <1>0 DEF PredInv, Waits, At, TypeOK
<1>7. TokenInv'
  BY <1>0, <1>2 DEF TokenInv, At, TypeOK
<1>8. LiveInv'
  BY <1>0, <1>2 DEF LiveInv, At, TypeOK, AllDone
<1>9. QueueInv'
  <2>1. \A u \in Threads : At(u, "spin")' <=> At(u, "spin")
    BY <1>0 DEF At, TypeOK
  <2>2. \A k \in DOMAIN waiters : waiters[k] \in Threads
    BY DEF TypeOK
  <2> QED
    BY <1>0, <2>1, <2>2 DEF QueueInv, At
<1>10. CountInv'
  <2>1. ASSUME NEW u \in Threads, At(u, "store")' PROVE temp'[u] = cnt_global'
    <3>1. CASE u = t
      <4>1. LoadCount(t)
        BY <2>1, <3>1 DEF At, TypeOK, StoreCount, Goto
      <4> QED
        BY <4>1, <3>1 DEF LoadCount, TypeOK
    <3>2. CASE u # t
      <4>1. At(u, "store")
        BY <2>1, <3>2, <1>0 DEF At, TypeOK
      <4>2. FALSE
        BY <4>1, <3>2, <1>0, OneInside DEF Locked, At
      <4> QED
        BY <4>2
    <3> QED
      BY <3>1, <3>2
  <2> QED
    BY <2>1 DEF CountInv
<1> QED
  BY <1>1, <1>5, <1>6, <1>7, <1>8, <1>9, <1>10

LEMMA FreePredInv == ASSUME ChainInv, NEW t \in Threads, FreePred(t) PROVE ChainInv'
<1> USE DEF ChainInv
<1> DEFINE p == my_pred[t]
<1>0. /\ pc[t] = "free" /\ pc' = [pc EXCEPT ![t] = "release"]
      /\ live' = live \ {p}
      /\ my_pred' = [my_pred EXCEPT ![t] = Null]
      /\ UNCHANGED <<tail, node, my_node, temp, i, cnt_global, waiters>>
  BY DEF FreePred, At, Goto
<1>a. Waits(t) /\ p \in Chain /\ ~node[p] /\ p # tail
  BY <1>0 DEF Waits, Chain, PredInv, At
<1>b. \A u \in Threads : u # t => ~Locked(u)
  BY <1>0, OneInside DEF Locked
<1>1. TypeOK'
  BY <1>0 DEF TypeOK, Labels
<1>w. \A u \in Threads : Waits(u)' <=> Waits(u) /\ u # t
  BY <1>0 DEF Waits, TypeOK
<1>2. Chain' = Chain \ {p}
  <2>1. ASSUME NEW n \in Chain' PROVE n \in Chain /\ n # p
    BY <2>1, <1>0, <1>w, <1>a DEF Chain, TypeOK, PredInv
  <2>2. ASSUME NEW n \in Chain, n # p PROVE n \in Chain'
    BY <2>2, <1>0, <1>w DEF Chain, TypeOK
  <2> QED
    BY <2>1, <2>2
<1>5. OwnInv'
  <2>1. \A u \in Threads : Owner(u) => my_node[u] # p
    BY <1>a DEF OwnInv
  <2> QED
    BY <1>0, <1>2, <1>w, <2>1 DEF OwnInv, Owner, Queued, Waits, At, Labels, TypeOK
<1>6. PredInv'
  BY <1>0, <1>w, <1>a DEF PredInv, At, TypeOK
<1>7. TokenInv'
  <2>1. \A n \in Chain' : node'[n]
    BY <1>0, <1>2, <1>a DEF TokenInv
  <2>2. \A u \in Threads : At(u, "release")' => u = t
    BY <1>0, <1>b DEF At, Locked, TypeOK
  <2> QED
    BY <2>1, <2>2 DEF TokenInv
<1>8. LiveInv'
  <2>1. {u \in Threads : At(u, "swap")}' = {u \in Threads : At(u, "swap")}
    BY <1>0 DEF At, TypeOK
  <2>2. ~AllDone
    BY <1>0 DEF AllDone, At
  <2> QED
    BY <1>0, <1>2, <1>a, <2>1, <2>2 DEF LiveInv
<1>9. QueueInv'
  <2>1. \A u \in Threads : At(u, "spin")' <=> At(u, "spin")
    BY <1>0 DEF At, TypeOK
  <2>2. \A k \in DOMAIN waiters : waiters[k] \in Threads /\ waiters[k] # t
    BY <1>0 DEF TypeOK, QueueInv, At
  <2> QED
    BY <1>0, <2>1, <2>2 DEF QueueInv, At, TypeOK
<1>10. CountInv'
  BY <1>0 DEF CountInv, At, TypeOK
<1> QED
  BY <1>1, <1>5, <1>6, <1>7, <1>8, <1>9, <1>10

LEMMA ReleaseInv == ASSUME ChainInv, NEW t \in Threads, Release(t) PROVE ChainInv'
<1> USE DEF ChainInv
<1>0. /\ pc[t] = "release" /\ pc' = [pc EXCEPT ![t] = "loop"]
      /\ node' = [node EXCEPT ![my_node[t]] = FALSE]
      /\ i' = [i EXCEPT ![t] = @ + 1]
      /\ UNCHANGED <<tail, live, my_node, my_pred, temp, cnt_global, waiters>>
  BY DEF Release, At, Goto
<1>a. my_node[t] \in live /\ my_node[t] \in Chain /\ \A n \in Chain : node[n]
  BY <1>0 DEF OwnInv, Owner, Queued, At, Labels, TokenInv
<1>b. \A u \in Threads : u # t => ~Locked(u)
  BY <1>0, OneInside DEF Locked
<1>1. TypeOK'
  <2>1. node' \in [Nodes -> BOOLEAN]
    BY <1>0 DEF TypeOK
  <2>2. i' \in [Threads -> Nat] /\ pc' \in [Threads -> Labels]
    BY <1>0 DEF TypeOK, Labels
  <2> QED
    BY <1>0, <2>1, <2>2 DEF TypeOK
<1>2. Chain' = Chain
  BY <1>0 DEF Chain, Waits, TypeOK
<1>5. OwnInv'
  <2>1. \A u \in Threads : Owner(u)' => Owner(u) /\ u # t /\ my_node[u] # my_node[t]
    BY <1>0 DEF OwnInv, Owner, Labels, TypeOK
  <2> QED
    BY <1>0, <1>2, <2>1 DEF OwnInv, Owner, Queued, Waits, At, TypeOK
<1>6. PredInv'
  BY <1>0, <1>b DEF PredInv, Waits, Locked, At, TypeOK
<1>7. TokenInv'
  <2>1. \A n \in Chain' : ~node'[n] => n = my_node[t]
    BY <1>0, <1>a, <1>2 DEF TypeOK
  <2>2. \A u \in Threads : ~At(u, "release")'
    BY <1>0, <1>b DEF At, Locked, TypeOK
  <2> QED
    BY <2>1, <2>2 DEF TokenInv
<1>8. LiveInv'
  <2>1. {u \in Threads : At(u, "swap")}' = {u \in Threads : At(u, "swap")}
    BY <1>0 DEF At, TypeOK
  <2>2. ~AllDone
    BY <1>0 DEF AllDone, At
  <2> QED
    BY <1>0, <1>2, <2>1, <2>2 DEF LiveInv
<1>9. QueueInv'
  <2>1. \A u \in Threads : At(u, "spin")' <=> At(u, "spin")
    BY <1>0 DEF At, TypeOK
  <2>2. \A k \in DOMAIN waiters : waiters[k] \in Threads
    BY DEF TypeOK
  <2> QED
    BY <1>0, <2>1, <2>2 DEF QueueInv, At
<1>10. CountInv'
  BY <1>0 DEF CountInv, At, TypeOK
<1> QED
  BY <1>1, <1>5, <1>6, <1>7, <1>8, <1>9, <1>10

LEMMA FreeTailInv == ASSUME ChainInv, FreeTail PROVE ChainInv'
<1> USE DEF ChainInv
<1>0. /\ \A t \in Threads : pc[t] = "loop" 
      /\ AllDone /\ AllDone'
      /\ live' = live \ {tail}
      /\ UNCHANGED <<tail, node, my_node, my_pred, pc, temp, i, cnt_global, waiters>>
  BY DEF FreeTail, AllDone, At
<1>1. TypeOK' /\ Chain' = Chain
  BY <1>0 DEF TypeOK, Chain, Waits
<1>2. OwnInv' /\ PredInv' /\ CountInv'
  BY <1>0 DEF OwnInv, PredInv, CountInv, Owner, Waits, At, Labels
<1>3. TokenInv' /\ LiveInv'
  BY <1>0, <1>1 DEF TokenInv, LiveInv, At
<1>4. QueueInv'
  BY <1>0 DEF QueueInv, At
<1> QED
  BY <1>1, <1>2, <1>3, <1>4

LEMMA NextInv == ChainInv /\ [Next]_vars => ChainInv'
<1> SUFFICES ASSUME ChainInv, [Next]_vars PROVE ChainInv'
  OBVIOUS
<1>1. ASSUME NEW t \in Threads, Step(t) PROVE ChainInv'
  BY <1>1, AllocInv, SwapInv, SpinInv, CountStepInv, FreePredInv, ReleaseInv DEF Step
<1> QED
  BY <1>1, StutterInv, FreeTailInv DEF Next

\* The queue of nodes is well formed in every reachable state.
THEOREM QueueOfNodes == Spec => []ChainInv
BY InitInv, NextInv, PTL DEF Spec

\* Every variable keeps its type; in particular the tail is never null.
THEOREM CLHTypeCorrect == Spec => []TypeOK
BY QueueOfNodes, PTL DEF ChainInv

\* A node that a thread may read, write or free has not been freed, whatever
\* addresses calloc gives out again.
THEOREM NodesAreLive == Spec => []NoUseAfterFree
<1>1. ChainInv => NoUseAfterFree
  BY DEF ChainInv, NoUseAfterFree, OwnInv, PredInv, Owner, Waits, Labels
<1> QED
  BY <1>1, QueueOfNodes, PTL

\* The nodes are at most one more than the threads, and main frees the last.
THEOREM NoNodeLeaks == Spec => []NothingLeaks
<1>1. ASSUME ChainInv PROVE NothingLeaks
  <2> DEFINE f == [t \in Threads |-> IF At(t, "swap") THEN my_node[t] ELSE my_pred[t]]
             S == {f[t] : t \in Threads}
  <2>1. live \subseteq S \cup {tail}
    <3>1. Chain \subseteq S \cup {tail}
      BY DEF Chain, Waits, At
    <3>2. {my_node[t] : t \in {u \in Threads : At(u, "swap")}} \subseteq S
      BY DEF At
    <3> QED
      BY <3>1, <3>2, <1>1 DEF ChainInv, LiveInv
  <2>2. IsFiniteSet(S) /\ Cardinality(S) <= Cardinality(Threads)
    <3>1. f \in Surjection(Threads, S)
      BY DEF Surjection
    <3> HIDE DEF f, S
    <3> QED
      BY <3>1, ThreadsAssumption, FS_Surjection
  <2>3. /\ IsFiniteSet(S \cup {tail})
        /\ Cardinality(S \cup {tail}) <= Cardinality(S) + 1
    <3> HIDE DEF S
    <3> QED
    BY <2>2, FS_AddElement, FS_CardinalityType
  <2>4. Cardinality(live) <= Cardinality(S \cup {tail}) /\ IsFiniteSet(live)
    <3> HIDE DEF S
    <3> QED
    BY <2>1, <2>3, FS_Subset
  <2>5. Cardinality(live) <= Cardinality(Threads) + 1
    <3> HIDE DEF S
    <3> QED
    BY <2>2, <2>3, <2>4, ThreadsAssumption, FS_CardinalityType
  <2>6. ASSUME tail \notin live PROVE live = {}
    <3>1. \A t \in Threads : pc[t] = "loop"
      BY <2>6, <1>1 DEF ChainInv, LiveInv, AllDone, At
    <3>2. live \subseteq {tail}
      BY <3>1, <1>1 DEF ChainInv, LiveInv, Chain, Waits, At
    <3> QED
      BY <3>2, <2>6
  <2> QED
    BY <2>5, <2>6 DEF NothingLeaks
<1> QED
  BY <1>1, QueueOfNodes, PTL

\* The threads enter in the order in which they swapped the tail.
THEOREM QueueOrder == Spec => FirstComeFirstServed
<1>1. ASSUME ChainInv, [Next]_vars
      PROVE  [\A t \in Threads :
                 pc[t] = "spin" /\ pc'[t] = "load" => t = Head(waiters)]_vars
  <2> SUFFICES ASSUME NEW t \in Threads, pc[t] = "spin", pc'[t] = "load"
               PROVE  t = Head(waiters)
    OBVIOUS
  <2>1. pc' # pc
    OBVIOUS
  <2>2. PICK u \in Threads : Step(u)
    BY <1>1, <2>1 DEF Next, vars, FreeTail
  <2>3. u = t
    BY <2>2, <1>1 DEF Step, Alloc, Swap, Spin, LoadCount, StoreCount, FreePred,
       Release, Goto, At, ChainInv, TypeOK
  <2>4. Spin(t) /\ ~node[my_pred[t]]
    BY <2>2, <2>3 DEF Step, Alloc, Swap, Spin, LoadCount, StoreCount, FreePred,
       Release, At
  <2> QED
    BY <2>4, <1>1, FirstInQueue DEF At
<1> QED
  BY <1>1, QueueOfNodes, PTL DEF Spec, FirstComeFirstServed

\* The lock implements the abstract one: its holder is alone and no increment
\* of the plain counter is lost.
THEOREM CLHImplementsLock == Spec => ImplementsLock
<1> DEFINE ph == [t \in Threads |-> Phase(t)]
<1>1. Init => Counter!Init
  BY DEF Init, Counter!Init, Phase
<1>2. ASSUME ChainInv, [Next]_vars PROVE [Counter!Next]_(Counter!vars)
  <2>1. ASSUME NEW t \in Threads, Alloc(t) \/ Swap(t) \/ LoadCount(t) \/ FreePred(t)
        PROVE  UNCHANGED Counter!vars
    <3>1. ph' = ph /\ UNCHANGED cnt_global
      BY <2>1, <1>2 DEF Alloc, Swap, LoadCount, FreePred, Goto, At, Phase, ChainInv, TypeOK
    <3> QED
      BY <3>1 DEF Counter!vars
  <2>2. ASSUME NEW t \in Threads, Spin(t), node[my_pred[t]]
        PROVE  UNCHANGED Counter!vars
    BY <2>2 DEF Spin, Counter!vars, Phase
  <2>3. ASSUME NEW t \in Threads, Spin(t), ~node[my_pred[t]] PROVE Counter!Lock(t)
    <3>1. At(t, "spin") /\ pc' = [pc EXCEPT ![t] = "load"] /\ UNCHANGED cnt_global
      BY <2>3 DEF Spin, Goto
    <3>2. \A u \in Threads : ph[u] = "out"
      BY <1>2, <2>3, <3>1, NobodyInside DEF Locked, Phase
    <3>3. ph' = [ph EXCEPT ![t] = "in"]
      BY <3>1, <1>2 DEF Phase, At, ChainInv, TypeOK
    <3> QED
      BY <3>1, <3>2, <3>3 DEF Counter!Lock
  <2>4. ASSUME NEW t \in Threads, StoreCount(t) PROVE Counter!Increment(t)
    <3>1. /\ pc[t] = "store" /\ pc' = [pc EXCEPT ![t] = "free"]
          /\ cnt_global' = cnt_global + 1
      BY <2>4, <1>2 DEF StoreCount, Goto, At, ChainInv, CountInv
    <3>2. ph[t] = "in"
      BY <3>1 DEF Phase
    <3>3. ph' = [ph EXCEPT ![t] = "added"]
      BY <3>1, <1>2 DEF Phase, At, ChainInv, TypeOK
    <3> QED
      BY <3>1, <3>2, <3>3 DEF Counter!Increment
  <2>5. ASSUME NEW t \in Threads, Release(t) PROVE Counter!Unlock(t)
    <3>1. pc[t] = "release" /\ pc' = [pc EXCEPT ![t] = "loop"] /\ UNCHANGED cnt_global
      BY <2>5 DEF Release, Goto, At
    <3>2. ph[t] = "added"
      BY <3>1 DEF Phase
    <3>3. ph' = [ph EXCEPT ![t] = "out"]
      BY <3>1, <1>2 DEF Phase, At, ChainInv, TypeOK
    <3> QED
      BY <3>1, <3>2, <3>3 DEF Counter!Unlock
  <2>6. ASSUME FreeTail \/ UNCHANGED vars PROVE UNCHANGED Counter!vars
    BY <2>6 DEF FreeTail, vars, Counter!vars, Phase
  <2> QED
    BY <1>2, <2>1, <2>2, <2>3, <2>4, <2>5, <2>6 DEF Next, Step, Counter!Next
<1> QED
  BY <1>1, <1>2, QueueOfNodes, PTL DEF Spec, ImplementsLock, Counter!Spec
=============================================================================
