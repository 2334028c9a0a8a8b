--------------------------- MODULE WFSnapshotProofs ---------------------------
(***************************************************************************)
(* Proofs about WFSnapshot, for any number of threads and of updates.      *)
(***************************************************************************)
EXTENDS WFSnapshot, FiniteSetTheorems, TLAPS

LEMMA EmptyPart == DOMAIN << >> = {}
OBVIOUS

LEMMA FirstCell == 0 \in Threads /\ Threads \subseteq Nat
BY NAssumption DEF Threads

LEMMA InitInv == Init => SnapInv
<1> SUFFICES ASSUME Init PROVE SnapInv
  OBVIOUS
<1> USE FirstCell
<1>1. TypeOK
  BY EmptyPart DEF Init, TypeOK, Labels, Zeros, Blank, Fields
<1>2. StampInv /\ OwnInv
  BY DEF Init, StampInv, OwnInv, Scanning, At, Zeros
<1>3. MovedInv
  BY DEF Init, MovedInv, Scanning, At, Zeros
<1>4. CollectInv
  BY EmptyPart DEF Init, CollectInv, Scanning, At
<1>5. HeapInv
  <2>1. \A t \in Threads : a_table[t].snap = <<t, 0>> /\ a_table[t].stamp = 0 /\ pc[t] = "loop"
    BY DEF Init
  <2>2. {t \in Threads : At(t, "delete")} = {}
    BY <2>1 DEF At
  <2>3. DOMAIN heap = {a_table[t].snap : t \in Threads}
    <3>1. DOMAIN heap = {<<t, 0>> : t \in Threads}
      BY DEF Init
    <3>2. {a_table[t].snap : t \in Threads} = {<<t, 0>> : t \in Threads}
      BY <2>1
    <3> QED
      BY <3>1, <3>2
  <2> QED
    BY <2>1, <2>2, <2>3 DEF HeapInv
<1> QED
  BY <1>1, <1>2, <1>3, <1>4, <1>5 DEF SnapInv

\* A step of a thread that is not scanning, on its own cell, whose stamp does
\* not fall: what the others have collected stays within its brackets.
LEMMA QuietStep ==
  ASSUME SnapInv, NEW u \in Threads,
         ~Scanning(u), ~Scanning(u)',
         \A t \in Threads : t # u => /\ pc'[t] = pc[t] /\ a_table'[t] = a_table[t]
                                     /\ collects'[t] = collects[t],
         a_table'[u].stamp \in Nat, a_table'[u].stamp >= a_table[u].stamp,
         UNCHANGED <<old_copy, copy, i, part, between>>
  PROVE  CollectInv' /\ OwnInv'
<1> USE DEF SnapInv
<1>1. \A t \in Threads : Scanning(t)' => t # u /\ Scanning(t)
  BY DEF Scanning
<1>2. \A j \in Threads : /\ a_table'[j].stamp \in Nat /\ a_table[j].stamp \in Nat
                         /\ a_table'[j].stamp >= a_table[j].stamp
  <2>1. \A j \in Threads : a_table[j].stamp \in Nat
    BY DEF TypeOK
  <2> QED
    BY <2>1
<1>3. \A t \in Threads : \A j \in Threads : between[t][j] \in Nat
  BY DEF TypeOK
<1>4. CollectInv'
  <2>1. ASSUME NEW t \in Threads, ~At(t, "collect")' PROVE DOMAIN part'[t] = {}
    BY <2>1 DEF CollectInv, At, Scanning
  <2>2. ASSUME NEW t \in Threads, Scanning(t)', NEW j \in Threads
        PROVE  Bracketed(t, j)'
    <3>1. Scanning(t) /\ pc'[t] = pc[t] /\ collects'[t] = collects[t]
      BY <2>2, <1>1
    <3> QED
      BY <2>2, <3>1, <1>2, <1>3 DEF CollectInv, Bracketed, At
  <2> QED
    BY <2>1, <2>2 DEF CollectInv
<1>5. OwnInv'
  BY <1>1 DEF OwnInv
<1> QED
  BY <1>4, <1>5

LEMMA UpdateInv == ASSUME SnapInv, NEW u \in Threads, Update(u) PROVE SnapInv'
<1> USE DEF SnapInv
<1>0. /\ pc[u] = "loop" /\ pc' = [pc EXCEPT ![u] = "collect"]
      /\ value' = [value EXCEPT ![u] = @ + 1]
      /\ i' = [i EXCEPT ![u] = 0]
      /\ between' = [between EXCEPT ![u] = Stamps]
      /\ UNCHANGED <<a_table, heap, end, num_of_update, old_copy, copy, part,
                     moved, result, collects>>
  BY DEF Update, BeginCollect, At, Goto
<1>s. Stamps \in [Threads -> Nat] /\ \A j \in Threads : Stamps[j] = a_table[j].stamp
  BY DEF Stamps, TypeOK
<1>1. TypeOK'
  <2>1. value' \in [Threads -> Nat] /\ pc' \in [Threads -> Labels]
    BY <1>0 DEF TypeOK, Labels
  <2>2. i' \in [Threads -> Threads] /\ between' \in [Threads -> [Threads -> Nat]]
    BY <1>0, <1>s, FirstCell DEF TypeOK
  <2> QED
    BY <1>0, <2>1, <2>2 DEF TypeOK
<1>2. StampInv'
  BY <1>0 DEF StampInv, Scanning, At, TypeOK
<1>3. MovedInv'
  BY <1>0 DEF MovedInv, Scanning, At, TypeOK
<1>4. CollectInv'
  <2>1. DOMAIN part[u] = {} /\ collects[u] = 0
    BY <1>0 DEF CollectInv, MovedInv, Scanning, At
  <2>2. ASSUME NEW t \in Threads, t # u PROVE
          /\ At(t, "collect")' <=> At(t, "collect")
          /\ Scanning(t)' <=> Scanning(t)
          /\ At(t, "compare")' <=> At(t, "compare")
          /\ i'[t] = i[t] /\ between'[t] = between[t]
    BY <1>0, <2>2 DEF Scanning, At, TypeOK
  <2>3. /\ i'[u] = 0 /\ ~At(u, "compare")' /\ between'[u] = Stamps /\ At(u, "collect")'
    BY <1>0 DEF At, TypeOK
  <2>4. \A j \in Threads : ~(j < 0) /\ a_table[j].stamp \in Nat
    BY FirstCell DEF TypeOK
  <2>5. ASSUME NEW t \in Threads, t # u PROVE
          /\ ~At(t, "collect")' => DOMAIN part'[t] = {}
          /\ Scanning(t)' => \A j \in Threads : Bracketed(t, j)'
    BY <1>0, <2>2, <2>5 DEF CollectInv, Bracketed
  <2> QED
    BY <1>0, <1>s, <2>1, <2>3, <2>4, <2>5 DEF CollectInv, Bracketed
<1>5. OwnInv'
  <2>1. collects[u] = 0 /\ between'[u][u] = a_table[u].stamp
    BY <1>0, <1>s DEF MovedInv, Scanning, At, TypeOK
  <2>2. \A t \in Threads : t # u => /\ Scanning(t)' <=> Scanning(t)
                                    /\ between'[t] = between[t]
    BY <1>0 DEF Scanning, TypeOK
  <2> QED
    BY <1>0, <2>1, <2>2 DEF OwnInv
<1>6. HeapInv'
  BY <1>0 DEF HeapInv, At, TypeOK
<1> QED
  BY <1>1, <1>2, <1>3, <1>4, <1>5, <1>6

LEMMA LoadInv ==
  ASSUME SnapInv, NEW u \in Threads, NEW f \in Fields, Load(u, f) PROVE SnapInv'
<1> USE DEF SnapInv
<1> DEFINE p == Extend(part[u], f, a_table[i[u]][f])
<1>0. /\ pc[u] = "collect" /\ f \notin DOMAIN part[u]
      /\ part' = [part EXCEPT ![u] = p]
      /\ UNCHANGED <<a_table, heap, end, num_of_update, pc, value, old_copy, copy,
                     i, moved, result, collects, start, between>>
  BY DEF Load, At, history
<1>p. /\ DOMAIN p = DOMAIN part[u] \cup {f}
      /\ p[f] = a_table[i[u]][f]
      /\ \A g \in DOMAIN part[u] : p[g] = part[u][g]
  BY <1>0 DEF Extend
<1>q. part'[u] = p /\ \A t \in Threads : t # u => part'[t] = part[t]
  BY <1>0 DEF TypeOK
<1> HIDE DEF p
<1>1. TypeOK'
  <2>1. DOMAIN part' = Threads /\ \A t \in Threads : DOMAIN part'[t] \subseteq Fields
    BY <1>0, <1>p, <1>q DEF TypeOK
  <2> QED
    BY <1>0, <2>1 DEF TypeOK
<1>2. StampInv' /\ MovedInv' /\ OwnInv' /\ HeapInv'
  BY <1>0 DEF StampInv, MovedInv, OwnInv, HeapInv, Scanning, At
<1>4. CollectInv'
  <2>1. ASSUME NEW j \in Threads PROVE Bracketed(u, j)'
    <3>1. Bracketed(u, j)
      BY <1>0 DEF CollectInv, Scanning
    <3>2. /\ between[u][j] \in Nat /\ a_table[j].stamp \in Nat /\ a_table[j].value \in Nat
          /\ a_table[j].value >= a_table[j].stamp - 1
      <4>1. /\ between[u][j] \in Nat /\ a_table[j].stamp \in Nat
            /\ a_table[j].value \in Nat
        BY DEF TypeOK
      <4>2. \/ a_table[j].value = a_table[j].stamp
            \/ a_table[j].value = a_table[j].stamp - 1
        BY DEF StampInv
      <4> QED
        BY <4>1, <4>2
    <3>3. ASSUME j = i[u], "stamp" \in DOMAIN p
          PROVE  p["stamp"] \in between[u][j]..a_table[j].stamp
      <4>1. CASE f = "stamp"
        BY <4>1, <3>1, <3>2, <3>3, <1>p DEF Bracketed
      <4>2. CASE f # "stamp"
        BY <4>2, <3>1, <3>3, <1>p DEF Bracketed
      <4> QED
        BY <4>1, <4>2
    <3>4. ASSUME j = i[u], "value" \in DOMAIN p
          PROVE  p["value"] \in Nat /\ p["value"] >= between[u][j] - 1
      <4>1. CASE f = "value"
        BY <4>1, <3>1, <3>2, <3>4, <1>p DEF Bracketed
      <4>2. CASE f # "value"
        BY <4>2, <3>1, <3>4, <1>p DEF Bracketed
      <4> QED
        BY <4>1, <4>2
    <3> QED
      BY <1>0, <1>q, <3>1, <3>3, <3>4 DEF Bracketed, At
  <2>2. ASSUME NEW t \in Threads, t # u PROVE
          /\ ~At(t, "collect")' => DOMAIN part'[t] = {}
          /\ Scanning(t)' => \A j \in Threads : Bracketed(t, j)'
    BY <1>0, <1>q, <2>2 DEF CollectInv, Bracketed, At, Scanning
  <2> QED
    BY <1>0, <2>1, <2>2 DEF CollectInv, At
<1> QED
  BY <1>1, <1>2, <1>4

LEMMA ConstructInv == ASSUME SnapInv, NEW u \in Threads, Construct(u) PROVE SnapInv'
<1> USE DEF SnapInv
<1> DEFINE c == [part[u] EXCEPT !.snap = Memcpy(part[u].snap)]
           made == [copy[u] EXCEPT ![i[u]] = c]
           last == i[u] = N - 1
<1>0. /\ pc[u] = "collect" /\ DOMAIN part[u] = Fields
      /\ copy' = [copy EXCEPT ![u] = made]
      /\ part' = [part EXCEPT ![u] = << >>]
      /\ collects' = IF last THEN [collects EXCEPT ![u] = @ + 1] ELSE collects
      /\ UNCHANGED <<a_table, heap, end, num_of_update, value, moved, result, start>>
  BY DEF Construct, At, LastCell
<1>a. \/ /\ ~last /\ i' = [i EXCEPT ![u] = @ + 1]
         /\ UNCHANGED <<pc, old_copy, between>>
      \/ /\ last /\ collects[u] = 0 /\ old_copy' = [old_copy EXCEPT ![u] = made]
         /\ i' = [i EXCEPT ![u] = 0] /\ between' = [between EXCEPT ![u] = Stamps]
         /\ UNCHANGED pc
      \/ /\ last /\ collects[u] > 0 /\ pc' = [pc EXCEPT ![u] = "compare"]
         /\ UNCHANGED <<i, old_copy, between>>
  BY DEF Construct, LastCell, BeginCollect, Goto
<1>s. Stamps \in [Threads -> Nat] /\ \A j \in Threads : Stamps[j] = a_table[j].stamp
  BY DEF Stamps, TypeOK
<1>c. c.stamp = part[u]["stamp"] /\ c.value = part[u]["value"]
  BY <1>0 DEF Fields
<1> HIDE DEF c
<1>m. /\ DOMAIN made = Threads /\ made[i[u]] = c
      /\ \A j \in Threads : j # i[u] => made[j] = copy[u][j]
  BY DEF TypeOK
<1>b. \A j \in Threads : Bracketed(u, j)
  BY <1>0 DEF CollectInv, Scanning
<1>n. i[u] \in Threads /\ i[u] \in Nat /\ N \in Nat
  BY FirstCell, NAssumption DEF TypeOK
<1>d. \A j \in Threads : j < i[u] \/ j = i[u] =>
         /\ made[j].stamp \in between[u][j]..a_table[j].stamp
         /\ made[j].value \in Nat /\ made[j].value >= between[u][j] - 1
  <2>1. made[i[u]].stamp \in between[u][i[u]]..a_table[i[u]].stamp
    BY <1>b, <1>m, <1>c, <1>0, <1>n DEF Bracketed, Fields
  <2>2. made[i[u]].value \in Nat /\ made[i[u]].value >= between[u][i[u]] - 1
    BY <1>b, <1>m, <1>c, <1>0, <1>n DEF Bracketed, Fields
  <2>3. ASSUME NEW j \in Threads, j < i[u], j # i[u]
        PROVE  /\ made[j].stamp \in between[u][j]..a_table[j].stamp
               /\ made[j].value \in Nat /\ made[j].value >= between[u][j] - 1
    BY <2>3, <1>b, <1>m DEF Bracketed
  <2> QED
    BY <2>1, <2>2, <2>3
<1>e. last => \A j \in Threads : j < i[u] \/ j = i[u]
  BY <1>n DEF Threads
<1> HIDE DEF made
<1>f. /\ copy'[u] = made /\ part'[u] = << >> /\ DOMAIN part'[u] = {}
      /\ \A t \in Threads : t # u => copy'[t] = copy[t] /\ part'[t] = part[t]
  BY <1>0, EmptyPart DEF TypeOK
<1>g. \A t \in Threads : t # u =>
         /\ pc'[t] = pc[t] /\ i'[t] = i[t] /\ old_copy'[t] = old_copy[t]
         /\ between'[t] = between[t] /\ collects'[t] = collects[t]
  <2>1. \A t \in Threads : t # u => collects'[t] = collects[t]
    BY <1>0 DEF TypeOK
  <2> QED
    BY <1>a, <2>1 DEF TypeOK
<1>1. TypeOK'
  <2>1. \A t \in Threads : DOMAIN copy'[t] = Threads /\ DOMAIN part'[t] \subseteq Fields
    BY <1>f, <1>m DEF TypeOK
  <2>2. DOMAIN copy' = Threads /\ DOMAIN part' = Threads
    BY <1>0 DEF TypeOK
  <2>3. collects' \in [Threads -> Nat]
    BY <1>0 DEF TypeOK
  <2>4. i' \in [Threads -> Threads]
    <3>1. ~last => i[u] + 1 \in Threads
      BY <1>n DEF Threads
    <3> QED
      BY <3>1, <1>a, FirstCell DEF TypeOK
  <2>5. DOMAIN old_copy' = Threads /\ \A t \in Threads : DOMAIN old_copy'[t] = Threads
    BY <1>a, <1>m DEF TypeOK
  <2>6. between' \in [Threads -> [Threads -> Nat]] /\ pc' \in [Threads -> Labels]
    <3>1. between' = between \/ between' = [between EXCEPT ![u] = Stamps]
      BY <1>a
    <3>2. pc' = pc \/ pc' = [pc EXCEPT ![u] = "compare"]
      BY <1>a
    <3>3. between' \in [Threads -> [Threads -> Nat]]
      BY <3>1, <1>s DEF TypeOK
    <3>4. pc' \in [Threads -> Labels]
      BY <3>2 DEF TypeOK, Labels
    <3> QED
      BY <3>3, <3>4
  <2> QED
    BY <1>0, <2>1, <2>2, <2>3, <2>4, <2>5, <2>6 DEF TypeOK
<1>h. /\ Scanning(u)' /\ Scanning(u) /\ ~At(u, "stamp")' /\ ~At(u, "value")'
      /\ pc'[u] = "collect" \/ pc'[u] = "compare"
  BY <1>0, <1>a DEF Scanning, At, TypeOK
<1>2. StampInv'
  BY <1>0, <1>g, <1>h DEF StampInv, Scanning, At
<1>3. MovedInv'
  <2>1. /\ At(u, "collect")' => \/ collects'[u] = 0 /\ moved[u] = {}
                                \/ collects'[u] = Cardinality(moved[u]) + 1
        /\ At(u, "compare")' => collects'[u] = Cardinality(moved[u]) + 2
    <3>1. /\ u \notin moved[u]
          /\ \/ collects[u] = 0 /\ moved[u] = {}
             \/ collects[u] = Cardinality(moved[u]) + 1
      BY <1>0 DEF MovedInv, At
    <3>2. IsFiniteSet(moved[u])
      <4>1. IsFiniteSet(Threads)
        BY <1>n, FS_Interval DEF Threads
      <4> QED
        BY <4>1, FS_Subset DEF TypeOK
    <3>3. Cardinality(moved[u]) \in Nat /\ Cardinality({}) = 0 /\ collects[u] \in Nat
      BY <3>2, FS_CardinalityType, FS_EmptySet DEF TypeOK
    <3>4. collects'[u] = IF last THEN collects[u] + 1 ELSE collects[u]
      BY <1>0 DEF TypeOK
    <3>5. CASE ~last
      BY <3>1, <3>4, <3>5, <1>0, <1>a DEF At
    <3>6. CASE last /\ collects[u] = 0
      <4>1. ~At(u, "compare")'
        BY <3>6, <1>0, <1>a, <3>3 DEF At
      <4>2. moved[u] = {}
        BY <3>1, <3>3, <3>6
      <4> QED
        BY <4>1, <4>2, <3>3, <3>4, <3>6
    <3>7. CASE last /\ collects[u] > 0
      <4>1. ~At(u, "collect")'
        BY <3>7, <1>0, <1>a, <3>3 DEF At, TypeOK
      <4>2. collects[u] = Cardinality(moved[u]) + 1
        BY <3>1, <3>3, <3>7
      <4> QED
        BY <4>1, <4>2, <3>3, <3>4, <3>7
    <3> QED
      BY <3>3, <3>5, <3>6, <3>7
  <2> QED
    BY <1>0, <1>g, <1>h, <2>1 DEF MovedInv, Scanning, At
<1>4. CollectInv'
  <2>1. ASSUME NEW j \in Threads PROVE Bracketed(u, j)'
    <3>t. /\ between[u][j] \in Nat /\ a_table[j].stamp \in Nat /\ j \in Nat
          /\ between[u][j] <= a_table[j].stamp /\ collects[u] \in Nat
      BY <1>b, FirstCell DEF TypeOK, Bracketed
    <3>1. CASE ~last
      <4>1. i'[u] = i[u] + 1 /\ collects'[u] = collects[u] /\ pc'[u] = "collect"
            /\ between'[u] = between[u] /\ old_copy'[u] = old_copy[u]
        BY <3>1, <1>0, <1>a DEF TypeOK
      <4>2. j < i'[u] => j < i[u] \/ j = i[u]
        BY <4>1, <3>t, <1>n
      <4> QED
        BY <4>1, <4>2, <1>0, <1>b, <1>d, <1>f DEF Bracketed, At
    <3>2. CASE last /\ collects[u] = 0
      <4>1. /\ i'[u] = 0 /\ pc'[u] = "collect" /\ between'[u] = Stamps
            /\ old_copy'[u] = made
        BY <3>2, <1>0, <1>a, <3>t DEF TypeOK
      <4>2. made[j].stamp \in 0..a_table[j].stamp
        BY <1>d, <1>e, <3>2, <3>t
      <4> QED
        BY <4>1, <4>2, <3>t, <1>0, <1>s, <1>f DEF Bracketed, At
    <3>3. CASE last /\ collects[u] > 0
      <4>1. between'[u] = between[u] /\ old_copy'[u] = old_copy[u]
        BY <3>3, <1>a, <3>t
      <4> QED
        BY <4>1, <3>3, <3>t, <1>0, <1>b, <1>d, <1>e, <1>f DEF Bracketed, At
    <3> QED
      BY <3>t, <3>1, <3>2, <3>3
  <2>2. ASSUME NEW t \in Threads, t # u PROVE
          /\ ~At(t, "collect")' => DOMAIN part'[t] = {}
          /\ Scanning(t)' => \A j \in Threads : Bracketed(t, j)'
    BY <1>0, <1>f, <1>g, <2>2 DEF CollectInv, Bracketed, At, Scanning
  <2> QED
    BY <1>f, <2>1, <2>2 DEF CollectInv, At
<1>5. OwnInv'
  <2>1. u \in Threads /\ between[u][u] = a_table[u].stamp
    BY <1>h DEF OwnInv
  <2>2. /\ between'[u][u] = a_table[u].stamp
        /\ collects'[u] > 0 => old_copy'[u][u].stamp = a_table[u].stamp
    <3>t. /\ between[u][u] \in Nat /\ a_table[u].stamp \in Nat /\ collects[u] \in Nat
      BY DEF TypeOK
    <3>1. CASE ~last
      <4>1. /\ collects'[u] = collects[u] /\ between'[u] = between[u]
            /\ old_copy'[u] = old_copy[u]
        BY <3>1, <1>0, <1>a
      <4> QED
        BY <4>1, <1>h, <2>1 DEF OwnInv
    <3>2. CASE last /\ collects[u] = 0
      <4>1. between'[u] = Stamps /\ old_copy'[u] = made
        BY <3>2, <1>a, <3>t DEF TypeOK
      <4>2. made[u].stamp \in between[u][u]..a_table[u].stamp
        BY <1>d, <1>e, <3>2
      <4> QED
        BY <4>1, <4>2, <1>s, <2>1, <3>t
    <3>3. CASE last /\ collects[u] > 0
      <4>1. between'[u] = between[u] /\ old_copy'[u] = old_copy[u]
        BY <3>3, <1>a, <3>t
      <4> QED
        BY <4>1, <3>3, <1>h, <2>1 DEF OwnInv
    <3> QED
      BY <3>t, <3>1, <3>2, <3>3
  <2> QED
    BY <1>0, <1>g, <2>2 DEF OwnInv, Scanning
<1>6. HeapInv'
  <2>1. {t \in Threads : At(t, "delete")}' = {t \in Threads : At(t, "delete")}
    BY <1>0, <1>g, <1>h DEF At
  <2>2. \A t \in Threads : pc'[t] \in {"value", "snap"} <=> pc[t] \in {"value", "snap"}
    BY <1>0, <1>g, <1>h
  <2> QED
    BY <1>0, <2>1, <2>2 DEF HeapInv
<1> QED
  BY <1>1, <1>2, <1>3, <1>4, <1>5, <1>6

\* The threads a scan has seen moving are fewer than N: it never sees itself.
LEMMA MovedBound ==
  ASSUME SnapInv, NEW u \in Threads
  PROVE  /\ IsFiniteSet(moved[u]) /\ Cardinality(moved[u]) \in Nat
         /\ Cardinality(moved[u]) <= N - 1
<1>1. IsFiniteSet(Threads) /\ Cardinality(Threads) = N
  BY NAssumption, FS_Interval DEF Threads
<1>2. moved[u] \subseteq Threads \ {u}
  BY DEF SnapInv, TypeOK, MovedInv
<1>3. IsFiniteSet(Threads \ {u}) /\ Cardinality(Threads \ {u}) = N - 1
  BY <1>1, FS_RemoveElement
<1> QED
  BY <1>2, <1>3, FS_Subset, FS_CardinalityType

\* A scan that is at the comparison sees no change of its own stamp.
LEMMA OwnStampEqual ==
  ASSUME SnapInv, NEW u \in Threads, At(u, "compare") PROVE ~Differs(u, u)
<1> USE DEF SnapInv
<1>1. collects[u] > 0
  BY MovedBound DEF MovedInv
<1>2. Scanning(u) /\ Bracketed(u, u)
  BY DEF At, Scanning, CollectInv
<1>3. between[u][u] = a_table[u].stamp /\ old_copy[u][u].stamp = a_table[u].stamp
  BY <1>1, <1>2 DEF OwnInv
<1>4. copy[u][u].stamp \in between[u][u]..a_table[u].stamp /\ a_table[u].stamp \in Nat
  BY <1>2 DEF Bracketed, TypeOK
<1>5. copy[u][u].stamp = a_table[u].stamp
  BY <1>3, <1>4
<1> QED
  BY <1>3, <1>5 DEF Differs

LEMMA ScanReturnsInv ==
  ASSUME SnapInv, NEW u \in Threads, At(u, "compare"), ScanReturns(u) PROVE SnapInv'
<1> USE DEF SnapInv
<1>0. /\ pc[u] = "compare" /\ pc' = [pc EXCEPT ![u] = "stamp"]
      /\ old_copy' = [old_copy EXCEPT ![u] = Blank]
      /\ copy' = [copy EXCEPT ![u] = Blank]
      /\ moved' = [moved EXCEPT ![u] = {}]
      /\ i' = [i EXCEPT ![u] = 0]
      /\ between' = [between EXCEPT ![u] = Zeros]
      /\ UNCHANGED <<a_table, heap, end, num_of_update, value, part, collects>>
  BY DEF ScanReturns, At, Goto
<1>1. TypeOK'
  <2>1. /\ DOMAIN copy' = Threads /\ DOMAIN old_copy' = Threads
        /\ \A t \in Threads : DOMAIN copy'[t] = Threads /\ DOMAIN old_copy'[t] = Threads
    BY <1>0 DEF TypeOK, Blank
  <2>2. i' \in [Threads -> Threads] /\ pc' \in [Threads -> Labels]
    BY <1>0, FirstCell DEF TypeOK, Labels
  <2>3. between' \in [Threads -> [Threads -> Nat]] /\ moved' \in [Threads -> SUBSET Threads]
    BY <1>0 DEF TypeOK, Zeros
  <2> QED
    BY <1>0, <2>1, <2>2, <2>3 DEF TypeOK
<1>g. \A t \in Threads : t # u =>
         /\ pc'[t] = pc[t] /\ i'[t] = i[t] /\ old_copy'[t] = old_copy[t]
         /\ copy'[t] = copy[t] /\ between'[t] = between[t] /\ moved'[t] = moved[t]
  BY <1>0 DEF TypeOK
<1>u. pc'[u] = "stamp" /\ moved'[u] = {} 
  BY <1>0 DEF TypeOK
<1>2. StampInv'
  BY <1>0, <1>g, <1>u DEF StampInv, Scanning, At
<1>3. MovedInv'
  <2>1. collects[u] <= N + 1
    <3>1. collects[u] = Cardinality(moved[u]) + 2
      BY <1>0 DEF MovedInv, At
    <3> QED
      BY <3>1, MovedBound, NAssumption
  <2> QED
    BY <1>0, <1>g, <1>u, <2>1 DEF MovedInv, Scanning, At
<1>4. CollectInv'
  BY <1>0, <1>g, <1>u DEF CollectInv, Bracketed, Scanning, At
<1>5. OwnInv'
  BY <1>0, <1>g, <1>u DEF OwnInv, Scanning
<1>6. HeapInv'
  <2>1. {t \in Threads : At(t, "delete")}' = {t \in Threads : At(t, "delete")}
    BY <1>0, <1>g, <1>u DEF At
  <2>2. \A t \in Threads : pc'[t] \in {"value", "snap"} <=> pc[t] \in {"value", "snap"}
    BY <1>0, <1>g, <1>u
  <2> QED
    BY <1>0, <2>1, <2>2 DEF HeapInv
<1> QED
  BY <1>1, <1>2, <1>3, <1>4, <1>5, <1>6

LEMMA CollectAgainInv ==
  ASSUME SnapInv, NEW u \in Threads, NEW k \in Threads, CollectAgain(u, k)
  PROVE  SnapInv'
<1> USE DEF SnapInv
<1>0. /\ pc[u] = "compare" /\ pc' = [pc EXCEPT ![u] = "collect"]
      /\ k \notin moved[u] /\ Differs(u, k)
      /\ old_copy' = [old_copy EXCEPT ![u] = copy[u]]
      /\ moved' = [moved EXCEPT ![u] = @ \cup {k}]
      /\ i' = [i EXCEPT ![u] = 0]
      /\ between' = [between EXCEPT ![u] = Stamps]
      /\ UNCHANGED <<a_table, heap, end, num_of_update, value, copy, part, collects>>
  BY DEF CollectAgain, BeginCollect, FirstMoved, At, Goto
<1>k. k # u
  BY <1>0, OwnStampEqual DEF At
<1>s. Stamps \in [Threads -> Nat] /\ \A j \in Threads : Stamps[j] = a_table[j].stamp
  BY DEF Stamps, TypeOK
<1>1. TypeOK'
  <2>1. /\ DOMAIN old_copy' = Threads
        /\ \A t \in Threads : DOMAIN old_copy'[t] = Threads
    BY <1>0 DEF TypeOK
  <2>2. i' \in [Threads -> Threads] /\ pc' \in [Threads -> Labels]
    BY <1>0, FirstCell DEF TypeOK, Labels
  <2>3. between' \in [Threads -> [Threads -> Nat]] /\ moved' \in [Threads -> SUBSET Threads]
    BY <1>0, <1>s DEF TypeOK
  <2> QED
    BY <1>0, <2>1, <2>2, <2>3 DEF TypeOK
<1>g. \A t \in Threads : t # u =>
         /\ pc'[t] = pc[t] /\ i'[t] = i[t] /\ old_copy'[t] = old_copy[t]
         /\ between'[t] = between[t] /\ moved'[t] = moved[t]
  BY <1>0 DEF TypeOK
<1>u. /\ pc'[u] = "collect" /\ moved'[u] = moved[u] \cup {k} /\ i'[u] = 0
      /\ old_copy'[u] = copy[u] /\ between'[u] = Stamps
  BY <1>0 DEF TypeOK
<1>b. \A j \in Threads : Bracketed(u, j)
  BY <1>0 DEF CollectInv, Scanning
<1>p. DOMAIN part[u] = {}
  BY <1>0 DEF CollectInv, At
<1>2. StampInv'
  BY <1>0, <1>g, <1>u DEF StampInv, Scanning, At
<1>3. MovedInv'
  <2>1. collects[u] = Cardinality(moved'[u]) + 1
    <3>1. collects[u] = Cardinality(moved[u]) + 2
      BY <1>0 DEF MovedInv, At
    <3>2. Cardinality(moved[u] \cup {k}) = Cardinality(moved[u]) + 1
      BY <1>0, MovedBound, FS_AddElement
    <3> QED
      BY <1>u, <3>1, <3>2, MovedBound
  <2>2. u \notin moved'[u]
    BY <1>k, <1>u DEF MovedInv
  <2> QED
    <3>1. ASSUME NEW t \in Threads, t # u PROVE
            /\ collects'[t] = collects[t] /\ moved'[t] = moved[t]
            /\ \A l : At(t, l)' <=> At(t, l)
            /\ Scanning(t)' <=> Scanning(t)
      BY <3>1, <1>0, <1>g DEF Scanning, At
    <3>2. ~At(u, "compare")' /\ ~At(u, "stamp")' /\ Scanning(u)' /\ collects'[u] = collects[u]
      BY <1>0, <1>u DEF Scanning, At
    <3> QED
      BY <3>1, <3>2, <2>1, <2>2 DEF MovedInv
<1>4. CollectInv'
  <2>1. ASSUME NEW j \in Threads PROVE Bracketed(u, j)'
    <3>1. /\ between[u][j] \in Nat /\ a_table[j].stamp \in Nat /\ ~(j < 0)
          /\ copy[u][j].stamp \in between[u][j]..a_table[j].stamp
      BY <1>0, <1>b, FirstCell DEF TypeOK, Bracketed, At
    <3>2. copy[u][j].stamp \in 0..a_table[j].stamp
      BY <3>1
    <3> QED
      BY <1>0, <1>u, <1>s, <1>p, <3>1, <3>2 DEF Bracketed, At
  <2>2. ASSUME NEW t \in Threads, t # u PROVE
          /\ ~At(t, "collect")' => DOMAIN part'[t] = {}
          /\ Scanning(t)' => \A j \in Threads : Bracketed(t, j)'
    BY <1>0, <1>g, <2>2 DEF CollectInv, Bracketed, At, Scanning
  <2> QED
    BY <1>0, <1>p, <2>1, <2>2 DEF CollectInv
<1>5. OwnInv'
  <2>1. between[u][u] = a_table[u].stamp /\ a_table[u].stamp \in Nat
    BY <1>0 DEF OwnInv, Scanning, TypeOK
  <2>2. copy[u][u].stamp = a_table[u].stamp
    BY <1>0, <1>b, <2>1 DEF Bracketed, At
  <2> QED
    BY <1>0, <1>g, <1>u, <1>s, <2>2 DEF OwnInv, Scanning
<1>6. HeapInv'
  <2>1. {t \in Threads : At(t, "delete")}' = {t \in Threads : At(t, "delete")}
    BY <1>0, <1>g, <1>u DEF At
  <2>2. \A t \in Threads : pc'[t] \in {"value", "snap"} <=> pc[t] \in {"value", "snap"}
    BY <1>0, <1>g, <1>u
  <2> QED
    BY <1>0, <2>1, <2>2 DEF HeapInv
<1> QED
  BY <1>1, <1>2, <1>3, <1>4, <1>5, <1>6

LEMMA StoreStampInv == ASSUME SnapInv, NEW u \in Threads, StoreStamp(u) PROVE SnapInv'
<1> USE DEF SnapInv
<1>0. /\ pc[u] = "stamp" /\ pc' = [pc EXCEPT ![u] = "value"]
      /\ a_table' = [a_table EXCEPT ![u].stamp = @ + 1]
      /\ collects' = [collects EXCEPT ![u] = 0]
      /\ UNCHANGED <<heap, end, num_of_update, value, old_copy, copy, i, part,
                     moved, result, between>>
  BY DEF StoreStamp, At, Goto, scanner
<1>g. \A t \in Threads : t # u =>
         /\ pc'[t] = pc[t] /\ a_table'[t] = a_table[t] /\ collects'[t] = collects[t]
  BY <1>0 DEF TypeOK
<1>u. /\ pc'[u] = "value" /\ collects'[u] = 0
      /\ a_table'[u].stamp = a_table[u].stamp + 1
      /\ a_table'[u].value = a_table[u].value /\ a_table'[u].snap = a_table[u].snap
  BY <1>0 DEF TypeOK
<1>n. a_table[u].stamp \in Nat
  BY DEF TypeOK
<1>1. TypeOK'
  <2>1. a_table' \in [Threads -> [stamp : Nat, value : Nat, snap : Threads \X Nat]]
    <3> DEFINE r == [a_table[u] EXCEPT !.stamp = @ + 1]
    <3>1. r \in [stamp : Nat, value : Nat, snap : Threads \X Nat]
      <4>1. a_table[u] \in [stamp : Nat, value : Nat, snap : Threads \X Nat] /\ value[u] \in Nat
        BY DEF TypeOK
      <4> QED
        BY <4>1
    <3>2. a_table' = [a_table EXCEPT ![u] = r]
      BY <1>0
    <3> HIDE DEF r
    <3> QED
      BY <3>1, <3>2 DEF TypeOK
  <2>2. pc' \in [Threads -> Labels] /\ collects' \in [Threads -> Nat]
    BY <1>0 DEF TypeOK, Labels
  <2> QED
    BY <1>0, <2>1, <2>2 DEF TypeOK
<1>2. StampInv'
  BY <1>0, <1>g, <1>u, <1>n DEF StampInv, Scanning, At
<1>3. MovedInv'
  BY <1>0, <1>g, <1>u DEF MovedInv, Scanning, At
<1>4. CollectInv' /\ OwnInv'
  <2>1. ~Scanning(u) /\ ~Scanning(u)'
    BY <1>0, <1>u DEF Scanning
  <2> QED
    BY <1>0, <1>g, <1>u, <1>n, <2>1, QuietStep
<1>6. HeapInv'
  <2>1. {<<t, a_table[t].stamp - 1>> : t \in {v \in Threads : At(v, "delete")}}'
          = {<<t, a_table[t].stamp - 1>> : t \in {v \in Threads : At(v, "delete")}}
    BY <1>0, <1>g, <1>u DEF At
  <2>2. {a_table[t].snap : t \in Threads}' = {a_table[t].snap : t \in Threads}
    BY <1>g, <1>u
  <2>3. a_table'[u].snap = <<u, a_table'[u].stamp - 1>>
    BY <1>0, <1>u, <1>n DEF HeapInv
  <2> QED
    BY <1>0, <1>g, <1>u, <2>1, <2>2, <2>3 DEF HeapInv
<1> QED
  BY <1>1, <1>2, <1>3, <1>4, <1>6

LEMMA StoreValueInv == ASSUME SnapInv, NEW u \in Threads, StoreValue(u) PROVE SnapInv'
<1> USE DEF SnapInv
<1>0. /\ pc[u] = "value" /\ pc' = [pc EXCEPT ![u] = "snap"]
      /\ a_table' = [a_table EXCEPT ![u].value = value[u]]
      /\ UNCHANGED <<heap, end, num_of_update, value, old_copy, copy, i, part,
                     moved, result, collects, between>>
  BY DEF StoreValue, At, Goto, scanner, history
<1>g. \A t \in Threads : t # u => pc'[t] = pc[t] /\ a_table'[t] = a_table[t]
  BY <1>0 DEF TypeOK
<1>u. /\ pc'[u] = "snap" /\ a_table'[u].stamp = a_table[u].stamp
      /\ a_table'[u].value = value[u] /\ a_table'[u].snap = a_table[u].snap
  BY <1>0 DEF TypeOK
<1>n. a_table[u].stamp \in Nat
  BY DEF TypeOK
<1>1. TypeOK'
  <2>1. a_table' \in [Threads -> [stamp : Nat, value : Nat, snap : Threads \X Nat]]
    <3> DEFINE r == [a_table[u] EXCEPT !.value = value[u]]
    <3>1. r \in [stamp : Nat, value : Nat, snap : Threads \X Nat]
      <4>1. a_table[u] \in [stamp : Nat, value : Nat, snap : Threads \X Nat] /\ value[u] \in Nat
        BY DEF TypeOK
      <4> QED
        BY <4>1
    <3>2. a_table' = [a_table EXCEPT ![u] = r]
      BY <1>0
    <3> HIDE DEF r
    <3> QED
      BY <3>1, <3>2 DEF TypeOK
  <2>2. pc' \in [Threads -> Labels]
    BY <1>0 DEF TypeOK, Labels
  <2> QED
    BY <1>0, <2>1, <2>2 DEF TypeOK
<1>2. StampInv'
  BY <1>0, <1>g, <1>u, <1>n DEF StampInv, Scanning, At
<1>3. MovedInv'
  BY <1>0, <1>g, <1>u DEF MovedInv, Scanning, At
<1>4. CollectInv' /\ OwnInv'
  <2>1. ~Scanning(u) /\ ~Scanning(u)'
    BY <1>0, <1>u DEF Scanning
  <2> QED
    BY <1>0, <1>g, <1>u, <1>n, <2>1, QuietStep
<1>6. HeapInv'
  <2>1. {t \in Threads : At(t, "delete")}' = {t \in Threads : At(t, "delete")}
    BY <1>0, <1>g, <1>u DEF At
  <2>2. \A t \in Threads : /\ a_table'[t].snap = a_table[t].snap
                           /\ a_table'[t].stamp = a_table[t].stamp
                           /\ pc'[t] \in {"value", "snap"} <=> pc[t] \in {"value", "snap"}
    BY <1>0, <1>g, <1>u
  <2> QED
    BY <1>0, <2>1, <2>2 DEF HeapInv
<1> QED
  BY <1>1, <1>2, <1>3, <1>4, <1>6

LEMMA SwapSnapInv == ASSUME SnapInv, NEW u \in Threads, SwapSnap(u) PROVE SnapInv'
<1> USE DEF SnapInv
<1> DEFINE p == <<u, a_table[u].stamp>>
<1>0. /\ pc[u] = "snap" /\ pc' = [pc EXCEPT ![u] = "delete"]
      /\ a_table' = [a_table EXCEPT ![u].snap = p]
      /\ DOMAIN heap' = DOMAIN heap \cup {p}
      /\ UNCHANGED <<end, num_of_update, value, old_copy, copy, i, part,
                     moved, collects, between>>
  BY DEF SwapSnap, Extend, At, Goto, history
<1>g. \A t \in Threads : t # u => pc'[t] = pc[t] /\ a_table'[t] = a_table[t]
  BY <1>0 DEF TypeOK
<1>u. /\ pc'[u] = "delete" /\ a_table'[u].stamp = a_table[u].stamp
      /\ a_table'[u].value = a_table[u].value /\ a_table'[u].snap = p
  BY <1>0 DEF TypeOK
<1>n. a_table[u].stamp \in Nat /\ p \in Threads \X Nat
  BY DEF TypeOK
<1>1. TypeOK'
  <2>1. a_table' \in [Threads -> [stamp : Nat, value : Nat, snap : Threads \X Nat]]
    <3> HIDE DEF p
    <3> QED
      BY <1>0, <1>n DEF TypeOK
  <2>2. pc' \in [Threads -> Labels]
    BY <1>0 DEF TypeOK, Labels
  <2> QED
    BY <1>0, <2>1, <2>2 DEF TypeOK
<1>2. StampInv'
  BY <1>0, <1>g, <1>u, <1>n DEF StampInv, Scanning, At
<1>3. MovedInv'
  BY <1>0, <1>g, <1>u DEF MovedInv, Scanning, At
<1>4. CollectInv' /\ OwnInv'
  <2>1. ~Scanning(u) /\ ~Scanning(u)'
    BY <1>0, <1>u DEF Scanning
  <2> QED
    BY <1>0, <1>g, <1>u, <1>n, <2>1, QuietStep
<1>6. HeapInv'
  <2> DEFINE q == <<u, a_table[u].stamp - 1>>
  <2>1. {t \in Threads : At(t, "delete")}' = {t \in Threads : At(t, "delete")} \cup {u}
    BY <1>0, <1>g, <1>u DEF At
  <2>2. a_table[u].snap = q
    BY <1>0 DEF HeapInv
  <2> HIDE DEF p, q
  <2>3. {a_table[t].snap : t \in Threads}' \cup {q} =
          {a_table[t].snap : t \in Threads} \cup {p} \cup {q}
    BY <1>g, <1>u, <2>2
  <2>4. {<<t, a_table[t].stamp - 1>> : t \in {v \in Threads : At(v, "delete")}}'
          = {<<t, a_table[t].stamp - 1>> : t \in {v \in Threads : At(v, "delete")}} \cup {q}
    BY <2>1, <1>g, <1>u DEF q
  <2>5. q \in {a_table[t].snap : t \in Threads}
    BY <2>2
  <2>6. DOMAIN heap' = {a_table[t].snap : t \in Threads}' \cup
          {<<t, a_table[t].stamp - 1>> : t \in {v \in Threads : At(v, "delete")}}'
    BY <1>0, <2>3, <2>4, <2>5 DEF HeapInv
  <2> QED
    BY <1>0, <1>g, <1>u, <2>6 DEF HeapInv, p
<1> QED
  BY <1>1, <1>2, <1>3, <1>4, <1>6

LEMMA DeleteSnapInv == ASSUME SnapInv, NEW u \in Threads, DeleteSnap(u) PROVE SnapInv'
<1> USE DEF SnapInv
<1> DEFINE q == <<u, a_table[u].stamp - 1>>
<1>0. /\ pc[u] = "delete" /\ pc' = [pc EXCEPT ![u] = "loop"]
      /\ DOMAIN heap' = DOMAIN heap \ {q}
      /\ num_of_update' = [num_of_update EXCEPT ![u] = @ + 1]
      /\ UNCHANGED <<a_table, end, value, old_copy, copy, i, part,
                     moved, result, collects, between>>
  BY DEF DeleteSnap, At, Goto, scanner, history
<1>g. \A t \in Threads : t # u => pc'[t] = pc[t]
  BY <1>0 DEF TypeOK
<1>u. pc'[u] = "loop"
  BY <1>0 DEF TypeOK
<1>n. a_table[u].stamp \in Nat
  BY DEF TypeOK
<1>1. TypeOK'
  <2>2. pc' \in [Threads -> Labels] /\ num_of_update' \in [Threads -> Nat]
    BY <1>0 DEF TypeOK, Labels
  <2> QED
    BY <1>0, <2>2 DEF TypeOK
<1>2. StampInv'
  BY <1>0, <1>g, <1>u DEF StampInv, Scanning, At
<1>3. MovedInv'
  BY <1>0, <1>g, <1>u DEF MovedInv, Scanning, At
<1>4. CollectInv' /\ OwnInv'
  <2>1. ~Scanning(u) /\ ~Scanning(u)'
    BY <1>0, <1>u DEF Scanning
  <2> QED
    BY <1>0, <1>g, <1>u, <1>n, <2>1, QuietStep
<1>6. HeapInv'
  <2>1. {t \in Threads : At(t, "delete")}' = {t \in Threads : At(t, "delete")} \ {u}
    BY <1>0, <1>g, <1>u DEF At
  <2>2. \A t \in Threads : a_table[t].snap # q
    <3>1. ASSUME NEW t \in Threads, a_table[t].snap = q PROVE FALSE
      <4>1. t = u
        BY <3>1 DEF HeapInv
      <4> QED
        BY <4>1, <3>1, <1>0, <1>n DEF HeapInv
    <3> QED
      BY <3>1
  <2>3. {<<t, a_table[t].stamp - 1>> : t \in {v \in Threads : At(v, "delete")}}'
          = {<<t, a_table[t].stamp - 1>> : t \in {v \in Threads : At(v, "delete")}} \ {q}
    BY <1>0, <2>1
  <2> HIDE DEF q
  <2>4. DOMAIN heap' = {a_table[t].snap : t \in Threads}' \cup
          {<<t, a_table[t].stamp - 1>> : t \in {v \in Threads : At(v, "delete")}}'
    BY <1>0, <2>2, <2>3 DEF HeapInv
  <2>5. \A t \in Threads : pc'[t] \in {"value", "snap"} <=> pc[t] \in {"value", "snap"}
    BY <1>0, <1>g, <1>u
  <2> QED
    BY <1>0, <2>4, <2>5 DEF HeapInv
<1> QED
  BY <1>1, <1>2, <1>3, <1>4, <1>6

LEMMA ReturnInv == ASSUME SnapInv, NEW u \in Threads, Return(u) PROVE SnapInv'
<1> USE DEF SnapInv
<1>0. /\ pc[u] = "loop" /\ pc' = [pc EXCEPT ![u] = "done"]
      /\ UNCHANGED <<a_table, heap, end, num_of_update, value, old_copy, copy, i,
                     part, moved, result, collects, between>>
  BY DEF Return, At, Goto, scanner, history
<1>g. pc'[u] = "done" /\ \A t \in Threads : t # u => pc'[t] = pc[t]
  BY <1>0 DEF TypeOK
<1>n. a_table[u].stamp \in Nat
  BY DEF TypeOK
<1>1. TypeOK'
  <2>2. pc' \in [Threads -> Labels]
    BY <1>0 DEF TypeOK, Labels
  <2> QED
    BY <1>0, <2>2 DEF TypeOK
<1>2. StampInv' /\ MovedInv'
  BY <1>0, <1>g DEF StampInv, MovedInv, Scanning, At
<1>4. CollectInv' /\ OwnInv'
  <2>1. ~Scanning(u) /\ ~Scanning(u)'
    BY <1>0, <1>g DEF Scanning
  <2> QED
    BY <1>0, <1>g, <1>n, <2>1, QuietStep
<1>6. HeapInv'
  <2>1. {t \in Threads : At(t, "delete")}' = {t \in Threads : At(t, "delete")}
    BY <1>0, <1>g DEF At
  <2>2. \A t \in Threads : pc'[t] \in {"value", "snap"} <=> pc[t] \in {"value", "snap"}
    BY <1>0, <1>g
  <2> QED
    BY <1>0, <2>1, <2>2 DEF HeapInv
<1> QED
  BY <1>1, <1>2, <1>4, <1>6

LEMMA FrameInv ==
  ASSUME SnapInv, end' \in BOOLEAN,
         UNCHANGED <<a_table, heap, num_of_update, pc, scanner, history>>
  PROVE  SnapInv'
<1> USE DEF SnapInv, scanner, history
<1>1. TypeOK'
  BY DEF TypeOK
<1>2. StampInv' /\ MovedInv' /\ OwnInv'
  BY DEF StampInv, MovedInv, OwnInv, Scanning, At
<1>3. CollectInv'
  BY DEF CollectInv, Bracketed, Scanning, At
<1>4. HeapInv'
  BY DEF HeapInv, At
<1> QED
  BY <1>1, <1>2, <1>3, <1>4

LEMMA NextInv == SnapInv /\ [Next]_vars => SnapInv'
<1> SUFFICES ASSUME SnapInv, [Next]_vars PROVE SnapInv'
  OBVIOUS
<1>1. ASSUME NEW t \in Threads, Step(t) PROVE SnapInv'
  <2>1. CASE \E f \in Fields : Load(t, f)
    BY <2>1, LoadInv
  <2>2. CASE ReturnDirect(t) \/ \E j \in Threads : ReturnBorrowed(t, j)
    BY <2>2, ScanReturnsInv DEF ReturnDirect, ReturnBorrowed
  <2>3. CASE \E j \in Threads : CollectAgain(t, j)
    BY <2>3, CollectAgainInv
  <2>4. CASE Update(t) \/ Construct(t) \/ StoreStamp(t) \/ StoreValue(t)
    BY <2>4, UpdateInv, ConstructInv, StoreStampInv, StoreValueInv
  <2>5. CASE SwapSnap(t) \/ DeleteSnap(t) \/ Return(t)
    BY <2>5, SwapSnapInv, DeleteSnapInv, ReturnInv
  <2> QED
    BY <1>1, <2>1, <2>2, <2>3, <2>4, <2>5 DEF Step
<1>2. ASSUME End \/ Ended \/ UNCHANGED vars PROVE SnapInv'
  <2>1. end \in BOOLEAN
    BY DEF SnapInv, TypeOK
  <2> QED
    BY <1>2, <2>1, FrameInv DEF End, Ended, vars
<1> QED
  BY <1>1, <1>2 DEF Next

\* Cells, collects and arrays agree in every reachable state.
THEOREM SnapshotInvariant == Spec => []SnapInv
BY InitInv, NextInv, PTL DEF Spec

\* Every variable keeps its type.
THEOREM SnapshotTypeCorrect == Spec => []TypeOK
BY SnapshotInvariant, PTL DEF SnapInv

\* scan ends after at most N + 1 collects, whatever the other threads do.
THEOREM ScanIsWaitFree == Spec => []WaitFree
<1>1. ASSUME SnapInv PROVE WaitFree
  <2> SUFFICES ASSUME NEW t \in Threads PROVE collects[t] <= N + 1
    BY DEF WaitFree
  <2>1. Cardinality(moved[t]) \in Nat /\ Cardinality(moved[t]) <= N - 1 /\ N \in Nat \ {0}
    BY <1>1, MovedBound, NAssumption
  <2>2. \/ collects[t] = 0 \/ collects[t] <= N + 1
        \/ collects[t] = Cardinality(moved[t]) + 1
        \/ collects[t] = Cardinality(moved[t]) + 2
    BY <1>1 DEF SnapInv, MovedInv, Scanning, At
  <2> QED
    BY <2>1, <2>2
<1> QED
  BY <1>1, SnapshotInvariant, PTL

\* Two equal collects show the stamps that all cells had at the instant
\* between them, and values that lag them by at most one store.
THEOREM DirectScanIsPinned == Spec => []DirectScanPinned
<1>1. ASSUME SnapInv PROVE DirectScanPinned
  <2> SUFFICES ASSUME NEW t \in Threads, At(t, "compare"), Clean(t), NEW j \in Threads
               PROVE  /\ copy[t][j].stamp = between[t][j]
                      /\ copy[t][j].value >= between[t][j] - 1
    BY DEF DirectScanPinned
  <2>1. Bracketed(t, j) /\ collects[t] > 0
    <3>1. collects[t] = Cardinality(moved[t]) + 2
      BY <1>1 DEF SnapInv, MovedInv
    <3> QED
      BY <1>1, <3>1, MovedBound DEF SnapInv, CollectInv, Scanning, At
  <2>2. /\ old_copy[t][j].stamp \in 0..between[t][j]
        /\ copy[t][j].stamp \in between[t][j]..a_table[j].stamp
        /\ copy[t][j].value >= between[t][j] - 1
    BY <2>1 DEF Bracketed
  <2>3. old_copy[t][j].stamp = copy[t][j].stamp
    BY DEF Clean, Differs
  <2>4. between[t][j] \in Nat /\ a_table[j].stamp \in Nat
    BY <1>1 DEF SnapInv, TypeOK
  <2> QED
    BY <2>2, <2>3, <2>4
<1> QED
  BY <1>1, SnapshotInvariant, PTL

\* No cell points to a deleted array, and at the end no other published array is left.
THEOREM ArraysAreLive == Spec => []SnapsAreLive
<1>1. ASSUME SnapInv PROVE SnapsAreLive
  <2>1. \A t \in Threads : a_table[t].snap \in DOMAIN heap
    BY <1>1 DEF SnapInv, HeapInv
  <2>2. ASSUME Joined PROVE DOMAIN heap = {a_table[t].snap : t \in Threads}
    <3>1. {t \in Threads : At(t, "delete")} = {}
      BY <2>2 DEF Joined, At
    <3> QED
      BY <1>1, <3>1 DEF SnapInv, HeapInv
  <2> QED
    BY <2>1, <2>2 DEF SnapsAreLive
<1> QED
  BY <1>1, SnapshotInvariant, PTL
=============================================================================
