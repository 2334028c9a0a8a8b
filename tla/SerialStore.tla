----------------------------- MODULE SerialStore -----------------------------
(***************************************************************************)
(* What the transactions of project2 promise: they take effect one at a    *)
(* time, in the order of their commit ids.  A transaction reads record i,  *)
(* adds the value read plus one to record j, and subtracts it from         *)
(* record k; the line it logs holds the three values.                      *)
(***************************************************************************)
EXTENDS Integers, FiniteSets

CONSTANTS Records, InitialValue, MaxInt, E

VARIABLES store,      \* the records, as the committed transactions left them
          committed   \* the lines of all log files

\* A long long holds MinInt..MaxInt; a result out of that range wraps around.
MinInt == -MaxInt - 1

Wrap(x) ==
    IF x > MaxInt THEN x - 2 * (MaxInt + 1)
    ELSE IF x < MinInt THEN x + 2 * (MaxInt + 1)
    ELSE x

Init ==
    /\ store = [r \in Records |-> InitialValue]
    /\ committed = {}

Commit(i, j, k) ==
    LET vi == store[i]
        vj == Wrap(store[j] + Wrap(vi + 1))
        vk == Wrap(store[k] - vi)
        id == Cardinality(committed) + 1
    IN  /\ Cardinality({i, j, k}) = 3
        /\ id <= E
        /\ store' = [store EXCEPT ![j] = vj, ![k] = vk]
        /\ committed' = committed \cup
              {[commit_id |-> id, i |-> i, j |-> j, k |-> k,
                value_of_i |-> vi, value_of_j |-> vj, value_of_k |-> vk]}

Next == \E i, j, k \in Records : Commit(i, j, k)

Spec == Init /\ [][Next]_<<store, committed>>
=============================================================================
