--------------------------- MODULE ReferenceCounts ---------------------------
(***************************************************************************)
(* What the reference map promises: a counter for every pointer.           *)
(*                                                                         *)
(* Record and Remove change the counter and learn its new value in one     *)
(* step between the call and its return; Search learns some value that the *)
(* counter had while the call ran.                                         *)
(***************************************************************************)
EXTENDS Integers

CONSTANTS Thread, Key

VARIABLES
    count,  \* count[k]: the references to k
    call,   \* call[t]: operation, key, answer and stage of the call of t
    seen    \* seen[t]: the values the counter has had since t began to search

vars == <<count, call, seen>>

NoCall == [op |-> "none", key |-> 0, answer |-> 0, stage |-> "idle"]

Init ==
    /\ count \in [Key -> Nat]
    /\ call = [t \in Thread |-> NoCall]
    /\ seen = [t \in Thread |-> {}]

Searching(t) == call[t].stage = "called" /\ call[t].op = "SEARCH"

Invoke(t) ==
    /\ call[t].stage = "idle"
    /\ \E op \in {"RECORD", "SEARCH", "REMOVE"}, k \in Key :
        /\ call' = [call EXCEPT ![t] = [op |-> op, key |-> k, answer |-> 0, stage |-> "called"]]
        /\ seen' = [seen EXCEPT ![t] = IF op = "SEARCH" THEN {count[k]} ELSE {}]
    /\ UNCHANGED count

\* The counter of the key of t becomes n; t learns it and every searcher may.
Becomes(t, n) ==
    LET k == call[t].key
    IN  /\ count' = [count EXCEPT ![k] = n]
        /\ call' = [call EXCEPT ![t].answer = n, ![t].stage = "done"]
        /\ seen' = [u \in Thread |-> IF Searching(u) /\ call[u].key = k THEN seen[u] \cup {n}
                                     ELSE seen[u]]

Record(t) ==
    /\ call[t].stage = "called" /\ call[t].op = "RECORD"
    /\ Becomes(t, count[call[t].key] + 1)

Remove(t) ==
    /\ call[t].stage = "called" /\ call[t].op = "REMOVE"
    /\ count[call[t].key] > 0
    /\ Becomes(t, count[call[t].key] - 1)

Search(t) ==
    /\ Searching(t)
    /\ \E a \in seen[t] : call' = [call EXCEPT ![t].answer = a, ![t].stage = "done"]
    /\ seen' = [seen EXCEPT ![t] = {}]
    /\ UNCHANGED count

Return(t) ==
    /\ call[t].stage = "done"
    /\ call' = [call EXCEPT ![t] = NoCall]
    /\ UNCHANGED <<count, seen>>

Next == \E t \in Thread : Invoke(t) \/ Record(t) \/ Remove(t) \/ Search(t) \/ Return(t)

Spec == Init /\ [][Next]_vars

=============================================================================
