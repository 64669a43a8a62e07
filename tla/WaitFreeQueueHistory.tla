------------------------ MODULE WaitFreeQueueHistory ------------------------
(***************************************************************************)
(* WaitFreeQueueFastPath with the history a linearizable queue has: the    *)
(* order in which nodes were linked, and whether the queue was empty at    *)
(* some time during the call a thread is in.                               *)
(***************************************************************************)
EXTENDS WaitFreeQueueFastPath, FiniteSets, TLC

VARIABLES
    place,    \* place[o]: the number of the node of add o in the list, or 0
    sawEmpty  \* sawEmpty[t]: the queue has been empty since the call of t began

historyVars == <<vars, place, sawEmpty>>

Linked(o) == \E n \in Node : next[n] = o
Placed == {o \in Op : place[o] # 0}
back == Cardinality(Placed)

\* A descriptor in the head has taken the element behind it.
front == (IF head.node = Dummy THEN 0 ELSE place[head.node])
         + (IF head.opDesc = NoOp THEN 0 ELSE 1)

inCall == [t \in Thread |-> pc[t] # "idle"]

\* What a poll has obtained, as soon as it is decided.
Obtained(o) ==
    IF result[o] # None \/ kind[o] = "add" \/ desc[o] = NoOp THEN result[o]
    ELSE IF head.opDesc = o THEN next[head.node]
    ELSE IF desc[o].pending = 0 THEN Answer(o)
    ELSE None

HInit ==
    /\ Init
    /\ place = [o \in Op |-> 0]
    /\ sawEmpty = [t \in Thread |-> FALSE]

Watch ==
    /\ place' = [o \in Op |-> IF place[o] = 0 /\ Linked(o)' THEN back + 1 ELSE place[o]]
    /\ sawEmpty' = [t \in Thread |-> inCall'[t] /\ (sawEmpty[t] \/ front' = back')]

HNext == Next /\ Watch

HSpec == HInit /\ [][HNext]_historyVars

Queue == INSTANCE FifoQueue WITH result <- [o \in Op |-> Obtained(o)]

\* Every call is linearizable: an add when its node is linked, by whomever, a
\* poll when the head moves on or takes its descriptor in.
FifoSpec == Queue!Spec

One == [t \in Thread |-> 1]

Symmetry == Permutations(Thread)

=============================================================================
