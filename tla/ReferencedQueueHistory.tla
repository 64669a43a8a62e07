----------------------- MODULE ReferencedQueueHistory -----------------------
(***************************************************************************)
(* ReferencedQueue with the history a linearizable queue has.              *)
(***************************************************************************)
EXTENDS ReferencedQueueRuns

VARIABLES
    place,    \* place[o]: the number of the element of enqueue o, or 0
    taken,    \* how many elements have been dequeued
    sawEmpty  \* sawEmpty[t]: the queue has been empty since the call of t began

historyVars == <<vars, place, taken, sawEmpty>>

back == Cardinality({o \in Op : place[o] # 0})

\* Thread t has just linked the node of its call.
Links(t) == pc[t] = "enqLink" /\ pc'[t] # pc[t] /\ next' # next

inCall == [t \in Thread |-> pc[t] \notin {"idle", "done"} /\ then[t] # "done"]

HInit ==
    /\ Init
    /\ place = [o \in Op |-> 0]
    /\ taken = 0
    /\ sawEmpty = [t \in Thread |-> FALSE]

Watch ==
    /\ place' = [o \in Op |-> IF \E t \in Thread : Links(t) /\ o = Current(t)
                              THEN back + 1 ELSE place[o]]
    /\ taken' = IF head' # head THEN taken + 1 ELSE taken
    /\ sawEmpty' = [t \in Thread |-> inCall'[t] /\ (sawEmpty[t] \/ taken' = back')]

HNext == Next /\ Watch

HSpec == HInit /\ [][HNext]_historyVars

Queue == INSTANCE FifoQueue WITH
    MaxCalls <- [t \in Thread |-> Len(Program[t])],
    front <- taken,
    kind <- [o \in Op |-> IF o[2] <= calls[o[1]] /\ Program[o[1]][o[2]] = "dequeue"
                          THEN "poll" ELSE "add"]

\* Every call is linearizable although nodes are freed and their addresses come
\* back: an enqueue when its node is linked, a dequeue when Head moves on.
FifoSpec == Queue!Spec

=============================================================================
