--------------------------- MODULE WaitFreeBound ---------------------------
(***************************************************************************)
(* WaitFreeCounter with history variables that measure how long a call of  *)
(* getAndIncrement can be delayed by calls of the fast path, and how long  *)
(* the loop of help() can be spoilt.                                       *)
(*                                                                         *)
(* Calls that end on the slow path help nobody, so they are not bounded:   *)
(* with four threads and four fast attempts three of them can take turns   *)
(* on the slow path for ever, past the one that waits.                     *)
(***************************************************************************)
EXTENDS WaitFreeCounter

VARIABLES
    overtaken,  \* overtaken[t][s]: calls of s decided on the fast path since t
                \* announced its undecided call
    rounds,     \* rounds of the loop of help() in the present call of help()
    passed      \* calls of all threads decided since that loop began

boundVars == <<vars, overtaken, rounds, passed>>

Decided(o) == ticketOf[o] # NoTicket

\* Thread t has announced its call and nobody has anchored a value to it.
Waiting(t) == threadObjs[t] # 0 /\ ~Decided(Current(t))

\* Thread t is inside helpTransfer.
Xfering(t) == pc[t] \in {"xferTest", "xferCas", "valTest", "valCas"}

\* Thread t is in the loop of help().
InLoop(t) ==
    \/ pc[t] \in {"helpRead", "helpTest", "helpCas"}
    \/ (Xfering(t) /\ back[t] = "help")

BInit ==
    /\ Init
    /\ overtaken = [t \in Thread |-> [s \in Thread |-> 0]]
    /\ rounds = [t \in Thread |-> 0]
    /\ passed = [t \in Thread |-> 0]

\* The step decides the call of s on the fast path.
Wins(s) == pc[s] = "fastCas" /\ result'[Current(s)] # NoTicket

\* The rounds that a loop may make; past them they are not counted on.
Allowed(t) == 2 * passed[t] + 2

Count ==
    /\ overtaken' = [t \in Thread |-> [s \in Thread |->
            IF ~Waiting(t) THEN 0
            ELSE IF s # t /\ Wins(s) THEN overtaken[t][s] + 1 ELSE overtaken[t][s]]]
    /\ rounds' = [t \in Thread |->
            IF ~InLoop(t)' THEN 0
            ELSE IF pc[t] = "helpRead" /\ pc'[t] = "helpTest" /\ rounds[t] <= Allowed(t)
            THEN rounds[t] + 1 ELSE rounds[t]]
    /\ passed' = [t \in Thread |->
            IF ~InLoop(t) \/ ~InLoop(t)' THEN 0
            ELSE IF \E o \in Op : ~Decided(o) /\ Decided(o)' THEN passed[t] + 1 ELSE passed[t]]

BNext == Next /\ Count

BSpec == BInit /\ [][BNext]_boundVars

\* The scheduler runs every thread; a call is not obliged to happen.
BFairSpec == BSpec /\ \A t \in Thread : WF_boundVars(Step(t) /\ Count)

\* A thread that has announced a call is overtaken on the fast path by at most
\* N calls of each other thread: its successes go round the indices, and the one
\* that meets the announcement does not end before the announced call is decided.
OvertakenBound == \A t, s \in Thread : overtaken[t][s] <= N

\* help() goes round its loop at most twice for every call that is decided
\* meanwhile: no round is spoilt by threads that make no progress themselves.
RoundsBound == \A t \in Thread : rounds[t] <= Allowed(t)

=============================================================================
