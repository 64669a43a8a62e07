------------------------- MODULE WaitFreeQueueBound -------------------------
(***************************************************************************)
(* WaitFreeQueueFastPath with a history variable that counts how often an  *)
(* announced call is overtaken: what "wait-free" means for the queue.      *)
(***************************************************************************)
EXTENDS WaitFreeQueueHistory

ASSUME BoundConstants == IsFiniteSet(Thread)

VARIABLE overtaken  \* overtaken[t][s]: calls of s that returned while the
                    \* descriptor of t has been pending

boundVars == <<historyVars, overtaken>>

Pending(t) == role[t] = "self" /\ desc[Current(t)].pending = 1

BInit == HInit /\ overtaken = [t \in Thread |-> [s \in Thread |-> 0]]

Count ==
    overtaken' = [t \in Thread |-> [s \in Thread |->
        IF ~Pending(t) THEN 0
        ELSE IF s # t /\ pc[s] # "idle" /\ pc'[s] = "idle" THEN overtaken[t][s] + 1
        ELSE overtaken[t][s]]]

BNext == HNext /\ Count

BSpec == BInit /\ [][BNext]_boundVars

\* The scheduler runs every thread; a call is not obliged to happen.
BFairSpec == BSpec /\ \A t \in Thread : WF_boundVars(Step(t) /\ Watch /\ Count)

\* How many calls of one thread can pass an announced call: the one in flight,
\* and those it makes until its HelpRecord, which may have noted an older
\* descriptor of the announcing thread, has come round to it and is due again.
MaxPassed == (HELPINGDELAY + 1) * (Cardinality(Thread) + 1)

\* An announced call is not overtaken for ever: each other thread comes round to
\* help it after a fixed number of calls, whatever the others do.
OvertakenBound == \A t, s \in Thread : overtaken[t][s] <= MaxPassed

\* Every call returns, however the other threads interfere.
Completes == \A t \in Thread : inCall[t] ~> ~inCall[t]

\* One call of the thread that is overtaken, and several of the other.
OneFour == <<1, 4>>

=============================================================================
