----------------------------- MODULE FifoQueue -----------------------------
(***************************************************************************)
(* What a shared first-in first-out queue promises: every call takes       *)
(* effect at one instant between its invocation and its return.  An add    *)
(* puts its element behind all others, a poll takes the front element, or  *)
(* answers Empty if the queue was empty at some time during the call.      *)
(*                                                                         *)
(* An element is named by the add call that brings it.  Elements keep the  *)
(* number of their place for ever; front counts the elements taken.        *)
(***************************************************************************)
EXTENDS Integers

CONSTANTS
    Thread,   \* the callers
    MaxCalls, \* bound: calls one thread makes in a behaviour
    None,     \* the answer of a call that has not taken effect
    Empty     \* the answer of a poll that took nothing

\* The calls of a behaviour: <<t, k>> is the k-th call of thread t.
Op == UNION {{t} \X (1 .. MaxCalls[t]) : t \in Thread}

\* What the theorems about the queue assume of the constants.
QueueAssumption ==
    /\ MaxCalls \in [Thread -> Nat]
    /\ None # Empty
    /\ None \notin Op /\ Empty \notin Op

VARIABLES
    place,    \* place[o]: the place of the element of call o, or 0
    back,     \* the last place given
    front,    \* the last place taken
    calls,    \* calls[t]: how many calls thread t has begun
    inCall,   \* inCall[t]: thread t is inside a call
    kind,     \* kind[o]: "add" or "poll"
    result,   \* result[o]: the element polled by o, Empty, or None
    sawEmpty  \* sawEmpty[t]: the queue has been empty since the call of t began

vars == <<place, back, front, calls, inCall, kind, result, sawEmpty>>

Current(t) == <<t, calls[t]>>

Init ==
    /\ place = [o \in Op |-> 0]
    /\ back = 0
    /\ front = 0
    /\ calls = [t \in Thread |-> 0]
    /\ inCall = [t \in Thread |-> FALSE]
    /\ kind = [o \in Op |-> "add"]
    /\ result = [o \in Op |-> None]
    /\ sawEmpty = [t \in Thread |-> FALSE]

\* What every step does to sawEmpty.
Watch == sawEmpty' = [t \in Thread |-> inCall'[t] /\ (sawEmpty[t] \/ front' = back')]

Invoke(t, k) ==
    /\ ~inCall[t]
    /\ calls[t] < MaxCalls[t]
    /\ calls' = [calls EXCEPT ![t] = @ + 1]
    /\ inCall' = [inCall EXCEPT ![t] = TRUE]
    /\ kind' = [kind EXCEPT ![<<t, calls[t] + 1>>] = k]
    /\ UNCHANGED <<place, back, front, result>>
    /\ Watch

Add(t) ==
    /\ inCall[t]
    /\ kind[Current(t)] = "add"
    /\ place[Current(t)] = 0
    /\ back' = back + 1
    /\ place' = [place EXCEPT ![Current(t)] = back + 1]
    /\ UNCHANGED <<front, calls, inCall, kind, result>>
    /\ Watch

Poll(t) ==
    /\ inCall[t]
    /\ kind[Current(t)] = "poll"
    /\ result[Current(t)] = None
    /\ \E e \in Op :
          /\ place[e] = front + 1
          /\ result' = [result EXCEPT ![Current(t)] = e]
    /\ front' = front + 1
    /\ UNCHANGED <<place, back, calls, inCall, kind>>
    /\ Watch

PollEmpty(t) ==
    /\ inCall[t]
    /\ kind[Current(t)] = "poll"
    /\ result[Current(t)] = None
    /\ sawEmpty[t]
    /\ result' = [result EXCEPT ![Current(t)] = Empty]
    /\ UNCHANGED <<place, back, front, calls, inCall, kind>>
    /\ Watch

Return(t) ==
    /\ inCall[t]
    /\ IF kind[Current(t)] = "add" THEN place[Current(t)] # 0 ELSE result[Current(t)] # None
    /\ inCall' = [inCall EXCEPT ![t] = FALSE]
    /\ UNCHANGED <<place, back, front, calls, kind, result>>
    /\ Watch

Next ==
    \E t \in Thread :
        \/ \E k \in {"add", "poll"} : Invoke(t, k)
        \/ Add(t) \/ Poll(t) \/ PollEmpty(t) \/ Return(t)

Spec == Init /\ [][Next]_vars

-----------------------------------------------------------------------------

\* No element is polled twice, and none before those in front of it.
TakenInOrder ==
    /\ \A o1, o2 \in Op : result[o1] \in Op /\ result[o1] = result[o2] => o1 = o2
    /\ \A e \in Op : (\E o \in Op : result[o] = e) <=> place[e] \in 1 .. front

-----------------------------------------------------------------------------

TypeInv ==
    /\ place \in [Op -> Nat]
    /\ back \in Nat
    /\ front \in Nat
    /\ calls \in [Thread -> Nat]
    /\ inCall \in [Thread -> BOOLEAN]
    /\ kind \in [Op -> {"add", "poll"}]
    /\ result \in [Op -> Op \cup {None, Empty}]
    /\ \A t \in Thread : inCall[t] => Current(t) \in Op

\* Places are given once, in order, and the front stays behind them.
PlaceInv ==
    /\ front <= back
    /\ \A o \in Op : place[o] <= back
    /\ \A o1, o2 \in Op : place[o1] # 0 /\ place[o1] = place[o2] => o1 = o2
    /\ TakenInOrder

=============================================================================
