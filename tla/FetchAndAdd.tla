---------------------------- MODULE FetchAndAdd ----------------------------
(***************************************************************************)
(* What a shared counter promises: every call takes effect at one instant  *)
(* between its invocation and its return, at which it is handed the        *)
(* current total as its ticket and the total grows by the amount asked.    *)
(* WaitFreeCounter is shown to implement this module.                      *)
(***************************************************************************)
EXTENDS Integers

CONSTANTS
    N,        \* number of threads; a thread is known by its index, 0 .. N-1
    MaxOps,   \* bound: calls one thread makes in a behaviour
    Adds,     \* the amounts a caller may pass as "add"
    NoTicket  \* the ticket of a call that has not taken effect

\* What the theorem about it in WaitFreeCounterProof assumes of the constants.
CounterAssumption ==
    /\ N \in Nat \ {0}
    /\ MaxOps \in Nat
    /\ Adds \subseteq Nat
    /\ NoTicket \notin Nat

Thread == 0 .. N-1

\* The calls of a behaviour: <<t, k>> is the k-th call of thread t.
Op == Thread \X (1 .. MaxOps)

VARIABLES
    total,    \* sum of the amounts of the calls that took effect
    calls,    \* calls[t]: how many calls thread t has begun
    inCall,   \* inCall[t]: thread t is inside a call
    req,      \* req[o]: the amount asked by call o
    ticket    \* ticket[o]: what call o was handed, or NoTicket

vars == <<total, calls, inCall, req, ticket>>

Current(t) == <<t, calls[t]>>

Init ==
    /\ total = 0
    /\ calls = [t \in Thread |-> 0]
    /\ inCall = [t \in Thread |-> FALSE]
    /\ req = [o \in Op |-> 0]
    /\ ticket = [o \in Op |-> NoTicket]

Invoke(t, a) ==
    /\ ~inCall[t]
    /\ calls[t] < MaxOps
    /\ calls' = [calls EXCEPT ![t] = @ + 1]
    /\ inCall' = [inCall EXCEPT ![t] = TRUE]
    /\ req' = [req EXCEPT ![<<t, calls[t] + 1>>] = a]
    /\ UNCHANGED <<total, ticket>>

Take(t) ==
    /\ inCall[t]
    /\ ticket[Current(t)] = NoTicket
    /\ ticket' = [ticket EXCEPT ![Current(t)] = total]
    /\ total' = total + req[Current(t)]
    /\ UNCHANGED <<calls, inCall, req>>

Return(t) ==
    /\ inCall[t]
    /\ ticket[Current(t)] # NoTicket
    /\ inCall' = [inCall EXCEPT ![t] = FALSE]
    /\ UNCHANGED <<total, calls, req, ticket>>

Next == \E t \in Thread : (\E a \in Adds : Invoke(t, a)) \/ Take(t) \/ Return(t)

Spec == Init /\ [][Next]_vars

-----------------------------------------------------------------------------

\* Each counter value is handed out once: the ranges two calls obtained do
\* not overlap (what main() of the counter checks with its "wrong!" message).
TicketsDisjoint ==
    \A o1, o2 \in Op :
        o1 # o2 /\ ticket[o1] # NoTicket /\ ticket[o2] # NoTicket =>
            \/ ticket[o1] + req[o1] <= ticket[o2]
            \/ ticket[o2] + req[o2] <= ticket[o1]

-----------------------------------------------------------------------------

TypeInv ==
    /\ total \in Nat
    /\ calls \in [Thread -> 0 .. MaxOps]
    /\ inCall \in [Thread -> BOOLEAN]
    /\ req \in [Op -> Nat]
    /\ ticket \in [Op -> Nat \cup {NoTicket}]

\* A call that has a ticket has begun, and its range lies below the total; the
\* ranges do not overlap.
TicketInv ==
    /\ \A o \in Op : ticket[o] # NoTicket =>
         ticket[o] + req[o] <= total /\ o[2] <= calls[o[1]]
    /\ \A t \in Thread : inCall[t] => calls[t] # 0
    /\ TicketsDisjoint

=============================================================================
