------------------------- MODULE WaitFreeQueueCalls -------------------------
(***************************************************************************)
(* WaitFreeQueue.java as its callers see it: which calls had returned when *)
(* a call began, and what each of them returned.                           *)
(***************************************************************************)
EXTENDS WaitFreeQueue, FiniteSets, SequencesExt

VARIABLES
    before,   \* before[o]: the calls that had returned when call o began
    skipped,  \* <<id, i>>: a helper of the dequeue with this id moved popIndex past cell i
    emptied   \* <<id, i>>: that dequeue was answered "empty" at cell i

callVars == <<vars, before, skipped, emptied>>

Returned == {o \in Op : o[2] < calls[o[1]] \/ (o[2] = calls[o[1]] /\ pc[o[1]] = "idle")}

CInit == Init /\ before = [o \in Op |-> {}] /\ skipped = {} /\ emptied = {}

\* The threads that take the step of label l now.
Doing(l) == {t \in Thread : pc[t] = l /\ pc'[t] # l}

Note ==
    /\ before' = [o \in Op |-> IF calls[o[1]] < o[2] /\ o[2] <= calls'[o[1]] THEN Returned
                                                                          ELSE before[o]]
    /\ skipped' = skipped \cup
           {<<local[t].did, i>> : t \in Doing("seekRaise"), i \in popIndex .. popIndex' - 1}
    /\ emptied' = emptied \cup
           {<<deq[r].id, -deq'[r].idx>> :
                r \in {r \in Thread : Doing("seekDeq") # {} /\ deq'[r].idx # deq[r].idx}}

CNext == Next /\ Note

CSpec == CInit /\ [][CNext]_callVars

\* The scheduler runs every thread; a call is not obliged to happen.
CFairSpec == CSpec /\ \A t \in Thread : WF_callVars(Step(t) /\ Note)

-----------------------------------------------------------------------------

\* The calls of the threads 1 and 2: one of each kind, a second dequeue that
\* finds a request to help, and a second enqueue.
e == "enqueue"
d == "dequeue"
Mixed == {<< <<e, d>>, <<e, d>> >>, << <<e, d>>, <<d>> >>, << <<e, e, d>>, <<d>> >>}

-----------------------------------------------------------------------------

Made == {o \in Op : o[2] <= Len(program[o[1]])}
Over == Made \subseteq Returned
Puts(o) == program[o[1]][o[2]] = "enqueue"

Taken(o) == \E x \in Made : ~Puts(x) /\ result[x] = o

\* A dequeue will draw the index of its cell.
Waits(o) == \E i \in popIndex .. Cells - 1 :
                cells[i] # Null /\ cells[i].val = o /\ cells[i].deq = Null

\* The items this queue may lose, and by what: help_deq moved popIndex past cell
\* i for a request, and that was then answered "empty" at an earlier cell.
Lost == {o \in Made : Puts(o) /\ \E i \in 0 .. Cells - 1 :
            /\ cells[i] # Null /\ cells[i].val = o /\ cells[i].deq = Null
            /\ \E s \in skipped, n \in emptied : s[1] = n[1] /\ s[2] = i /\ n[2] < i}

\* What dequeue o returns from a queue on which the calls in p have acted.
Answer(p, o) ==
    LET in == SelectSeq(p, LAMBDA x : Puts(x) /\ x \notin Lost)
        out == Len(SelectSeq(p, LAMBDA x : ~Puts(x) /\ result[x] # Null))
    IN  IF out < Len(in) THEN in[out + 1] ELSE Null

\* The first k calls of the orders in which a queue answers as this one did.
Orders[k \in 0 .. Cardinality(Op)] ==
    IF k = 0 THEN {<<>>}
    ELSE UNION {{Append(p, o) : o \in {o \in Made \ ToSet(p) :
                     before[o] \subseteq ToSet(p) /\ (Puts(o) \/ result[o] = Answer(p, o))}}
                    : p \in Orders[k - 1]}

\* When all calls have returned, there is an order of them, in which a call that
\* had returned stands before one that began later, that a sequential queue
\* answers in the same way: what is taken is taken once, in the order of the
\* enqueues, and "empty" is an answer only when nothing was there.  Of the
\* items in Lost the sequential queue knows nothing; every other item was given
\* out, or is still in reach of a dequeue, and not both.
Linearizable ==
    Over => /\ \A o \in Made \ Lost : Puts(o) => (Taken(o) <=> ~Waits(o))
            /\ Orders[Cardinality(Made)] # {}

\* A call returns, whatever the others do: the requests are answered within a
\* bounded number of cells.
Completes == \A t \in Thread : pc[t] # "idle" ~> pc[t] = "idle"

=============================================================================
