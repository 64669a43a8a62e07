-------------------------- MODULE ReferenceMapRuns --------------------------
(***************************************************************************)
(* The walks of all files in one specification, what is checked of them,   *)
(* and the refinement of ReferenceCounts.                                  *)
(*                                                                         *)
(* "list", "count" and "call" are functions of the words and the frames,   *)
(* kept in variables so that they are computed once a step; "seen" and     *)
(* "disturbed" are histories.                                              *)
(***************************************************************************)
EXTENDS ReferenceMapOnce, ReferenceMapLate

CONSTANT Watched  \* bound: the threads whose turning back is watched

ASSUME WatchAssumption == Watched \subseteq Thread

VARIABLES
    list,      \* list[l]: the Records of list l from its head, as the words link them
    count,     \* count[k]: the references that the live Records of k count
    call,      \* call[t]: what a caller of t knows of its call
    seen,      \* seen[t]: the counts of its key since t began to search
    disturbed  \* disturbed[t]: has another thread written since t last turned back?

vars == <<mapVars, list, count, call, seen, disturbed>>

\* The Records of list l, in order; it ends at the tail, which is repeated, or never.
Chain(l) ==
    LET at[i \in 0 .. Records + 1] ==
            IF i = 0 THEN HeadOf(l)
            ELSE IF at[i - 1] = TailOf(l) THEN TailOf(l) ELSE word[at[i - 1]].to
    IN  [i \in 1 .. Records + 1 |-> at[i]]

Chains == [l \in Lists |-> Chain(l)]

Linked(l) == {list[l][i] : i \in DOMAIN list[l]} \ {TailOf(l)}

Live(l) == {r \in Linked(l) : ~Deleted(word[r])}

Counts == [k \in Key |-> Cardinality(UNION {{r} \X (1 .. word[r].ref) :
                                             r \in {n \in Live(ListOf(k)) : pointer[n] = k}})]

\* The call has taken effect: what is left is to unlink or to give back.
Settled(f) == f.removed \/ f.pc \in {"return", "unlink", "giveBack"}

Stage(f) == IF f.pc = "idle" THEN "idle" ELSE IF Settled(f) THEN "done" ELSE "called"

Searches(f) == Stage(f) = "called" /\ f.op = "SEARCH"

CallOf(f) == [op |-> f.op, key |-> f.key, answer |-> f.answer, stage |-> Stage(f)]

\* t finds that prev is no longer what it was, and goes on at the head, at a
\* place it remembers or at the successor prev has now.
TurnsBackAt(t) ==
    LET f == frame[t]
        g == frame'[t]
    IN  /\ g # f /\ f.pc \notin {"idle", "head", "back"}
        /\ \/ g.pc \in {"head", "back"}
           \/ g.pc = "readCurr" /\ g.prev = f.prev /\ g.prevNext # f.prevNext

Watch ==
    /\ list' = IF word' = word THEN list ELSE Chains'
    /\ count' = IF UNCHANGED shared THEN count ELSE Counts'
    /\ call' = [t \in Thread |-> CallOf(frame'[t])]
    /\ seen' = [t \in Thread |->
         IF ~Searches(frame'[t]) THEN {}
         ELSE (IF Searches(frame[t]) THEN seen[t] ELSE {}) \cup {count'[frame'[t].key]}]
    /\ disturbed' = [t \in Thread |->
         IF t \notin Watched \/ frame'[t].pc = "idle" THEN FALSE
         ELSE IF TurnsBackAt(t)
         THEN frame'[t].pc = "readCurr" /\ word'[frame'[t].prev] # frame'[t].prevNext
         ELSE \/ disturbed[t]
              \/ word' # word /\ frame'[t] = frame[t] /\ frame[t].pc # "idle"]

Init ==
    /\ InitMap
    /\ list = Chains /\ count = Counts
    /\ call = [t \in Thread |-> CallOf(frame[t])]
    /\ seen = [t \in Thread |-> {}]
    /\ disturbed = [t \in Thread |-> FALSE]

Step(t) ==
    \/ Invoke(t)
    \/ build.walk = "once" /\ OnceStep(t)
    \/ build.walk = "late" /\ LateStep(t)
    \/ Return(t)

\* No call is open: the system may stop here and nowhere else.
Finished == (\A t \in Thread : frame[t].pc = "idle") /\ UNCHANGED vars

Next == (\E t \in Thread : Step(t) /\ Watch) \/ Finished

Spec == Init /\ [][Next]_vars

-----------------------------------------------------------------------------
(* Properties                                                              *)

\* Words stay within their widths, and a restarted walk always finds a place
\* it remembers: the steps it goes back never pass the head.
TypeOK ==
    /\ word \in [Node -> Word]
    /\ pointer \in [Node -> Key \cup {0}]
    /\ free \subseteq Record
    /\ \A t \in Thread :
        /\ frame[t].steps \in Nat
        /\ {frame[t].curr, frame[t].my, frame[t].found} \subseteq Node \cup {NoRecord}

\* A walk whose curr is out of its list has a prev that gives it away: it was
\* deleted or is followed by another Record.  This is what the check of prev
\* after the reading of curr->pointer relies on ("1: if the curr->pointer is
\* not Really linked pointer, the prev must has been deleted or attached").
ReallyLinked == \A t \in Thread :
    LET f == frame[t]
        now == word[f.prev]
        l == ListOf(f.key)
    IN  /\ f.pc = "readPrev" /\ f.found = NoRecord
        /\ f.curr \notin Linked(l) \cup {TailOf(l)}
        => Stale(f.prevNext, now) \/ NextChanged(f.prevNext, now)

\* The Records thread t has unlinked and not given back yet.
Unlinked(t) ==
    LET f == frame[t]
        at[i \in 0 .. Records] ==
            IF i = 0 THEN f.local
            ELSE IF at[i - 1] = f.curr THEN f.curr ELSE word[at[i - 1]].to
    IN  IF f.pc \in {"unlink", "unlinkOne", "watchPrev"}
        THEN {at[i] : i \in 0 .. Records} \ {f.curr} ELSE {}

\* Every Record is in one place: free, in one list, or with the one thread
\* that took or unlinked it.  A Record linked twice, given back while it is
\* linked, given back twice or lost breaks it.
Conserved ==
    LET linked == [l \in Lists |-> Linked(l)]
        unlinked == [t \in Thread |-> Unlinked(t)]
    IN  \A r \in Record :
            (IF r \in free THEN 1 ELSE 0)
            + Cardinality({l \in Lists : r \in linked[l]})
            + Cardinality({t \in Thread : r = frame[t].my})
            + Cardinality({t \in Thread : r \in unlinked[t]}) = 1

\* The live Records of a list are sorted, without two for one pointer.
Sorted == \A l \in Lists : \A i, j \in DOMAIN list[l] :
    i < j /\ {list[l][i], list[l][j]} \subseteq Live(l) => pointer[list[l][i]] < pointer[list[l][j]]

\* The Records that go back to the free list have been removed: no list links
\* them any more ("remove records succes!!! return the records to respository").
Removed == \A l \in Lists : Linked(l) \cap free = {}

\* A live Record never leaves its list: what a CAS unlinks has no references.
OnlyDeleted == [][\A l \in Lists : Live(l) \subseteq Linked(l)']_vars

\* A walk turns back only when another thread has written a word since it
\* last did: one that runs alone never goes round, whatever it finds.
TurnsBack == [][\A t \in Watched : TurnsBackAt(t) => disturbed[t]]_vars

\* The calls count: every psly_record, psly_remove and psly_search returns
\* what a counter for its pointer would.
Promise == INSTANCE ReferenceCounts

CountsSpec == Promise!Spec

=============================================================================
