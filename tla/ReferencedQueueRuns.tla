------------------------ MODULE ReferencedQueueRuns ------------------------
(***************************************************************************)
(* The files, threads, addresses and programs with which ReferencedQueue   *)
(* is run.                                                                 *)
(***************************************************************************)
EXTENDS ReferencedQueue, ReferencedQueueFiles, TLC

CONSTANTS
    t1, t2, t3,         \* threads
    a1, a2, a3, a4      \* addresses

\* What main() sets, from its arguments.
With(f, threshold, slots) == f @@ [THRESHOLD |-> threshold, MAXTHRES |-> slots]

\* A thread keeps one retired node while it goes on; the files that count may
\* have any number of slots, hazardpointer.c has 2 * nThread + 1, and
\* hazardpointerslow.c a list without a bound and the THRESHOLD 1.
AllFiles ==
    {With(f, 2, 2) : f \in {hazardpointer_fast, hazardpointer_fastCopy, hazard_long, hazard_long2,
                            mayijin_hazard_long2, mapLockFreeList_concurrentqueues,
                            test_C_hazard_map, hazardloop}}
        \cup {With(hazardpointer, 2, 5), With(hazardpointerslow, 1, 5)}

FilesThatRetireAtOnce == {With(hazardpointer_fast, 1, 2)}

e == "enqueue"
d == "dequeue"

\* thread_routine for two threads, the second cut off after its first item.
TwoThreads == (t1 :> <<e, e, d, d, d, d>>) @@ (t2 :> <<e, d, d, d, d>>)

\* The same for three threads, two of which go on allocating while the other
\* one dequeues.
ThreeThreads == (t1 :> <<e, e>>) @@ (t2 :> <<e, e, d, d, d, d>>) @@ (t3 :> <<e>>)

Symmetry == Permutations({a2, a3, a4})

=============================================================================
