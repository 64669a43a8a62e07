------------------------- MODULE ReferenceMapChecks -------------------------
(***************************************************************************)
(* Instances of the reference map for TLC: the files and the calls.        *)
(***************************************************************************)
EXTENDS ReferenceMapRuns, ReferenceMapFiles

CONSTANTS t1, t2, t3  \* threads

\* One reference to every pointer of "ks".
One(ks) == [k \in Key |-> IF k \in ks THEN 1 ELSE 0]

Holding(k1, k2, k3) == (t1 :> One(k1)) @@ (t2 :> One(k2)) @@ (t3 :> One(k3))

Calls(c1, c2, c3) == (t1 :> c1) @@ (t2 :> c2) @@ (t3 :> c3)

\* Any call with one of the first two pointers.
AnyCall == Operation \X {1, 2}

\* Two threads meet at two pointers, of which each holds the other's smaller
\* or greater one, so that Records die, come back and are found again.
TwoPointers ==
    [held |-> Holding({2}, {1}, {}),
     todo |-> Calls(<<AnyCall, AnyCall>>, <<AnyCall, {<<"RECORD", 2>>, <<"REMOVE", 2>>}>>, <<>>)]

\* Two neighbours die while a third thread links a Record before them: it may
\* take the one of them that is back already.
Neighbours ==
    [held |-> Holding({3}, {2}, {}),
     todo |-> Calls(<<{<<"REMOVE", 3>>}>>, <<{<<"REMOVE", 2>>}>>, <<{<<"RECORD", 1>>}>>)]

BothScenarios == {TwoPointers, Neighbours}

=============================================================================
