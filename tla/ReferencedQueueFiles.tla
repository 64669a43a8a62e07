------------------------ MODULE ReferencedQueueFiles ------------------------
(***************************************************************************)
(* How a thread protects the nodes of the queue in every C file that has   *)
(* one.                                                                    *)
(*   protect: hazard pointers or counted references                        *)
(*   held:    the references dequeue gives up, in that order: 0 for the    *)
(*            node at h, 1 for the one behind it                           *)
(*   tail:    whether that is before or after a CAS on Tail,               *)
(*   head:        and the CAS on Head                                      *)
(*   scan:    how scan finds out that nobody refers to a node              *)
(***************************************************************************)

hazardpointer_fast ==
    [protect |-> "counts", held |-> <<0, 1>>, tail |-> "before", head |-> "after",
     scan |-> "searched"]
hazardpointer_fastCopy == hazardpointer_fast
hazard_long == hazardpointer_fast
hazard_long2 == hazardpointer_fast
mayijin_hazard_long2 == hazardpointer_fast
mapLockFreeList_concurrentqueues == hazardpointer_fast
test_C_hazard_map == hazardpointer_fast

\* dequeue gives up its reference to h before it takes the one to next.
hazardloop ==
    [protect |-> "counts", held |-> <<1>>, tail |-> "after", head |-> "before",
     scan |-> "searched"]

\* scan reads the hazard pointers for each node it may free; enqueue clears
\* its own when it starts over.
hazardpointer ==
    [protect |-> "hazards", held |-> <<1, 0>>, tail |-> "after", head |-> "before",
     scan |-> "each", clears |-> TRUE]

\* scan gathers all hazard pointers, then frees.
hazardpointerslow ==
    [protect |-> "hazards", held |-> <<0, 1>>, tail |-> "after", head |-> "after",
     scan |-> "gathered", clears |-> FALSE]

=============================================================================
