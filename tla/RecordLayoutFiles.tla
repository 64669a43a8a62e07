-------------------------- MODULE RecordLayoutFiles --------------------------
(***************************************************************************)
(* The widths of the words in every C file that has a reference map.       *)
(*                                                                         *)
(* "..._queue" are the words of the free list and the arrays of Records;   *)
(* the other definition adds the fields of nextRecord, what newNext does   *)
(* to the counter, and the number of lists.                                *)
(***************************************************************************)
EXTENDS Integers, TLC

\* The versions share what the counter and the successor leave of the word.
Halves(bits, ref, queue) ==
    LET version == (bits - ref - queue.arr - queue.idx) \div 2
    IN  queue @@ [bits |-> bits, ref |-> ref, node |-> version, next |-> version]

hazardpointer_fast_queue == [idx |-> 16, arr |-> 4, arrays |-> 16]
hazardpointer_fast ==
    [counter |-> "one", lists |-> 131072] @@ Halves(64, 16, hazardpointer_fast_queue)
hazardpointer_fastCopy_queue == [idx |-> 16, arr |-> 4, arrays |-> 16]
hazardpointer_fastCopy ==
    [counter |-> "one", lists |-> 131072] @@ Halves(64, 16, hazardpointer_fastCopy_queue)
lockfreePro_queue == [idx |-> 16, arr |-> 6, arrays |-> 64]
lockfreePro ==
    [counter |-> "one", lists |-> 65536] @@ Halves(64, 16, lockfreePro_queue)
lockfreelist_now_queue == [idx |-> 16, arr |-> 6, arrays |-> 64]
lockfreelist_now ==
    [counter |-> "one", lists |-> 65536] @@ Halves(64, 16, lockfreelist_now_queue)
compare_lockfreelist_now_queue == [idx |-> 16, arr |-> 6, arrays |-> 64]
compare_lockfreelist_now ==
    [counter |-> "one", lists |-> 65536] @@ Halves(64, 16, compare_lockfreelist_now_queue)
mayijin_lockfreelist_now_queue == [idx |-> 16, arr |-> 6, arrays |-> 64]
mayijin_lockfreelist_now ==
    [counter |-> "one", lists |-> 65536] @@ Halves(64, 16, mayijin_lockfreelist_now_queue)
mapLockFreeList_takerefcount_queue == [idx |-> 16, arr |-> 6, arrays |-> 64]
mapLockFreeList_takerefcount ==
    [counter |-> "one", lists |-> 65536] @@ Halves(64, 16, mapLockFreeList_takerefcount_queue)
simple64T2_queue == [idx |-> 16, arr |-> 4, arrays |-> 16]
simple64T2 ==
    [counter |-> "one", lists |-> 512] @@ Halves(64, 16, simple64T2_queue)
hazard_long_queue == [idx |-> 16, arr |-> 4, arrays |-> 16]
hazard_long ==
    [counter |-> "one", lists |-> 131072] @@ Halves(64, 16, hazard_long_queue)
hazard_long2_queue == [idx |-> 16, arr |-> 4, arrays |-> 16]
hazard_long2 ==
    [counter |-> "one", lists |-> 131072] @@ Halves(64, 16, hazard_long2_queue)
mayijin_hazard_long2_queue == [idx |-> 16, arr |-> 4, arrays |-> 16]
mayijin_hazard_long2 ==
    [counter |-> "one", lists |-> 131072] @@ Halves(64, 16, mayijin_hazard_long2_queue)
mapLockFreeList_concurrentqueues_queue == [idx |-> 16, arr |-> 4, arrays |-> 16]
mapLockFreeList_concurrentqueues ==
    [counter |-> "one", lists |-> 131072] @@ Halves(64, 16, mapLockFreeList_concurrentqueues_queue)
test_C_hazard_map_queue == [idx |-> 16, arr |-> 4, arrays |-> 16]
test_C_hazard_map ==
    [counter |-> "one", lists |-> 131072] @@ Halves(64, 16, test_C_hazard_map_queue)
locklong_queue == [idx |-> 16, arr |-> 6, arrays |-> 64]
locklong ==
    [counter |-> "one", lists |-> 65536] @@ Halves(64, 16, locklong_queue)
lockfreelist_before_queue == [idx |-> 16, arr |-> 4, arrays |-> 16]
lockfreelist_before ==
    [counter |-> "one", lists |-> 1024] @@ Halves(64, 16, lockfreelist_before_queue)
simple64T_queue == [idx |-> 16, arr |-> 4, arrays |-> 16]
simple64T ==
    [counter |-> "one", lists |-> 512] @@ Halves(64, 16, simple64T_queue)
test64_queue == [idx |-> 16, arr |-> 4, arrays |-> 16]
test64 ==
    [counter |-> "added", lists |-> 512] @@ Halves(64, 10, test64_queue)
simple64_queue == [idx |-> 16, arr |-> 4, arrays |-> 16]
simple64 ==
    [counter |-> "added", lists |-> 512] @@ Halves(64, 16, simple64_queue)
simpTTT_queue == [idx |-> 16, arr |-> 4, arrays |-> 16]
simpTTT ==
    [counter |-> "added", lists |-> 512] @@ Halves(64, 16, simpTTT_queue)
fast_psly_hazard_pointer_queue == [idx |-> 10, arr |-> 2, arrays |-> 4]
fast_psly_hazard_pointer_newNext == [counter |-> "added"]
fast_psly_hazard_pointer ==
    [lists |-> 1024] @@ fast_psly_hazard_pointer_newNext @@ Halves(32, 10, fast_psly_hazard_pointer_queue)
psly_hazard_pointer_queue == [idx |-> 11, arr |-> 3, arrays |-> 8]
psly_hazard_pointer_newNext == [counter |-> "added"]
psly_hazard_pointer ==
    [lists |-> 2048] @@ psly_hazard_pointer_newNext @@ Halves(32, 10, psly_hazard_pointer_queue)
psly_hazard_pointer_2_queue == [idx |-> 10, arr |-> 2, arrays |-> 4]
psly_hazard_pointer_2_newNext == [counter |-> "added"]
psly_hazard_pointer_2 ==
    [lists |-> 512] @@ psly_hazard_pointer_2_newNext @@ Halves(32, 10, psly_hazard_pointer_2_queue)
psly_hazard_pointer_32bit_queue == [idx |-> 10, arr |-> 2, arrays |-> 4]
psly_hazard_pointer_32bit ==
    [counter |-> "added", lists |-> 512] @@ Halves(32, 10, psly_hazard_pointer_32bit_queue)
psly_hazard_pointer_64bit_queue == [idx |-> 16, arr |-> 4, arrays |-> 16]
psly_hazard_pointer_64bit ==
    [counter |-> "added", lists |-> 512] @@ Halves(64, 10, psly_hazard_pointer_64bit_queue)

\* Many files agree: the set is small.
FileLayouts ==
    {hazardpointer_fast, hazardpointer_fastCopy, lockfreePro, lockfreelist_now,
     compare_lockfreelist_now, mayijin_lockfreelist_now,
     mapLockFreeList_takerefcount, simple64T2, hazard_long, hazard_long2,
     mayijin_hazard_long2, mapLockFreeList_concurrentqueues, test_C_hazard_map,
     locklong, lockfreelist_before, simple64T, test64, simple64, simpTTT,
     fast_psly_hazard_pointer, psly_hazard_pointer, psly_hazard_pointer_2,
     psly_hazard_pointer_32bit, psly_hazard_pointer_64bit}

=============================================================================
