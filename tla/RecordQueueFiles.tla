--------------------------- MODULE RecordQueueFiles ---------------------------
(***************************************************************************)
(* Which free list is in every C file that has one.  The files are copies  *)
(* of one another; whether the number of queues grows is all that tells    *)
(* them apart, once the widths (RecordLayoutFiles) are.                    *)
(***************************************************************************)

Fixed == FALSE
Grows == TRUE

hazardpointer_fastCopy == Fixed
lockfreePro == Fixed
lockfreelist_now == Fixed
compare_lockfreelist_now == Fixed
mayijin_lockfreelist_now == Fixed
mapLockFreeList_takerefcount == Fixed
hazard_new == Fixed
simple64T2 == Fixed
hazard_long == Fixed
locklong == Fixed
lockfreelist_before == Fixed
simple64T == Fixed
test64 == Fixed
simple64 == Fixed
simpTTT == Fixed
fast_psly_hazard_pointer == Fixed
psly_hazard_pointer == Fixed
psly_hazard_pointer_2 == Fixed
psly_hazard_pointer_32bit == Fixed
psly_hazard_pointer_64bit == Fixed

\* A failed CAS on the head gives way, and a full list gets another queue.
hazard_long2 == Grows
mayijin_hazard_long2 == Grows
mapLockFreeList_concurrentqueues == Grows
test_C_hazard_map == Grows

FreeLists ==
    {Fixed, hazardpointer_fastCopy, lockfreePro, lockfreelist_now,
     compare_lockfreelist_now, mayijin_lockfreelist_now,
     mapLockFreeList_takerefcount, hazard_new, simple64T2, hazard_long,
     locklong, lockfreelist_before, simple64T, test64, simple64, simpTTT,
     fast_psly_hazard_pointer, psly_hazard_pointer, psly_hazard_pointer_2,
     psly_hazard_pointer_32bit, psly_hazard_pointer_64bit, hazard_long2,
     mayijin_hazard_long2, mapLockFreeList_concurrentqueues,
     test_C_hazard_map}

===============================================================================
