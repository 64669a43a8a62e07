------------------------- MODULE ReferenceMapFiles --------------------------
(***************************************************************************)
(* The shape of psly_handle_records in every C file that has one.          *)
(*                                                                         *)
(* The files are copies of one another with a changed walk.  Each record   *)
(* here says which walk of ReferenceMapOnce or ReferenceMapLate is in the  *)
(* file, and how it differs; the widths of the words are in RecordLayout.  *)
(* A long function takes two definitions: "..._places" is the part that    *)
(* keeps and tries the places to restart from, "..._act" the part behind   *)
(* the place of the key.                                                   *)
(***************************************************************************)
EXTENDS TLC

-----------------------------------------------------------------------------
(* Settled at the key; a walk that lost its prev begins again at the head  *)

\* SEARCH answers with the first word it reads of its Record.
hazardpointer_fast == [walk |-> "once", restart |-> "head", search |-> "first"]
hazardpointer_fastCopy == [walk |-> "once", restart |-> "head", search |-> "first"]
lockfreePro == [walk |-> "once", restart |-> "head", search |-> "first"]
lockfreelist_now == [walk |-> "once", restart |-> "head", search |-> "first"]
compare_lockfreelist_now == [walk |-> "once", restart |-> "head", search |-> "first"]
mayijin_lockfreelist_now == [walk |-> "once", restart |-> "head", search |-> "first"]
mapLockFreeList_takerefcount == [walk |-> "once", restart |-> "head", search |-> "first"]
hazard_new == [walk |-> "once", restart |-> "head", search |-> "first"]

\* SEARCH reads the word of its Record again before it answers.
simple64T2 == [hazardpointer_fast EXCEPT !.search = "checked"]

-----------------------------------------------------------------------------
(* Settled at the key; a lost walk goes back to a place it remembers       *)

\* prevs_ is the thread's own; every place the walk leaves is written.
hazard_long_places == [restart |-> "remembered", remember |-> "always"]
hazard_long ==
    [walk |-> "once", search |-> "first"] @@ hazard_long_places
hazard_long2_places == [restart |-> "remembered", remember |-> "always"]
hazard_long2 ==
    [walk |-> "once", search |-> "first"] @@ hazard_long2_places
mayijin_hazard_long2_places == [restart |-> "remembered", remember |-> "always"]
mayijin_hazard_long2 ==
    [walk |-> "once", search |-> "first"] @@ mayijin_hazard_long2_places
mapLockFreeList_concurrentqueues_places == [restart |-> "remembered", remember |-> "always"]
mapLockFreeList_concurrentqueues ==
    [walk |-> "once", search |-> "first"] @@ mapLockFreeList_concurrentqueues_places
test_C_hazard_map_places == [restart |-> "remembered", remember |-> "always"]
test_C_hazard_map ==
    [walk |-> "once", search |-> "first"] @@ test_C_hazard_map_places

\* prevs_ is the call's own; a place is written only when its Record is another.
locklong_places == [restart |-> "remembered", remember |-> "changed"]
locklong ==
    [walk |-> "once", search |-> "first"] @@ locklong_places

-----------------------------------------------------------------------------
(* Settled behind the key; the Record found is looked at again             *)

\* A failed CAS goes on with the word it returned.
lockfreelist_before_act == [retry |-> "returned"]
lockfreelist_before ==
    [walk |-> "late", restart |-> "head", found |-> "rechecked"] @@ lockfreelist_before_act
simple64T_act == [retry |-> "returned"]
simple64T ==
    [walk |-> "late", restart |-> "head", found |-> "rechecked"] @@ simple64T_act

-----------------------------------------------------------------------------
(* Settled behind the key; the Record found is not looked at on the way    *)

\* A failed CAS is followed by another read.
test64_act == [retry |-> "read"]
test64 ==
    [walk |-> "late", restart |-> "head", found |-> "once"] @@ test64_act
simple64_act == [retry |-> "read"]
simple64 ==
    [walk |-> "late", restart |-> "head", found |-> "once"] @@ simple64_act
simpTTT_act == [retry |-> "read"]
simpTTT ==
    [walk |-> "late", restart |-> "head", found |-> "once"] @@ simpTTT_act
fast_psly_hazard_pointer_act == [retry |-> "read"]
fast_psly_hazard_pointer ==
    [walk |-> "late", restart |-> "head", found |-> "once"] @@ fast_psly_hazard_pointer_act
psly_hazard_pointer_act == [retry |-> "read"]
psly_hazard_pointer ==
    [walk |-> "late", restart |-> "head", found |-> "once"] @@ psly_hazard_pointer_act
psly_hazard_pointer_2_act == [retry |-> "read"]
psly_hazard_pointer_2 ==
    [walk |-> "late", restart |-> "head", found |-> "once"] @@ psly_hazard_pointer_2_act
psly_hazard_pointer_32bit_act == [retry |-> "read"]
psly_hazard_pointer_32bit ==
    [walk |-> "late", restart |-> "head", found |-> "once"] @@ psly_hazard_pointer_32bit_act
psly_hazard_pointer_64bit_act == [retry |-> "read"]
psly_hazard_pointer_64bit ==
    [walk |-> "late", restart |-> "head", found |-> "once"] @@ psly_hazard_pointer_64bit_act

-----------------------------------------------------------------------------

\* The files that act at the key or look at the found Record again.
CheckedFiles ==
    {hazardpointer_fast, hazardpointer_fastCopy, lockfreePro, lockfreelist_now,
     compare_lockfreelist_now, mayijin_lockfreelist_now,
     mapLockFreeList_takerefcount, hazard_new, simple64T2, hazard_long,
     hazard_long2, mayijin_hazard_long2, mapLockFreeList_concurrentqueues,
     test_C_hazard_map, locklong, lockfreelist_before, simple64T}

\* The files that go on from a found Record without looking at it.
UncheckedFiles ==
    {test64, simple64, simpTTT, fast_psly_hazard_pointer, psly_hazard_pointer,
     psly_hazard_pointer_2, psly_hazard_pointer_32bit,
     psly_hazard_pointer_64bit}

=============================================================================
