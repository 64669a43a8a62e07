--------------------------- MODULE ReferenceWords ---------------------------
(***************************************************************************)
(* The nextRecord word of a Record as a record of its fields: the counter, *)
(* the two versions and the successor.  RecordLayout shows that the masks  *)
(* of the C files compute this on the bits of the word.                    *)
(***************************************************************************)
EXTENDS Integers

CONSTANTS RefMod, NodeMod, NextMod  \* values of the counter and of the versions

\* Mutant: another successor in the same version.
NxtAddrV_SameVersion(old, r) == [old EXCEPT !.to = r]

\* nxtAddrV: another successor, in the next version.
NxtAddrV(old, r) == [old EXCEPT !.next = (@ + 1) % NextMod, !.to = r]

PlusRecord(old) == [old EXCEPT !.ref = (@ + 1) % RefMod]

MinusRecord(old) == [old EXCEPT !.ref = (@ - 1) % RefMod]

\* Mutant: a Record comes back in the same version.
NewNext_SameVersion(old, r) == [old EXCEPT !.ref = 1, !.to = r]

\* newNext: the first word of the next incarnation.
NewNext(old, r) == [old EXCEPT !.ref = 1, !.node = (@ + 1) % NodeMod, !.to = r]

\* newNext of the older files: it adds to the counter it finds.
CountedNext(old, r) == PlusRecord([NewNext(old, r) EXCEPT !.ref = old.ref])

Deleted(w) == w.ref = 0

\* Mutant: a deleted Record is as good as a live one.
Stale_Deleted(kept, now) == kept.node # now.node

\* The Record of "kept" is another incarnation by now, or deleted.
Stale(kept, now) == kept.node # now.node \/ Deleted(now)

\* (kept & NEXTTT) != (now & NEXTTT)
NextChanged(kept, now) == kept.next # now.next \/ kept.to # now.to

=============================================================================
