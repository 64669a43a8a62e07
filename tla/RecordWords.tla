----------------------------- MODULE RecordWords -----------------------------
(***************************************************************************)
(* The words of the free list as records of their fields: head and tail    *)
(* hold a version and an index, next also the bit of the last Record.      *)
(* RecordLayout shows that the masks of the C files compute this.          *)
(***************************************************************************)
EXTENDS Integers

CONSTANTS
    VERSIONS,     \* versions of head and tail, 2^16
    NEXTVERSIONS  \* versions of next, 2^15

\* Mutant: the CAS keeps the version.
Moved_NoVersion(old, i) == [version |-> old.version, idx |-> i]

\* The word a CAS writes over "old": the next version, another index.
Moved(old, i) == [version |-> (old.version + 1) % VERSIONS, idx |-> i]

Linked(old, i) ==
    [version |-> (old.version + 1) % NEXTVERSIONS, last |-> FALSE, idx |-> i]

\* The word with the bit of the last Record.
Marked(old) == [old EXCEPT !.last = TRUE]

=============================================================================
