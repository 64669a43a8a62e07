---------------------------- MODULE RecordLayout ----------------------------
(***************************************************************************)
(* The words of the C files bit by bit: the masks, computed as the files   *)
(* compute them, and the helpers that change one field of a word, with the *)
(* carry that an addition sends into the fields above.                     *)
(*                                                                         *)
(* A word is the set of the positions of its one bits.  The state is one   *)
(* word that threads change and the copy that one of them keeps meanwhile. *)
(***************************************************************************)
EXTENDS Integers, FiniteSetsExt

CONSTANTS
    Layouts,   \* the widths of every file
    MaxSteps   \* bound: changes of the word behind the copy

VARIABLES
    layout,  \* the widths of the file that runs
    kind,    \* the word is a "nextRecord", the "next" of a queue, or one of its ends
    word,    \* its one bits
    kept,    \* the bits a thread has read
    changes, \* changes of the word since then
    moves    \* those that must not be missed: the word has another successor by now

vars == <<layout, kind, word, kept, changes, moves>>

-----------------------------------------------------------------------------
(* Bits                                                                    *)

\* (1 << n) - 1
Ones(n) == 0 .. n - 1

ShiftLeft(w, n) == {b + n : b \in w}
ShiftRight(w, n) == {b - n : b \in {c \in w : c >= n}}

Xor(v, w) == SymDiff(v, w)

\* w + (1 << bit) in "width" bits: the carry clears the ones from "bit" on.
Plus(w, bit, width) ==
    LET stop == Min({width} \cup {b \in bit .. width - 1 : b \notin w})
    IN  ((w \ (bit .. stop - 1)) \cup {stop}) \cap Ones(width)

\* w - (1 << bit): the borrow sets the zeros from "bit" on.
Minus(w, bit, width) ==
    LET stop == Min({width} \cup {b \in w : b >= bit})
    IN  (w \cup (bit .. stop - 1)) \ {stop}

\* 1 << n, as a number
TwoTo[n \in Nat] == IF n = 0 THEN 1 ELSE 2 * TwoTo[n - 1]

\* The number in the n bits of a word from "top" down; lead[i] is that of the first i.
Leading(w, top, n) ==
    LET lead[i \in 0 .. n] ==
            IF i = 0 THEN 0 ELSE 2 * lead[i - 1] + (IF top + 1 - i \in w THEN 1 ELSE 0)
    IN  lead[n]

\* The number a field of the word holds.
Value(w, field) == Leading(w, Max(field), Cardinality(field))

-----------------------------------------------------------------------------
(* Masks                                                                   *)

\* The lowest one of a mask: ((mask - 1) & mask) ^ mask.
LowestOne(mask, width) == Xor(Minus(mask, 0, width) \cap mask, mask)

\* REFCBITS, NODEBITS, NEXTBITS, ARRIDXBIT_ and their lowest ones.
ReferenceMasks(l) ==
    LET body == Ones(l.bits - l.ref)
        node == Xor(body, ShiftRight(body, l.node))
        nodeOne == LowestOne(node, l.bits)
        below == Minus(nodeOne, 0, l.bits)
        next == Xor(below, ShiftRight(below, l.next))
        arrIdx == Ones(l.idx) \cup ShiftLeft(Ones(l.arr), l.idx)
    IN  [ref |-> Ones(l.bits) \ body, refOne |-> {l.bits - l.ref},
         node |-> node, nodeOne |-> nodeOne,
         next |-> next, nextOne |-> LowestOne(next, l.bits),
         to |-> arrIdx, nextTo |-> next \cup arrIdx]

\* The words of the free list are ints.
INTBITS == 32

\* NEXTIDXBIT, NEXTTAILBIT, NEXTVERSIONBIT, TAILVERSIONBIT and HEADVERSIONBIT.
QueueMasks(l) ==
    LET idx == Ones(l.idx)
        last == ShiftLeft(Ones(1), l.idx)
    IN  [idx |-> idx, last |-> last,
         nextVersion |-> Xor(Ones(INTBITS), last \cup idx),
         nextVersionOne |-> Plus(last \cup idx, 0, INTBITS),
         endVersion |-> Xor(Ones(INTBITS), idx),
         endVersionOne |-> Plus(idx, 0, INTBITS)]

Masks == [l \in Layouts |-> [reference |-> ReferenceMasks(l), queue |-> QueueMasks(l)]]

M == Masks[layout].reference
Q == Masks[layout].queue

\* One addend, as the helpers name it.
Add(w, one) == Plus(w, Min(one), IF kind = "nextRecord" THEN layout.bits ELSE INTBITS)
Sub(w, one) == Minus(w, Min(one), layout.bits)

\* The fields use up the word, and the Records are enough for the head and the
\* tail of every list.
LayoutFits(l) ==
    /\ {l.ref, l.node, l.next, l.idx} \subseteq Nat \ {0} /\ l.arr \in Nat
    /\ l.bits = l.ref + l.node + l.next + l.arr + l.idx
    /\ l.idx + 1 < INTBITS
    /\ 2 * l.lists <= l.arrays * (TwoTo[l.idx] - 1)

ASSUME LayoutAssumption == MaxSteps \in Nat /\ \A l \in Layouts : LayoutFits(l)

-----------------------------------------------------------------------------
(* Helpers                                                                 *)

\* Mutant: the carry of the version is not masked.
nxtAddrV_NoMask(old, self) ==
    (old \cap M.ref) \cup (old \cap M.node) \cup (Add(old, M.nextOne) \ M.to) \cup (self \cap M.to)

nxtAddrV(old, self) ==
    (old \cap M.ref) \cup (old \cap M.node) \cup (Add(old, M.nextOne) \cap M.next)
        \cup (self \cap M.to)

plusRecord(old) ==
    (Add(old, M.refOne) \cap M.ref) \cup (old \cap M.node) \cup (old \cap M.next)
        \cup (old \cap M.to)

\* REMOVE: a subtraction, without a mask.
minusRecord(old) == Sub(old, M.refOne)

\* Mutant: one is added below the version.
newNext_Below(old, self) ==
    M.refOne \cup (Add(old, M.nextOne) \cap M.node) \cup (old \cap M.next) \cup (self \cap M.to)

newNext(old, self) ==
    (IF layout.counter = "one" THEN M.refOne ELSE Add(old, M.refOne) \cap M.ref)
        \cup (Add(old, M.nodeOne) \cap M.node) \cup (old \cap M.next) \cup (self \cap M.to)

\* What a CAS of get_Record and return_Record writes over the head or the tail.
moved(old, nextIndex) ==
    (Add(old \cap Q.endVersion, Q.endVersionOne) \cap Q.endVersion) \cup (nextIndex \cap Q.idx)

\* Mutant: the bit of the last Record counts as a version.
linked_LastCounts(old, self) ==
    (Add(old, Q.last) \ Q.idx) \cup (self \cap Q.idx)

\* What the CAS of return_Record writes over the next of the last Record.
linked(old, self) ==
    (Add(old \cap Q.nextVersion, Q.nextVersionOne) \cap Q.nextVersion) \cup (self \cap Q.idx)

\* local |= NEXTTAILBIT
marked(old) == old \cup Q.last

-----------------------------------------------------------------------------

\* A field at a boundary: nothing, the lowest one, all but it, all.
Edges(field) == {{}, {Min(field)}, field \ {Min(field)}, field}

\* self of the Record that becomes the successor, or a next word of the free list.
Selves == {{}, M.to, {Min(M.to)}}
Nexts == {{}, Ones(INTBITS), Q.nextVersion \cup {0}}

\* Any count and any versions: the words of Records that have come and gone often.
Words ==
    IF kind = "nextRecord"
    THEN {r \cup n \cup x \cup s : r \in Edges(M.ref), n \in Edges(M.node),
                                   x \in Edges(M.next), s \in Selves}
    ELSE IF kind = "next"
    THEN {v \cup e \cup i : v \in Edges(Q.nextVersion), e \in SUBSET Q.last, i \in Edges(Q.idx)}
    ELSE {v \cup i : v \in Edges(Q.endVersion), i \in Edges(Q.idx)}

Init ==
    /\ layout \in Layouts
    /\ kind \in {"nextRecord", "next", "end"}
    /\ word \in Words /\ kept = word
    /\ changes = 0 /\ moves = 0

Changes(w) == word' = w /\ changes' = changes + 1 /\ UNCHANGED <<layout, kind, kept>>

\* A reference comes or goes.
Count ==
    /\ kind = "nextRecord"
    /\ Changes(plusRecord(word)) \/ Changes(minusRecord(word))
    /\ UNCHANGED moves

\* Another successor, or another incarnation.
Link ==
    /\ kind = "nextRecord"
    /\ \E s \in Selves : Changes(nxtAddrV(word, s)) \/ Changes(newNext(word, s))
    /\ moves' = moves + 1

Mark ==
    /\ kind = "next"
    /\ Changes(marked(word))
    /\ UNCHANGED moves

LinkLast ==
    /\ kind = "next"
    /\ \E s \in Selves : Changes(linked(word, s))
    /\ moves' = moves + 1

MoveEnd ==
    /\ kind = "end"
    /\ \E n \in Nexts : Changes(moved(word, n))
    /\ moves' = moves + 1

Next == changes < MaxSteps /\ (Count \/ Link \/ Mark \/ LinkLast \/ MoveEnd)

Spec == Init /\ [][Next]_vars

-----------------------------------------------------------------------------
(* Properties                                                              *)

Reference == INSTANCE ReferenceWords
    WITH RefMod <- TwoTo[layout.ref], NodeMod <- TwoTo[layout.node], NextMod <- TwoTo[layout.next]

Queue == INSTANCE RecordWords
    WITH VERSIONS <- TwoTo[INTBITS - layout.idx], NEXTVERSIONS <- TwoTo[INTBITS - 1 - layout.idx]

Fields(w) == [ref |-> Value(w, M.ref), node |-> Value(w, M.node),
              next |-> Value(w, M.next), to |-> w \cap M.to]

EndFields(w) == [version |-> Value(w, Q.endVersion), idx |-> w \cap Q.idx]

NextFields(w) == [version |-> Value(w, Q.nextVersion), last |-> Q.last \subseteq w,
                  idx |-> w \cap Q.idx]

\* The helpers of the reference map change on the bits what ReferenceMap changes
\* in the fields, and the masked comparisons of psly_handle_records compare what
\* its conditions compare: no carry reaches another field, however full one is.
ReferenceFields == kind = "nextRecord" =>
    LET f == Fields(word)
        k == Fields(kept)
    IN  /\ \A s \in Selves :
            /\ Fields(nxtAddrV(word, s)) = Reference!NxtAddrV(f, s)
            /\ Fields(newNext(word, s)) = IF layout.counter = "one" THEN Reference!NewNext(f, s)
                                          ELSE Reference!CountedNext(f, s)
        /\ Fields(plusRecord(word)) = Reference!PlusRecord(f)
        /\ Fields(minusRecord(word)) = Reference!MinusRecord(f)
        /\ (word \cap M.ref = {}) <=> Reference!Deleted(f)
        /\ (kept \cap M.node # word \cap M.node \/ word \cap M.ref = {}) <=> Reference!Stale(k, f)
        /\ (kept \cap M.nextTo # word \cap M.nextTo) <=> Reference!NextChanged(k, f)

\* The same for the words of the free list and RecordQueue.
QueueFields ==
    /\ kind = "end" => \A n \in Nexts :
        EndFields(moved(word, n)) = Queue!Moved(EndFields(word), n \cap Q.idx)
    /\ kind = "next" =>
        /\ \A s \in Selves :
            NextFields(linked(word, s)) = Queue!Linked(NextFields(word), s \cap Q.idx)
        /\ NextFields(marked(word)) = Queue!Marked(NextFields(word))

\* A CAS that finds the bits it has read finds an untouched word: whatever the
\* counter, the versions and the successors went through, the bits have changed.
Fresh == moves > 0 => word # kept

=============================================================================
