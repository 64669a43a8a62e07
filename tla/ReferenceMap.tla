---------------------------- MODULE ReferenceMap ----------------------------
(***************************************************************************)
(* The reference map of the C files: psly_record, psly_remove and          *)
(* psly_search on sorted lists of Records that come from one free list.    *)
(*                                                                         *)
(* A Record is live while its word counts references.  The REMOVE that     *)
(* takes the last one leaves the Record in its list, and whoever passes    *)
(* next unlinks it and gives it back at once, while other threads may      *)
(* still stand on it.  What protects them are the two versions of a word:  *)
(* "node" grows with every incarnation of the Record, "next" with every    *)
(* change of its successor.                                                *)
(*                                                                         *)
(* This module holds the words, the lists and the calls.  The walk of      *)
(* psly_handle_records comes in two shapes: ReferenceMapOnce and           *)
(* ReferenceMapLate.  The free list is a set here: RecordQueue shows that  *)
(* get_Record and return_Record are atomic and hand out free Records.      *)
(***************************************************************************)
EXTENDS ReferenceWords, Sequences, FiniteSetsExt

CONSTANTS
    Thread,     \* the threads that call
    Keys,       \* the pointers that are recorded are 1 .. Keys
    Records,    \* the Records of the free list are 1 .. Records
    ListNum,    \* number of lists, a power of two in the code
    MaxPrev,    \* places a thread remembers, MAXPREV
    Files,      \* the builds that run: one for each shape of psly_handle_records
    Scenarios   \* bound: what the threads hold at the start and may call from then on

Key == 1 .. Keys
Record == 1 .. Records
Operation == {"RECORD", "SEARCH", "REMOVE"}

ASSUME MapAssumption ==
    /\ Keys \in Nat \ {0} /\ ListNum \in Nat \ {0}
    /\ Records \in Nat /\ Records >= Keys
    /\ RefMod \in Nat \ {0, 1} /\ NodeMod \in Nat \ {0} /\ NextMod \in Nat \ {0}
    /\ MaxPrev \in Nat \ {0} /\ IsFiniteSet(Thread)
    /\ \A s \in Scenarios :
        /\ s.held \in [Thread -> [Key -> Nat]]
        /\ s.todo \in [Thread -> Seq(SUBSET (Operation \X Key))]

NoRecord == 0

\* initRecordList takes two Records of every list from the free list for good.
Lists == 0 .. ListNum - 1
HeadOf(l) == Records + 1 + 2 * l
TailOf(l) == Records + 2 + 2 * l
Node == 1 .. Records + 2 * ListNum

Word == [ref : 0 .. RefMod - 1, node : 0 .. NodeMod - 1,
         next : 0 .. NextMod - 1, to : Node]

\* The list of a pointer: key & (listNum - 1).
ListOf(k) == k % ListNum

VARIABLES
    build,    \* the file whose psly_handle_records runs
    word,     \* word[n]: the nextRecord of Record n
    pointer,  \* pointer[n]: its pointer, or 0
    free,     \* the Records in the free list
    frame,    \* frame[t]: where thread t is in its call, with its locals
    held,     \* held[t][k]: the references to k thread t has recorded
    todo      \* todo[t]: the calls left to thread t, each one of a set

shared == <<word, pointer, free>>
mapVars == <<build, word, pointer, free, frame, held, todo>>

Blank == [ref |-> 0, node |-> 0, next |-> 0, to |-> 1]

NoPlace == [r |-> NoRecord, node |-> 0]

Idle == [pc |-> "idle", op |-> "none", key |-> 0, answer |-> 0,
         prev |-> NoRecord, prevNext |-> Blank,
         curr |-> NoRecord, currNext |-> Blank, currKey |-> 0,
         my |-> NoRecord, localN |-> Blank, removed |-> FALSE,
         found |-> NoRecord, foundNext |-> Blank,
         local |-> NoRecord, new |-> Blank, changed |-> "NONE",
         steps |-> 0, prevs |-> [i \in 0 .. MaxPrev - 1 |-> NoPlace]]

-----------------------------------------------------------------------------
(* The start, and the calls of the threads                                 *)

\* The references the threads of "h" hold to k.
References(h, k) == Cardinality(UNION {{t} \X (1 .. h[t][k]) : t \in Thread})

\* The first Record of list l above k, when Record k holds pointer k.
FirstAbove(h, l, k) ==
    LET above == {j \in Key : j > k /\ ListOf(j) = l /\ References(h, j) > 0}
    IN  IF above = {} THEN TailOf(l) ELSE Min(above)

\* A head is followed by the first Record of its list.
InitialWord(h, n) ==
    IF n \in Key /\ References(h, n) > 0
    THEN [ref |-> References(h, n), node |-> 1, next |-> 0, to |-> FirstAbove(h, ListOf(n), n)]
    ELSE IF n \in {HeadOf(l) : l \in Lists}
    THEN NewNext(Blank, FirstAbove(h, CHOOSE l \in Lists : n = HeadOf(l), 0))
    ELSE Blank

\* INIT_RESOURCE, then calls that record what the threads hold.
InitMap ==
    /\ build \in Files
    /\ \E s \in Scenarios : held = s.held /\ todo = s.todo
    /\ word = [n \in Node |-> InitialWord(held, n)]
    /\ pointer = [n \in Node |-> IF n \in Key /\ References(held, n) > 0 THEN n ELSE 0]
    /\ free = {r \in Record : pointer[r] = 0}
    /\ frame = [t \in Thread |-> Idle]

\* A thread takes back only references it has recorded.
Invoke(t) ==
    /\ frame[t].pc = "idle"
    /\ todo[t] # <<>>
    /\ \E c \in Head(todo[t]) :
        /\ c[1] = "REMOVE" => held[t][c[2]] > 0
        /\ frame' = [frame EXCEPT ![t].op = c[1], ![t].key = c[2], ![t].pc = "head"]
        /\ held' = IF c[1] = "REMOVE" THEN [held EXCEPT ![t][c[2]] = @ - 1] ELSE held
    /\ todo' = [todo EXCEPT ![t] = Tail(@)]
    /\ UNCHANGED <<build, shared>>

Return(t) ==
    LET f == frame[t]
    IN  /\ f.pc = "return"
        /\ frame' = [frame EXCEPT ![t] = Idle]
        /\ held' = IF f.op = "RECORD" THEN [held EXCEPT ![t][f.key] = @ + 1] ELSE held
        /\ UNCHANGED <<build, shared, todo>>

-----------------------------------------------------------------------------
(* What both walks do                                                      *)

\* Everything but the frame of one thread stays.
Reads == UNCHANGED <<build, shared, held, todo>>

\* The walk looks at Record n next; what it has read of the last one is dead.
LookAt(f, n) == [f EXCEPT !.curr = n, !.currNext = Blank, !.currKey = 0, !.new = Blank,
                          !.changed = "NONE", !.pc = "readCurr"]

\* Mutant: the walk keeps the word it knew.
Follow_OldWord(f, now) == [LookAt(f, now.to) EXCEPT !.found = NoRecord, !.foundNext = Blank]

\* The walk goes on at the successor that "now" names, behind the same Record.
Follow(f, now) == [LookAt(f, now.to) EXCEPT !.prevNext = now, !.found = NoRecord,
                                           !.foundNext = Blank]

\* The call is over but for the Records it still has to give back.
Answer(f, a) == [Idle EXCEPT !.op = f.op, !.key = f.key, !.answer = a, !.my = f.my,
                             !.localN = IF f.my = NoRecord THEN Blank ELSE f.localN,
                             !.pc = "return"]

\* Mutant: one place too many is given up.
Restarted_Twice(f) == IF build.restart = "head" THEN [f EXCEPT !.pc = "head"]
                      ELSE [f EXCEPT !.pc = "back", !.steps = @ - 2]

\* prev is no longer good: the walk restarts at the head, or tries the places
\* it remembers from the last one on.
Restarted(f) == IF build.restart = "head" THEN [f EXCEPT !.pc = "head"]
                ELSE [f EXCEPT !.pc = "back", !.steps = @ - 1]

\* prev is still the same incarnation and live, but is followed by another Record.
Recheck(f, now) == IF Stale(f.prevNext, now) THEN Restarted(f) ELSE Follow(f, now)

\* The walk begins at the head of the list.
FromHead(t) ==
    LET f == frame[t]
        head == HeadOf(ListOf(f.key))
    IN  /\ f.pc = "head"
        /\ frame' = [frame EXCEPT ![t] = [Follow(f, word[head]) EXCEPT !.prev = head]]
        /\ Reads

ReadCurr(t) ==
    LET f == frame[t]
    IN  /\ f.pc = "readCurr"
        /\ frame' = [frame EXCEPT ![t].currNext = word[f.curr], ![t].pc = "readPointer"]
        /\ Reads

ReadPointer(t) ==
    LET f == frame[t]
    IN  /\ f.pc = "readPointer"
        /\ frame' = [frame EXCEPT ![t].currKey = pointer[f.curr], ![t].pc = "readPrev"]
        /\ Reads

\* curr is behind the place of the key.
Behind(f) == f.curr = TailOf(ListOf(f.key)) \/ f.currKey > f.key

\* The incarnation of curr is over: is prev still good?
RecheckPrev(t) ==
    LET f == frame[t]
    IN  /\ f.pc = "recheckPrev"
        /\ frame' = [frame EXCEPT ![t] = Recheck(f, word[f.prev])]
        /\ Reads

\* get_Record: any Record of the free list.
TakeRecord(t, next) ==
    \E r \in free :
        /\ free' = free \ {r}
        /\ frame' = [frame EXCEPT ![t].my = r, ![t].localN = word[r], ![t].pc = next]
        /\ UNCHANGED <<build, word, held, todo>>

=============================================================================
