------------------------- MODULE ReferenceMapProof -------------------------
(***************************************************************************)
(* The reference map, in the files that settle a call when they meet its   *)
(* key (ReferenceMapOnce), for every number of threads, pointers, Records, *)
(* lists and calls: lists stay sorted, a Record is in one place, a live    *)
(* one is never unlinked, and the calls count.                             *)
(*                                                                         *)
(* Versions and counters are taken not to wrap (Unwrapped).                *)
(*                                                                         *)
(* The invariant speaks of the map m: its words and pointers together with *)
(* where every Record is (at), with which thread (by), and the number of   *)
(* its last incarnation that has been linked (age).                        *)
(***************************************************************************)
EXTENDS ReferenceMapRuns, TLAPS, FiniteSetTheorems, WellFoundedInduction

\* No field of a word comes to its end with the next change.
Unwrapped == \A n \in Node :
    word[n].ref + 1 < RefMod /\ word[n].node + 1 < NodeMod /\ word[n].next + 1 < NextMod

-----------------------------------------------------------------------------
(* The lists.                                                              *)

Heads == {HeadOf(l) : l \in Lists}

\* Where node n stands in its list.
Rank(m, n) == IF n \in Record THEN m.pointer[n] ELSE IF n \in Heads THEN 0 ELSE Keys + 1

Members(m, l) ==
    {HeadOf(l), TailOf(l)} \cup {r \in Record : m.at[r] = "linked" /\ ListOf(m.pointer[r]) = l}

Dead(m, n) == m.word[n].ref = 0

\* Node b comes after node a in the set S, and nothing between them.
Follows(m, S, a, b) ==
    /\ b \in S /\ Rank(m, a) < Rank(m, b)
    /\ \A n \in S : Rank(m, n) <= Rank(m, a) \/ Rank(m, b) <= Rank(m, n)

Distinct(m, S) == \A a, b \in S : Rank(m, a) = Rank(m, b) => a = b

ListInv(m, l) ==
    /\ Distinct(m, Members(m, l))
    /\ \A n \in Members(m, l) \ {TailOf(l)} : Follows(m, Members(m, l), n, m.word[n].to)
    /\ m.word[HeadOf(l)].node = 1 % NodeMod /\ ~Dead(m, HeadOf(l))

\* A Record is in one place; what is not linked is dead, or the word of an
\* incarnation that nobody has met.
PlaceInv(m, r) ==
    /\ m.at[r] # "mine" => m.word[r].node = m.age[r]
    /\ m.at[r] \in {"free", "gone"} => Dead(m, r)
    /\ m.at[r] = "mine" => Dead(m, r) \/ m.word[r].node = m.age[r] + 1
    /\ m.at[r] = "linked" => m.pointer[r] \in Key
    /\ m.at[r] \in {"mine", "gone"} => m.by[r] \in Thread

MapType(m) ==
    /\ m.word \in [Node -> Word]
    /\ m.pointer \in [Node -> Key \cup {0}]
    /\ m.at \in [Record -> {"free", "linked", "mine", "gone"}]
    /\ m.by = [r \in Record |-> m.by[r]]
    /\ m.age \in [Record -> Nat]
    /\ m.free = {r \in Record : m.at[r] = "free"}

MapInv(m) ==
    /\ MapType(m)
    /\ \A r \in Record : PlaceInv(m, r)
    /\ \A l \in Lists : ListInv(m, l)

-----------------------------------------------------------------------------
(* The frames.                                                             *)

Walking == {"readCurr", "readPointer", "readPrev", "checkCurr", "recheckPrev",
            "sub", "plus", "get", "setWord", "cas"}
PcLabels == Walking \cup {"idle", "head", "back", "giveBack", "unlink", "return"}

Place == [r : Node \cup {NoRecord}, node : Nat]

Frame == [pc : PcLabels, op : Operation \cup {"none"}, key : Key \cup {0}, answer : Int,
          prev : Node \cup {NoRecord}, prevNext : Word,
          curr : Node \cup {NoRecord}, currNext : Word, currKey : Key \cup {0},
          my : Record \cup {NoRecord}, localN : Word, removed : BOOLEAN,
          found : Node \cup {NoRecord}, foundNext : Word,
          local : Node \cup {NoRecord}, new : Word, changed : {"NONE"},
          steps : Nat, prevs : [0 .. MaxPrev - 1 -> Place]]

\* The incarnation v of Record r has, or had, the pointer k.
Was(m, r, v, k) ==
    /\ v <= m.age[r]
    /\ m.at[r] = "linked" /\ m.age[r] = v => m.pointer[r] = k

\* The incarnation v of node r is, or was, before the place of key k.
Before(m, r, v, k) ==
    \/ r = HeadOf(ListOf(k)) /\ v = m.word[r].node
    \/ /\ r \in Record /\ v <= m.age[r]
       /\ m.at[r] = "linked" /\ m.age[r] = v =>
            m.pointer[r] < k /\ ListOf(m.pointer[r]) = ListOf(k)

CallInv(f) ==
    /\ f \in Frame
    /\ f.pc = "idle" => f = Idle
    /\ f.pc # "idle" => f.op \in Operation /\ f.key \in Key
    /\ f.removed => f.op = "REMOVE" /\ f.pc \in Walking \cup {"head", "back"}
    /\ f.pc \in {"plus", "giveBack", "get", "setWord"} => f.op = "RECORD"
    /\ f.pc = "sub" => f.op = "REMOVE" /\ ~f.removed
    /\ f.pc = "cas" => f.op = "RECORD" \/ f.removed

\* The Record a thread has taken and not linked.
MineInv(m, t, f) ==
    /\ f.my # NoRecord =>
         /\ m.at[f.my] = "mine" /\ m.by[f.my] = t /\ m.pointer[f.my] = f.key
         /\ f.op = "RECORD" /\ f.pc \notin {"idle", "get", "unlink", "return"}
         /\ f.localN.ref = 0 /\ f.localN.node = m.age[f.my]
         /\ m.word[f.my].node = m.age[f.my] \/ m.word[f.my].node = m.age[f.my] + 1
    /\ f.pc \in {"setWord", "giveBack"} \/ (f.pc = "cas" /\ f.op = "RECORD") => f.my # NoRecord
    /\ f.pc = "cas" /\ f.op = "RECORD" =>
         m.word[f.my].ref = 1 /\ m.word[f.my].node = m.age[f.my] + 1 /\ m.word[f.my].to = f.curr

Gone(m, t) == {r \in Record : m.at[r] = "gone" /\ m.by[r] = t}

\* The Records a thread has unlinked and not given back are a list that begins
\* at local and ends before curr.
GoneInv(m, t, f) ==
    IF f.pc # "unlink" THEN Gone(m, t) = {}
    ELSE /\ f.local \in Gone(m, t) /\ f.curr \in Node \ Gone(m, t)
         /\ Distinct(m, Gone(m, t))
         /\ \A r \in Gone(m, t) :
              /\ m.pointer[r] \in Key /\ m.pointer[f.local] <= m.pointer[r]
              /\ \/ m.word[r].to = f.curr /\ \A q \in Gone(m, t) : m.pointer[q] <= m.pointer[r]
                 \/ Follows(m, Gone(m, t), r, m.word[r].to)

\* prev is still what it was when its successor was read.
Good(m, f) ==
    /\ f.prev \in Members(m, ListOf(f.key)) /\ f.prev # TailOf(ListOf(f.key))
    /\ m.word[f.prev].node = f.prevNext.node /\ ~Dead(m, f.prev)
    /\ m.word[f.prev].next = f.prevNext.next

\* What a walk knows of prev ...
PrevInv(m, f) == f.pc \in Walking =>
    /\ Before(m, f.prev, f.prevNext.node, f.key) /\ f.prevNext.ref # 0
    /\ f.prev \in Members(m, ListOf(f.key)) /\ m.word[f.prev].node = f.prevNext.node =>
         /\ f.prevNext.next <= m.word[f.prev].next
         /\ f.prevNext.next = m.word[f.prev].next => f.prevNext.to = m.word[f.prev].to

\* Only dead nodes are between a and b.
OnlyDead(m, S, a, b) ==
    \A n \in S : Rank(m, a) < Rank(m, n) /\ Rank(m, n) < Rank(m, b) => Dead(m, n)

\* ... of curr as long as prev is good ...
CurrInv(m, f) ==
    LET L == Members(m, ListOf(f.key))
        real == f.curr # TailOf(ListOf(f.key))
    IN  f.pc \in Walking =>
          /\ f.curr \in Node
          /\ Good(m, f) =>
               /\ f.curr \in L /\ Rank(m, f.prev) < Rank(m, f.curr)
               /\ OnlyDead(m, L, f.prev, f.curr)
               /\ real /\ f.pc \in {"readPointer", "readPrev"} => f.currNext.node = m.word[f.curr].node
               /\ real /\ f.pc = "readPrev" => f.currKey = m.pointer[f.curr]
               /\ f.pc \in {"get", "setWord", "cas"} => f.key < Rank(m, f.curr)

\* ... and of curr once prev was found good.
MetInv(m, f) ==
    /\ f.pc \in {"checkCurr", "recheckPrev", "sub", "plus"} =>
         /\ f.curr \in Record /\ f.currKey \in Key /\ f.currKey <= f.key
         /\ ListOf(f.currKey) = ListOf(f.key)
         /\ Was(m, f.curr, f.currNext.node, f.currKey)
    /\ f.pc \in {"sub", "plus"} =>
         /\ f.currKey = f.key
         /\ f.foundNext.node = f.currNext.node /\ f.foundNext.ref # 0
    /\ f.pc = "sub" => m.at[f.curr] = "linked" /\ m.pointer[f.curr] = f.key

\* The places a thread remembers; the first one is the head.
StepsInv(m, f) ==
    LET filled(i) == f.prevs[i].r # NoRecord
        known(i) == f.prevs[i].r # NoRecord => Before(m, f.prevs[i].r, f.prevs[i].node, f.key)
    IN  /\ \A i \in 0 .. MaxPrev - 1 : known(i)
        /\ filled(0) => f.prevs[0].r = HeadOf(ListOf(f.key))
        /\ m.build.restart # "head" =>
             /\ \A i \in 0 .. MaxPrev - 1 : i < f.steps => filled(i)
             /\ f.pc = "back" => filled(Bucket(f))
             /\ f.steps = 0 /\ f.pc \in Walking => f.prev = HeadOf(ListOf(f.key))
             /\ f.pc = "head" => f.steps = 0
        /\ m.build.restart = "head" => f.pc # "back"

FrameInv(m, t, f) ==
    /\ CallInv(f) /\ MineInv(m, t, f) /\ GoneInv(m, t, f)
    /\ PrevInv(m, f) /\ CurrInv(m, f) /\ MetInv(m, f) /\ StepsInv(m, f)

-----------------------------------------------------------------------------
(* The references.                                                         *)

\* The reference to k that a call is about to take back, or has taken and not
\* handed over yet.
Pending(f, k) ==
    /\ f.key = k
    /\ \/ f.op = "REMOVE" /\ Stage(f) = "called"
       \/ f.op = "RECORD" /\ Stage(f) = "done"

\* The references to k that the threads hold, "h", and those of their calls.
Held(h, F, k) == {x \in Thread \X Nat : IF x[2] = 0 THEN Pending(F[x[1]], k)
                                        ELSE x[2] <= h[x[1]][k]}

\* A Record counts the references to its pointer.
CountInv(m, h, F) ==
    /\ h \in [Thread -> [Key -> Nat]]
    /\ \A k \in Key : IsFiniteSet(Held(h, F, k))
    /\ \A r \in Record : m.at[r] = "linked" =>
         m.word[r].ref = Cardinality(Held(h, F, m.pointer[r]))
    /\ \A k \in Key : Held(h, F, k) # {} =>
         \E r \in Record : m.at[r] = "linked" /\ m.pointer[r] = k

\* A Record with a thread is in the frame of the thread.
OwnInv(m, F) == \A r \in Record : m.at[r] = "mine" => F[m.by[r]].my = r

-----------------------------------------------------------------------------
(* Nodes, words and frames.                                                *)

LEMMA Numbers ==
    /\ Keys \in Nat \ {0} /\ ListNum \in Nat \ {0} /\ Records \in Nat /\ Keys <= Records
    /\ RefMod \in Nat \ {0, 1} /\ NodeMod \in Nat \ {0} /\ NextMod \in Nat \ {0} /\ MaxPrev \in Nat \ {0}
  BY MapAssumption

LEMMA Nodes ==
    /\ Record \subseteq Node /\ NoRecord \notin Node
    /\ \A r \in Record : r \in Nat
    /\ \A k \in Nat : ListOf(k) \in Lists
    /\ \A l \in Lists : HeadOf(l) \in Node \ Record /\ TailOf(l) \in Node \ Record
    /\ \A l, i \in Lists : HeadOf(l) # TailOf(i)
    /\ \A l, i \in Lists : HeadOf(l) = HeadOf(i) \/ TailOf(l) = TailOf(i) => l = i
    /\ \A l \in Lists : HeadOf(l) \in Heads /\ TailOf(l) \notin Heads
    /\ \A r \in Record : r \notin Heads
  <1>1. \A l \in Lists : l \in Nat /\ l <= ListNum - 1
    BY Numbers DEF Lists
  <1>2. /\ Record \subseteq Node /\ NoRecord \notin Node
        /\ \A r \in Record : r \in Nat
    BY Numbers DEF Record, Node, NoRecord
  <1>3. \A k \in Nat : ListOf(k) \in Lists
    BY Numbers DEF ListOf, Lists
  <1>4. \A l \in Lists : HeadOf(l) \in Node \ Record /\ TailOf(l) \in Node \ Record
    BY <1>1, Numbers DEF HeadOf, TailOf, Node, Record
  <1>5. /\ \A l, i \in Lists : HeadOf(l) # TailOf(i)
        /\ \A l, i \in Lists : HeadOf(l) = HeadOf(i) \/ TailOf(l) = TailOf(i) => l = i
    BY <1>1, Numbers DEF HeadOf, TailOf
  <1>6. QED
    BY <1>2, <1>3, <1>4, <1>5 DEF Heads

LEMMA WordFields ==
    ASSUME NEW w \in Word
    PROVE  /\ w.ref \in 0 .. RefMod - 1 /\ w.node \in 0 .. NodeMod - 1
           /\ w.next \in 0 .. NextMod - 1 /\ w.to \in Node
           /\ w.ref \in Nat /\ w.node \in Nat /\ w.next \in Nat
           /\ w = [ref |-> w.ref, node |-> w.node, next |-> w.next, to |-> w.to]
  BY Numbers DEF Word

LEMMA ModSmall == ASSUME NEW i \in Nat, NEW n \in Nat, i < n PROVE i % n = i
  OBVIOUS

LEMMA NextWord ==
    ASSUME NEW w \in Word, NEW r \in Node, w.next + 1 < NextMod
    PROVE  /\ NxtAddrV(w, r) \in Word /\ NxtAddrV(w, r).ref = w.ref /\ NxtAddrV(w, r).node = w.node
           /\ NxtAddrV(w, r).next = w.next + 1 /\ NxtAddrV(w, r).to = r
  <1>1. (w.next + 1) % NextMod = w.next + 1
    BY WordFields, Numbers
  <1>2. w.next + 1 \in 0 .. NextMod - 1
    BY WordFields, Numbers
  <1>3. QED
    BY <1>1, <1>2, WordFields DEF NxtAddrV, Word

LEMMA PlusWord ==
    ASSUME NEW w \in Word, w.ref + 1 < RefMod
    PROVE  /\ PlusRecord(w) \in Word /\ PlusRecord(w).ref = w.ref + 1 /\ PlusRecord(w).node = w.node
           /\ PlusRecord(w).next = w.next /\ PlusRecord(w).to = w.to
  <1>1. (w.ref + 1) % RefMod = w.ref + 1
    BY WordFields, Numbers
  <1>2. w.ref + 1 \in 0 .. RefMod - 1
    BY WordFields, Numbers
  <1>3. QED
    BY <1>1, <1>2, WordFields DEF PlusRecord, Word

LEMMA MinusWord ==
    ASSUME NEW w \in Word, w.ref # 0
    PROVE  /\ MinusRecord(w) \in Word /\ MinusRecord(w).ref = w.ref - 1 /\ MinusRecord(w).node = w.node
           /\ MinusRecord(w).next = w.next /\ MinusRecord(w).to = w.to
  <1>1. (w.ref - 1) % RefMod = w.ref - 1
    BY WordFields, Numbers
  <1>2. w.ref - 1 \in 0 .. RefMod - 1
    BY WordFields, Numbers
  <1>3. QED
    BY <1>1, <1>2, WordFields DEF MinusRecord, Word

LEMMA NewWord ==
    ASSUME NEW w \in Word, NEW r \in Node, w.node + 1 < NodeMod
    PROVE  /\ NewNext(w, r) \in Word /\ NewNext(w, r).ref = 1 /\ NewNext(w, r).node = w.node + 1
           /\ NewNext(w, r).next = w.next /\ NewNext(w, r).to = r
  <1>0. w.node + 1 \in Nat /\ NodeMod \in Nat
    BY WordFields, Numbers
  <1>1. (w.node + 1) % NodeMod = w.node + 1
    BY <1>0, ModSmall
  <1>2. w.node + 1 \in 0 .. NodeMod - 1 /\ 1 \in 0 .. RefMod - 1
    BY WordFields, Numbers
  <1>3. QED
    BY <1>1, <1>2, WordFields DEF NewNext, Word

LEMMA BlankWord == Blank \in Word /\ Idle \in Frame /\ NoPlace \in Place
  <1>1. 1 \in Node
    BY Numbers DEF Node
  <1>2. Blank \in Word
    BY <1>1, Numbers DEF Blank, Word
  <1>3. NoPlace \in Place
    BY DEF NoPlace, Place
  <1>4. QED
    BY <1>2, <1>3 DEF Idle, Frame, PcLabels

\* What each operator leaves of a frame.
LEMMA LookAtIs ==
    ASSUME NEW f \in Frame, NEW n \in Node
    PROVE  /\ LookAt(f, n) \in Frame
           /\ LookAt(f, n).pc = "readCurr" /\ LookAt(f, n).curr = n
           /\ LookAt(f, n).op = f.op /\ LookAt(f, n).key = f.key
           /\ LookAt(f, n).prev = f.prev /\ LookAt(f, n).prevNext = f.prevNext
           /\ LookAt(f, n).my = f.my /\ LookAt(f, n).localN = f.localN
           /\ LookAt(f, n).removed = f.removed
           /\ LookAt(f, n).steps = f.steps /\ LookAt(f, n).prevs = f.prevs
  <1>1. LookAt(f, n) \in Frame
    BY ZenonT(120), BlankWord DEF LookAt, Frame, PcLabels, Walking
  <1>2. QED
    BY <1>1 DEF LookAt, Frame

LEMMA FollowIs ==
    ASSUME NEW f \in Frame, NEW w \in Word
    PROVE  /\ Follow(f, w) \in Frame
           /\ Follow(f, w).pc = "readCurr" /\ Follow(f, w).curr = w.to
           /\ Follow(f, w).op = f.op /\ Follow(f, w).key = f.key
           /\ Follow(f, w).prev = f.prev /\ Follow(f, w).prevNext = w
           /\ Follow(f, w).my = f.my /\ Follow(f, w).localN = f.localN
           /\ Follow(f, w).removed = f.removed
           /\ Follow(f, w).steps = f.steps /\ Follow(f, w).prevs = f.prevs
  <1>1. w.to \in Node
    BY WordFields
  <1> DEFINE g == LookAt(f, w.to)
  <1>2. /\ g \in Frame /\ g.pc = "readCurr" /\ g.curr = w.to /\ g.op = f.op /\ g.key = f.key
        /\ g.prev = f.prev /\ g.my = f.my /\ g.localN = f.localN /\ g.removed = f.removed
        /\ g.steps = f.steps /\ g.prevs = f.prevs
    BY <1>1, LookAtIs
  <1>3. Follow(f, w) = [g EXCEPT !.prevNext = w, !.found = NoRecord, !.foundNext = Blank]
    BY DEF Follow
  <1> HIDE DEF g
  <1>4. Follow(f, w) \in Frame
    BY ZenonT(120), <1>2, <1>3, BlankWord DEF Frame
  <1>5. QED
    BY <1>2, <1>3, <1>4 DEF Frame

LEMMA AnswerIs ==
    ASSUME NEW f \in Frame, NEW a \in Int
    PROVE  /\ Answer(f, a) \in Frame
           /\ Answer(f, a).pc = "return" /\ Answer(f, a).op = f.op /\ Answer(f, a).key = f.key
           /\ Answer(f, a).answer = a /\ Answer(f, a).my = f.my
           /\ f.my # NoRecord => Answer(f, a).localN = f.localN
           /\ Answer(f, a).removed = FALSE /\ Answer(f, a).steps = 0
           /\ Answer(f, a).prevs = [i \in 0 .. MaxPrev - 1 |-> NoPlace]
           /\ Answer(f, a).curr = NoRecord /\ Answer(f, a).local = NoRecord
           /\ Answer(f, a).prev = NoRecord
  <1> DEFINE w == IF f.my = NoRecord THEN Blank ELSE f.localN
  <1>1. w \in Word
    BY BlankWord DEF Frame
  <1>2. Answer(f, a) = [Idle EXCEPT !.op = f.op, !.key = f.key, !.answer = a, !.my = f.my,
                                    !.localN = w, !.pc = "return"]
    BY DEF Answer
  <1> HIDE DEF w
  <1>3. Answer(f, a) \in Frame
    BY ZenonT(120), <1>1, <1>2, BlankWord DEF Frame, PcLabels
  <1>4. /\ Answer(f, a).localN = w
        /\ Answer(f, a).pc = "return" /\ Answer(f, a).op = f.op /\ Answer(f, a).key = f.key
        /\ Answer(f, a).answer = a /\ Answer(f, a).my = f.my
        /\ Answer(f, a).removed = FALSE /\ Answer(f, a).steps = 0
        /\ Answer(f, a).prevs = [i \in 0 .. MaxPrev - 1 |-> NoPlace]
        /\ Answer(f, a).curr = NoRecord /\ Answer(f, a).local = NoRecord
        /\ Answer(f, a).prev = NoRecord
    BY <1>2 DEF Idle
  <1>5. QED
    BY <1>3, <1>4 DEF w

LEMMA Keyed ==
    /\ \A k \in Key : k \in Nat /\ k # 0 /\ k <= Keys /\ ListOf(k) \in Lists
    /\ \A f \in Frame : f.key \in Key => ListOf(f.key) \in Lists
  BY Numbers, Nodes DEF Key

\* The places of nodes in their lists.
LEMMA Ranks ==
    ASSUME NEW m, MapType(m)
    PROVE  /\ \A n \in Node : Rank(m, n) \in Nat /\ Rank(m, n) <= Keys + 1
           /\ \A r \in Record : Rank(m, r) = m.pointer[r] /\ Rank(m, r) <= Keys
           /\ \A l \in Lists : Rank(m, HeadOf(l)) = 0 /\ Rank(m, TailOf(l)) = Keys + 1
           /\ \A l \in Lists : Members(m, l) \subseteq Node
           /\ \A l \in Lists : HeadOf(l) \in Members(m, l) /\ TailOf(l) \in Members(m, l)
  <1>1. \A r \in Record : m.pointer[r] \in Nat /\ m.pointer[r] <= Keys
    BY Nodes, Keyed, Numbers DEF MapType
  <1>2. \A n \in Node : Rank(m, n) \in Nat /\ Rank(m, n) <= Keys + 1
    BY <1>1, Numbers DEF Rank
  <1>3. \A r \in Record : Rank(m, r) = m.pointer[r] /\ Rank(m, r) <= Keys
    BY <1>1 DEF Rank
  <1>4. \A l \in Lists : Rank(m, HeadOf(l)) = 0 /\ Rank(m, TailOf(l)) = Keys + 1
    BY Nodes DEF Rank
  <1>5. QED
    BY <1>2, <1>3, <1>4, Nodes DEF Members

\* A remembered node that is live in the same incarnation is in its list.
LEMMA Remembered ==
    ASSUME NEW m, MapInv(m), NEW k \in Key, NEW r, NEW v \in Nat, Before(m, r, v, k),
           m.word[r].node = v, m.word[r].ref # 0
    PROVE  /\ r \in Members(m, ListOf(k)) /\ r # TailOf(ListOf(k)) /\ r \in Node
           /\ Rank(m, r) < k
  <1>1. MapType(m) /\ k \in Nat /\ k # 0 /\ ListOf(k) \in Lists
    BY Keyed DEF MapInv
  <1>2. CASE r = HeadOf(ListOf(k))
    BY <1>1, <1>2, Ranks, Nodes
  <1>3. CASE r \in Record /\ r # HeadOf(ListOf(k))
    <2>1. /\ v <= m.age[r] /\ m.age[r] \in Nat /\ PlaceInv(m, r)
          /\ m.at[r] = "linked" /\ m.age[r] = v =>
               m.pointer[r] < k /\ ListOf(m.pointer[r]) = ListOf(k)
          /\ m.at[r] \in {"free", "linked", "mine", "gone"}
      BY <1>1, <1>3 DEF Before, MapInv, MapType
    <2>2. m.at[r] = "linked"
      BY <2>1 DEF PlaceInv, Dead
    <2>3. m.age[r] = v
      BY <2>1, <2>2 DEF PlaceInv
    <2>4. QED
      BY <1>1, <1>3, <2>1, <2>2, <2>3, Nodes, Ranks DEF Members
  <1>4. QED
    BY <1>2, <1>3 DEF Before

\* prev is good when its word is what it was.
LEMMA GoodPrev ==
    ASSUME NEW m, MapInv(m), NEW t, NEW f, FrameInv(m, t, f), f.pc \in Walking,
           ~Stale(f.prevNext, m.word[f.prev])
    PROVE  /\ f.prev \in Members(m, ListOf(f.key)) /\ f.prev # TailOf(ListOf(f.key)) /\ f.prev \in Node
           /\ Rank(m, f.prev) < f.key
           /\ m.word[f.prev] \in Word /\ m.word[f.prev].ref # 0
           /\ m.word[f.prev].node = f.prevNext.node
           /\ Before(m, f.prev, m.word[f.prev].node, f.key)
           /\ Good(m, f) <=> m.word[f.prev].next = f.prevNext.next
           /\ Good(m, f) => m.word[f.prev].to = f.prevNext.to
  <1>1. f \in Frame /\ f.key \in Key
    BY DEF FrameInv, CallInv, Walking
  <1>2. f.prevNext \in Word
    BY <1>1 DEF Frame
  <1>3. f.prevNext.node \in Nat
    BY <1>2, WordFields
  <1>4. Before(m, f.prev, f.prevNext.node, f.key)
    BY DEF FrameInv, PrevInv
  <1>5. m.word[f.prev].node = f.prevNext.node /\ m.word[f.prev].ref # 0
    BY DEF Stale, Deleted
  <1>6. /\ f.prev \in Members(m, ListOf(f.key)) /\ f.prev # TailOf(ListOf(f.key)) /\ f.prev \in Node
        /\ Rank(m, f.prev) < f.key
    BY <1>1, <1>3, <1>4, <1>5, Remembered
  <1>7. m.word[f.prev] \in Word
    BY <1>6 DEF MapInv, MapType
  <1>8. Good(m, f) <=> m.word[f.prev].next = f.prevNext.next
    BY <1>5, <1>6 DEF Good, Dead
  <1>9. Good(m, f) => m.word[f.prev].to = f.prevNext.to
    BY <1>5, <1>6, <1>8 DEF FrameInv, PrevInv
  <1>10. QED
    BY <1>4, <1>5, <1>6, <1>7, <1>8, <1>9

\* A frame that is walking, but for what it knows of prev and curr.
OnTheWay(m, t, f) ==
    /\ f \in Frame /\ f.op \in Operation /\ f.key \in Key
    /\ f.removed => f.op = "REMOVE"
    /\ Gone(m, t) = {}
    /\ f.my # NoRecord =>
         /\ m.at[f.my] = "mine" /\ m.by[f.my] = t /\ m.pointer[f.my] = f.key
         /\ f.op = "RECORD"
         /\ f.localN.ref = 0 /\ f.localN.node = m.age[f.my]
         /\ m.word[f.my].node = m.age[f.my] \/ m.word[f.my].node = m.age[f.my] + 1

LEMMA WalkingOnTheWay ==
    ASSUME NEW m, NEW t, NEW f, FrameInv(m, t, f), f.pc \in Walking \cup {"head", "back"}
    PROVE  OnTheWay(m, t, f)
  BY DEF FrameInv, OnTheWay, CallInv, MineInv, GoneInv, Walking, PcLabels

\* The walk goes on behind prev, whose word it has just read.
LEMMA BehindKeeps ==
    ASSUME NEW m, MapInv(m), NEW t, NEW g, OnTheWay(m, t, g), g.pc = "readCurr",
           g.prev \in Node, g.prevNext = m.word[g.prev], g.curr = m.word[g.prev].to,
           m.word[g.prev].ref # 0, Before(m, g.prev, m.word[g.prev].node, g.key),
           StepsInv(m, g)
    PROVE  FrameInv(m, t, g)
  <1> DEFINE w == m.word[g.prev]
             L == Members(m, ListOf(g.key))
  <1>1. g \in Frame /\ w \in Word /\ g.key \in Key /\ ListOf(g.key) \in Lists
    BY Keyed DEF OnTheWay, MapInv, MapType
  <1>3. w.to \in Node /\ w.next \in Nat
    BY <1>1, WordFields
  <1> HIDE DEF w
  <1>4. CallInv(g) /\ MineInv(m, t, g) /\ GoneInv(m, t, g)
    BY DEF OnTheWay, CallInv, MineInv, GoneInv, Walking
  <1>5. PrevInv(m, g)
    BY <1>3 DEF PrevInv, w
  <1>6. ASSUME Good(m, g) PROVE Follows(m, L, g.prev, w.to)
    <2>1. g.prev \in L \ {TailOf(ListOf(g.key))}
      BY <1>6 DEF Good
    <2>2. QED
      BY <1>1, <2>1 DEF MapInv, ListInv, w
  <1>7. MapType(m) /\ L \subseteq Node /\ \A n \in Node : Rank(m, n) \in Nat
    BY <1>1, Ranks DEF MapInv
  <1>8. ASSUME Good(m, g) PROVE w.to \in L /\ Rank(m, g.prev) < Rank(m, w.to) /\ OnlyDead(m, L, g.prev, w.to)
    BY <1>3, <1>6, <1>7, <1>8 DEF Follows, OnlyDead
  <1>9. CurrInv(m, g)
    BY <1>3, <1>8 DEF CurrInv, w
  <1>10. MetInv(m, g)
    BY DEF MetInv
  <1>11. QED
    BY <1>4, <1>5, <1>9, <1>10 DEF FrameInv

\* The walk goes on at the successor that prev has now.
LEMMA FollowKeeps ==
    ASSUME NEW m, MapInv(m), NEW t, NEW f, OnTheWay(m, t, f),
           f.prev \in Node, m.word[f.prev].ref # 0, Before(m, f.prev, m.word[f.prev].node, f.key),
           StepsInv(m, Follow(f, m.word[f.prev]))
    PROVE  FrameInv(m, t, Follow(f, m.word[f.prev]))
  <1> DEFINE w == m.word[f.prev]
             g == Follow(f, w)
  <1>1. f \in Frame /\ w \in Word
    BY DEF OnTheWay, MapInv, MapType
  <1>2. /\ g \in Frame /\ g.pc = "readCurr" /\ g.curr = w.to /\ g.op = f.op /\ g.key = f.key
        /\ g.prev = f.prev /\ g.prevNext = w /\ g.my = f.my /\ g.localN = f.localN
        /\ g.removed = f.removed
    BY <1>1, FollowIs
  <1>3. StepsInv(m, g)
    OBVIOUS
  <1> HIDE DEF g
  <1>4. OnTheWay(m, t, g)
    BY <1>2 DEF OnTheWay
  <1>5. FrameInv(m, t, g)
    BY <1>2, <1>3, <1>4, BehindKeeps
  <1>6. QED
    BY <1>5 DEF g

LEMMA StepsSame ==
    ASSUME NEW m, NEW f, StepsInv(m, f), f.pc \in Walking, NEW g, g.pc \in Walking,
           g.prev = f.prev, g.key = f.key, g.steps = f.steps, g.prevs = f.prevs
    PROVE  StepsInv(m, g)
  BY DEF StepsInv, Walking

\* The walk goes past a dead node.
LEMMA PassKeeps ==
    ASSUME NEW m, MapInv(m), NEW t, NEW g, OnTheWay(m, t, g), g.pc = "readCurr",
           PrevInv(m, g), StepsInv(m, g), NEW c \in Record, g.curr = m.word[c].to,
           Good(m, g) => /\ c \in Members(m, ListOf(g.key)) /\ Rank(m, g.prev) < Rank(m, c)
                         /\ OnlyDead(m, Members(m, ListOf(g.key)), g.prev, c) /\ Dead(m, c)
    PROVE  FrameInv(m, t, g)
  <1> DEFINE w == m.word[c]
             L == Members(m, ListOf(g.key))
  <1>1. g \in Frame /\ w \in Word /\ g.key \in Key /\ ListOf(g.key) \in Lists
    BY Keyed, Nodes DEF OnTheWay, MapInv, MapType
  <1>2. w.to \in Node
    BY <1>1, WordFields
  <1>3. CallInv(g) /\ MineInv(m, t, g) /\ GoneInv(m, t, g) /\ MetInv(m, g)
    BY DEF OnTheWay, CallInv, MineInv, GoneInv, Walking, MetInv
  <1>4. MapType(m) /\ L \subseteq Node /\ \A n \in Node : Rank(m, n) \in Nat
    BY <1>1, Ranks DEF MapInv
  <1>5. ASSUME Good(m, g) PROVE w.to \in L /\ Rank(m, g.prev) < Rank(m, w.to) /\ OnlyDead(m, L, g.prev, w.to)
    <2>1. c # TailOf(ListOf(g.key)) /\ c \in L
      BY <1>1, <1>5, Nodes
    <2>2. Follows(m, L, c, w.to) /\ Distinct(m, L)
      BY <1>1, <2>1 DEF MapInv, ListInv
    <2>3. g.prev \in Node /\ c \in Node
      BY <1>4, <1>5, <2>1 DEF Good
    <2>4. Rank(m, g.prev) < Rank(m, w.to)
      BY <1>2, <1>4, <1>5, <2>2, <2>3 DEF Follows
    <2>5. ASSUME NEW n \in L, Rank(m, g.prev) < Rank(m, n), Rank(m, n) < Rank(m, w.to)
          PROVE  Dead(m, n)
      <3>1. Rank(m, n) <= Rank(m, c)
        BY <1>2, <1>4, <2>2, <2>5 DEF Follows
      <3>2. CASE Rank(m, n) < Rank(m, c)
        BY <1>5, <2>5, <3>2 DEF OnlyDead
      <3>3. CASE Rank(m, n) = Rank(m, c)
        BY <1>5, <2>1, <2>2, <3>3 DEF Distinct
      <3>4. QED
        BY <1>4, <2>3, <3>1, <3>2, <3>3
    <2>6. QED
      BY <2>2, <2>4, <2>5 DEF Follows, OnlyDead
  <1>6. CurrInv(m, g)
    BY <1>2, <1>5 DEF CurrInv
  <1>7. QED
    BY <1>3, <1>6 DEF FrameInv

\* The call has its answer.
LEMMA AnswerKeeps ==
    ASSUME NEW m, MapInv(m), NEW t, NEW f \in Frame, f.op \in Operation, f.key \in Key,
           f.my = NoRecord, Gone(m, t) = {}, NEW a \in Int
    PROVE  FrameInv(m, t, Answer(f, a))
  <1> DEFINE g == Answer(f, a)
  <1>1. /\ g \in Frame /\ g.pc = "return" /\ g.op = f.op /\ g.key = f.key /\ g.my = NoRecord
        /\ g.removed = FALSE /\ g.steps = 0 /\ g.prevs = [i \in 0 .. MaxPrev - 1 |-> NoPlace]
    BY AnswerIs
  <1> HIDE DEF g
  <1>2. CallInv(g) /\ MineInv(m, t, g) /\ GoneInv(m, t, g)
    BY <1>1 DEF CallInv, MineInv, GoneInv, Walking
  <1>3. PrevInv(m, g) /\ CurrInv(m, g) /\ MetInv(m, g)
    BY <1>1 DEF PrevInv, CurrInv, MetInv, Walking
  <1>4. \A i \in 0 .. MaxPrev - 1 : g.prevs[i].r = NoRecord
    BY <1>1 DEF NoPlace
  <1>5. 0 \in 0 .. MaxPrev - 1
    BY Numbers
  <1>6. StepsInv(m, g)
    BY <1>1, <1>4, <1>5 DEF StepsInv, Walking
  <1>7. QED
    BY <1>2, <1>3, <1>6 DEF FrameInv, g

LEMMA HeadIsGood ==
    ASSUME NEW m, MapInv(m), NEW k \in Key, NEW v, Before(m, HeadOf(ListOf(k)), v, k)
    PROVE  m.word[HeadOf(ListOf(k))].node = v /\ m.word[HeadOf(ListOf(k))].ref # 0
  BY Keyed, Nodes DEF Before, MapInv, ListInv, Dead

LEMMA RestartKeeps ==
    ASSUME NEW m, MapInv(m), m.build = build, NEW t, NEW f, FrameInv(m, t, f), f.pc \in Walking,
           Stale(f.prevNext, m.word[f.prev])
    PROVE  FrameInv(m, t, Restarted(f))
  <1>1. f \in Frame /\ f.key \in Key /\ f.steps \in Nat
    BY DEF FrameInv, CallInv, Walking, Frame
  <1>2. OnTheWay(m, t, f)
    BY WalkingOnTheWay
  <1> DEFINE g == Restarted(f)
  <1>3. CASE build.restart = "head"
    <2>1. g = [f EXCEPT !.pc = "head"]
      BY <1>3 DEF Restarted
    <2> HIDE DEF g
    <2>2. g \in Frame
      BY <1>1, <2>1 DEF Frame, PcLabels
    <2>3. /\ g.pc = "head" /\ g.op = f.op /\ g.key = f.key /\ g.my = f.my /\ g.localN = f.localN
          /\ g.removed = f.removed /\ g.steps = f.steps /\ g.prevs = f.prevs
      BY <1>1, <2>1 DEF Frame
    <2>4. CallInv(g) /\ MineInv(m, t, g) /\ GoneInv(m, t, g)
      BY <1>2, <2>2, <2>3 DEF OnTheWay, CallInv, MineInv, GoneInv, Walking
    <2>5. PrevInv(m, g) /\ CurrInv(m, g) /\ MetInv(m, g)
      BY <2>3 DEF PrevInv, CurrInv, MetInv, Walking
    <2>6. StepsInv(m, g)
      BY <1>3, <2>3 DEF FrameInv, StepsInv, Walking
    <2>7. QED
      BY <2>4, <2>5, <2>6 DEF FrameInv, g
  <1>4. CASE build.restart # "head"
    <2>1. g = [f EXCEPT !.pc = "back", !.steps = @ - 1]
      BY <1>4 DEF Restarted
    <2>2. f.steps # 0
      <3>1. SUFFICES ASSUME f.steps = 0 PROVE FALSE
        OBVIOUS
      <3>2. f.prev = HeadOf(ListOf(f.key))
        BY <1>4, <3>1 DEF FrameInv, StepsInv
      <3>3. Before(m, f.prev, f.prevNext.node, f.key)
        BY DEF FrameInv, PrevInv
      <3>4. QED
        BY <1>1, <3>2, <3>3, HeadIsGood DEF Stale, Deleted
    <2> HIDE DEF g
    <2>3. f.steps - 1 \in Nat
      BY <1>1, <2>2
    <2>4. g \in Frame
      BY <1>1, <2>1, <2>3 DEF Frame, PcLabels
    <2>5. /\ g.pc = "back" /\ g.op = f.op /\ g.key = f.key /\ g.my = f.my /\ g.localN = f.localN
          /\ g.removed = f.removed /\ g.steps = f.steps - 1 /\ g.prevs = f.prevs
      BY <1>1, <2>1 DEF Frame
    <2>6. CallInv(g) /\ MineInv(m, t, g) /\ GoneInv(m, t, g)
      BY <1>2, <2>4, <2>5 DEF OnTheWay, CallInv, MineInv, GoneInv, Walking
    <2>7. PrevInv(m, g) /\ CurrInv(m, g) /\ MetInv(m, g)
      BY <2>5 DEF PrevInv, CurrInv, MetInv, Walking
    <2>8. Bucket(g) \in 0 .. MaxPrev - 1 /\ Bucket(g) < f.steps
      BY <1>1, <2>2, <2>3, <2>5, Numbers DEF Bucket
    <2>9. StepsInv(m, g)
      BY <1>1, <1>4, <2>5, <2>8 DEF FrameInv, StepsInv, Walking
    <2>10. QED
      BY <2>6, <2>7, <2>9 DEF FrameInv, g
  <1>5. QED
    BY <1>3, <1>4

\* prev is live in the same incarnation, and the walk goes on behind it.
LEMMA GoOnKeeps ==
    ASSUME NEW m, MapInv(m), NEW t, NEW f, FrameInv(m, t, f), f.pc \in Walking,
           ~Stale(f.prevNext, m.word[f.prev])
    PROVE  FrameInv(m, t, Follow(f, m.word[f.prev]))
  <1> DEFINE w == m.word[f.prev]
             g == Follow(f, w)
  <1>1. /\ f.prev \in Node /\ w \in Word /\ w.ref # 0
        /\ Before(m, f.prev, w.node, f.key)
    BY GoodPrev
  <1>2. OnTheWay(m, t, f) /\ f \in Frame /\ StepsInv(m, f)
    BY WalkingOnTheWay DEF FrameInv, CallInv
  <1>3. /\ g.pc = "readCurr" /\ g.prev = f.prev /\ g.key = f.key
        /\ g.steps = f.steps /\ g.prevs = f.prevs
    BY <1>1, <1>2, FollowIs
  <1>4. StepsInv(m, g)
    <2> HIDE DEF g
    <2> QED
      BY <1>2, <1>3, StepsSame DEF Walking
  <1>5. QED
    BY <1>1, <1>2, <1>4, FollowKeeps

LEMMA RecheckKeeps ==
    ASSUME NEW m, MapInv(m), m.build = build, NEW t, NEW f, FrameInv(m, t, f), f.pc \in Walking
    PROVE  FrameInv(m, t, Recheck(f, m.word[f.prev]))
  BY RestartKeeps, GoOnKeeps DEF Recheck

-----------------------------------------------------------------------------
(* The steps that only read.                                               *)

LEMMA FromHeadKeeps ==
    ASSUME NEW m, MapInv(m), NEW t, NEW f, FrameInv(m, t, f), f.pc = "head", NEW h,
           h = HeadOf(ListOf(f.key))
    PROVE  FrameInv(m, t, [Follow(f, m.word[h]) EXCEPT !.prev = h])
  <1> DEFINE w == m.word[h]
             e == Follow(f, w)
             g == [e EXCEPT !.prev = h]
  <1>1. OnTheWay(m, t, f) /\ f \in Frame /\ f.key \in Key /\ ListOf(f.key) \in Lists
    BY WalkingOnTheWay, Keyed DEF FrameInv, CallInv
  <1>2. h \in Node /\ w \in Word /\ w.ref # 0 /\ Before(m, h, w.node, f.key)
    BY <1>1, Nodes DEF MapInv, MapType, ListInv, Dead, Before
  <1>3. /\ e \in Frame /\ e.pc = "readCurr" /\ e.curr = w.to /\ e.op = f.op /\ e.key = f.key
        /\ e.prevNext = w /\ e.my = f.my /\ e.localN = f.localN
        /\ e.removed = f.removed /\ e.steps = f.steps /\ e.prevs = f.prevs
    BY <1>1, <1>2, FollowIs
  <1> HIDE DEF e
  <1>4. /\ g \in Frame /\ g.pc = "readCurr" /\ g.curr = w.to /\ g.op = f.op /\ g.key = f.key
        /\ g.prev = h /\ g.prevNext = w /\ g.my = f.my /\ g.localN = f.localN
        /\ g.removed = f.removed /\ g.steps = f.steps /\ g.prevs = f.prevs
    BY <1>2, <1>3 DEF Frame
  <1> HIDE DEF g
  <1>5. OnTheWay(m, t, g)
    BY <1>1, <1>4 DEF OnTheWay
  <1>6. StepsInv(m, g)
    BY <1>1, <1>4 DEF StepsInv, FrameInv
  <1>7. FrameInv(m, t, g)
    BY <1>2, <1>4, <1>5, <1>6, BehindKeeps
  <1>8. QED
    BY <1>7 DEF g, e

LEMMA ReadCurrKeeps ==
    ASSUME NEW m, MapInv(m), NEW t, NEW f, FrameInv(m, t, f), f.pc = "readCurr"
    PROVE  FrameInv(m, t, [f EXCEPT !.currNext = m.word[f.curr], !.pc = "readPointer"])
  <1> DEFINE w == m.word[f.curr]
             g == [f EXCEPT !.currNext = w, !.pc = "readPointer"]
  <1>1. f \in Frame /\ f.key \in Key /\ ListOf(f.key) \in Lists /\ f.curr \in Node /\ f.pc \in Walking
    BY Keyed DEF FrameInv, CallInv, CurrInv, Walking
  <1>2. w \in Word
    BY <1>1 DEF MapInv, MapType
  <1>3. /\ g \in Frame /\ g.pc = "readPointer" /\ g.curr = f.curr /\ g.op = f.op /\ g.key = f.key
        /\ g.prev = f.prev /\ g.prevNext = f.prevNext /\ g.my = f.my /\ g.localN = f.localN
        /\ g.removed = f.removed /\ g.steps = f.steps /\ g.prevs = f.prevs /\ g.currNext = w
    BY ZenonT(120), <1>1, <1>2 DEF Frame, PcLabels, Walking
  <1> HIDE DEF g
  <1>4. CallInv(g) /\ MineInv(m, t, g) /\ GoneInv(m, t, g)
    BY <1>3 DEF FrameInv, CallInv, MineInv, GoneInv, Walking
  <1>5. Good(m, g) => Good(m, f)
    BY <1>3 DEF Good
  <1>6. PrevInv(m, g) /\ MetInv(m, g)
    BY <1>3 DEF FrameInv, PrevInv, MetInv, Walking
  <1>7. CurrInv(m, g)
    BY <1>1, <1>3, <1>5 DEF FrameInv, CurrInv
  <1>8. StepsInv(m, g)
    BY <1>1, <1>3, StepsSame DEF FrameInv, Walking
  <1>9. QED
    BY <1>4, <1>6, <1>7, <1>8 DEF FrameInv, g

LEMMA ReadPointerKeeps ==
    ASSUME NEW m, MapInv(m), NEW t, NEW f, FrameInv(m, t, f), f.pc = "readPointer"
    PROVE  FrameInv(m, t, [f EXCEPT !.currKey = m.pointer[f.curr], !.pc = "readPrev"])
  <1> DEFINE w == m.pointer[f.curr]
             g == [f EXCEPT !.currKey = w, !.pc = "readPrev"]
  <1>1. f \in Frame /\ f.key \in Key /\ ListOf(f.key) \in Lists /\ f.curr \in Node /\ f.pc \in Walking
    BY Keyed DEF FrameInv, CallInv, CurrInv, Walking
  <1>2. w \in Key \cup {0}
    BY <1>1 DEF MapInv, MapType
  <1>3. /\ g \in Frame /\ g.pc = "readPrev" /\ g.curr = f.curr /\ g.op = f.op /\ g.key = f.key
        /\ g.prev = f.prev /\ g.prevNext = f.prevNext /\ g.my = f.my /\ g.localN = f.localN
        /\ g.removed = f.removed /\ g.steps = f.steps /\ g.prevs = f.prevs /\ g.currNext = f.currNext
        /\ g.currKey = w
    BY ZenonT(120), <1>1, <1>2 DEF Frame, PcLabels, Walking
  <1> HIDE DEF g
  <1>4. CallInv(g) /\ MineInv(m, t, g) /\ GoneInv(m, t, g)
    BY <1>3 DEF FrameInv, CallInv, MineInv, GoneInv, Walking
  <1>5. Good(m, g) => Good(m, f)
    BY <1>3 DEF Good
  <1>6. PrevInv(m, g) /\ MetInv(m, g)
    BY <1>3 DEF FrameInv, PrevInv, MetInv, Walking
  <1>7. CurrInv(m, g)
    BY <1>1, <1>3, <1>5 DEF FrameInv, CurrInv
  <1>8. StepsInv(m, g)
    BY <1>1, <1>3, StepsSame DEF FrameInv, Walking
  <1>9. QED
    BY <1>4, <1>6, <1>7, <1>8 DEF FrameInv, g

\* What a walk that finds prev good knows of curr.
LEMMA CurrSeen ==
    ASSUME NEW m, MapInv(m), NEW t, NEW f, FrameInv(m, t, f), f.pc = "readPrev", Good(m, f)
    PROVE  /\ f.curr # TailOf(ListOf(f.key)) =>
                /\ f.curr \in Record /\ m.at[f.curr] = "linked"
                /\ f.currKey = m.pointer[f.curr] /\ f.currKey \in Key
                /\ ListOf(f.currKey) = ListOf(f.key)
                /\ f.currNext.node = m.word[f.curr].node /\ f.currNext.node = m.age[f.curr]
           /\ Behind(f) => f.key < Rank(m, f.curr)
           /\ ~Behind(f) => f.currKey <= f.key
  <1>1. f \in Frame /\ f.key \in Key /\ f.key \in Nat /\ f.key <= Keys /\ ListOf(f.key) \in Lists
    BY Keyed DEF FrameInv, CallInv
  <1>2. MapType(m) /\ f.curr \in Members(m, ListOf(f.key)) /\ Rank(m, f.prev) < Rank(m, f.curr)
    BY DEF FrameInv, CurrInv, Walking, MapInv
  <1>3. Rank(m, f.prev) \in Nat
    BY <1>1, <1>2, Ranks DEF Good
  <1>4. f.curr # HeadOf(ListOf(f.key))
    BY <1>1, <1>2, <1>3, Ranks
  <1>5. ASSUME f.curr # TailOf(ListOf(f.key))
        PROVE  /\ f.curr \in Record /\ m.at[f.curr] = "linked"
               /\ f.currKey = m.pointer[f.curr] /\ f.currKey \in Key
               /\ ListOf(f.currKey) = ListOf(f.key)
               /\ f.currNext.node = m.word[f.curr].node /\ f.currNext.node = m.age[f.curr]
    <2>1. f.curr \in Record /\ m.at[f.curr] = "linked" /\ ListOf(m.pointer[f.curr]) = ListOf(f.key)
      BY <1>2, <1>4, <1>5 DEF Members
    <2>2. f.currKey = m.pointer[f.curr] /\ f.currNext.node = m.word[f.curr].node
      BY <1>5 DEF FrameInv, CurrInv, Walking
    <2>3. m.pointer[f.curr] \in Key /\ m.word[f.curr].node = m.age[f.curr]
      BY <2>1 DEF MapInv, PlaceInv
    <2>4. QED
      BY <2>1, <2>2, <2>3
  <1>6. Behind(f) => f.key < Rank(m, f.curr)
    <2>1. CASE f.curr = TailOf(ListOf(f.key))
      <3>1. Rank(m, f.curr) = Keys + 1
        BY <1>1, <1>2, <2>1, Ranks
      <3>2. QED
        BY <1>1, <3>1, Numbers
    <2>2. CASE f.curr # TailOf(ListOf(f.key))
      <3>1. Rank(m, f.curr) = f.currKey
        BY <1>2, <1>5, <2>2, Ranks
      <3>2. QED
        BY <2>2, <3>1 DEF Behind
    <2>3. QED
      BY <2>1, <2>2
  <1>7. ~Behind(f) => f.currKey <= f.key
    BY <1>1, <1>5, Keyed DEF Behind
  <1>8. QED
    BY <1>5, <1>6, <1>7

\* A walk does not miss a live Record of its key.
LEMMA NeverMissed ==
    ASSUME NEW m, MapInv(m), NEW t, NEW f, FrameInv(m, t, f), f.pc = "readPrev", Good(m, f),
           NEW r \in Record, m.at[r] = "linked", m.pointer[r] = f.key, ~Dead(m, r)
    PROVE  ~Behind(f)
  <1>1. SUFFICES ASSUME Behind(f) PROVE FALSE
    OBVIOUS
  <1>2. f \in Frame /\ f.key \in Key /\ f.key \in Nat /\ ListOf(f.key) \in Lists
    BY Keyed DEF FrameInv, CallInv
  <1>3. f.key < Rank(m, f.curr)
    BY <1>1, CurrSeen
  <1>4. Rank(m, f.prev) < f.key
    BY GoodPrev DEF Good, Dead, Stale, Deleted, Walking
  <1>5. OnlyDead(m, Members(m, ListOf(f.key)), f.prev, f.curr)
    BY DEF FrameInv, CurrInv, Walking
  <1>6. r \in Members(m, ListOf(f.key)) /\ Rank(m, r) = f.key
    BY Ranks DEF Members, MapInv
  <1>7. QED
    BY <1>3, <1>4, <1>5, <1>6 DEF OnlyDead

LEMMA PrevFound ==
    ASSUME NEW m, MapInv(m), NEW t, NEW f, FrameInv(m, t, f), f.pc = "readPrev", Good(m, f),
           NEW pc \in {"checkCurr", "cas", "get", "setWord"},
           pc # "checkCurr" <=> Behind(f),
           pc = "cas" => f.removed,
           pc \in {"get", "setWord"} => f.op = "RECORD" /\ (pc = "get" <=> f.my = NoRecord)
    PROVE  FrameInv(m, t, [[f EXCEPT !.prevNext = m.word[f.prev]] EXCEPT !.pc = pc])
  <1> DEFINE w == m.word[f.prev]
             e == [f EXCEPT !.prevNext = w]
             g == [e EXCEPT !.pc = pc]
  <1>1. f \in Frame /\ f.key \in Key /\ ListOf(f.key) \in Lists /\ f.curr \in Node /\ f.pc \in Walking
    BY Keyed DEF FrameInv, CallInv, CurrInv, Walking
  <1>2. /\ w \in Word /\ w.ref # 0 /\ w.node = f.prevNext.node /\ w.next = f.prevNext.next
        /\ Before(m, f.prev, w.node, f.key)
    BY <1>1, GoodPrev DEF Good, Stale, Deleted, Dead
  <1>3. g \in Frame
    BY <1>1, <1>2 DEF Frame, PcLabels, Walking
  <1>4. /\ g.pc = pc /\ g.curr = f.curr /\ g.op = f.op /\ g.key = f.key
        /\ g.prev = f.prev /\ g.prevNext = w /\ g.my = f.my /\ g.localN = f.localN
        /\ g.removed = f.removed /\ g.steps = f.steps /\ g.prevs = f.prevs /\ g.currNext = f.currNext
        /\ g.currKey = f.currKey
    BY <1>1, <1>2 DEF Frame
  <1> HIDE DEF g
  <1>5. CallInv(g)
    BY <1>3, <1>4 DEF FrameInv, CallInv, Walking
  <1>6. MineInv(m, t, g)
    BY <1>3, <1>4, <1>5 DEF FrameInv, CallInv, MineInv, Walking
  <1>7. GoneInv(m, t, g)
    BY <1>4 DEF FrameInv, GoneInv
  <1>8. PrevInv(m, g)
    <2>1. w.next \in Nat /\ w.next <= w.next
      BY <1>2, WordFields
    <2>2. QED
      BY <1>2, <1>4, <2>1 DEF PrevInv
  <1>9. CurrInv(m, g)
    <2>1. g.pc \in {"get", "setWord", "cas"} => f.key < Rank(m, f.curr)
      BY <1>4, CurrSeen
    <2>2. QED
      BY <1>1, <1>4, <2>1 DEF FrameInv, CurrInv
  <1>10. MetInv(m, g)
    <2>1. CASE pc = "checkCurr"
      <3>1. f.curr # TailOf(ListOf(f.key))
        BY <2>1 DEF Behind
      <3>2. m.age[f.curr] \in Nat
        BY <3>1, CurrSeen DEF MapInv, MapType
      <3>3. QED
        BY <1>4, <2>1, <3>1, <3>2, CurrSeen DEF MetInv, Was
    <2>2. CASE pc # "checkCurr"
      BY <1>4, <2>2 DEF MetInv
    <2>3. QED
      BY <2>1, <2>2
  <1>11. StepsInv(m, g)
    BY <1>1, <1>4, StepsSame DEF FrameInv, Walking
  <1>12. QED
    BY <1>5, <1>6, <1>7, <1>8, <1>9, <1>10, <1>11 DEF FrameInv, g, e

\* What a walk makes of the word of prev, and of the word of curr.
Judged(f, now) ==
    IF Stale(f.prevNext, now) THEN Restarted(f)
    ELSE IF NextChanged(f.prevNext, now) THEN Follow(f, now)
    ELSE IF Behind(f)
    THEN IF f.op = "SEARCH" \/ (f.op = "REMOVE" /\ now.to = f.curr)
         THEN Answer([f EXCEPT !.prevNext = now], 0)
         ELSE [[f EXCEPT !.prevNext = now] EXCEPT !.pc =
                 IF f.op = "REMOVE" THEN "cas"
                 ELSE IF f.my = NoRecord THEN "get" ELSE "setWord"]
    ELSE IF f.op = "SEARCH" /\ f.currKey = f.key /\ build.search = "first"
    THEN Answer([f EXCEPT !.prevNext = now], f.currNext.ref)
    ELSE [[f EXCEPT !.prevNext = now] EXCEPT !.pc = "checkCurr"]

Checked(f, now) ==
    IF f.currNext.node # now.node THEN [f EXCEPT !.pc = "recheckPrev"]
    ELSE IF Deleted(now) THEN LookAt(f, now.to)
    ELSE IF f.currKey # f.key THEN Advance(f, now)
    ELSE IF f.removed THEN Answer(f, 0)
    ELSE IF f.op = "SEARCH" THEN Answer(f, now.ref)
    ELSE [f EXCEPT !.foundNext = now, !.pc = IF f.op = "REMOVE" THEN "sub" ELSE "plus"]

LEMMA ReadPrevKeeps ==
    ASSUME NEW m, MapInv(m), m.build = build, NEW t, NEW f, FrameInv(m, t, f), f.pc = "readPrev",
           NEW now, now = m.word[f.prev],
           f.op = "REMOVE" /\ ~f.removed =>
             \E r \in Record : m.at[r] = "linked" /\ m.pointer[r] = f.key /\ ~Dead(m, r)
    PROVE  FrameInv(m, t, Judged(f, now))
  <1> USE DEF Judged
  <1> DEFINE g == [f EXCEPT !.prevNext = now]
  <1>1. /\ f \in Frame /\ f.key \in Key /\ f.op \in Operation /\ f.pc \in Walking
        /\ Gone(m, t) = {} /\ (f.op # "RECORD" => f.my = NoRecord)
    BY WalkingOnTheWay DEF OnTheWay, Walking
  <1>2. CASE Stale(f.prevNext, now)
    BY <1>1, <1>2, RestartKeeps
  <1>3. CASE ~Stale(f.prevNext, now) /\ NextChanged(f.prevNext, now)
    BY <1>1, <1>3, GoOnKeeps
  <1>4. CASE ~Stale(f.prevNext, now) /\ ~NextChanged(f.prevNext, now)
    <2>1. Good(m, f) /\ now \in Word
      BY <1>1, <1>4, GoodPrev DEF NextChanged
    <2>2. /\ g \in Frame /\ g.op = f.op /\ g.key = f.key /\ g.my = f.my /\ g.currNext = f.currNext
          /\ f.currNext.ref \in Int
      <3>1. f.currNext \in Word
        BY <1>1 DEF Frame
      <3>2. f.currNext.ref \in Int
        BY <3>1, WordFields
      <3>3. QED
        BY <1>1, <2>1, <3>2 DEF Frame
    <2> HIDE DEF g
    <2>3. ASSUME f.op # "RECORD", NEW a \in Int PROVE FrameInv(m, t, Answer(g, a))
      BY <1>1, <2>2, <2>3, AnswerKeeps
    <2>4. CASE Behind(f)
      <3>1. CASE f.op = "REMOVE"
        <4>1. f.removed
          BY <2>1, <2>4, <3>1, NeverMissed
        <4>2. FrameInv(m, t, [[f EXCEPT !.prevNext = m.word[f.prev]] EXCEPT !.pc = "cas"])
          BY <2>1, <2>4, <4>1, PrevFound
        <4>3. QED
          BY <1>4, <2>3, <2>4, <3>1, <4>2 DEF g
      <3>2. CASE f.op = "SEARCH"
        BY <1>4, <2>3, <2>4, <3>2 DEF g
      <3>3. CASE f.op = "RECORD"
        <4>1. CASE f.my = NoRecord
          <5>1. FrameInv(m, t, [[f EXCEPT !.prevNext = m.word[f.prev]] EXCEPT !.pc = "get"])
            BY <2>1, <2>4, <3>3, <4>1, PrevFound
          <5>2. QED
            BY <1>4, <2>4, <3>3, <4>1, <5>1
        <4>2. CASE f.my # NoRecord
          <5>1. FrameInv(m, t, [[f EXCEPT !.prevNext = m.word[f.prev]] EXCEPT !.pc = "setWord"])
            BY <2>1, <2>4, <3>3, <4>2, PrevFound
          <5>2. QED
            BY <1>4, <2>4, <3>3, <4>2, <5>1
        <4>3. QED
          BY <4>1, <4>2
      <3>4. QED
        BY <1>1, <3>1, <3>2, <3>3 DEF Operation
    <2>5. CASE ~Behind(f)
      <3>1. FrameInv(m, t, [[f EXCEPT !.prevNext = m.word[f.prev]] EXCEPT !.pc = "checkCurr"])
        BY <2>1, <2>5, PrevFound
      <3>2. QED
        BY <1>4, <2>2, <2>3, <2>5, <3>1 DEF g
    <2>6. QED
      BY <2>4, <2>5
  <1>5. QED
    BY <1>2, <1>3, <1>4

\* A place that is no longer good is given up.
LEMMA BackKeeps ==
    ASSUME NEW m, MapInv(m), m.build = build, NEW t, NEW f, FrameInv(m, t, f), f.pc = "back",
           NEW place, place = f.prevs[Bucket(f)], NEW now, now = m.word[place.r]
    PROVE  FrameInv(m, t, IF Stale(place, now) THEN [f EXCEPT !.steps = @ - 1]
                          ELSE [Follow(f, now) EXCEPT !.prev = place.r])
  <1>1. f \in Frame /\ f.key \in Key /\ ListOf(f.key) \in Lists /\ OnTheWay(m, t, f) /\ f.steps \in Nat
    BY WalkingOnTheWay, Keyed DEF FrameInv, CallInv, Frame
  <1>2. Bucket(f) \in 0 .. MaxPrev - 1 /\ Bucket(f) <= f.steps /\ (f.steps = 0 => Bucket(f) = 0)
    BY <1>1, Numbers DEF Bucket
  <1>3. /\ place \in Place /\ place.r # NoRecord
        /\ Before(m, place.r, place.node, f.key)
        /\ f.steps = 0 => place.r = HeadOf(ListOf(f.key))
        /\ build.restart # "head"
    <2>1. place \in Place
      BY <1>1, <1>2 DEF Frame
    <2>2. build.restart # "head" /\ place.r # NoRecord
      BY DEF FrameInv, StepsInv
    <2>3. Before(m, place.r, place.node, f.key)
      BY <1>2, <2>2 DEF FrameInv, StepsInv
    <2>4. f.steps = 0 => place.r = HeadOf(ListOf(f.key))
      BY <1>2, <2>2 DEF FrameInv, StepsInv
    <2>5. QED
      BY <2>1, <2>2, <2>3, <2>4
  <1>4. CASE Stale(place, now)
    <2> DEFINE g == [f EXCEPT !.steps = @ - 1]
    <2>1. f.steps # 0
      BY <1>1, <1>3, <1>4, HeadIsGood DEF Stale, Deleted
    <2>2. f.steps - 1 \in Nat
      BY <1>1, <2>1
    <2>3. /\ g \in Frame /\ g.pc = "back" /\ g.op = f.op /\ g.key = f.key /\ g.my = f.my /\ g.localN = f.localN
          /\ g.removed = f.removed /\ g.steps = f.steps - 1 /\ g.prevs = f.prevs
      BY <1>1, <2>2 DEF Frame
    <2> HIDE DEF g
    <2>4. CallInv(g) /\ MineInv(m, t, g) /\ GoneInv(m, t, g)
      BY <1>1, <2>3 DEF OnTheWay, CallInv, MineInv, GoneInv, Walking
    <2>5. PrevInv(m, g) /\ CurrInv(m, g) /\ MetInv(m, g)
      BY <2>3 DEF PrevInv, CurrInv, MetInv, Walking
    <2>6. Bucket(g) \in 0 .. MaxPrev - 1 /\ Bucket(g) < f.steps
      BY <1>1, <2>1, <2>3, Numbers DEF Bucket
    <2>7. StepsInv(m, g)
      BY <1>1, <1>3, <2>3, <2>6 DEF FrameInv, StepsInv, Walking
    <2>8. QED
      BY <1>4, <2>4, <2>5, <2>7 DEF FrameInv, g
  <1>5. CASE ~Stale(place, now)
    <2> DEFINE e == Follow(f, now)
               g == [e EXCEPT !.prev = place.r]
    <2>1. place.node \in Nat /\ now.node = place.node /\ now.ref # 0
      BY <1>3, <1>5 DEF Stale, Deleted, Place
    <2>2. place.r \in Node /\ now \in Word
      BY <1>1, <1>3, <2>1, Remembered DEF MapInv, MapType
    <2>3. /\ e \in Frame /\ e.pc = "readCurr" /\ e.curr = now.to /\ e.op = f.op /\ e.key = f.key
          /\ e.prevNext = now /\ e.my = f.my /\ e.localN = f.localN
          /\ e.removed = f.removed /\ e.steps = f.steps /\ e.prevs = f.prevs
      BY <1>1, <2>2, FollowIs
    <2> HIDE DEF e
    <2>4. /\ g \in Frame /\ g.pc = "readCurr" /\ g.curr = now.to /\ g.op = f.op /\ g.key = f.key
          /\ g.prev = place.r /\ g.prevNext = now /\ g.my = f.my /\ g.localN = f.localN
          /\ g.removed = f.removed /\ g.steps = f.steps /\ g.prevs = f.prevs
      BY <2>2, <2>3 DEF Frame
    <2> HIDE DEF g
    <2>5. OnTheWay(m, t, g)
      BY <1>1, <2>4 DEF OnTheWay
    <2>6. StepsInv(m, g)
      BY <1>3, <2>4 DEF StepsInv, FrameInv
    <2>7. FrameInv(m, t, g)
      BY <1>3, <2>1, <2>2, <2>4, <2>5, <2>6, BehindKeeps
    <2>8. QED
      BY <1>5, <2>7 DEF g, e
  <1>6. QED
    BY <1>4, <1>5

\* A live Record of an incarnation that has been linked is linked.
LEMMA LiveIsLinked ==
    ASSUME NEW m, MapInv(m), NEW r \in Record, m.word[r].node <= m.age[r], ~Dead(m, r)
    PROVE  m.at[r] = "linked" /\ m.age[r] = m.word[r].node
  <1>1. /\ m.age[r] \in Nat /\ PlaceInv(m, r)
        /\ m.at[r] \in {"free", "linked", "mine", "gone"}
    BY DEF MapInv, MapType
  <1>2. m.at[r] = "linked"
    BY <1>1 DEF PlaceInv
  <1>3. QED
    BY <1>1, <1>2 DEF PlaceInv

\* The walk goes past a Record that is live and before the place of its key.
LEMMA AdvanceKeeps ==
    ASSUME NEW m, MapInv(m), m.build = build, NEW t, NEW f, FrameInv(m, t, f), f.pc = "checkCurr",
           NEW now, now = m.word[f.curr], f.currNext.node = now.node, ~Deleted(now), f.currKey # f.key
    PROVE  FrameInv(m, t, Advance(f, now))
  <1>1. f \in Frame /\ f.key \in Key /\ ListOf(f.key) \in Lists /\ OnTheWay(m, t, f) /\ f.steps \in Nat
    BY WalkingOnTheWay, Keyed DEF FrameInv, CallInv, Frame, Walking
  <1>2. /\ f.curr \in Record /\ f.currKey \in Key /\ f.currKey <= f.key
        /\ ListOf(f.currKey) = ListOf(f.key)
        /\ Was(m, f.curr, f.currNext.node, f.currKey)
    BY DEF FrameInv, MetInv
  <1>3. now \in Word /\ now.to \in Node /\ now.ref # 0 /\ f.curr \in Node
    BY <1>2, WordFields, Nodes DEF MapInv, MapType, Deleted
  <1>4. Before(m, f.curr, now.node, f.key)
    BY <1>1, <1>2, Keyed DEF Was, Before
  <1>5. Before(m, f.prev, f.prevNext.node, f.key)
    BY DEF FrameInv, PrevInv, Walking
  <1>6. f.prev \in Node /\ f.prev # NoRecord /\ f.prevNext \in Word
    BY <1>1, <1>5, Nodes DEF Before, Frame
  <1>7. f.prevNext.node \in Nat
    BY <1>6, WordFields
  <1> DEFINE place == [r |-> f.prev, node |-> f.prevNext.node]
             e == LookAt(f, now.to)
             d == [e EXCEPT !.prev = f.curr, !.prevNext = now]
             full == f.steps >= MaxPrev \/ (build.remember = "changed" /\ f.prevs[f.steps].r = f.prev)
             p == IF full THEN f.prevs ELSE [f.prevs EXCEPT ![f.steps] = place]
             g == Advance(f, now)
  <1>8. place \in Place /\ place.r = f.prev /\ place.node = f.prevNext.node
    BY <1>6, <1>7 DEF Place
  <1>9. /\ e \in Frame /\ e.pc = "readCurr" /\ e.curr = now.to /\ e.op = f.op /\ e.key = f.key
        /\ e.my = f.my /\ e.localN = f.localN
        /\ e.removed = f.removed /\ e.steps = f.steps /\ e.prevs = f.prevs
    BY <1>1, <1>3, LookAtIs
  <1> HIDE DEF e, place
  <1>10. /\ d \in Frame /\ d.pc = "readCurr" /\ d.curr = now.to /\ d.op = f.op /\ d.key = f.key
         /\ d.my = f.my /\ d.localN = f.localN /\ d.prev = f.curr /\ d.prevNext = now
         /\ d.removed = f.removed /\ d.steps = f.steps /\ d.prevs = f.prevs
    BY ZenonT(120), <1>3, <1>9 DEF Frame
  <1> HIDE DEF d
  <1>11. /\ p \in [0 .. MaxPrev - 1 -> Place]
         /\ \A i \in 0 .. MaxPrev - 1 : p[i] = f.prevs[i] \/ (i = f.steps /\ p[i] = place)
         /\ f.steps \in 0 .. MaxPrev - 1 => p[f.steps] = place \/ p[f.steps].r = f.prev
    <2>1. f.prevs \in [0 .. MaxPrev - 1 -> Place]
      BY <1>1 DEF Frame
    <2>2. CASE full
      BY <1>1, <2>1, <2>2, Numbers
    <2>3. CASE ~full
      BY <1>1, <1>8, <2>1, <2>3, Numbers
    <2>4. QED
      BY <2>2, <2>3
  <1> HIDE DEF p
  <1>12. g = IF build.restart = "head" THEN d ELSE [d EXCEPT !.steps = @ + 1, !.prevs = p]
    BY <1>10 DEF Advance, d, e, p, place
  <1> HIDE DEF g
  <1>13. /\ g \in Frame /\ g.pc = "readCurr" /\ g.curr = now.to /\ g.op = f.op /\ g.key = f.key
         /\ g.my = f.my /\ g.localN = f.localN /\ g.prev = f.curr /\ g.prevNext = now
         /\ g.removed = f.removed
         /\ build.restart = "head" => g.steps = f.steps /\ g.prevs = f.prevs
         /\ build.restart # "head" => g.steps = f.steps + 1 /\ g.prevs = p
    <2>1. CASE build.restart = "head"
      BY <1>10, <1>12, <2>1
    <2>2. CASE build.restart # "head"
      <3>1. g = [d EXCEPT !.steps = @ + 1, !.prevs = p]
        BY <1>12, <2>2
      <3>2. f.steps + 1 \in Nat
        BY <1>1
      <3>3. g \in Frame
        BY <1>10, <1>11, <3>1, <3>2 DEF Frame
      <3>4. /\ g.pc = "readCurr" /\ g.curr = now.to /\ g.op = f.op /\ g.key = f.key
            /\ g.my = f.my /\ g.localN = f.localN /\ g.prev = f.curr /\ g.prevNext = now
            /\ g.removed = f.removed /\ g.steps = f.steps + 1 /\ g.prevs = p
        BY <1>10, <3>1 DEF Frame
      <3>5. QED
        BY <2>2, <3>3, <3>4
    <2>3. QED
      BY <2>1, <2>2
  <1>14. OnTheWay(m, t, g)
    BY <1>1, <1>13 DEF OnTheWay
  <1>15. StepsInv(m, g)
    <2>1. CASE build.restart = "head"
      BY <1>13, <2>1 DEF FrameInv, StepsInv
    <2>2. CASE build.restart # "head"
      <3>1. \A i \in 0 .. MaxPrev - 1 : p[i].r # NoRecord => Before(m, p[i].r, p[i].node, f.key)
        BY <1>5, <1>8, <1>11 DEF FrameInv, StepsInv
      <3>2. p[0].r # NoRecord => p[0].r = HeadOf(ListOf(f.key))
        <4>1. 0 \in 0 .. MaxPrev - 1
          BY Numbers
        <4>2. f.steps = 0 => f.prev = HeadOf(ListOf(f.key))
          BY <2>2 DEF FrameInv, StepsInv, Walking
        <4>3. QED
          BY <1>8, <1>11, <4>1, <4>2 DEF FrameInv, StepsInv
      <3>3. \A i \in 0 .. MaxPrev - 1 : i < f.steps + 1 => p[i].r # NoRecord
        <4>1. \A i \in 0 .. MaxPrev - 1 : i < f.steps => f.prevs[i].r # NoRecord
          BY <2>2 DEF FrameInv, StepsInv
        <4>2. QED
          BY <1>1, <1>6, <1>8, <1>11, <4>1, Numbers
      <3>4. f.steps + 1 # 0
        BY <1>1
      <3>5. QED
        BY <1>13, <2>2, <3>1, <3>2, <3>3, <3>4 DEF StepsInv
    <2>3. QED
      BY <2>1, <2>2
  <1>16. FrameInv(m, t, g)
    BY <1>3, <1>4, <1>13, <1>14, <1>15, BehindKeeps
  <1>17. QED
    BY <1>16 DEF g

\* The walk goes past curr, which is dead.
LEMMA LookKeeps ==
    ASSUME NEW m, MapInv(m), NEW t, NEW f, FrameInv(m, t, f), f.pc \in {"checkCurr", "sub", "plus"},
           NEW now, now = m.word[f.curr], Deleted(now)
    PROVE  FrameInv(m, t, LookAt(f, now.to))
  <1>1. /\ f \in Frame /\ OnTheWay(m, t, f) /\ f.pc \in Walking /\ f.curr \in Record /\ f.curr \in Node
    BY WalkingOnTheWay, Nodes DEF FrameInv, CallInv, MetInv, Walking
  <1>2. now.to \in Node
    BY <1>1, WordFields DEF MapInv, MapType
  <1> DEFINE g == LookAt(f, now.to)
  <1>3. /\ g \in Frame /\ g.pc = "readCurr" /\ g.curr = now.to /\ g.op = f.op /\ g.key = f.key
        /\ g.my = f.my /\ g.localN = f.localN /\ g.prev = f.prev /\ g.prevNext = f.prevNext
        /\ g.removed = f.removed /\ g.steps = f.steps /\ g.prevs = f.prevs
    BY <1>1, <1>2, LookAtIs
  <1> HIDE DEF g
  <1>4. OnTheWay(m, t, g)
    BY <1>1, <1>3 DEF OnTheWay
  <1>5. PrevInv(m, g)
    BY <1>1, <1>3 DEF FrameInv, PrevInv
  <1>6. StepsInv(m, g)
    BY <1>1, <1>3, StepsSame DEF FrameInv, Walking
  <1>7. Good(m, g) => /\ f.curr \in Members(m, ListOf(g.key)) /\ Rank(m, g.prev) < Rank(m, f.curr)
                      /\ OnlyDead(m, Members(m, ListOf(g.key)), g.prev, f.curr) /\ Dead(m, f.curr)
    BY <1>1, <1>3 DEF FrameInv, CurrInv, Good, Dead, Deleted
  <1>8. FrameInv(m, t, g)
    BY <1>1, <1>3, <1>4, <1>5, <1>6, <1>7, PassKeeps
  <1>9. QED
    BY <1>8 DEF g

\* The incarnation of curr is over.
LEMMA CurrGone ==
    ASSUME NEW m, MapInv(m), NEW t, NEW f, FrameInv(m, t, f), f.pc \in {"checkCurr", "plus"}
    PROVE  FrameInv(m, t, [f EXCEPT !.pc = "recheckPrev"])
  <1> DEFINE g == [f EXCEPT !.pc = "recheckPrev"]
  <1>1. f \in Frame /\ f.pc \in Walking
    BY DEF FrameInv, CallInv, Walking
  <1>2. /\ g \in Frame /\ g.pc = "recheckPrev" /\ g.curr = f.curr /\ g.op = f.op /\ g.key = f.key
        /\ g.prev = f.prev /\ g.prevNext = f.prevNext /\ g.my = f.my /\ g.localN = f.localN
        /\ g.removed = f.removed /\ g.steps = f.steps /\ g.prevs = f.prevs /\ g.currNext = f.currNext
        /\ g.currKey = f.currKey
    BY <1>1 DEF Frame, PcLabels, Walking
  <1> HIDE DEF g
  <1>3. CallInv(g) /\ MineInv(m, t, g) /\ GoneInv(m, t, g)
    BY <1>2 DEF FrameInv, CallInv, MineInv, GoneInv, Walking
  <1>4. Good(m, g) => Good(m, f)
    BY <1>2 DEF Good
  <1>5. PrevInv(m, g) /\ MetInv(m, g)
    BY <1>2 DEF FrameInv, PrevInv, MetInv, Walking
  <1>6. CurrInv(m, g)
    BY <1>1, <1>2, <1>4 DEF FrameInv, CurrInv
  <1>7. StepsInv(m, g)
    BY <1>1, <1>2, StepsSame DEF FrameInv, Walking
  <1>8. QED
    BY <1>3, <1>5, <1>6, <1>7 DEF FrameInv, g

\* The walk has found the Record of its key.
LEMMA FoundKeeps ==
    ASSUME NEW m, MapInv(m), NEW t, NEW f, FrameInv(m, t, f), f.pc \in {"checkCurr", "plus"},
           NEW now, now = m.word[f.curr], f.currNext.node = now.node, ~Deleted(now), f.currKey = f.key,
           ~f.removed, f.op # "SEARCH"
    PROVE  FrameInv(m, t, [f EXCEPT !.foundNext = now,
                                    !.pc = IF f.op = "REMOVE" THEN "sub" ELSE "plus"])
  <1> DEFINE pc == IF f.op = "REMOVE" THEN "sub" ELSE "plus"
             g == [f EXCEPT !.foundNext = now, !.pc = pc]
  <1>1. f \in Frame /\ f.pc \in Walking /\ f.op \in Operation
    BY DEF FrameInv, CallInv, Walking
  <1>2. /\ f.curr \in Record /\ f.currKey \in Key /\ f.currKey <= f.key
        /\ ListOf(f.currKey) = ListOf(f.key)
        /\ Was(m, f.curr, f.currNext.node, f.currKey)
    BY DEF FrameInv, MetInv
  <1>3. now \in Word /\ now.ref # 0
    BY <1>2, Nodes DEF MapInv, MapType, Deleted
  <1>4. pc \in {"sub", "plus"} /\ (pc = "sub" <=> f.op = "REMOVE")
    OBVIOUS
  <1> HIDE DEF pc
  <1>5. /\ g \in Frame /\ g.pc = pc /\ g.curr = f.curr /\ g.op = f.op /\ g.key = f.key
        /\ g.prev = f.prev /\ g.prevNext = f.prevNext /\ g.my = f.my /\ g.localN = f.localN
        /\ g.removed = f.removed /\ g.steps = f.steps /\ g.prevs = f.prevs /\ g.currNext = f.currNext
        /\ g.currKey = f.currKey /\ g.foundNext = now
    <2>1. pc \in PcLabels
      BY <1>4 DEF PcLabels, Walking
    <2>2. g \in Frame
      BY ZenonT(120), <1>1, <1>3, <2>1 DEF Frame
    <2>3. QED
      BY <1>1, <2>2 DEF Frame
  <1> HIDE DEF g
  <1>6. CallInv(g) /\ GoneInv(m, t, g)
    BY <1>1, <1>4, <1>5 DEF FrameInv, CallInv, GoneInv, Walking, Operation
  <1>7. MineInv(m, t, g)
    BY <1>4, <1>5 DEF FrameInv, MineInv
  <1>8. Good(m, g) => Good(m, f)
    BY <1>5 DEF Good
  <1>9. PrevInv(m, g)
    BY <1>1, <1>4, <1>5 DEF FrameInv, PrevInv
  <1>10. CurrInv(m, g)
    BY <1>1, <1>4, <1>5, <1>8 DEF FrameInv, CurrInv
  <1>11. m.at[f.curr] = "linked" /\ m.age[f.curr] = now.node
    BY <1>2, LiveIsLinked DEF Was, Dead, Deleted
  <1>12. MetInv(m, g)
    BY <1>2, <1>3, <1>4, <1>5, <1>11 DEF MetInv, Was
  <1>13. StepsInv(m, g)
    BY <1>1, <1>4, <1>5, StepsSame DEF FrameInv, Walking
  <1>14. QED
    BY <1>6, <1>7, <1>9, <1>10, <1>12, <1>13 DEF FrameInv, g, pc

LEMMA CheckCurrKeeps ==
    ASSUME NEW m, MapInv(m), m.build = build, NEW t, NEW f, FrameInv(m, t, f), f.pc = "checkCurr",
           NEW now, now = m.word[f.curr]
    PROVE  FrameInv(m, t, Checked(f, now))
  <1> USE DEF Checked
  <1>1. /\ f \in Frame /\ f.key \in Key /\ f.op \in Operation /\ f.curr \in Node
        /\ Gone(m, t) = {} /\ (f.op # "RECORD" => f.my = NoRecord)
        /\ f.removed => f.op = "REMOVE"
    BY WalkingOnTheWay, Nodes DEF OnTheWay, Walking, FrameInv, MetInv
  <1>2. now.ref \in Int
    BY <1>1, WordFields DEF MapInv, MapType
  <1>3. ASSUME f.op # "RECORD", NEW a \in Int PROVE FrameInv(m, t, Answer(f, a))
    BY <1>1, <1>3, AnswerKeeps
  <1>4. CASE f.currNext.node # now.node
    BY <1>4, CurrGone
  <1>5. CASE f.currNext.node = now.node /\ Deleted(now)
    BY <1>5, LookKeeps
  <1>6. CASE f.currNext.node = now.node /\ ~Deleted(now) /\ f.currKey # f.key
    BY <1>6, AdvanceKeeps
  <1>7. CASE f.currNext.node = now.node /\ ~Deleted(now) /\ f.currKey = f.key /\ f.removed
    BY <1>1, <1>3, <1>7
  <1>8. CASE f.currNext.node = now.node /\ ~Deleted(now) /\ f.currKey = f.key /\ ~f.removed /\ f.op = "SEARCH"
    BY <1>2, <1>3, <1>8
  <1>9. CASE f.currNext.node = now.node /\ ~Deleted(now) /\ f.currKey = f.key /\ ~f.removed /\ f.op # "SEARCH"
    BY <1>9, FoundKeeps
  <1>10. QED
    BY <1>4, <1>5, <1>6, <1>7, <1>8, <1>9

\* The CAS of a RECORD that found its key fails.
LEMMA PlusFails ==
    ASSUME NEW m, MapInv(m), NEW t, NEW f, FrameInv(m, t, f), f.pc = "plus",
           NEW now, now = m.word[f.curr]
    PROVE  FrameInv(m, t, IF f.foundNext.node # now.node THEN [f EXCEPT !.pc = "recheckPrev"]
                          ELSE IF Deleted(now) THEN LookAt(f, now.to)
                          ELSE [f EXCEPT !.foundNext = now])
  <1>1. /\ f \in Frame /\ f.op = "RECORD" /\ ~f.removed /\ f.foundNext.node = f.currNext.node
        /\ f.currKey = f.key
    BY DEF FrameInv, CallInv, MetInv
  <1>2. CASE f.foundNext.node # now.node
    BY <1>2, CurrGone
  <1>3. CASE f.foundNext.node = now.node /\ Deleted(now)
    BY <1>3, LookKeeps
  <1>4. CASE f.foundNext.node = now.node /\ ~Deleted(now)
    <2>1. FrameInv(m, t, [f EXCEPT !.foundNext = now, !.pc = IF f.op = "REMOVE" THEN "sub" ELSE "plus"])
      BY <1>1, <1>4, FoundKeeps
    <2>2. [f EXCEPT !.foundNext = now, !.pc = IF f.op = "REMOVE" THEN "sub" ELSE "plus"]
            = [f EXCEPT !.foundNext = now]
      BY <1>1 DEF Frame
    <2>3. QED
      BY <1>4, <2>1, <2>2
  <1>5. QED
    BY <1>2, <1>3, <1>4

\* The CAS on prev fails.
LEMMA CasFails ==
    ASSUME NEW m, MapInv(m), m.build = build, NEW t, NEW f, FrameInv(m, t, f), f.pc = "cas",
           NEW now, now = m.word[f.prev]
    PROVE  FrameInv(m, t, IF Stale(f.prevNext, now) THEN Restarted(f)
                          ELSE IF NextChanged(f.prevNext, now) THEN Follow(f, now)
                          ELSE [f EXCEPT !.prevNext = now])
  <1>0. f.pc \in Walking
    BY DEF Walking
  <1>1. CASE Stale(f.prevNext, now)
    BY <1>0, <1>1, RestartKeeps
  <1>2. CASE ~Stale(f.prevNext, now) /\ NextChanged(f.prevNext, now)
    BY <1>0, <1>2, GoOnKeeps
  <1>3. CASE ~Stale(f.prevNext, now) /\ ~NextChanged(f.prevNext, now)
    <2> DEFINE g == [f EXCEPT !.prevNext = now]
    <2>1. f \in Frame /\ now \in Word
      BY <1>0, <1>3, GoodPrev DEF FrameInv, CallInv
    <2>2. /\ now.ref # 0 /\ now.node = f.prevNext.node /\ now.next = f.prevNext.next
          /\ Before(m, f.prev, now.node, f.key)
      BY <1>0, <1>3, GoodPrev DEF Stale, Deleted, NextChanged
    <2>3. /\ g \in Frame /\ g.pc = "cas" /\ g.curr = f.curr /\ g.op = f.op /\ g.key = f.key
          /\ g.prev = f.prev /\ g.prevNext = now /\ g.my = f.my /\ g.localN = f.localN
          /\ g.removed = f.removed /\ g.steps = f.steps /\ g.prevs = f.prevs
          /\ g.currNext = f.currNext /\ g.currKey = f.currKey
      BY <2>1 DEF Frame
    <2> HIDE DEF g
    <2>4. CallInv(g) /\ MineInv(m, t, g) /\ GoneInv(m, t, g)
      BY <2>3 DEF FrameInv, CallInv, MineInv, GoneInv, Walking
    <2>5. Good(m, g) => Good(m, f)
      BY <2>2, <2>3 DEF Good
    <2>6. now.next \in Nat
      BY <2>1, WordFields
    <2>7. PrevInv(m, g) /\ MetInv(m, g)
      BY <2>2, <2>3, <2>6 DEF PrevInv, MetInv
    <2>8. CurrInv(m, g)
      BY <1>0, <2>3, <2>5 DEF FrameInv, CurrInv
    <2>9. StepsInv(m, g)
      BY <1>0, <2>3, StepsSame DEF FrameInv
    <2>10. QED
      BY <1>3, <2>4, <2>7, <2>8, <2>9 DEF FrameInv, g
  <1>4. QED
    BY <1>1, <1>2, <1>3

-----------------------------------------------------------------------------
(* What the other threads do not mind.                                     *)

\* Node n is in its list in m and in m2, in the same incarnation.
Stays(m, m2, n) ==
    n \in Heads \/ (n \in Record /\ m.at[n] = "linked" /\ m2.at[n] = "linked" /\ m.age[n] = m2.age[n])

\* A step of t from m to m2.
Evolves(m, m2, t) ==
    /\ m2.build = m.build
    /\ \A r \in Record :
         /\ m.age[r] <= m2.age[r]
         /\ m2.at[r] = "linked" /\ m2.age[r] = m.age[r] =>
              m.at[r] = "linked" /\ m2.pointer[r] = m.pointer[r]
         /\ m.at[r] = "linked" /\ ~Dead(m, r) =>
              m2.at[r] = "linked" /\ m2.age[r] = m.age[r] /\ m2.pointer[r] = m.pointer[r]
         /\ m.at[r] \in {"mine", "gone"} /\ m.by[r] # t =>
              /\ m2.at[r] = m.at[r] /\ m2.by[r] = m.by[r] /\ m2.age[r] = m.age[r]
              /\ m2.pointer[r] = m.pointer[r] /\ m2.word[r] = m.word[r]
         /\ m2.at[r] = "gone" /\ m2.by[r] # t => m.at[r] = "gone" /\ m.by[r] = m2.by[r]
    /\ \A n \in Node : Stays(m, m2, n) =>
         /\ m.word[n].next <= m2.word[n].next
         /\ m.word[n].next = m2.word[n].next => m.word[n].to = m2.word[n].to
         /\ Dead(m, n) => Dead(m2, n)
    /\ \A l \in Lists : \A p, c \in Members(m, l) :
         /\ Stays(m, m2, p) /\ ~Dead(m2, p) /\ m2.word[p].next = m.word[p].next
         /\ Rank(m, p) < Rank(m, c) /\ OnlyDead(m, Members(m, l), p, c)
         => /\ c \in Members(m2, l) /\ OnlyDead(m2, Members(m2, l), p, c)
            /\ c # TailOf(l) => Stays(m, m2, c)

LEMMA BeforeStays ==
    ASSUME NEW m, MapInv(m), NEW m2, MapInv(m2), NEW t, Evolves(m, m2, t),
           NEW k \in Key, NEW r, NEW v \in Nat
    PROVE  /\ Before(m, r, v, k) => Before(m2, r, v, k)
           /\ r \in Record /\ Was(m, r, v, k) => Was(m2, r, v, k)
  <1>1. \A h \in Record : m.age[h] \in Nat /\ m2.age[h] \in Nat
    BY DEF MapInv, MapType
  <1>2. m2.word[HeadOf(ListOf(k))].node = m.word[HeadOf(ListOf(k))].node
    BY Keyed DEF MapInv, ListInv
  <1>3. Before(m, r, v, k) => Before(m2, r, v, k)
    BY <1>1, <1>2 DEF Before, Evolves
  <1>4. r \in Record /\ Was(m, r, v, k) => Was(m2, r, v, k)
    BY <1>1 DEF Was, Evolves
  <1>5. QED
    BY <1>3, <1>4

LEMMA StaysSame ==
    ASSUME NEW m, MapInv(m), NEW m2, MapInv(m2), NEW t, Evolves(m, m2, t),
           NEW l \in Lists, NEW n, n \in Node, Stays(m, m2, n)
    PROVE  /\ m2.word[n].node = m.word[n].node /\ Rank(m2, n) = Rank(m, n)
           /\ n \in Record => m2.pointer[n] = m.pointer[n]
           /\ n \in Members(m, l) <=> n \in Members(m2, l)
  <1>1. CASE n \in Heads
    BY <1>1, Nodes DEF Heads, MapInv, ListInv, Rank, Members
  <1>2. CASE n \in Record /\ m.at[n] = "linked" /\ m2.at[n] = "linked" /\ m.age[n] = m2.age[n]
    <2>1. m2.word[n].node = m.age[n] /\ m.word[n].node = m.age[n] /\ m2.pointer[n] = m.pointer[n]
      BY <1>2 DEF MapInv, PlaceInv, Evolves
    <2>2. QED
      BY <1>2, <2>1, Nodes DEF Rank, Members
  <1>3. QED
    BY <1>1, <1>2 DEF Stays

\* What is in its list in the incarnation that a thread remembers was there before.
LEMMA StillThere ==
    ASSUME NEW m, MapInv(m), NEW m2, MapInv(m2), NEW t, Evolves(m, m2, t),
           NEW k \in Key, NEW r, NEW v \in Nat, Before(m, r, v, k),
           r \in Members(m2, ListOf(k)), m2.word[r].node = v
    PROVE  /\ Stays(m, m2, r) /\ r \in Node
           /\ r \in Members(m, ListOf(k)) /\ m.word[r].node = v
  <1>1. ListOf(k) \in Lists
    BY Keyed
  <1>2. Stays(m, m2, r) /\ r \in Node
    <2>1. CASE r = HeadOf(ListOf(k))
      BY <1>1, <2>1, Nodes DEF Stays
    <2>2. CASE r \in Record /\ v <= m.age[r]
      <3>1. m2.at[r] = "linked" /\ m2.age[r] = v /\ m.age[r] \in Nat /\ m.age[r] <= m2.age[r]
        BY <1>1, <2>2, Nodes DEF Members, MapInv, PlaceInv, MapType, Evolves
      <3>2. m.age[r] = v
        BY <2>2, <3>1
      <3>3. QED
        BY <2>2, <3>1, <3>2, Nodes DEF Stays, Evolves
    <2>3. QED
      BY <2>1, <2>2 DEF Before
  <1>3. QED
    BY <1>1, <1>2, StaysSame

LEMMA GoodBefore ==
    ASSUME NEW m, MapInv(m), NEW m2, MapInv(m2), NEW t, Evolves(m, m2, t),
           NEW s, NEW f, FrameInv(m, s, f), f.pc \in Walking, Good(m2, f)
    PROVE  Good(m, f) /\ Stays(m, m2, f.prev) /\ m2.word[f.prev].next = m.word[f.prev].next
  <1>1. f \in Frame /\ f.key \in Key /\ f.prevNext \in Word
    BY DEF FrameInv, CallInv, Walking, Frame
  <1>2. f.prevNext.node \in Nat /\ f.prevNext.next \in Nat
    BY <1>1, WordFields
  <1>3. Before(m, f.prev, f.prevNext.node, f.key)
    BY DEF FrameInv, PrevInv
  <1>4. /\ Stays(m, m2, f.prev) /\ f.prev \in Node
        /\ f.prev \in Members(m, ListOf(f.key)) /\ m.word[f.prev].node = f.prevNext.node
    BY <1>1, <1>2, <1>3, StillThere DEF Good
  <1>5. /\ m.word[f.prev].next <= m2.word[f.prev].next
        /\ Dead(m, f.prev) => Dead(m2, f.prev)
    BY <1>4 DEF Evolves
  <1>6. f.prevNext.next <= m.word[f.prev].next
    BY <1>4 DEF FrameInv, PrevInv
  <1>7. m.word[f.prev] \in Word
    BY <1>4 DEF MapInv, MapType
  <1>8. m.word[f.prev].next \in Nat
    BY <1>7, WordFields
  <1>9. m.word[f.prev].next = f.prevNext.next
    BY <1>2, <1>5, <1>6, <1>8 DEF Good
  <1>10. QED
    BY <1>4, <1>5, <1>9 DEF Good

\* A walk does not mind a step.
LEMMA WalkKeeps ==
    ASSUME NEW m, MapInv(m), NEW m2, MapInv(m2), NEW t, Evolves(m, m2, t),
           NEW s, NEW f, FrameInv(m, s, f),
           f.pc = "sub" => ~Dead(m, f.curr)
    PROVE  PrevInv(m2, f) /\ CurrInv(m2, f) /\ MetInv(m2, f) /\ StepsInv(m2, f)
  <1>1. f \in Frame /\ (f.pc # "idle" => f.key \in Key)
    BY DEF FrameInv, CallInv
  <1>5. PrevInv(m2, f)
    <2>1. SUFFICES ASSUME f.pc \in Walking PROVE PrevInv(m2, f)
      BY DEF PrevInv
    <2>2. f.key \in Key /\ f.prevNext \in Word
      BY <1>1, <2>1 DEF Walking, Frame
    <2>3. f.prevNext.node \in Nat /\ f.prevNext.next \in Nat
      BY <2>2, WordFields
    <2>4. Before(m, f.prev, f.prevNext.node, f.key) /\ f.prevNext.ref # 0
      BY <2>1 DEF FrameInv, PrevInv
    <2>5. ASSUME f.prev \in Members(m2, ListOf(f.key)), m2.word[f.prev].node = f.prevNext.node
          PROVE  /\ f.prevNext.next <= m2.word[f.prev].next
                 /\ f.prevNext.next = m2.word[f.prev].next => f.prevNext.to = m2.word[f.prev].to
      <3>1. /\ Stays(m, m2, f.prev) /\ f.prev \in Node
            /\ f.prev \in Members(m, ListOf(f.key)) /\ m.word[f.prev].node = f.prevNext.node
        BY <2>2, <2>3, <2>4, <2>5, StillThere
      <3>2. /\ f.prevNext.next <= m.word[f.prev].next
            /\ f.prevNext.next = m.word[f.prev].next => f.prevNext.to = m.word[f.prev].to
        BY <2>1, <3>1 DEF FrameInv, PrevInv
      <3>3. /\ m.word[f.prev].next <= m2.word[f.prev].next
            /\ m.word[f.prev].next = m2.word[f.prev].next => m.word[f.prev].to = m2.word[f.prev].to
        BY <3>1 DEF Evolves
      <3>4. m.word[f.prev] \in Word /\ m2.word[f.prev] \in Word
        BY <3>1 DEF MapInv, MapType
      <3>5. m.word[f.prev].next \in Nat /\ m2.word[f.prev].next \in Nat
        BY <3>4, WordFields
      <3>6. QED
        BY <2>3, <3>2, <3>3, <3>5
    <2>6. Before(m2, f.prev, f.prevNext.node, f.key)
      BY <2>2, <2>3, <2>4, BeforeStays
    <2>7. QED
      BY <2>4, <2>5, <2>6 DEF PrevInv
  <1>6. CurrInv(m2, f)
    <2>1. SUFFICES ASSUME f.pc \in Walking PROVE CurrInv(m2, f)
      BY DEF CurrInv
    <2>2. f.key \in Key /\ ListOf(f.key) \in Lists /\ f.curr \in Node
      BY <1>1, <2>1, Keyed DEF Walking, FrameInv, CurrInv
    <2>3. SUFFICES ASSUME Good(m2, f) PROVE CurrInv(m2, f)
      BY <2>2 DEF CurrInv
    <2> DEFINE l == ListOf(f.key)
    <2>4. Good(m, f) /\ Stays(m, m2, f.prev) /\ m2.word[f.prev].next = m.word[f.prev].next
      BY <2>1, <2>3, GoodBefore
    <2>5. /\ f.curr \in Members(m, l) /\ Rank(m, f.prev) < Rank(m, f.curr)
          /\ OnlyDead(m, Members(m, l), f.prev, f.curr)
          /\ f.curr # TailOf(l) /\ f.pc \in {"readPointer", "readPrev"} =>
               f.currNext.node = m.word[f.curr].node
          /\ f.curr # TailOf(l) /\ f.pc = "readPrev" => f.currKey = m.pointer[f.curr]
          /\ f.pc \in {"get", "setWord", "cas"} => f.key < Rank(m, f.curr)
      BY <2>1, <2>4 DEF FrameInv, CurrInv
    <2>6. f.prev \in Members(m, l) /\ ~Dead(m2, f.prev) /\ f.prev \in Node
      BY <2>2, <2>3, <2>4, Ranks DEF Good, MapInv
    <2>7. /\ f.curr \in Members(m2, l) /\ OnlyDead(m2, Members(m2, l), f.prev, f.curr)
          /\ f.curr # TailOf(l) => Stays(m, m2, f.curr)
      BY <2>2, <2>4, <2>5, <2>6 DEF Evolves
    <2>8. Rank(m2, f.prev) = Rank(m, f.prev)
      BY <2>2, <2>4, <2>6, StaysSame
    <2>9. Rank(m2, f.curr) = Rank(m, f.curr)
      <3>1. CASE f.curr = TailOf(l)
        BY <2>2, <3>1, Ranks DEF MapInv
      <3>2. CASE f.curr # TailOf(l)
        BY <2>2, <2>7, <3>2, StaysSame
      <3>3. QED
        BY <3>1, <3>2
    <2>10. f.curr # TailOf(l) => m2.word[f.curr].node = m.word[f.curr].node
      BY <2>2, <2>7, StaysSame
    <2>11. f.curr # TailOf(l) /\ f.pc = "readPrev" => m2.pointer[f.curr] = m.pointer[f.curr]
      <3>1. SUFFICES ASSUME f.curr # TailOf(l), f.pc = "readPrev" PROVE m2.pointer[f.curr] = m.pointer[f.curr]
        OBVIOUS
      <3>2. f.curr \in Record
        BY <2>4, <3>1, CurrSeen
      <3>3. QED
        BY <2>2, <2>7, <3>1, <3>2, StaysSame
    <2>12. QED
      BY <2>2, <2>5, <2>7, <2>8, <2>9, <2>10, <2>11 DEF CurrInv
  <1>7. MetInv(m2, f)
    <2>1. SUFFICES ASSUME f.pc \in {"checkCurr", "recheckPrev", "sub", "plus"} PROVE MetInv(m2, f)
      BY DEF MetInv
    <2>2. /\ f.curr \in Record /\ f.currKey \in Key /\ Was(m, f.curr, f.currNext.node, f.currKey)
          /\ f.currNext \in Word
      BY <1>1, <2>1 DEF FrameInv, MetInv, Frame
    <2>3. f.currNext.node \in Nat
      BY <2>2, WordFields
    <2>4. Was(m2, f.curr, f.currNext.node, f.currKey)
      BY <2>2, <2>3, BeforeStays
    <2>5. f.pc = "sub" => m2.at[f.curr] = "linked" /\ m2.pointer[f.curr] = f.key
      BY <2>2 DEF FrameInv, MetInv, Evolves
    <2>6. QED
      BY <2>1, <2>4, <2>5 DEF FrameInv, MetInv
  <1>8. StepsInv(m2, f)
    <2>1. ASSUME NEW i \in 0 .. MaxPrev - 1, f.prevs[i].r # NoRecord, f.key \in Key
          PROVE  Before(m2, f.prevs[i].r, f.prevs[i].node, f.key)
      <3>1. f.prevs[i] \in Place
        BY <1>1 DEF Frame
      <3>2. f.prevs[i].node \in Nat
        BY <3>1 DEF Place
      <3>3. Before(m, f.prevs[i].r, f.prevs[i].node, f.key)
        BY <2>1 DEF FrameInv, StepsInv
      <3>4. QED
        BY <2>1, <3>2, <3>3, BeforeStays
    <2>2. f.pc = "idle" => \A i \in 0 .. MaxPrev - 1 : f.prevs[i].r = NoRecord
      <3>1. SUFFICES ASSUME f.pc = "idle", NEW i \in 0 .. MaxPrev - 1 PROVE f.prevs[i].r = NoRecord
        OBVIOUS
      <3>2. f = Idle
        BY <3>1 DEF FrameInv, CallInv
      <3>3. Idle.prevs[i].r = NoRecord
        BY DEF Idle, NoPlace
      <3>4. QED
        BY <3>2, <3>3
    <2>3. m2.build = m.build
      BY DEF Evolves
    <2>4. QED
      BY <1>1, <2>1, <2>2, <2>3 DEF FrameInv, StepsInv
  <1>9. QED
    BY <1>5, <1>6, <1>7, <1>8

\* A thread does not mind the steps of the others.
LEMMA OthersKeep ==
    ASSUME NEW m, MapInv(m), NEW m2, MapInv(m2), NEW t, Evolves(m, m2, t),
           NEW s, s # t, NEW f, FrameInv(m, s, f),
           f.pc = "sub" => ~Dead(m, f.curr)
    PROVE  FrameInv(m2, s, f)
  <1>1. f \in Frame /\ (f.pc # "idle" => f.key \in Key)
    BY DEF FrameInv, CallInv
  <1>2. CallInv(f)
    BY DEF FrameInv
  <1>3. MineInv(m2, s, f)
    <2>1. f.my # NoRecord => f.my \in Record
      BY <1>1 DEF Frame
    <2>2. f.my # NoRecord =>
              /\ m2.at[f.my] = m.at[f.my] /\ m2.by[f.my] = m.by[f.my] /\ m2.age[f.my] = m.age[f.my]
              /\ m2.pointer[f.my] = m.pointer[f.my] /\ m2.word[f.my] = m.word[f.my]
      BY <2>1 DEF FrameInv, MineInv, Evolves
    <2>3. QED
      BY <2>2 DEF FrameInv, MineInv
  <1>4. GoneInv(m2, s, f)
    <2>1. \A r \in Gone(m, s) : /\ r \in Record /\ m2.at[r] = m.at[r] /\ m2.by[r] = m.by[r]
                                /\ m2.pointer[r] = m.pointer[r] /\ m2.word[r] = m.word[r]
      BY DEF Gone, Evolves
    <2>2. Gone(m2, s) = Gone(m, s)
      BY <2>1 DEF Gone, Evolves
    <2>3. \A r \in Gone(m, s) : Rank(m2, r) = Rank(m, r)
      BY <2>1 DEF Rank
    <2>4. CASE f.pc # "unlink"
      BY <2>2, <2>4 DEF FrameInv, GoneInv
    <2>5. CASE f.pc = "unlink"
      <3>1. /\ f.local \in Gone(m, s) /\ f.curr \in Node \ Gone(m, s)
            /\ Distinct(m, Gone(m, s))
        BY <2>5 DEF FrameInv, GoneInv
      <3>2. Distinct(m2, Gone(m, s))
        BY <2>3, <3>1 DEF Distinct
      <3>3. ASSUME NEW r \in Gone(m, s)
            PROVE  /\ m2.pointer[r] \in Key /\ m2.pointer[f.local] <= m2.pointer[r]
                   /\ \/ m2.word[r].to = f.curr /\ \A q \in Gone(m, s) : m2.pointer[q] <= m2.pointer[r]
                      \/ Follows(m2, Gone(m, s), r, m2.word[r].to)
        <4>1. /\ m.pointer[r] \in Key /\ m.pointer[f.local] <= m.pointer[r]
              /\ \/ m.word[r].to = f.curr /\ \A q \in Gone(m, s) : m.pointer[q] <= m.pointer[r]
                 \/ Follows(m, Gone(m, s), r, m.word[r].to)
          BY <2>5 DEF FrameInv, GoneInv
        <4>2. Follows(m, Gone(m, s), r, m.word[r].to) => Follows(m2, Gone(m, s), r, m.word[r].to)
          BY <2>3 DEF Follows
        <4>3. QED
          BY <2>1, <3>1, <4>1, <4>2
      <3>4. QED
        BY <2>2, <2>5, <3>1, <3>2, <3>3 DEF GoneInv
    <2>6. QED
      BY <2>4, <2>5
  <1>5. QED
    BY <1>2, <1>3, <1>4, WalkKeeps DEF FrameInv

\* The lists are as they were, but for the counters.
SameLists(m, m2) ==
    /\ m2.build = m.build /\ m2.age = m.age
    /\ \A r \in Record : m2.at[r] = "linked" <=> m.at[r] = "linked"
    /\ \A n \in Node : n \in Heads \/ (n \in Record /\ m.at[n] = "linked") =>
         /\ n \in Record => m2.pointer[n] = m.pointer[n]
         /\ m2.word[n].node = m.word[n].node /\ m2.word[n].next = m.word[n].next
         /\ m2.word[n].to = m.word[n].to
         /\ Dead(m, n) => Dead(m2, n)
    /\ \A l \in Lists : ~Dead(m2, HeadOf(l))

\* The Records with other threads are as they were.
SameOthers(m, m2, t) == \A r \in Record :
    /\ m.at[r] \in {"mine", "gone"} /\ m.by[r] # t =>
         /\ m2.at[r] = m.at[r] /\ m2.by[r] = m.by[r] /\ m2.age[r] = m.age[r]
         /\ m2.pointer[r] = m.pointer[r] /\ m2.word[r] = m.word[r]
    /\ m2.at[r] = "gone" /\ m2.by[r] # t => m.at[r] = "gone" /\ m.by[r] = m2.by[r]

LEMMA SameListsSame ==
    ASSUME NEW m, MapInv(m), NEW m2, MapType(m2), SameLists(m, m2), NEW l \in Lists
    PROVE  /\ Members(m2, l) = Members(m, l)
           /\ \A n \in Members(m, l) : Rank(m2, n) = Rank(m, n)
           /\ ListInv(m2, l)
  <1>1. MapType(m) /\ ListInv(m, l)
    BY DEF MapInv
  <1>2. \A r \in Record : m.at[r] = "linked" => m2.pointer[r] = m.pointer[r]
    BY Nodes DEF SameLists
  <1>3. Members(m2, l) = Members(m, l)
    BY <1>2 DEF Members, SameLists
  <1>4. ASSUME NEW n \in Members(m, l) PROVE Rank(m2, n) = Rank(m, n)
    <2>1. CASE n \in Record
      <3>1. m.at[n] = "linked"
        BY <2>1, Nodes DEF Members
      <3>2. QED
        BY <1>2, <2>1, <3>1 DEF Rank
    <2>2. CASE n \notin Record
      BY <2>2 DEF Rank
    <2>3. QED
      BY <2>1, <2>2
  <1>5. \A n \in Members(m, l) \ {TailOf(l)} : m2.word[n].to = m.word[n].to
    <2>1. \A n \in Members(m, l) \ {TailOf(l)} :
            n \in Node /\ (n \in Heads \/ (n \in Record /\ m.at[n] = "linked"))
      BY Nodes DEF Members
    <2>2. QED
      BY <2>1 DEF SameLists
  <1>6. Distinct(m2, Members(m2, l))
    BY <1>1, <1>3, <1>4 DEF ListInv, Distinct
  <1>7. ASSUME NEW n \in Members(m, l) \ {TailOf(l)}
        PROVE  Follows(m2, Members(m2, l), n, m2.word[n].to)
    <2>1. Follows(m, Members(m, l), n, m.word[n].to)
      BY <1>1 DEF ListInv
    <2>2. QED
      BY <1>3, <1>4, <1>5, <2>1 DEF Follows
  <1>8. m2.word[HeadOf(l)].node = 1 % NodeMod /\ ~Dead(m2, HeadOf(l))
    BY <1>1, Nodes DEF ListInv, SameLists
  <1>9. QED
    BY <1>3, <1>4, <1>6, <1>7, <1>8 DEF ListInv

LEMMA SameListsEvolve ==
    ASSUME NEW m, MapInv(m), NEW m2, MapInv(m2), NEW t, SameLists(m, m2), SameOthers(m, m2, t)
    PROVE  Evolves(m, m2, t)
  <1>1. \A r \in Record : m.age[r] \in Nat
    BY DEF MapInv, MapType
  <1>2. \A n \in Node : m.word[n] \in Word
    BY DEF MapInv, MapType
  <1>3. \A n \in Node : m.word[n].next \in Nat
    BY <1>2, WordFields
  <1>4. \A n \in Node : Stays(m, m2, n) =>
          /\ m.word[n].next <= m2.word[n].next
          /\ m.word[n].next = m2.word[n].next => m.word[n].to = m2.word[n].to
          /\ Dead(m, n) => Dead(m2, n)
    BY <1>3 DEF Stays, SameLists
  <1>5. ASSUME NEW l \in Lists, NEW p \in Members(m, l), NEW c \in Members(m, l),
               Rank(m, p) < Rank(m, c), OnlyDead(m, Members(m, l), p, c)
        PROVE  /\ c \in Members(m2, l) /\ OnlyDead(m2, Members(m2, l), p, c)
               /\ c # TailOf(l) => Stays(m, m2, c)
    <2>1. /\ Members(m2, l) = Members(m, l)
          /\ \A n \in Members(m, l) : Rank(m2, n) = Rank(m, n)
      BY SameListsSame DEF MapInv
    <2>2. ASSUME NEW n \in Members(m, l), Rank(m, p) < Rank(m, n), Rank(m, n) < Rank(m, c)
          PROVE  Dead(m2, n)
      <3>1. Dead(m, n)
        BY <1>5, <2>2 DEF OnlyDead
      <3>2. n \in Node /\ (n \in Heads \/ (n \in Record /\ m.at[n] = "linked") \/ n = TailOf(l))
        BY Nodes DEF Members
      <3>3. n # TailOf(l)
        <4>1. Rank(m, n) # Keys + 1
          <5>1. MapType(m) /\ c \in Node /\ n \in Node
            BY Ranks DEF MapInv
          <5>2. Rank(m, c) \in Nat /\ Rank(m, c) <= Keys + 1 /\ Rank(m, n) \in Nat
            BY <5>1, Ranks
          <5>3. QED
            BY <2>2, <5>2, Numbers
        <4>2. QED
          BY <4>1, Ranks DEF MapInv
      <3>4. QED
        BY <3>1, <3>2, <3>3 DEF SameLists
    <2>3. OnlyDead(m2, Members(m2, l), p, c)
      BY <2>1, <2>2 DEF OnlyDead
    <2>4. c # TailOf(l) => Stays(m, m2, c)
      BY Nodes DEF Members, Stays, SameLists
    <2>5. QED
      BY <2>1, <2>3, <2>4
  <1>6. \A r \in Record :
         /\ m.age[r] <= m2.age[r]
         /\ m2.at[r] = "linked" /\ m2.age[r] = m.age[r] =>
              m.at[r] = "linked" /\ m2.pointer[r] = m.pointer[r]
         /\ m.at[r] = "linked" /\ ~Dead(m, r) =>
              m2.at[r] = "linked" /\ m2.age[r] = m.age[r] /\ m2.pointer[r] = m.pointer[r]
    BY <1>1, Nodes DEF SameLists
  <1>7. m2.build = m.build
    BY DEF SameLists
  <1>8. QED
    BY <1>4, <1>5, <1>6, <1>7 DEF Evolves, SameOthers

-----------------------------------------------------------------------------
(* The steps that write, but for the CAS on prev.                          *)

\* get_Record, and the pointer.
LEMMA GetKeeps ==
    ASSUME NEW m, MapInv(m), NEW t \in Thread, NEW f, FrameInv(m, t, f), f.pc = "get",
           NEW r \in Record, m.at[r] = "free", NEW m2,
           m2.build = m.build, m2.word = m.word, m2.pointer = [m.pointer EXCEPT ![r] = f.key],
           m2.free = m.free \ {r}, m2.at = [m.at EXCEPT ![r] = "mine"],
           m2.by = [m.by EXCEPT ![r] = t], m2.age = m.age
    PROVE  /\ MapInv(m2) /\ Evolves(m, m2, t)
           /\ FrameInv(m2, t, [f EXCEPT !.my = r, !.localN = m.word[r], !.pc = "setWord"])
  <1>1. /\ f \in Frame /\ f.key \in Key /\ f.op = "RECORD" /\ f.my = NoRecord /\ ~f.removed
        /\ f.pc \in Walking /\ Gone(m, t) = {}
    BY DEF FrameInv, CallInv, MineInv, GoneInv, Walking
  <1>2. r \in Node /\ r \notin Heads /\ m.word[r] \in Word
    BY Nodes DEF MapInv, MapType
  <1>3. \A q \in Record : q # r => m2.at[q] = m.at[q] /\ m2.by[q] = m.by[q] /\ m2.pointer[q] = m.pointer[q]
    BY DEF MapInv, MapType
  <1>4. m2.at[r] = "mine" /\ m2.by[r] = t /\ m2.pointer[r] = f.key
    BY <1>2 DEF MapInv, MapType
  <1>5. MapType(m2)
    <2>1. m2.at \in [Record -> {"free", "linked", "mine", "gone"}]
      BY DEF MapInv, MapType
    <2>2. m2.pointer \in [Node -> Key \cup {0}]
      <3>1. f.key \in Key \cup {0} /\ m.pointer \in [Node -> Key \cup {0}]
        BY <1>1 DEF MapInv, MapType
      <3>2. QED
        BY <3>1
    <2>3. m2.by = [q \in Record |-> m2.by[q]]
      BY DEF MapInv, MapType
    <2>4. m2.free = {q \in Record : m2.at[q] = "free"}
      BY <1>3, <1>4 DEF MapInv, MapType
    <2>5. QED
      BY <2>1, <2>2, <2>3, <2>4 DEF MapInv, MapType
  <1>6. \A q \in Record : PlaceInv(m2, q)
    <2>1. PlaceInv(m2, r)
      BY <1>4 DEF MapInv, PlaceInv, Dead
    <2>2. ASSUME NEW q \in Record, q # r PROVE PlaceInv(m2, q)
      BY <1>3, <2>2 DEF MapInv, PlaceInv, Dead
    <2>3. QED
      BY <2>1, <2>2
  <1>7. SameLists(m, m2) /\ SameOthers(m, m2, t)
    <2>1. \A l \in Lists : ~Dead(m2, HeadOf(l))
      BY DEF MapInv, ListInv, Dead
    <2>2. \A n \in Node : n # r => m2.pointer[n] = m.pointer[n]
      BY DEF MapInv, MapType
    <2>3. QED
      BY <1>2, <1>3, <1>4, <2>1, <2>2 DEF SameLists, SameOthers, Dead
  <1>8. MapInv(m2)
    BY <1>5, <1>6, <1>7, SameListsSame DEF MapInv
  <1>9. Evolves(m, m2, t)
    BY <1>7, <1>8, SameListsEvolve
  <1>10. PrevInv(m2, f) /\ CurrInv(m2, f) /\ MetInv(m2, f) /\ StepsInv(m2, f)
    BY <1>8, <1>9, WalkKeeps
  <1> DEFINE g == [f EXCEPT !.my = r, !.localN = m.word[r], !.pc = "setWord"]
  <1>11. g \in Frame
    <2>1. "setWord" \in PcLabels /\ r \in Record \cup {NoRecord} /\ f \in Frame
      BY <1>1 DEF PcLabels, Walking
    <2>2. QED
      BY <1>2, <2>1 DEF Frame
  <1>12. /\ g.pc = "setWord" /\ g.curr = f.curr /\ g.op = f.op /\ g.key = f.key
         /\ g.prev = f.prev /\ g.prevNext = f.prevNext /\ g.my = r /\ g.localN = m.word[r]
         /\ g.removed = f.removed /\ g.steps = f.steps /\ g.prevs = f.prevs
    BY <1>1 DEF Frame
  <1> HIDE DEF g
  <1>13. CallInv(g)
    BY <1>1, <1>11, <1>12 DEF CallInv, Walking, Operation
  <1>14. MineInv(m2, t, g)
    <2>1. m.word[r].ref = 0 /\ m.word[r].node = m.age[r]
      BY DEF MapInv, PlaceInv, Dead
    <2>2. m2.word[r].node = m2.age[r] /\ g.localN.ref = 0 /\ g.localN.node = m2.age[r]
      BY <1>12, <2>1
    <2>3. g.my # NoRecord
      BY <1>2, <1>12, Nodes
    <2>4. QED
      BY <1>1, <1>4, <1>12, <2>2, <2>3 DEF MineInv
  <1>15. GoneInv(m2, t, g)
    BY <1>1, <1>3, <1>4, <1>12 DEF GoneInv, Gone
  <1>16. Good(m2, g) => Good(m2, f)
    BY <1>12 DEF Good
  <1>17. PrevInv(m2, g) /\ MetInv(m2, g)
    BY <1>1, <1>10, <1>12 DEF PrevInv, MetInv
  <1>18. CurrInv(m2, g)
    BY <1>1, <1>10, <1>12, <1>16 DEF CurrInv
  <1>19. StepsInv(m2, g)
    BY <1>1, <1>10, <1>12, StepsSame DEF Walking
  <1>20. FrameInv(m2, t, g)
    BY <1>13, <1>14, <1>15, <1>17, <1>18, <1>19 DEF FrameInv
  <1>21. QED
    BY <1>8, <1>9, <1>20 DEF g

\* newNext: the first word of the new incarnation.
LEMMA SetWordKeeps ==
    ASSUME NEW m, MapInv(m), NEW t \in Thread, NEW f, FrameInv(m, t, f), f.pc = "setWord",
           \A r \in Record : m.word[r].node + 1 < NodeMod, NEW m2,
           m2.build = m.build, m2.word = [m.word EXCEPT ![f.my] = NewNext(f.localN, f.curr)],
           m2.pointer = m.pointer, m2.free = m.free, m2.at = m.at, m2.by = m.by, m2.age = m.age
    PROVE  MapInv(m2) /\ Evolves(m, m2, t) /\ FrameInv(m2, t, [f EXCEPT !.pc = "cas"])
  <1> DEFINE w == NewNext(f.localN, f.curr)
  <1>1. /\ f \in Frame /\ f.key \in Key /\ f.op = "RECORD" /\ ~f.removed
        /\ f.pc \in Walking /\ Gone(m, t) = {} /\ f.my # NoRecord
        /\ m.at[f.my] = "mine" /\ m.by[f.my] = t /\ m.pointer[f.my] = f.key
        /\ f.localN.ref = 0 /\ f.localN.node = m.age[f.my]
        /\ m.word[f.my].node = m.age[f.my] \/ m.word[f.my].node = m.age[f.my] + 1
    BY DEF FrameInv, CallInv, MineInv, GoneInv, Walking
  <1>2. f.my \in Record /\ f.my \in Node /\ f.my \notin Heads /\ f.curr \in Node /\ f.localN \in Word
    BY <1>1, Nodes DEF Frame, FrameInv, CurrInv
  <1>3. m.age[f.my] + 1 < NodeMod
    <2>1. m.word[f.my] \in Word /\ m.age[f.my] \in Nat
      BY <1>2 DEF MapInv, MapType
    <2>2. m.word[f.my].node \in Nat
      BY <2>1, WordFields
    <2>3. m.word[f.my].node + 1 < NodeMod
      BY <1>2
    <2>4. QED
      BY <1>1, <2>1, <2>2, <2>3, Numbers
  <1>4. w \in Word /\ w.ref = 1 /\ w.node = m.age[f.my] + 1 /\ w.to = f.curr
    BY <1>1, <1>2, <1>3, NewWord
  <1> HIDE DEF w
  <1>5. m2.word[f.my] = w /\ \A n \in Node : n # f.my => m2.word[n] = m.word[n]
    BY <1>2 DEF MapInv, MapType, w
  <1>6. MapType(m2)
    <2>1. m2.word \in [Node -> Word]
      BY <1>4 DEF MapInv, MapType, w
    <2>2. QED
      BY <2>1 DEF MapInv, MapType
  <1>7. \A q \in Record : PlaceInv(m2, q)
    <2>1. PlaceInv(m2, f.my)
      BY <1>1, <1>4, <1>5 DEF PlaceInv
    <2>2. ASSUME NEW q \in Record, q # f.my PROVE PlaceInv(m2, q)
      BY <1>5, <2>2, Nodes DEF MapInv, PlaceInv, Dead
    <2>3. QED
      BY <2>1, <2>2
  <1>8. SameLists(m, m2) /\ SameOthers(m, m2, t)
    <2>1. \A l \in Lists : ~Dead(m2, HeadOf(l))
      BY <1>2, <1>5, Nodes DEF MapInv, ListInv, Dead
    <2>2. QED
      BY <1>1, <1>2, <1>5, <2>1, Nodes DEF SameLists, SameOthers, Dead
  <1>9. MapInv(m2)
    BY <1>6, <1>7, <1>8, SameListsSame DEF MapInv
  <1>10. Evolves(m, m2, t)
    BY <1>8, <1>9, SameListsEvolve
  <1>11. PrevInv(m2, f) /\ CurrInv(m2, f) /\ MetInv(m2, f) /\ StepsInv(m2, f)
    BY <1>9, <1>10, WalkKeeps
  <1> DEFINE g == [f EXCEPT !.pc = "cas"]
  <1>12. /\ g \in Frame /\ g.pc = "cas" /\ g.curr = f.curr /\ g.op = f.op /\ g.key = f.key
         /\ g.prev = f.prev /\ g.prevNext = f.prevNext /\ g.my = f.my /\ g.localN = f.localN
         /\ g.removed = f.removed /\ g.steps = f.steps /\ g.prevs = f.prevs
    BY <1>1 DEF Frame, PcLabels, Walking
  <1> HIDE DEF g
  <1>13. CallInv(g)
    BY <1>1, <1>12 DEF CallInv, Walking, Operation
  <1>14. MineInv(m2, t, g)
    BY <1>1, <1>4, <1>5, <1>12 DEF MineInv
  <1>15. GoneInv(m2, t, g)
    BY <1>1, <1>12 DEF GoneInv, Gone
  <1>16. Good(m2, g) => Good(m2, f)
    BY <1>12 DEF Good
  <1>17. PrevInv(m2, g) /\ MetInv(m2, g)
    BY <1>1, <1>11, <1>12 DEF PrevInv, MetInv
  <1>18. CurrInv(m2, g)
    BY <1>1, <1>11, <1>12, <1>16 DEF CurrInv
  <1>19. StepsInv(m2, g)
    BY <1>1, <1>11, <1>12, StepsSame DEF Walking
  <1>20. FrameInv(m2, t, g)
    BY <1>13, <1>14, <1>15, <1>17, <1>18, <1>19 DEF FrameInv
  <1>21. QED
    BY <1>9, <1>10, <1>20 DEF g

\* return_Record of the Record that was not needed.
LEMMA GiveBackKeeps ==
    ASSUME NEW m, MapInv(m), NEW t \in Thread, NEW f, FrameInv(m, t, f), f.pc = "giveBack", NEW m2,
           m2.build = m.build, m2.word = [m.word EXCEPT ![f.my] = f.localN],
           m2.pointer = m.pointer, m2.free = m.free \cup {f.my},
           m2.at = [m.at EXCEPT ![f.my] = "free"], m2.by = m.by, m2.age = m.age
    PROVE  /\ MapInv(m2) /\ Evolves(m, m2, t)
           /\ FrameInv(m2, t, Answer([f EXCEPT !.my = NoRecord], f.answer))
  <1>1. /\ f \in Frame /\ f.key \in Key /\ f.op \in Operation
        /\ Gone(m, t) = {} /\ f.my # NoRecord
        /\ m.at[f.my] = "mine" /\ m.by[f.my] = t
        /\ f.localN.ref = 0 /\ f.localN.node = m.age[f.my]
    BY DEF FrameInv, CallInv, MineInv, GoneInv
  <1>2. f.my \in Record /\ f.my \in Node /\ f.my \notin Heads /\ f.localN \in Word /\ f.answer \in Int
    BY <1>1, Nodes DEF Frame
  <1>3. m2.word[f.my] = f.localN /\ \A n \in Node : n # f.my => m2.word[n] = m.word[n]
    BY <1>2 DEF MapInv, MapType
  <1>4. m2.at[f.my] = "free" /\ \A q \in Record : q # f.my => m2.at[q] = m.at[q]
    BY <1>2 DEF MapInv, MapType
  <1>5. MapType(m2)
    <2>1. m2.word \in [Node -> Word] /\ m2.at \in [Record -> {"free", "linked", "mine", "gone"}]
      BY <1>2 DEF MapInv, MapType
    <2>2. m2.free = {q \in Record : m2.at[q] = "free"}
      BY <1>2, <1>4 DEF MapInv, MapType
    <2>3. QED
      BY <2>1, <2>2 DEF MapInv, MapType
  <1>6. \A q \in Record : PlaceInv(m2, q)
    <2>1. PlaceInv(m2, f.my)
      BY <1>1, <1>3, <1>4 DEF PlaceInv, Dead
    <2>2. ASSUME NEW q \in Record, q # f.my PROVE PlaceInv(m2, q)
      BY <1>3, <1>4, <2>2, Nodes DEF MapInv, PlaceInv, Dead
    <2>3. QED
      BY <2>1, <2>2
  <1>7. SameLists(m, m2) /\ SameOthers(m, m2, t)
    <2>1. \A l \in Lists : ~Dead(m2, HeadOf(l))
      BY <1>2, <1>3, Nodes DEF MapInv, ListInv, Dead
    <2>2. QED
      BY <1>1, <1>2, <1>3, <1>4, <2>1, Nodes DEF SameLists, SameOthers, Dead
  <1>8. MapInv(m2)
    BY <1>5, <1>6, <1>7, SameListsSame DEF MapInv
  <1>9. Evolves(m, m2, t)
    BY <1>7, <1>8, SameListsEvolve
  <1> DEFINE e == [f EXCEPT !.my = NoRecord]
  <1>10. e \in Frame /\ e.op = f.op /\ e.key = f.key /\ e.my = NoRecord
    BY <1>1 DEF Frame
  <1> HIDE DEF e
  <1>11. Gone(m2, t) = {}
    BY <1>1, <1>4 DEF Gone
  <1>12. FrameInv(m2, t, Answer(e, f.answer))
    BY <1>1, <1>2, <1>8, <1>10, <1>11, AnswerKeeps
  <1>13. QED
    BY <1>8, <1>9, <1>12 DEF e

\* return_Record of an unlinked Record.
LEMMA UnlinkKeeps ==
    ASSUME NEW m, MapInv(m), NEW t \in Thread, NEW f, FrameInv(m, t, f), f.pc = "unlink", NEW m2,
           m2.build = m.build, m2.word = m.word,
           m2.pointer = [m.pointer EXCEPT ![f.local] = 0], m2.free = m.free \cup {f.local},
           m2.at = [m.at EXCEPT ![f.local] = "free"], m2.by = m.by, m2.age = m.age,
           NEW next, next = m.word[f.local].to
    PROVE  /\ f.local \in Record
           /\ MapInv(m2) /\ Evolves(m, m2, t)
           /\ FrameInv(m2, t, IF next = f.curr THEN Answer(f, f.answer) ELSE [f EXCEPT !.local = next])
  <1> DEFINE G == Gone(m, t)
             G2 == Gone(m2, t)
  <1>1. /\ f \in Frame /\ f.key \in Key /\ f.op \in Operation /\ f.my = NoRecord /\ ~f.removed
        /\ f.local \in G /\ f.curr \in Node \ G /\ Distinct(m, G)
    BY DEF FrameInv, CallInv, MineInv, GoneInv, Walking
  <1>2. f.local \in Record /\ f.local \in Node /\ f.local \notin Heads /\ f.answer \in Int
    BY <1>1, Nodes DEF Frame, Gone
  <1>3. \A r \in G :
           /\ m.pointer[r] \in Key /\ m.pointer[f.local] <= m.pointer[r]
           /\ \/ m.word[r].to = f.curr /\ \A q \in G : m.pointer[q] <= m.pointer[r]
              \/ Follows(m, G, r, m.word[r].to)
    BY DEF FrameInv, GoneInv
  <1>4. \A r \in G : r \in Record /\ Rank(m, r) = m.pointer[r] /\ Rank(m, r) \in Nat
    BY <1>3, Keyed DEF Gone, Rank
  <1>5. m2.pointer[f.local] = 0 /\ \A n \in Node : n # f.local => m2.pointer[n] = m.pointer[n]
    BY <1>2 DEF MapInv, MapType
  <1>6. m2.at[f.local] = "free" /\ \A q \in Record : q # f.local => m2.at[q] = m.at[q]
    BY <1>2 DEF MapInv, MapType
  <1>7. MapType(m2)
    <2>1. m2.pointer \in [Node -> Key \cup {0}] /\ m2.at \in [Record -> {"free", "linked", "mine", "gone"}]
      BY <1>2 DEF MapInv, MapType
    <2>2. m2.free = {q \in Record : m2.at[q] = "free"}
      BY <1>2, <1>6 DEF MapInv, MapType
    <2>3. QED
      BY <2>1, <2>2 DEF MapInv, MapType
  <1>8. \A q \in Record : PlaceInv(m2, q)
    <2>1. PlaceInv(m2, f.local)
      BY <1>1, <1>2, <1>6 DEF MapInv, PlaceInv, Dead, Gone
    <2>2. ASSUME NEW q \in Record, q # f.local PROVE PlaceInv(m2, q)
      BY <1>5, <1>6, <2>2, Nodes DEF MapInv, PlaceInv, Dead
    <2>3. QED
      BY <2>1, <2>2
  <1>9. SameLists(m, m2) /\ SameOthers(m, m2, t)
    <2>1. \A l \in Lists : ~Dead(m2, HeadOf(l))
      BY DEF MapInv, ListInv, Dead
    <2>2. QED
      BY <1>1, <1>2, <1>5, <1>6, <2>1, Nodes DEF SameLists, SameOthers, Dead, Gone
  <1>10. MapInv(m2)
    BY <1>7, <1>8, <1>9, SameListsSame DEF MapInv
  <1>11. Evolves(m, m2, t)
    BY <1>9, <1>10, SameListsEvolve
  <1>12. StepsInv(m2, f)
    BY <1>10, <1>11, WalkKeeps
  <1>13. G2 = G \ {f.local}
    BY <1>2, <1>6 DEF Gone
  <1>14. \A r \in G2 : m2.pointer[r] = m.pointer[r] /\ Rank(m2, r) = Rank(m, r)
    BY <1>4, <1>5, <1>13, Nodes DEF Rank
  <1> HIDE DEF G, G2
  <1>15. CASE next = f.curr
    <2>1. \A q \in G : m.pointer[q] <= m.pointer[f.local]
      BY <1>1, <1>3, <1>15 DEF Follows
    <2>2. \A q \in G : q = f.local
      BY <1>1, <1>3, <1>4, <2>1 DEF Distinct
    <2>3. Gone(m2, t) = {}
      BY <1>13, <2>2 DEF G2
    <2>4. FrameInv(m2, t, Answer(f, f.answer))
      BY <1>1, <1>2, <1>10, <2>3, AnswerKeeps
    <2>5. QED
      BY <1>2, <1>10, <1>11, <1>15, <2>4
  <1>16. CASE next # f.curr
    <2>1. Follows(m, G, f.local, next)
      BY <1>1, <1>3, <1>16
    <2>2. next \in G2
      BY <1>4, <1>13, <2>1 DEF Follows
    <2>3. Distinct(m2, G2)
      BY <1>1, <1>13, <1>14 DEF Distinct
    <2>4. ASSUME NEW r \in G2
          PROVE  /\ m2.pointer[r] \in Key /\ m2.pointer[next] <= m2.pointer[r]
                 /\ \/ m2.word[r].to = f.curr /\ \A q \in G2 : m2.pointer[q] <= m2.pointer[r]
                    \/ Follows(m2, G2, r, m2.word[r].to)
      <3>1. r \in G /\ r # f.local /\ m2.pointer[r] = m.pointer[r] /\ m2.pointer[next] = m.pointer[next]
        BY <1>13, <1>14, <2>2
      <3>2. Rank(m, f.local) < Rank(m, r)
        BY <1>1, <1>3, <1>4, <3>1 DEF Distinct
      <3>3. Rank(m, next) <= Rank(m, r)
        BY <1>1, <1>4, <2>1, <3>1, <3>2 DEF Follows
      <3>4. next \in G
        BY <1>13, <2>2
      <3>5. m2.pointer[r] \in Key /\ m2.pointer[next] <= m2.pointer[r]
        BY <1>3, <1>4, <3>1, <3>3, <3>4
      <3>6. CASE m.word[r].to = f.curr /\ \A q \in G : m.pointer[q] <= m.pointer[r]
        BY <1>13, <1>14, <3>5, <3>6
      <3>7. CASE Follows(m, G, r, m.word[r].to)
        <4>1. m.word[r].to # f.local
          BY <1>1, <1>4, <3>1, <3>2, <3>7 DEF Follows
        <4>2. m.word[r].to \in G2
          BY <1>13, <3>7, <4>1 DEF Follows
        <4>3. Follows(m2, G2, r, m.word[r].to)
          BY <1>13, <1>14, <3>7, <4>2 DEF Follows
        <4>4. QED
          BY <3>5, <4>3
      <3>8. QED
        BY <1>3, <3>1, <3>6, <3>7
    <2> DEFINE g == [f EXCEPT !.local = next]
    <2>5. next \in Node
      BY <1>4, <1>13, <2>2, Nodes
    <2>6. /\ g \in Frame /\ g.pc = "unlink" /\ g.curr = f.curr /\ g.op = f.op /\ g.key = f.key
          /\ g.my = f.my /\ g.removed = f.removed /\ g.steps = f.steps /\ g.prevs = f.prevs
          /\ g.local = next
      BY <1>1, <2>5 DEF Frame
    <2> HIDE DEF g
    <2>7. CallInv(g) /\ MineInv(m2, t, g)
      BY <1>1, <2>6 DEF CallInv, MineInv
    <2>8. GoneInv(m2, t, g)
      BY <1>1, <1>13, <2>2, <2>3, <2>4, <2>6 DEF GoneInv, G2
    <2>9. PrevInv(m2, g) /\ CurrInv(m2, g) /\ MetInv(m2, g)
      BY <2>6 DEF PrevInv, CurrInv, MetInv, Walking
    <2>10. StepsInv(m2, g)
      BY <1>12, <2>6 DEF StepsInv, Walking
    <2>11. FrameInv(m2, t, g)
      BY <2>7, <2>8, <2>9, <2>10 DEF FrameInv
    <2>12. QED
      BY <1>2, <1>10, <1>11, <1>16, <2>11 DEF g
  <1>17. QED
    BY <1>15, <1>16

\* Only the counter of a live Record changes.
LEMMA CounterKeeps ==
    ASSUME NEW m, MapInv(m), NEW t, NEW c \in Record, m.at[c] = "linked", ~Dead(m, c), NEW w \in Word,
           w.node = m.word[c].node, w.next = m.word[c].next, w.to = m.word[c].to, NEW m2,
           m2.build = m.build, m2.word = [m.word EXCEPT ![c] = w],
           m2.pointer = m.pointer, m2.free = m.free, m2.at = m.at, m2.by = m.by, m2.age = m.age
    PROVE  /\ MapInv(m2) /\ Evolves(m, m2, t)
           /\ m2.word[c] = w /\ \A n \in Node : n # c => m2.word[n] = m.word[n]
           /\ \A s : Gone(m2, s) = Gone(m, s)
  <1>1. c \in Node /\ c \notin Heads
    BY Nodes
  <1>2. m2.word[c] = w /\ \A n \in Node : n # c => m2.word[n] = m.word[n]
    BY <1>1 DEF MapInv, MapType
  <1>3. MapType(m2)
    <2>1. m2.word \in [Node -> Word]
      BY DEF MapInv, MapType
    <2>2. QED
      BY <2>1 DEF MapInv, MapType
  <1>4. \A q \in Record : PlaceInv(m2, q)
    <2>1. PlaceInv(m2, c)
      BY <1>2 DEF MapInv, PlaceInv
    <2>2. ASSUME NEW q \in Record, q # c PROVE PlaceInv(m2, q)
      BY <1>2, <2>2, Nodes DEF MapInv, PlaceInv, Dead
    <2>3. QED
      BY <2>1, <2>2
  <1>5. SameLists(m, m2) /\ SameOthers(m, m2, t)
    <2>1. \A l \in Lists : ~Dead(m2, HeadOf(l))
      BY <1>1, <1>2, Nodes DEF MapInv, ListInv, Dead
    <2>2. QED
      BY <1>1, <1>2, <2>1, Nodes DEF SameLists, SameOthers, Dead
  <1>6. MapInv(m2)
    BY <1>3, <1>4, <1>5, SameListsSame DEF MapInv
  <1>7. Evolves(m, m2, t)
    BY <1>5, <1>6, SameListsEvolve
  <1>8. \A s : Gone(m2, s) = Gone(m, s)
    BY DEF Gone
  <1>9. QED
    BY <1>2, <1>6, <1>7, <1>8

\* REMOVE takes a reference.
LEMMA SubKeeps ==
    ASSUME NEW m, MapInv(m), NEW t \in Thread, NEW f, FrameInv(m, t, f), f.pc = "sub", ~Dead(m, f.curr),
           NEW now, now = MinusRecord(m.word[f.curr]), NEW m2,
           m2.build = m.build, m2.word = [m.word EXCEPT ![f.curr] = now],
           m2.pointer = m.pointer, m2.free = m.free, m2.at = m.at, m2.by = m.by, m2.age = m.age
    PROVE  /\ MapInv(m2) /\ Evolves(m, m2, t)
           /\ FrameInv(m2, t, IF Deleted(now) THEN [LookAt(f, now.to) EXCEPT !.removed = TRUE]
                              ELSE Answer(f, now.ref))
  <1>1. /\ f \in Frame /\ f.key \in Key /\ f.op = "REMOVE" /\ f.my = NoRecord /\ Gone(m, t) = {}
        /\ f.curr \in Record /\ m.at[f.curr] = "linked"
    BY DEF FrameInv, CallInv, MineInv, GoneInv, MetInv
  <1>2. m.word[f.curr] \in Word
    BY <1>1, Nodes DEF MapInv, MapType
  <1>3. /\ now \in Word /\ now.node = m.word[f.curr].node /\ now.next = m.word[f.curr].next
        /\ now.to = m.word[f.curr].to
    BY <1>2, MinusWord DEF Dead
  <1>4. now.ref \in Int /\ now.to \in Node
    BY <1>3, WordFields
  <1>5. MapInv(m2) /\ Evolves(m, m2, t) /\ m2.word[f.curr] = now /\ Gone(m2, t) = {}
    <2>1. /\ f.curr \in Record /\ m.at[f.curr] = "linked" /\ ~Dead(m, f.curr) /\ now \in Word
          /\ now.node = m.word[f.curr].node /\ now.next = m.word[f.curr].next
          /\ now.to = m.word[f.curr].to /\ m2.word = [m.word EXCEPT ![f.curr] = now]
      BY <1>1, <1>3
    <2>2. MapInv(m2) /\ Evolves(m, m2, t) /\ Gone(m2, t) = {}
      BY <1>1, <2>1, CounterKeeps
    <2>3. m2.word[f.curr] = now
      BY <2>1, Nodes DEF MapInv, MapType
    <2>4. QED
      BY <2>2, <2>3
  <1>6. FrameInv(m2, t, f)
    <2>1. MineInv(m2, t, f) /\ GoneInv(m2, t, f)
      BY <1>1, <1>5 DEF MineInv, GoneInv
    <2>2. QED
      BY <1>5, <2>1, WalkKeeps DEF FrameInv
  <1>7. CASE Deleted(now)
    <2> DEFINE e == LookAt(f, now.to)
               g == [e EXCEPT !.removed = TRUE]
    <2>1. FrameInv(m2, t, e)
      BY <1>5, <1>6, <1>7, LookKeeps
    <2>2. e \in Frame /\ e.pc = "readCurr" /\ e.op = "REMOVE" /\ e.my = NoRecord
      BY <1>1, <1>4, LookAtIs
    <2> HIDE DEF e
    <2>3. /\ g \in Frame /\ g.pc = e.pc /\ g.op = e.op /\ g.key = e.key /\ g.my = e.my /\ g.localN = e.localN
          /\ g.prev = e.prev /\ g.prevNext = e.prevNext /\ g.curr = e.curr /\ g.currNext = e.currNext
          /\ g.currKey = e.currKey /\ g.steps = e.steps /\ g.prevs = e.prevs /\ g.removed = TRUE
      BY ZenonT(120), <2>2 DEF Frame
    <2> HIDE DEF g
    <2>4. CallInv(g)
      BY <2>1, <2>2, <2>3 DEF FrameInv, CallInv, Walking
    <2>5. MineInv(m2, t, g) /\ GoneInv(m2, t, g)
      BY <1>5, <2>2, <2>3 DEF MineInv, GoneInv
    <2>6. Good(m2, g) => Good(m2, e)
      BY <2>3 DEF Good
    <2>7. PrevInv(m2, g) /\ MetInv(m2, g)
      BY <2>1, <2>2, <2>3 DEF FrameInv, PrevInv, MetInv
    <2>8. CurrInv(m2, g)
      BY <2>1, <2>2, <2>3, <2>6 DEF FrameInv, CurrInv
    <2>9. StepsInv(m2, g)
      BY <2>1, <2>2, <2>3, StepsSame DEF FrameInv, Walking
    <2>10. FrameInv(m2, t, g)
      BY <2>4, <2>5, <2>7, <2>8, <2>9 DEF FrameInv
    <2>11. QED
      BY <1>5, <1>7, <2>10 DEF g, e
  <1>8. CASE ~Deleted(now)
    <2>1. FrameInv(m2, t, Answer(f, now.ref))
      BY <1>1, <1>4, <1>5, AnswerKeeps DEF Operation
    <2>2. QED
      BY <1>5, <1>8, <2>1
  <1>9. QED
    BY <1>7, <1>8

\* RECORD adds a reference to the Record it found.
LEMMA PlusKeeps ==
    ASSUME NEW m, MapInv(m), NEW t \in Thread, NEW f, FrameInv(m, t, f), f.pc = "plus",
           m.word[f.curr] = f.foundNext, f.foundNext.ref + 1 < RefMod,
           NEW new, new = PlusRecord(m.word[f.curr]), NEW m2,
           m2.build = m.build, m2.word = [m.word EXCEPT ![f.curr] = new],
           m2.pointer = m.pointer, m2.free = m.free, m2.at = m.at, m2.by = m.by, m2.age = m.age
    PROVE  /\ m.at[f.curr] = "linked" /\ m.pointer[f.curr] = f.key /\ ~Dead(m, f.curr)
           /\ MapInv(m2) /\ Evolves(m, m2, t)
           /\ FrameInv(m2, t, [Answer(f, new.ref) EXCEPT !.pc =
                                 IF f.my = NoRecord THEN "return" ELSE "giveBack"])
  <1>1. /\ f \in Frame /\ f.key \in Key /\ f.op = "RECORD" /\ Gone(m, t) = {}
        /\ f.curr \in Record /\ Was(m, f.curr, f.currNext.node, f.currKey) /\ f.currKey = f.key
        /\ f.foundNext.node = f.currNext.node /\ f.foundNext.ref # 0
    BY DEF FrameInv, CallInv, GoneInv, MetInv
  <1>2. m.word[f.curr] \in Word
    BY <1>1, Nodes DEF MapInv, MapType
  <1>3. m.at[f.curr] = "linked" /\ m.age[f.curr] = m.word[f.curr].node /\ ~Dead(m, f.curr)
    BY <1>1, LiveIsLinked DEF Was, Dead
  <1>4. m.pointer[f.curr] = f.key
    BY <1>1, <1>3 DEF Was
  <1>5. /\ new \in Word /\ new.node = m.word[f.curr].node /\ new.next = m.word[f.curr].next
        /\ new.to = m.word[f.curr].to
    BY <1>2, PlusWord
  <1>6. new.ref \in Int
    BY <1>5, WordFields
  <1>7. /\ MapInv(m2) /\ Evolves(m, m2, t) /\ Gone(m2, t) = {}
        /\ \A n \in Node : n # f.curr => m2.word[n] = m.word[n]
    BY SMTT(30), <1>1, <1>3, <1>5, CounterKeeps
  <1> DEFINE e == Answer(f, new.ref)
             g == [e EXCEPT !.pc = IF f.my = NoRecord THEN "return" ELSE "giveBack"]
  <1>8. /\ e \in Frame /\ e.pc = "return" /\ e.op = f.op /\ e.key = f.key /\ e.my = f.my
        /\ f.my # NoRecord => e.localN = f.localN
        /\ e.removed = FALSE /\ e.steps = 0
        /\ e.prevs = [i \in 0 .. MaxPrev - 1 |-> NoPlace]
    BY ZenonT(120), <1>1, <1>6, AnswerIs
  <1>9. CASE f.my = NoRecord
    <2>1. FrameInv(m2, t, e)
      BY <1>1, <1>6, <1>7, <1>9, AnswerKeeps DEF Operation
    <2> HIDE DEF e
    <2>2. g = e
      BY <1>8, <1>9 DEF Frame
    <2>3. QED
      BY <1>3, <1>4, <1>7, <2>1, <2>2 DEF e
  <1>10. CASE f.my # NoRecord
    <2> HIDE DEF e
    <2>1. g = [e EXCEPT !.pc = "giveBack"]
      BY <1>10
    <2> HIDE DEF g
    <2>2. /\ g \in Frame /\ g.pc = "giveBack" /\ g.op = f.op /\ g.key = f.key /\ g.my = f.my
          /\ g.localN = f.localN /\ g.removed = FALSE /\ g.steps = 0
          /\ g.prevs = [i \in 0 .. MaxPrev - 1 |-> NoPlace]
      BY <1>8, <1>10, <2>1 DEF Frame, PcLabels
    <2>3. CallInv(g)
      BY <1>1, <2>2 DEF CallInv, Operation, Walking
    <2>4. MineInv(m2, t, g)
      <3>1. f.my \in Record /\ f.my \in Node
        BY <1>1, <1>10, Nodes DEF Frame
      <3>2. MineInv(m, t, f)
        BY DEF FrameInv
      <3>3. m.at[f.my] = "mine"
        BY <1>10, <3>2 DEF MineInv
      <3>4. m2.word[f.my] = m.word[f.my]
        BY <1>3, <1>7, <3>1, <3>3
      <3>5. QED
        BY <1>1, <1>10, <2>2, <3>2, <3>4 DEF MineInv
    <2>5. GoneInv(m2, t, g)
      BY <1>7, <2>2 DEF GoneInv
    <2>6. PrevInv(m2, g) /\ CurrInv(m2, g) /\ MetInv(m2, g)
      BY <2>2 DEF PrevInv, CurrInv, MetInv, Walking
    <2>7. StepsInv(m2, g)
      <3>1. \A i \in 0 .. MaxPrev - 1 : g.prevs[i].r = NoRecord
        BY <2>2 DEF NoPlace
      <3>2. 0 \in 0 .. MaxPrev - 1
        BY Numbers
      <3>3. QED
        BY <2>2, <3>1, <3>2 DEF StepsInv, Walking
    <2>8. FrameInv(m2, t, g)
      BY <2>3, <2>4, <2>5, <2>6, <2>7 DEF FrameInv
    <2>9. QED
      BY <1>3, <1>4, <1>7, <2>8 DEF g, e
  <1>11. QED
    BY <1>9, <1>10

-----------------------------------------------------------------------------
(* The CAS on prev.                                                        *)

\* What the CAS of f unlinks.
Cut(m, f) == {r \in Members(m, ListOf(f.key)) :
                Rank(m, f.prev) < Rank(m, r) /\ Rank(m, r) < Rank(m, f.curr)}

\* The Record that it links, if any.
Linking(f, r) == f.op = "RECORD" /\ r = f.my

Appended(f) == IF f.op = "RECORD" THEN f.my ELSE f.curr

AfterCas(m, t, f) ==
    [build |-> m.build, word |-> [m.word EXCEPT ![f.prev] = NxtAddrV(f.prevNext, Appended(f))],
     pointer |-> m.pointer, free |-> m.free,
     at |-> [r \in Record |-> IF r \in Cut(m, f) THEN "gone"
                              ELSE IF Linking(f, r) THEN "linked" ELSE m.at[r]],
     by |-> [r \in Record |-> IF r \in Cut(m, f) THEN t ELSE m.by[r]],
     age |-> [r \in Record |-> IF Linking(f, r) THEN m.age[r] + 1 ELSE m.age[r]]]

LEMMA CasSetting ==
    ASSUME NEW m, MapInv(m), NEW t, NEW f, FrameInv(m, t, f), f.pc = "cas",
           m.word[f.prev] = f.prevNext, NEW S, S = Members(m, ListOf(f.key))
    PROVE  /\ f \in Frame /\ f.key \in Key /\ ListOf(f.key) \in Lists
           /\ f.op = "RECORD" \/ (f.op = "REMOVE" /\ f.removed /\ f.my = NoRecord)
           /\ Gone(m, t) = {}
           /\ f.prev \in S /\ f.prev \in Node /\ f.prev # TailOf(ListOf(f.key)) /\ ~Dead(m, f.prev)
           /\ f.curr \in S /\ f.curr \in Node
           /\ Rank(m, f.prev) < f.key /\ f.key < Rank(m, f.curr)
           /\ Rank(m, f.prev) \in Nat /\ Rank(m, f.curr) \in Nat /\ f.key \in Nat
           /\ OnlyDead(m, S, f.prev, f.curr)
           /\ Follows(m, S, f.prev, f.prevNext.to) /\ Distinct(m, S)
           /\ f.op = "RECORD" =>
                /\ f.my \in Record /\ m.at[f.my] = "mine" /\ m.by[f.my] = t /\ m.pointer[f.my] = f.key
                /\ m.word[f.my].ref = 1 /\ m.word[f.my].node = m.age[f.my] + 1
                /\ m.word[f.my].to = f.curr /\ f.my \notin S /\ f.my # f.prev
  <1>1. /\ f \in Frame /\ f.key \in Key /\ ListOf(f.key) \in Lists /\ f.key \in Nat
        /\ Gone(m, t) = {} /\ f.pc \in Walking
    BY Keyed DEF FrameInv, CallInv, GoneInv, Walking
  <1>2. f.op = "RECORD" \/ (f.op = "REMOVE" /\ f.removed /\ f.my = NoRecord)
    BY DEF FrameInv, CallInv, MineInv
  <1>3. Before(m, f.prev, f.prevNext.node, f.key) /\ f.prevNext.ref # 0
    BY <1>1 DEF FrameInv, PrevInv
  <1>4. ~Stale(f.prevNext, m.word[f.prev])
    BY <1>3 DEF Stale, Deleted
  <1>5. Good(m, f)
    BY <1>1, <1>4, GoodPrev
  <1>6. /\ f.prev \in S /\ f.prev \in Node /\ f.prev # TailOf(ListOf(f.key)) /\ ~Dead(m, f.prev)
        /\ Rank(m, f.prev) < f.key
    BY <1>1, <1>4, <1>5, GoodPrev DEF Good
  <1>7. f.curr \in S /\ f.key < Rank(m, f.curr) /\ OnlyDead(m, S, f.prev, f.curr)
    BY <1>1, <1>5 DEF FrameInv, CurrInv
  <1>8. f.curr \in Node /\ Rank(m, f.prev) \in Nat /\ Rank(m, f.curr) \in Nat
    BY <1>1, <1>6, <1>7, Ranks DEF MapInv
  <1>9. Follows(m, S, f.prev, f.prevNext.to) /\ Distinct(m, S)
    BY <1>1, <1>6 DEF MapInv, ListInv
  <1>10. ASSUME f.op = "RECORD"
         PROVE  /\ f.my \in Record /\ m.at[f.my] = "mine" /\ m.by[f.my] = t /\ m.pointer[f.my] = f.key
                /\ m.word[f.my].ref = 1 /\ m.word[f.my].node = m.age[f.my] + 1
                /\ m.word[f.my].to = f.curr /\ f.my \notin S /\ f.my # f.prev
    <2>1. f.my # NoRecord /\ f.my \in Record
      BY <1>1, <1>10 DEF FrameInv, MineInv, Frame
    <2>2. /\ m.at[f.my] = "mine" /\ m.by[f.my] = t /\ m.pointer[f.my] = f.key
          /\ m.word[f.my].ref = 1 /\ m.word[f.my].node = m.age[f.my] + 1
          /\ m.word[f.my].to = f.curr
      BY <1>10, <2>1 DEF FrameInv, MineInv
    <2>3. f.my \notin S
      BY <1>1, <2>1, <2>2, Nodes DEF Members
    <2>4. QED
      BY <1>6, <2>1, <2>2, <2>3
  <1>11. QED
    BY <1>1, <1>2, <1>6, <1>7, <1>8, <1>9, <1>10

\* The nodes that stay are not between prev and curr, those that go are dead.
LEMMA CutIs ==
    ASSUME NEW m, MapInv(m), NEW t, NEW f, FrameInv(m, t, f), f.pc = "cas",
           m.word[f.prev] = f.prevNext, NEW S, S = Members(m, ListOf(f.key))
    PROVE  /\ Cut(m, f) \subseteq S /\ Cut(m, f) \subseteq Record
           /\ \A r \in Cut(m, f) : m.at[r] = "linked" /\ ListOf(m.pointer[r]) = ListOf(f.key) /\ Dead(m, r)
           /\ \A n \in S \ Cut(m, f) : Rank(m, n) <= Rank(m, f.prev) \/ Rank(m, f.curr) <= Rank(m, n)
           /\ f.prev \notin Cut(m, f) /\ f.curr \notin Cut(m, f)
           /\ \A r \in Record : Linking(f, r) => r \notin Cut(m, f)
  <1>1. /\ f.key \in Key /\ ListOf(f.key) \in Lists /\ MapType(m)
        /\ f.prev \in S /\ f.curr \in S /\ OnlyDead(m, S, f.prev, f.curr)
        /\ Rank(m, f.prev) \in Nat /\ Rank(m, f.curr) \in Nat
        /\ f.op = "RECORD" => f.my \notin S
    BY CasSetting DEF MapInv
  <1>2. \A n \in S : Rank(m, n) \in Nat /\ Rank(m, n) <= Keys + 1
    BY <1>1, Ranks
  <1>3. /\ HeadOf(ListOf(f.key)) \notin Cut(m, f) /\ TailOf(ListOf(f.key)) \notin Cut(m, f)
    <2>1. Rank(m, HeadOf(ListOf(f.key))) = 0 /\ Rank(m, TailOf(ListOf(f.key))) = Keys + 1
      BY <1>1, Ranks
    <2>2. Rank(m, f.curr) <= Keys + 1
      BY <1>1, <1>2
    <2>3. QED
      BY <1>1, <2>1, <2>2, Numbers DEF Cut
  <1>4. \A r \in Cut(m, f) : r \in S /\ Dead(m, r)
    BY <1>1 DEF Cut, OnlyDead
  <1>5. \A r \in Cut(m, f) : r \in Record /\ m.at[r] = "linked" /\ ListOf(m.pointer[r]) = ListOf(f.key)
    BY <1>3, <1>4 DEF Members
  <1>6. \A n \in S \ Cut(m, f) : Rank(m, n) <= Rank(m, f.prev) \/ Rank(m, f.curr) <= Rank(m, n)
    BY <1>1, <1>2 DEF Cut
  <1>7. f.prev \notin Cut(m, f) /\ f.curr \notin Cut(m, f)
    BY <1>1 DEF Cut
  <1>8. \A r \in Record : Linking(f, r) => r \notin Cut(m, f)
    BY <1>1, <1>4 DEF Linking
  <1>9. QED
    BY <1>4, <1>5, <1>6, <1>7, <1>8

\* The map after the CAS, field by field.
LEMMA AfterCasIs ==
    ASSUME NEW m, MapInv(m), NEW t \in Thread, NEW f, FrameInv(m, t, f), f.pc = "cas",
           m.word[f.prev] = f.prevNext, m.word[f.prev].next + 1 < NextMod,
           NEW m2, m2 = AfterCas(m, t, f), NEW S, S = Members(m, ListOf(f.key))
    PROVE  /\ MapType(m2) /\ \A r \in Record : PlaceInv(m2, r)
           /\ m2.build = m.build /\ m2.pointer = m.pointer /\ \A n : Rank(m2, n) = Rank(m, n)
           /\ \A n \in Node : m2.word[n].ref = m.word[n].ref /\ m2.word[n].node = m.word[n].node
           /\ \A n \in Node : n # f.prev => m2.word[n] = m.word[n]
           /\ m2.word[f.prev].to = Appended(f) /\ m2.word[f.prev].next = m.word[f.prev].next + 1
           /\ \A r \in Record :
                /\ r \in Cut(m, f) => m2.at[r] = "gone" /\ m2.by[r] = t /\ m2.age[r] = m.age[r]
                /\ Linking(f, r) => m2.at[r] = "linked" /\ m2.age[r] = m.age[r] + 1
                /\ r \notin Cut(m, f) => m2.by[r] = m.by[r]
                /\ r \notin Cut(m, f) /\ ~Linking(f, r) => m2.at[r] = m.at[r] /\ m2.age[r] = m.age[r]
  <1>1. /\ m2.build = m.build /\ m2.pointer = m.pointer /\ m2.free = m.free
        /\ m2.word = [m.word EXCEPT ![f.prev] = NxtAddrV(f.prevNext, Appended(f))]
        /\ m2.at = [r \in Record |-> IF r \in Cut(m, f) THEN "gone"
                                     ELSE IF Linking(f, r) THEN "linked" ELSE m.at[r]]
        /\ m2.by = [r \in Record |-> IF r \in Cut(m, f) THEN t ELSE m.by[r]]
        /\ m2.age = [r \in Record |-> IF Linking(f, r) THEN m.age[r] + 1 ELSE m.age[r]]
    BY DEF AfterCas
  <1>2. MapType(m) /\ \A r \in Record : PlaceInv(m, r)
    BY DEF MapInv
  <1>3. /\ f \in Frame /\ f.prev \in Node /\ f.curr \in Node /\ f.prevNext \in Word
        /\ f.key \in Key
        /\ f.op = "RECORD" =>
             /\ f.my \in Record /\ m.at[f.my] = "mine" /\ m.by[f.my] = t /\ m.pointer[f.my] = f.key
             /\ m.word[f.my].ref = 1 /\ m.word[f.my].node = m.age[f.my] + 1 /\ f.my # f.prev
    BY CasSetting DEF Frame
  <1>4. Appended(f) \in Node
    BY <1>3, Nodes DEF Appended
  <1> DEFINE w == NxtAddrV(f.prevNext, Appended(f))
  <1>5. /\ w \in Word /\ w.ref = f.prevNext.ref /\ w.node = f.prevNext.node
        /\ w.next = f.prevNext.next + 1 /\ w.to = Appended(f)
    BY <1>3, <1>4, NextWord
  <1> HIDE DEF w
  <1>6. m2.word[f.prev] = w /\ \A n \in Node : n # f.prev => m2.word[n] = m.word[n]
    BY <1>1, <1>2, <1>3 DEF MapType, w
  <1>7. m2.word \in [Node -> Word]
    BY ZenonT(120), <1>1, <1>2, <1>5 DEF MapType, w
  <1>8. \A n \in Node : m2.word[n].ref = m.word[n].ref /\ m2.word[n].node = m.word[n].node
    BY <1>5, <1>6
  <1>9. \A n : Rank(m2, n) = Rank(m, n)
    BY <1>1 DEF Rank
  <1>10. /\ Cut(m, f) \subseteq Record /\ \A r \in Record : Linking(f, r) => r \notin Cut(m, f)
         /\ \A r \in Cut(m, f) : m.at[r] = "linked" /\ Dead(m, r)
    BY CutIs
  <1>11. \A r \in Record :
                /\ r \in Cut(m, f) => m2.at[r] = "gone" /\ m2.by[r] = t /\ m2.age[r] = m.age[r]
                /\ Linking(f, r) => m2.at[r] = "linked" /\ m2.age[r] = m.age[r] + 1
                /\ r \notin Cut(m, f) => m2.by[r] = m.by[r]
                /\ r \notin Cut(m, f) /\ ~Linking(f, r) => m2.at[r] = m.at[r] /\ m2.age[r] = m.age[r]
    BY <1>1, <1>10
  <1>12. \A r \in Record : m.at[r] \in {"free", "linked", "mine", "gone"} /\ m.age[r] \in Nat
    BY <1>2 DEF MapType
  <1>13. MapType(m2)
    <2>1. m2.at \in [Record -> {"free", "linked", "mine", "gone"}]
      BY <1>1, <1>12
    <2>2. m2.age \in [Record -> Nat]
      BY <1>1, <1>12
    <2>3. m2.by = [r \in Record |-> m2.by[r]]
      BY <1>1
    <2>4. m2.free = {r \in Record : m2.at[r] = "free"}
      <3>1. \A r \in Record : m2.at[r] = "free" <=> m.at[r] = "free"
        BY <1>3, <1>10, <1>11 DEF Linking
      <3>2. QED
        BY <1>1, <1>2, <3>1 DEF MapType
    <2>5. m2.pointer \in [Node -> Key \cup {0}]
      BY <1>1, <1>2 DEF MapType
    <2>6. QED
      BY <1>7, <2>1, <2>2, <2>3, <2>4, <2>5 DEF MapType
  <1>14. ASSUME NEW r \in Record PROVE PlaceInv(m2, r)
    <2>0. r \in Node
      BY Nodes
    <2>1. m2.word[r].ref = m.word[r].ref /\ m2.word[r].node = m.word[r].node /\ m2.pointer[r] = m.pointer[r]
      BY <1>1, <1>8, <2>0
    <2>2. CASE r \in Cut(m, f)
      BY <1>2, <1>10, <1>11, <2>1, <2>2 DEF PlaceInv, Dead
    <2>3. CASE Linking(f, r)
      BY <1>3, <1>11, <2>1, <2>3 DEF PlaceInv, Linking
    <2>4. CASE r \notin Cut(m, f) /\ ~Linking(f, r)
      <3>1. m2.at[r] = m.at[r] /\ m2.age[r] = m.age[r] /\ m2.by[r] = m.by[r]
        BY <1>11, <2>4
      <3>2. PlaceInv(m, r)
        BY <1>2
      <3>3. QED
        BY <2>1, <3>1, <3>2 DEF PlaceInv, Dead
    <2>5. QED
      BY <2>2, <2>3, <2>4
  <1>15. m2.word[f.prev].to = Appended(f) /\ m2.word[f.prev].next = m.word[f.prev].next + 1
    BY <1>5, <1>6
  <1>16. QED
    BY <1>1, <1>6, <1>8, <1>9, <1>11, <1>13, <1>14, <1>15

LEMMA CasMembers ==
    ASSUME NEW m, MapInv(m), NEW t \in Thread, NEW f, FrameInv(m, t, f), f.pc = "cas",
           m.word[f.prev] = f.prevNext, m.word[f.prev].next + 1 < NextMod,
           NEW m2, m2 = AfterCas(m, t, f)
    PROVE  /\ Members(m2, ListOf(f.key))
                = (Members(m, ListOf(f.key)) \ Cut(m, f)) \cup {r \in Record : Linking(f, r)}
           /\ \A l \in Lists : l # ListOf(f.key) => Members(m2, l) = Members(m, l)
  <1> DEFINE k == ListOf(f.key)
             new == {r \in Record : Linking(f, r)}
  <1>1. /\ m2.pointer = m.pointer
        /\ \A r \in Record :
             /\ r \in Cut(m, f) => m2.at[r] = "gone"
             /\ Linking(f, r) => m2.at[r] = "linked"
             /\ r \notin Cut(m, f) /\ ~Linking(f, r) => m2.at[r] = m.at[r]
    BY AfterCasIs
  <1>2. /\ k \in Lists /\ f.key \in Key
        /\ f.op = "RECORD" => f.my \in Record /\ m.at[f.my] = "mine" /\ m.pointer[f.my] = f.key
    BY CasSetting
  <1>3. /\ Cut(m, f) \subseteq Record /\ \A r \in Record : Linking(f, r) => r \notin Cut(m, f)
        /\ \A r \in Cut(m, f) : m.at[r] = "linked" /\ ListOf(m.pointer[r]) = k
    BY CutIs
  <1>4. \A r \in new : r \in Record /\ m.at[r] = "mine" /\ m.pointer[r] = f.key
    BY <1>2 DEF Linking
  <1>5. HeadOf(k) \notin Record /\ TailOf(k) \notin Record
    BY <1>2, Nodes
  <1>6. Members(m2, k) = (Members(m, k) \ Cut(m, f)) \cup new
    <2>1. \A r \in Record : r \in Members(m2, k) <=> m2.at[r] = "linked" /\ ListOf(m.pointer[r]) = k
      BY <1>1, <1>5 DEF Members
    <2>2. \A r \in Record : r \in Members(m, k) <=> m.at[r] = "linked" /\ ListOf(m.pointer[r]) = k
      BY <1>5 DEF Members
    <2>3. \A r \in Record : r \in Members(m2, k) <=> r \in (Members(m, k) \ Cut(m, f)) \cup new
      BY <1>1, <1>3, <1>4, <2>1, <2>2
    <2>4. \A n : n \notin Record => (n \in Members(m2, k) <=> n \in {HeadOf(k), TailOf(k)})
      BY DEF Members
    <2>5. \A n : n \notin Record => (n \in Members(m, k) <=> n \in {HeadOf(k), TailOf(k)})
      BY DEF Members
    <2>6. \A n : n \notin Record => n \notin Cut(m, f) /\ n \notin new
      BY <1>3
    <2>7. \A n : n \in Members(m2, k) <=> n \in (Members(m, k) \ Cut(m, f)) \cup new
      BY <2>3, <2>4, <2>5, <2>6
    <2>8. QED
      BY <2>7
  <1>7. ASSUME NEW l \in Lists, l # k PROVE Members(m2, l) = Members(m, l)
    <2>1. \A r \in Record : m2.at[r] = "linked" /\ ListOf(m2.pointer[r]) = l
                            <=> m.at[r] = "linked" /\ ListOf(m.pointer[r]) = l
      BY <1>1, <1>3, <1>4, <1>7
    <2>2. QED
      BY <2>1 DEF Members
  <1>8. QED
    BY <1>6, <1>7

LEMMA CasLists ==
    ASSUME NEW m, MapInv(m), NEW t \in Thread, NEW f, FrameInv(m, t, f), f.pc = "cas",
           m.word[f.prev] = f.prevNext, m.word[f.prev].next + 1 < NextMod,
           NEW m2, m2 = AfterCas(m, t, f), NEW l \in Lists
    PROVE  ListInv(m2, l)
  <1> DEFINE k == ListOf(f.key)
             S == Members(m, k)
             S2 == Members(m2, k)
             new == {r \in Record : Linking(f, r)}
  <1>1. /\ \A n : Rank(m2, n) = Rank(m, n)
        /\ \A n \in Node : m2.word[n].ref = m.word[n].ref /\ m2.word[n].node = m.word[n].node
        /\ \A n \in Node : n # f.prev => m2.word[n] = m.word[n]
        /\ m2.word[f.prev].to = Appended(f)
    BY AfterCasIs
  <1>2. /\ f.key \in Key /\ k \in Lists
        /\ f.op = "RECORD" \/ f.op = "REMOVE"
        /\ f.prev \in S /\ f.prev \in Node /\ f.prev # TailOf(k)
        /\ f.curr \in S /\ f.curr \in Node
        /\ Rank(m, f.prev) < f.key /\ f.key < Rank(m, f.curr)
        /\ Rank(m, f.prev) \in Nat /\ Rank(m, f.curr) \in Nat /\ f.key \in Nat
        /\ Distinct(m, S)
    BY CasSetting
  <1>3. f.op = "RECORD" => /\ f.my \in Record /\ m.pointer[f.my] = f.key
                           /\ m.word[f.my].to = f.curr /\ f.my \notin S /\ f.my # f.prev
    BY CasSetting
  <1>4. /\ Cut(m, f) \subseteq S
        /\ \A n \in S \ Cut(m, f) : Rank(m, n) <= Rank(m, f.prev) \/ Rank(m, f.curr) <= Rank(m, n)
        /\ f.prev \notin Cut(m, f) /\ f.curr \notin Cut(m, f)
    BY CutIs
  <1>5. S2 = (S \ Cut(m, f)) \cup new /\ (l # k => Members(m2, l) = Members(m, l))
    BY CasMembers
  <1>6. MapType(m) /\ ListInv(m, l) /\ ListInv(m, k)
    BY <1>2 DEF MapInv
  <1>7. \A n \in S : n \in Node /\ Rank(m, n) \in Nat
    BY <1>2, <1>6, Ranks
  <1>8. \A r \in new : f.op = "RECORD" /\ r = f.my /\ Rank(m, r) = f.key /\ r \in Node
    BY <1>3, <1>6, Nodes, Ranks DEF Linking
  <1>9. f.op = "RECORD" => f.my \in new
    BY <1>3 DEF Linking
  <1>10. m2.word[HeadOf(l)].node = 1 % NodeMod /\ ~Dead(m2, HeadOf(l))
    BY <1>1, <1>6, Nodes DEF ListInv, Dead
  <1> HIDE DEF k, S, S2, new
  <1>11. CASE l # k
    <2>1. Members(m2, l) = Members(m, l)
      BY <1>5, <1>11
    <2>2. f.prev \notin Members(m, l)
      <3>1. CASE f.prev \in Record
        BY <1>2, <1>11, <3>1, Nodes DEF Members, S
      <3>2. CASE f.prev \notin Record
        BY <1>2, <1>11, <3>2, Nodes DEF Members, S
      <3>3. QED
        BY <3>1, <3>2
    <2>3. Distinct(m2, Members(m2, l))
      BY <1>1, <1>6, <2>1 DEF ListInv, Distinct
    <2>4. \A n \in Members(m, l) : n \in Node
      BY <1>6, Ranks
    <2>5. ASSUME NEW n \in Members(m, l) \ {TailOf(l)}
          PROVE  Follows(m2, Members(m2, l), n, m2.word[n].to)
      <3>1. m2.word[n] = m.word[n]
        BY <1>1, <2>2, <2>4
      <3>2. Follows(m, Members(m, l), n, m.word[n].to)
        BY <1>6 DEF ListInv
      <3>3. QED
        BY <1>1, <2>1, <3>1, <3>2 DEF Follows
    <2>6. QED
      BY <1>10, <2>1, <2>3, <2>5 DEF ListInv
  <1>12. CASE l = k
    <2>1. Distinct(m2, S2)
      <3>1. SUFFICES ASSUME NEW a \in S2, NEW b \in S2, Rank(m, a) = Rank(m, b) PROVE a = b
        BY <1>1 DEF Distinct
      <3>2. CASE a \in S /\ b \in S
        BY <1>2, <3>1, <3>2 DEF Distinct
      <3>3. \A n \in S \ Cut(m, f) : Rank(m, n) # f.key
        BY <1>2, <1>4, <1>7
      <3>4. QED
        BY <1>5, <1>8, <3>1, <3>2, <3>3
    <2>2. ASSUME NEW n \in S2, n # TailOf(k)
          PROVE  Follows(m, S2, n, m2.word[n].to)
      <3>1. \A x \in S2 : \/ x \in S \ Cut(m, f)
                          \/ f.op = "RECORD" /\ x = f.my /\ Rank(m, x) = f.key
        BY <1>5, <1>8
      <3>2. CASE n = f.prev
        <4>1. CASE f.op = "RECORD"
          <5>1. m2.word[n].to = f.my /\ f.my \in S2 /\ Rank(m, f.my) = f.key
            BY <1>1, <1>5, <1>8, <1>9, <3>2, <4>1 DEF Appended
          <5>2. QED
            BY <1>2, <1>4, <1>7, <3>1, <3>2, <5>1 DEF Follows
        <4>2. CASE f.op = "REMOVE"
          <5>1. m2.word[n].to = f.curr /\ f.curr \in S2
            BY <1>1, <1>2, <1>4, <1>5, <3>2, <4>2 DEF Appended
          <5>2. QED
            BY <1>2, <1>4, <1>7, <3>1, <3>2, <4>2, <5>1 DEF Follows
        <4>3. QED
          BY <1>2, <4>1, <4>2
      <3>3. CASE f.op = "RECORD" /\ n = f.my
        <4>1. m2.word[n].to = f.curr /\ f.curr \in S2 /\ Rank(m, n) = f.key
          BY <1>1, <1>2, <1>3, <1>4, <1>5, <1>8, <1>9, <3>3
        <4>2. QED
          BY <1>2, <1>4, <1>7, <3>1, <4>1 DEF Follows
      <3>4. CASE n # f.prev /\ n \in S \ Cut(m, f)
        <4> DEFINE b == m.word[n].to
        <4>1. n \in Node /\ m2.word[n] = m.word[n] /\ Rank(m, n) \in Nat
          BY <1>1, <1>7, <3>4
        <4>2. Follows(m, S, n, b)
          BY <1>6, <2>2, <3>4 DEF ListInv, S, k
        <4> HIDE DEF b
        <4>3. b \in S /\ Rank(m, n) < Rank(m, b) /\ Rank(m, b) \in Nat
          BY <1>7, <4>2 DEF Follows
        <4>4. Rank(m, n) # Rank(m, f.prev)
          BY <1>2, <3>4 DEF Distinct
        <4>5. Rank(m, f.prev) <= Rank(m, n) \/ Rank(m, b) <= Rank(m, f.prev)
          BY <1>2, <4>2 DEF Follows
        <4>6. Rank(m, n) <= Rank(m, f.prev) \/ Rank(m, f.curr) <= Rank(m, n)
          BY <1>4, <3>4
        <4>7. Rank(m, b) <= Rank(m, f.prev) \/ Rank(m, f.curr) <= Rank(m, n)
          BY <1>2, <4>1, <4>3, <4>4, <4>5, <4>6
        <4>8. b \notin Cut(m, f)
          BY <1>2, <4>1, <4>3, <4>7 DEF Cut
        <4>9. \A x \in S2 : Rank(m, x) <= Rank(m, n) \/ Rank(m, b) <= Rank(m, x)
          BY <1>2, <3>1, <4>1, <4>2, <4>3, <4>7 DEF Follows
        <4>10. QED
          BY <1>5, <4>1, <4>3, <4>8, <4>9 DEF Follows, b
      <3>5. QED
        BY <3>1, <3>2, <3>3, <3>4
    <2>3. \A n \in S2 \ {TailOf(k)} : Follows(m2, S2, n, m2.word[n].to)
      BY <1>1, <2>2 DEF Follows
    <2>4. QED
      BY <1>10, <1>12, <2>1, <2>3 DEF ListInv, S2
  <1>13. QED
    BY <1>11, <1>12

LEMMA CasEvolves ==
    ASSUME NEW m, MapInv(m), NEW t \in Thread, NEW f, FrameInv(m, t, f), f.pc = "cas",
           m.word[f.prev] = f.prevNext, m.word[f.prev].next + 1 < NextMod,
           NEW m2, m2 = AfterCas(m, t, f)
    PROVE  MapInv(m2) /\ Evolves(m, m2, t)
  <1> DEFINE k == ListOf(f.key)
             S == Members(m, k)
             S2 == Members(m2, k)
             new == {r \in Record : Linking(f, r)}
  <1>0. MapInv(m2)
    BY AfterCasIs, CasLists DEF MapInv
  <1>1. /\ m2.build = m.build /\ m2.pointer = m.pointer /\ \A n : Rank(m2, n) = Rank(m, n)
        /\ \A n \in Node : m2.word[n].ref = m.word[n].ref /\ m2.word[n].node = m.word[n].node
        /\ \A n \in Node : n # f.prev => m2.word[n] = m.word[n]
        /\ m2.word[f.prev].next = m.word[f.prev].next + 1
        /\ \A r \in Record :
             /\ r \in Cut(m, f) => m2.at[r] = "gone" /\ m2.by[r] = t /\ m2.age[r] = m.age[r]
             /\ Linking(f, r) => m2.at[r] = "linked" /\ m2.age[r] = m.age[r] + 1
             /\ r \notin Cut(m, f) => m2.by[r] = m.by[r]
             /\ r \notin Cut(m, f) /\ ~Linking(f, r) => m2.at[r] = m.at[r] /\ m2.age[r] = m.age[r]
    BY AfterCasIs
  <1>2. /\ f.key \in Key /\ k \in Lists
        /\ f.prev \in S /\ f.prev \in Node /\ ~Dead(m, f.prev)
        /\ Rank(m, f.prev) < f.key /\ f.key < Rank(m, f.curr)
        /\ Rank(m, f.prev) \in Nat /\ Rank(m, f.curr) \in Nat /\ f.key \in Nat
        /\ Distinct(m, S)
        /\ \A r \in Record : Linking(f, r) => m.at[r] = "mine" /\ m.by[r] = t /\ m.pointer[r] = f.key
                                              /\ r # f.prev
    BY CasSetting DEF Linking
  <1>3. /\ Cut(m, f) \subseteq S /\ Cut(m, f) \subseteq Record
        /\ \A r \in Cut(m, f) : m.at[r] = "linked" /\ ListOf(m.pointer[r]) = k /\ Dead(m, r)
        /\ \A n \in S \ Cut(m, f) : Rank(m, n) <= Rank(m, f.prev) \/ Rank(m, f.curr) <= Rank(m, n)
        /\ f.prev \notin Cut(m, f)
    BY CutIs
  <1>4. S2 = (S \ Cut(m, f)) \cup new /\ \A l \in Lists : l # k => Members(m2, l) = Members(m, l)
    BY CasMembers
  <1>5. \A l \in Lists : \A n \in Members(m, l) : n \in Node /\ Rank(m, n) \in Nat
    BY Ranks DEF MapInv
  <1>6. \A n \in Node : Dead(m2, n) <=> Dead(m, n)
    BY <1>1 DEF Dead
  <1>7. \A n \in Node : m.word[n].next \in Nat
    <2>1. \A n \in Node : m.word[n] \in Word
      BY DEF MapInv, MapType
    <2>2. QED
      BY <2>1, WordFields
  <1>8. \A r \in Record : m.age[r] \in Nat
    BY DEF MapInv, MapType
  <1>9. \A r \in Record :
          /\ m.age[r] <= m2.age[r]
          /\ m2.at[r] = "linked" /\ m2.age[r] = m.age[r] =>
               m.at[r] = "linked" /\ m2.pointer[r] = m.pointer[r]
    BY <1>1, <1>8
  <1>10. \A r \in Record : m.at[r] = "linked" /\ ~Dead(m, r) =>
               m2.at[r] = "linked" /\ m2.age[r] = m.age[r] /\ m2.pointer[r] = m.pointer[r]
    BY <1>1, <1>2, <1>3
  <1>11. SameOthers(m, m2, t)
    <2>1. ASSUME NEW r \in Record, m.at[r] \in {"mine", "gone"}, m.by[r] # t
          PROVE  /\ m2.at[r] = m.at[r] /\ m2.by[r] = m.by[r] /\ m2.age[r] = m.age[r]
                 /\ m2.pointer[r] = m.pointer[r] /\ m2.word[r] = m.word[r]
      <3>1. r \notin Cut(m, f) /\ ~Linking(f, r)
        BY <1>2, <1>3, <2>1
      <3>2. r # f.prev
        <4>1. m.at[r] # "linked" /\ r \in Record
          BY <2>1
        <4>2. QED
          BY <1>2, <4>1, Nodes DEF Members
      <3>3. QED
        BY <1>1, <3>1, <3>2, Nodes
    <2>2. ASSUME NEW r \in Record, m2.at[r] = "gone", m2.by[r] # t
          PROVE  m.at[r] = "gone" /\ m.by[r] = m2.by[r]
      BY <1>1, <2>2
    <2>3. QED
      BY <2>1, <2>2 DEF SameOthers
  <1>12. ASSUME NEW n \in Node, Stays(m, m2, n)
         PROVE  /\ m.word[n].next <= m2.word[n].next
                /\ m.word[n].next = m2.word[n].next => m.word[n].to = m2.word[n].to
                /\ Dead(m, n) => Dead(m2, n)
    BY <1>1, <1>6, <1>7
  <1> HIDE DEF k, S, S2, new
  <1>13. ASSUME NEW l \in Lists, NEW p \in Members(m, l), NEW c \in Members(m, l),
                ~Dead(m2, p), m2.word[p].next = m.word[p].next,
                Rank(m, p) < Rank(m, c), OnlyDead(m, Members(m, l), p, c)
         PROVE  /\ c \in Members(m2, l) /\ OnlyDead(m2, Members(m2, l), p, c)
                /\ c # TailOf(l) => Stays(m, m2, c)
    <2>1. p \in Node /\ c \in Node /\ p # f.prev /\ ~Dead(m, p)
      BY <1>1, <1>5, <1>6, <1>7, <1>13
    <2>2. c \notin Cut(m, f) /\ c \in Members(m2, l) /\ OnlyDead(m2, Members(m2, l), p, c)
      <3>1. CASE l # k
        <4>1. Members(m2, l) = Members(m, l)
          BY <1>4, <3>1
        <4>2. OnlyDead(m2, Members(m2, l), p, c)
          BY <1>1, <1>5, <1>6, <1>13, <4>1 DEF OnlyDead
        <4>3. c \notin Cut(m, f)
          BY <1>3, <1>13, <3>1, Nodes DEF Members
        <4>4. QED
          BY <4>1, <4>2, <4>3
      <3>2. CASE l = k
        <4>1. p \in S /\ c \in S
          BY <1>13, <3>2 DEF S
        <4>2. p \notin Cut(m, f)
          BY <1>3, <2>1
        <4>3. Rank(m, p) # Rank(m, f.prev)
          BY <1>2, <2>1, <4>1 DEF Distinct
        <4>4. Rank(m, p) \in Nat /\ Rank(m, c) \in Nat
          BY <1>5
        <4>5. Rank(m, f.prev) <= Rank(m, p) \/ Rank(m, c) <= Rank(m, f.prev)
          BY <1>2, <1>13, <3>2, <4>4 DEF OnlyDead, S
        <4>6. Rank(m, p) <= Rank(m, f.prev) \/ Rank(m, f.curr) <= Rank(m, p)
          BY <1>3, <4>1, <4>2
        <4>7. Rank(m, c) <= Rank(m, f.prev) \/ Rank(m, f.curr) <= Rank(m, p)
          BY <1>2, <4>3, <4>4, <4>5, <4>6
        <4>8. c \notin Cut(m, f)
          BY <1>2, <1>13, <4>4, <4>7 DEF Cut
        <4>9. ASSUME NEW n \in S2, Rank(m, p) < Rank(m, n), Rank(m, n) < Rank(m, c) PROVE Dead(m2, n)
          <5>1. CASE n \in S
            BY <1>5, <1>6, <1>13, <3>2, <4>9, <5>1 DEF OnlyDead, S
          <5>2. CASE n \in new
            <6>1. Rank(m, n) = f.key
              BY <1>2, <5>2 DEF Rank, new
            <6>2. QED
              BY <1>2, <4>4, <4>7, <4>9, <6>1
          <5>3. QED
            BY <1>4, <5>1, <5>2
        <4>10. OnlyDead(m2, S2, p, c)
          BY <1>1, <4>9 DEF OnlyDead
        <4>11. c \in S2
          BY <1>4, <4>1, <4>8
        <4>12. QED
          BY <3>2, <4>8, <4>10, <4>11 DEF S2
      <3>3. QED
        BY <3>1, <3>2
    <2>3. ASSUME c # TailOf(l) PROVE Stays(m, m2, c)
      <3>1. CASE c \in Record
        <4>1. m.at[c] = "linked"
          BY <1>13, <3>1, Nodes DEF Members
        <4>2. ~Linking(f, c)
          BY <1>2, <3>1, <4>1
        <4>3. QED
          BY <1>1, <2>2, <3>1, <4>1, <4>2 DEF Stays
      <3>2. CASE c \notin Record
        BY <1>13, <2>3, <3>2, Nodes DEF Members, Stays
      <3>3. QED
        BY <3>1, <3>2
    <2>4. QED
      BY <2>2, <2>3
  <1>14. QED
    BY <1>0, <1>1, <1>9, <1>10, <1>11, <1>12, <1>13 DEF Evolves, SameOthers

LEMMA CasKeeps ==
    ASSUME NEW m, MapInv(m), NEW t \in Thread, NEW f, FrameInv(m, t, f), f.pc = "cas",
           m.word[f.prev] = f.prevNext, m.word[f.prev].next + 1 < NextMod,
           NEW m2, m2 = AfterCas(m, t, f), NEW now, now = f.prevNext
    PROVE  FrameInv(m2, t,
             LET g == Answer([f EXCEPT !.my = NoRecord], IF f.op = "RECORD" THEN 1 ELSE 0)
             IN  IF now.to = f.curr THEN g
                 ELSE [g EXCEPT !.local = now.to, !.curr = f.curr, !.pc = "unlink"])
  <1> DEFINE k == ListOf(f.key)
             S == Members(m, k)
             C == Cut(m, f)
             a == IF f.op = "RECORD" THEN 1 ELSE 0
             d == [f EXCEPT !.my = NoRecord]
             e == Answer(d, a)
             g == [e EXCEPT !.local = now.to, !.curr = f.curr, !.pc = "unlink"]
  <1>1. /\ f \in Frame /\ f.key \in Key /\ k \in Lists /\ f.op \in Operation
        /\ Gone(m, t) = {}
        /\ f.prev \in S /\ f.prev \in Node /\ f.curr \in S /\ f.curr \in Node
        /\ Rank(m, f.prev) \in Nat /\ Rank(m, f.curr) \in Nat
        /\ Rank(m, f.prev) < Rank(m, f.curr)
        /\ Follows(m, S, f.prev, now.to) /\ Distinct(m, S)
    BY CasSetting DEF Operation
  <1>2. /\ C \subseteq S /\ C \subseteq Record /\ f.curr \notin C
        /\ \A r \in C : m.at[r] = "linked" /\ Dead(m, r)
    BY CutIs
  <1>3. /\ m2.pointer = m.pointer /\ \A n : Rank(m2, n) = Rank(m, n)
        /\ \A n \in Node : n # f.prev => m2.word[n] = m.word[n]
        /\ \A r \in Record :
             /\ r \in C => m2.at[r] = "gone" /\ m2.by[r] = t
             /\ Linking(f, r) => m2.at[r] = "linked"
             /\ r \notin C => m2.by[r] = m.by[r]
             /\ r \notin C /\ ~Linking(f, r) => m2.at[r] = m.at[r]
    BY AfterCasIs
  <1>4. Gone(m2, t) = C
    BY <1>1, <1>2, <1>3 DEF Gone
  <1>5. MapInv(m2) /\ MapType(m) /\ MapType(m2)
    BY CasEvolves DEF MapInv
  <1>6. \A n \in S : n \in Node /\ Rank(m, n) \in Nat
    BY <1>1, <1>5, Ranks
  <1>7. a \in Int /\ d \in Frame /\ d.op = f.op /\ d.key = f.key /\ d.my = NoRecord
    BY <1>1 DEF Frame
  <1>8. /\ e \in Frame /\ e.pc = "return" /\ e.op = f.op /\ e.key = f.key /\ e.my = NoRecord
        /\ e.removed = FALSE /\ e.steps = 0
        /\ e.prevs = [i \in 0 .. MaxPrev - 1 |-> NoPlace]
    BY <1>7, AnswerIs
  <1>9. now.to \in S /\ now.to \in Node /\ Rank(m, f.prev) < Rank(m, now.to) /\ Rank(m, now.to) \in Nat
        /\ Rank(m, now.to) <= Rank(m, f.curr)
    BY <1>1, <1>6 DEF Follows
  <1> HIDE DEF a, d, S, C
  <1>10. CASE now.to = f.curr
    <2>1. C = {}
      <3>1. ASSUME NEW r \in C PROVE FALSE
        BY <1>1, <1>2, <1>6, <1>10, <3>1 DEF Follows, C, Cut
      <3>2. QED
        BY <3>1
    <2>2. FrameInv(m2, t, e)
      BY <1>1, <1>4, <1>5, <1>7, <2>1, AnswerKeeps
    <2>3. QED
      BY <1>10, <2>2 DEF a, d
  <1>11. CASE now.to # f.curr
    <2> HIDE DEF e
    <2>1. /\ g \in Frame /\ g.pc = "unlink" /\ g.op = f.op /\ g.key = f.key /\ g.my = NoRecord
          /\ g.removed = FALSE /\ g.steps = 0
          /\ g.prevs = [i \in 0 .. MaxPrev - 1 |-> NoPlace]
          /\ g.local = now.to /\ g.curr = f.curr
      <3>1. "unlink" \in PcLabels
        BY DEF PcLabels
      <3>2. g \in Frame
        <4>1. e \in Frame /\ now.to \in Node \cup {NoRecord} /\ f.curr \in Node \cup {NoRecord}
          BY <1>1, <1>8, <1>9
        <4>2. QED
          BY ZenonT(120), <3>1, <4>1 DEF Frame
      <3>3. QED
        BY <1>8, <3>2 DEF Frame
    <2> HIDE DEF g
    <2>2. Rank(m, now.to) # Rank(m, f.curr)
      BY <1>1, <1>9, <1>11 DEF Distinct
    <2>3. now.to \in C
      BY <1>1, <1>9, <2>2 DEF C, Cut, S, k
    <2>4. Distinct(m2, C)
      BY <1>1, <1>2, <1>3 DEF Distinct
    <2>5. \A r \in C : Rank(m, r) = m.pointer[r] /\ m.pointer[r] \in Key
      BY <1>2, <1>5 DEF Rank, MapInv, PlaceInv
    <2>6. \A r \in C : /\ r \in S /\ Rank(m, f.prev) < Rank(m, r) /\ Rank(m, r) < Rank(m, f.curr)
      BY DEF C, Cut, S, k
    <2>7. ASSUME NEW r \in C
          PROVE  /\ m2.pointer[r] \in Key /\ m2.pointer[now.to] <= m2.pointer[r]
                 /\ \/ m2.word[r].to = f.curr /\ \A q \in C : m2.pointer[q] <= m2.pointer[r]
                    \/ Follows(m2, C, r, m2.word[r].to)
      <3>1. r \in S /\ r \in Record /\ r # TailOf(k) /\ r # f.prev /\ r \in Node
        BY <1>1, <1>2, <1>6, <2>6, Nodes
      <3>2. m2.word[r] = m.word[r]
        BY <1>3, <3>1
      <3> DEFINE b == m.word[r].to
      <3>3. Follows(m, S, r, b)
        BY <1>1, <3>1 DEF MapInv, ListInv, S
      <3> HIDE DEF b
      <3>4. b \in S /\ Rank(m, r) < Rank(m, b) /\ Rank(m, b) \in Nat
        BY <1>6, <3>3 DEF Follows
      <3>5. Rank(m, b) <= Rank(m, f.curr)
        BY <1>1, <1>6, <2>6, <3>1, <3>3 DEF Follows
      <3>6. m2.pointer[r] \in Key /\ m2.pointer[now.to] <= m2.pointer[r]
        <4>1. Rank(m, now.to) <= Rank(m, r)
          BY <1>1, <1>6, <2>6 DEF Follows
        <4>2. QED
          BY <1>3, <2>3, <2>5, <4>1
      <3>7. CASE b = f.curr
        <4>1. \A q \in C : Rank(m, q) <= Rank(m, r)
          BY <1>1, <1>6, <2>6, <3>3, <3>7 DEF Follows
        <4>2. \A q \in C : m2.pointer[q] <= m2.pointer[r]
          BY <1>3, <2>5, <4>1
        <4>3. QED
          BY <3>2, <3>6, <3>7, <4>2 DEF b
      <3>8. CASE b # f.curr
        <4>1. Rank(m, b) # Rank(m, f.curr)
          BY <1>1, <3>4, <3>8 DEF Distinct
        <4>2. b \in C
          BY <1>1, <1>6, <2>6, <3>1, <3>4, <3>5, <4>1 DEF C, Cut, S, k
        <4>3. Follows(m2, C, r, b)
          BY <1>3, <2>6, <3>3, <4>2 DEF Follows
        <4>4. QED
          BY <3>2, <3>6, <4>3 DEF b
      <3>9. QED
        BY <3>7, <3>8
    <2>8. CallInv(g) /\ MineInv(m2, t, g)
      BY <1>1, <2>1 DEF CallInv, MineInv, Walking
    <2>9. GoneInv(m2, t, g)
      BY <1>1, <1>2, <1>4, <2>1, <2>3, <2>4, <2>7 DEF GoneInv
    <2>10. PrevInv(m2, g) /\ CurrInv(m2, g) /\ MetInv(m2, g)
      BY <2>1 DEF PrevInv, CurrInv, MetInv, Walking
    <2>11. StepsInv(m2, g)
      <3>1. \A i \in 0 .. MaxPrev - 1 : g.prevs[i].r = NoRecord
        BY <2>1 DEF NoPlace
      <3>2. 0 \in 0 .. MaxPrev - 1
        BY Numbers
      <3>3. QED
        BY <2>1, <3>1, <3>2 DEF StepsInv, Walking
    <2>12. FrameInv(m2, t, g)
      BY <2>8, <2>9, <2>10, <2>11 DEF FrameInv
    <2>13. QED
      BY <1>11, <2>12 DEF g, e, d, a
  <1>12. QED
    BY <1>10, <1>11

-----------------------------------------------------------------------------
(* The calls.                                                              *)

LEMMA InvokeKeeps ==
    ASSUME NEW m, MapInv(m), NEW t \in Thread, NEW f, FrameInv(m, t, f), f.pc = "idle",
           NEW op \in Operation, NEW k \in Key
    PROVE  FrameInv(m, t, [f EXCEPT !.op = op, !.key = k, !.pc = "head"])
  <1> DEFINE g == [f EXCEPT !.op = op, !.key = k, !.pc = "head"]
  <1>1. f = Idle /\ f \in Frame /\ Gone(m, t) = {}
    BY DEF FrameInv, CallInv, GoneInv
  <1>2. /\ Idle.my = NoRecord /\ Idle.removed = FALSE /\ Idle.steps = 0
        /\ Idle.prevs = [i \in 0 .. MaxPrev - 1 |-> NoPlace]
    BY DEF Idle
  <1>3. /\ f.my = NoRecord /\ f.removed = FALSE /\ f.steps = 0
        /\ f.prevs = [i \in 0 .. MaxPrev - 1 |-> NoPlace]
    BY <1>1, <1>2
  <1>4. /\ g \in Frame /\ g.pc = "head" /\ g.op = op /\ g.key = k /\ g.my = f.my /\ g.removed = f.removed
        /\ g.steps = f.steps /\ g.prevs = f.prevs
    BY ZenonT(120), <1>1 DEF Frame, PcLabels
  <1> HIDE DEF g
  <1>5. CallInv(g) /\ MineInv(m, t, g) /\ GoneInv(m, t, g)
    BY <1>1, <1>3, <1>4 DEF CallInv, MineInv, GoneInv, Walking
  <1>6. PrevInv(m, g) /\ CurrInv(m, g) /\ MetInv(m, g)
    BY <1>4 DEF PrevInv, CurrInv, MetInv, Walking
  <1>7. \A i \in 0 .. MaxPrev - 1 : g.prevs[i].r = NoRecord
    BY <1>3, <1>4 DEF NoPlace
  <1>8. StepsInv(m, g)
    <2>1. 0 \in 0 .. MaxPrev - 1
      BY Numbers
    <2>2. \A i \in 0 .. MaxPrev - 1 : ~(i < 0)
      OBVIOUS
    <2>3. QED
      BY <1>3, <1>4, <1>7, <2>1, <2>2 DEF StepsInv, Walking
  <1>9. QED
    BY <1>5, <1>6, <1>8 DEF FrameInv, g

LEMMA IdleKeeps ==
    ASSUME NEW m, MapInv(m), NEW t, Gone(m, t) = {}
    PROVE  FrameInv(m, t, Idle)
  <1>1. /\ Idle \in Frame /\ Idle.pc = "idle" /\ Idle.my = NoRecord /\ Idle.removed = FALSE
        /\ Idle.steps = 0 /\ Idle.prevs = [i \in 0 .. MaxPrev - 1 |-> NoPlace]
    BY BlankWord DEF Idle
  <1>2. CallInv(Idle) /\ MineInv(m, t, Idle) /\ GoneInv(m, t, Idle)
    BY <1>1 DEF CallInv, MineInv, GoneInv, Walking
  <1>3. PrevInv(m, Idle) /\ CurrInv(m, Idle) /\ MetInv(m, Idle)
    BY <1>1 DEF PrevInv, CurrInv, MetInv, Walking
  <1>4. \A i \in 0 .. MaxPrev - 1 : Idle.prevs[i].r = NoRecord
    BY <1>1 DEF NoPlace
  <1>5. StepsInv(m, Idle)
    <2>1. 0 \in 0 .. MaxPrev - 1
      BY Numbers
    <2>2. \A i \in 0 .. MaxPrev - 1 : ~(i < 0)
      OBVIOUS
    <2>3. QED
      BY <1>1, <1>4, <2>1, <2>2 DEF StepsInv, Walking
  <1>6. QED
    BY <1>2, <1>3, <1>5 DEF FrameInv

-----------------------------------------------------------------------------
(* The references.                                                         *)

LEMMA EmptyCard == ASSUME NEW S, IsFiniteSet(S) PROVE Cardinality(S) \in Nat /\ (Cardinality(S) = 0 <=> S = {})
  BY FS_EmptySet, FS_CardinalityType

\* One reference in the place of another one.
LEMMA Swapped ==
    ASSUME NEW S, IsFiniteSet(S), NEW x \in S, NEW y, y \notin S
    PROVE  IsFiniteSet((S \ {x}) \cup {y}) /\ Cardinality((S \ {x}) \cup {y}) = Cardinality(S)
  <1>1. IsFiniteSet(S \ {x}) /\ Cardinality(S \ {x}) = Cardinality(S) - 1 /\ Cardinality(S) \in Nat
    BY FS_RemoveElement, FS_CardinalityType
  <1>2. y \notin S \ {x}
    OBVIOUS
  <1>3. /\ IsFiniteSet((S \ {x}) \cup {y})
        /\ Cardinality((S \ {x}) \cup {y}) = Cardinality(S \ {x}) + 1
    BY <1>1, <1>2, FS_AddElement
  <1>4. QED
    BY <1>1, <1>3

\* The frame of t changes, and the references that it holds may.
Moves(t, h, F, h2, F2) ==
    /\ h \in [Thread -> [Key -> Nat]] /\ h2 \in [Thread -> [Key -> Nat]]
    /\ \A s \in Thread : s # t => F2[s] = F[s] /\ h2[s] = h[s]

LEMMA HeldSame ==
    ASSUME NEW t \in Thread, NEW h, NEW F, NEW h2, NEW F2, Moves(t, h, F, h2, F2), NEW k \in Key,
           h2[t][k] = h[t][k], Pending(F2[t], k) <=> Pending(F[t], k)
    PROVE  Held(h2, F2, k) = Held(h, F, k)
  <1>1. \A s \in Thread : h2[s][k] = h[s][k] /\ (Pending(F2[s], k) <=> Pending(F[s], k))
    BY DEF Moves
  <1>2. \A x \in Thread \X Nat : x[1] \in Thread
    OBVIOUS
  <1>3. QED
    BY <1>1, <1>2 DEF Held

LEMMA HeldOne ==
    ASSUME NEW t \in Thread, NEW h, NEW F, NEW h2, NEW F2, Moves(t, h, F, h2, F2), NEW k \in Key,
           h2[t][k] = h[t][k]
    PROVE  /\ <<t, 0>> \in Held(h, F, k) <=> Pending(F[t], k)
           /\ Pending(F2[t], k) => Held(h2, F2, k) = Held(h, F, k) \cup {<<t, 0>>}
           /\ ~Pending(F2[t], k) => Held(h2, F2, k) = Held(h, F, k) \ {<<t, 0>>}
  <1>1. \A s \in Thread : s # t => h2[s][k] = h[s][k] /\ (Pending(F2[s], k) <=> Pending(F[s], k))
    BY DEF Moves
  <1>2. \A s \in Thread, i \in Nat : <<s, i>> \in Held(h, F, k)
                                     <=> (IF i = 0 THEN Pending(F[s], k) ELSE i <= h[s][k])
    BY DEF Held
  <1>3. \A s \in Thread, i \in Nat : <<s, i>> \in Held(h2, F2, k)
                                     <=> (IF i = 0 THEN Pending(F2[s], k) ELSE i <= h2[s][k])
    BY DEF Held
  <1>4. /\ \A x \in Held(h, F, k) : \E s \in Thread, i \in Nat : x = <<s, i>>
        /\ \A x \in Held(h2, F2, k) : \E s \in Thread, i \in Nat : x = <<s, i>>
    BY DEF Held
  <1>5. \A s \in Thread, i \in Nat : <<s, i>> = <<t, 0>> <=> s = t /\ i = 0
    OBVIOUS
  <1>6. \A s \in Thread, i \in Nat : ~(s = t /\ i = 0) =>
            (<<s, i>> \in Held(h2, F2, k) <=> <<s, i>> \in Held(h, F, k))
    BY <1>1, <1>2, <1>3
  <1>7. /\ <<t, 0>> \in Held(h, F, k) <=> Pending(F[t], k)
        /\ <<t, 0>> \in Held(h2, F2, k) <=> Pending(F2[t], k)
    BY <1>2, <1>3
  <1>8. ASSUME Pending(F2[t], k) PROVE Held(h2, F2, k) = Held(h, F, k) \cup {<<t, 0>>}
    <2>1. Held(h2, F2, k) \subseteq Held(h, F, k) \cup {<<t, 0>>}
      BY <1>4, <1>5, <1>6
    <2>2. Held(h, F, k) \cup {<<t, 0>>} \subseteq Held(h2, F2, k)
      BY <1>4, <1>5, <1>6, <1>7, <1>8
    <2>3. QED
      BY <2>1, <2>2
  <1>9. ASSUME ~Pending(F2[t], k) PROVE Held(h2, F2, k) = Held(h, F, k) \ {<<t, 0>>}
    <2>1. Held(h2, F2, k) \subseteq Held(h, F, k) \ {<<t, 0>>}
      BY <1>4, <1>5, <1>6, <1>7, <1>9
    <2>2. Held(h, F, k) \ {<<t, 0>>} \subseteq Held(h2, F2, k)
      BY <1>4, <1>5, <1>6
    <2>3. QED
      BY <2>1, <2>2
  <1>10. QED
    BY <1>7, <1>8, <1>9

\* A reference that t holds becomes the one of its call, or the reverse.
Traded(t, h, F, h2, F2, k) ==
    \/ h2[t][k] = h[t][k] - 1 /\ ~Pending(F[t], k) /\ Pending(F2[t], k)
    \/ h2[t][k] = h[t][k] + 1 /\ Pending(F[t], k) /\ ~Pending(F2[t], k)

LEMMA HeldMoved ==
    ASSUME NEW t \in Thread, NEW h, NEW F, NEW h2, NEW F2, Moves(t, h, F, h2, F2), NEW k \in Key,
           IsFiniteSet(Held(h, F, k)), Traded(t, h, F, h2, F2, k)
    PROVE  IsFiniteSet(Held(h2, F2, k)) /\ Cardinality(Held(h2, F2, k)) = Cardinality(Held(h, F, k))
  <1>1. \A s \in Thread : s # t => h2[s][k] = h[s][k] /\ (Pending(F2[s], k) <=> Pending(F[s], k))
    BY DEF Moves
  <1>2. \A s \in Thread, i \in Nat : <<s, i>> \in Held(h, F, k)
                                     <=> (IF i = 0 THEN Pending(F[s], k) ELSE i <= h[s][k])
    BY DEF Held
  <1>3. \A s \in Thread, i \in Nat : <<s, i>> \in Held(h2, F2, k)
                                     <=> (IF i = 0 THEN Pending(F2[s], k) ELSE i <= h2[s][k])
    BY DEF Held
  <1>4. /\ \A x \in Held(h, F, k) : \E s \in Thread, i \in Nat : x = <<s, i>>
        /\ \A x \in Held(h2, F2, k) : \E s \in Thread, i \in Nat : x = <<s, i>>
    BY DEF Held
  <1>5. h[t][k] \in Nat /\ h2[t][k] \in Nat
    BY DEF Moves
  <1>6. CASE h2[t][k] = h[t][k] - 1 /\ ~Pending(F[t], k) /\ Pending(F2[t], k)
    <2> DEFINE n == h[t][k]
    <2>1. n \in Nat /\ n # 0 /\ h2[t][k] = n - 1
      BY <1>5, <1>6
    <2> HIDE DEF n
    <2>2. \A s \in Thread, i \in Nat : /\ <<s, i>> = <<t, n>> <=> s = t /\ i = n
                                       /\ <<s, i>> = <<t, 0>> <=> s = t /\ i = 0
      OBVIOUS
    <2>3. \A s \in Thread, i \in Nat :
              <<s, i>> \in Held(h2, F2, k)
              <=> <<s, i>> = <<t, 0>> \/ (<<s, i>> \in Held(h, F, k) /\ <<s, i>> # <<t, n>>)
      <3>1. \A s \in Thread, i \in Nat : s # t => (<<s, i>> \in Held(h2, F2, k) <=> <<s, i>> \in Held(h, F, k))
        BY <1>1, <1>2, <1>3
      <3>2. <<t, 0>> \in Held(h2, F2, k)
        BY <1>3, <1>6
      <3>3. \A i \in Nat : i # 0 => (<<t, i>> \in Held(h2, F2, k) <=> i <= n - 1)
        BY <1>3, <2>1
      <3>4. \A i \in Nat : i # 0 => (<<t, i>> \in Held(h, F, k) <=> i <= n)
        BY <1>2 DEF n
      <3>5. \A i \in Nat : i <= n - 1 <=> i <= n /\ i # n
        BY <2>1
      <3>6. <<t, 0>> \notin Held(h, F, k)
        BY <1>2, <1>6
      <3>7. \A i \in Nat : <<t, i>> \in Held(h2, F2, k)
                            <=> i = 0 \/ (<<t, i>> \in Held(h, F, k) /\ i # n)
        BY <2>1, <3>2, <3>3, <3>4, <3>5, <3>6
      <3>8. QED
        BY <2>2, <3>1, <3>7
    <2>4. <<t, n>> \in Held(h, F, k) /\ <<t, 0>> \notin Held(h, F, k)
      BY <1>2, <1>6, <2>1 DEF n
    <2>5. Held(h2, F2, k) \subseteq (Held(h, F, k) \ {<<t, n>>}) \cup {<<t, 0>>}
      BY <1>4, <2>3
    <2>6. (Held(h, F, k) \ {<<t, n>>}) \cup {<<t, 0>>} \subseteq Held(h2, F2, k)
      BY <1>4, <2>3
    <2>7. Held(h2, F2, k) = (Held(h, F, k) \ {<<t, n>>}) \cup {<<t, 0>>}
      BY <2>5, <2>6
    <2>8. QED
      BY <2>4, <2>7, Swapped
  <1>7. CASE h2[t][k] = h[t][k] + 1 /\ Pending(F[t], k) /\ ~Pending(F2[t], k)
    <2> DEFINE n == h2[t][k]
    <2>1. n \in Nat /\ n # 0 /\ n = h[t][k] + 1
      BY <1>5, <1>7
    <2> HIDE DEF n
    <2>2. \A s \in Thread, i \in Nat : /\ <<s, i>> = <<t, n>> <=> s = t /\ i = n
                                       /\ <<s, i>> = <<t, 0>> <=> s = t /\ i = 0
      OBVIOUS
    <2>3. \A s \in Thread, i \in Nat :
              <<s, i>> \in Held(h2, F2, k)
              <=> <<s, i>> = <<t, n>> \/ (<<s, i>> \in Held(h, F, k) /\ <<s, i>> # <<t, 0>>)
      <3>1. \A s \in Thread, i \in Nat : s # t => (<<s, i>> \in Held(h2, F2, k) <=> <<s, i>> \in Held(h, F, k))
        BY <1>1, <1>2, <1>3
      <3>2. <<t, 0>> \notin Held(h2, F2, k)
        BY <1>3, <1>7
      <3>3. \A i \in Nat : i # 0 => (<<t, i>> \in Held(h2, F2, k) <=> i <= n)
        BY <1>3 DEF n
      <3>4. \A i \in Nat : i # 0 => (<<t, i>> \in Held(h, F, k) <=> i <= n - 1)
        BY <1>2, <1>5, <2>1
      <3>5. \A i \in Nat : i <= n <=> i <= n - 1 \/ i = n
        BY <2>1
      <3>6. \A i \in Nat : <<t, i>> \in Held(h2, F2, k)
                            <=> i = n \/ (<<t, i>> \in Held(h, F, k) /\ i # 0)
        BY <2>1, <3>2, <3>3, <3>4, <3>5
      <3>7. QED
        BY <2>2, <3>1, <3>6
    <2>4. <<t, 0>> \in Held(h, F, k) /\ <<t, n>> \notin Held(h, F, k)
      BY <1>2, <1>5, <1>7, <2>1
    <2>5. Held(h2, F2, k) \subseteq (Held(h, F, k) \ {<<t, 0>>}) \cup {<<t, n>>}
      BY <1>4, <2>3
    <2>6. (Held(h, F, k) \ {<<t, 0>>}) \cup {<<t, n>>} \subseteq Held(h2, F2, k)
      BY <1>4, <2>3, <2>1
    <2>7. Held(h2, F2, k) = (Held(h, F, k) \ {<<t, 0>>}) \cup {<<t, n>>}
      BY <2>5, <2>6
    <2>8. QED
      BY <2>4, <2>7, Swapped
  <1>8. QED
    BY <1>6, <1>7 DEF Traded

\* The counters stay, and so do the references.
LEMMA CountSame ==
    ASSUME NEW m, MapInv(m), NEW h, NEW F, CountInv(m, h, F), NEW m2, NEW h2, NEW F2,
           h2 \in [Thread -> [Key -> Nat]],
           \A k \in Key : /\ IsFiniteSet(Held(h2, F2, k))
                          /\ Cardinality(Held(h2, F2, k)) = Cardinality(Held(h, F, k)),
           \A r \in Record : m2.at[r] = "linked" =>
              m.at[r] = "linked" /\ m2.pointer[r] = m.pointer[r] /\ m2.word[r].ref = m.word[r].ref,
           \A r \in Record : m.at[r] = "linked" /\ ~Dead(m, r) =>
              m2.at[r] = "linked" /\ m2.pointer[r] = m.pointer[r]
    PROVE  CountInv(m2, h2, F2)
  <1>1. \A r \in Record : m.at[r] = "linked" => m.pointer[r] \in Key
    BY DEF MapInv, PlaceInv
  <1>2. \A r \in Record : m2.at[r] = "linked" =>
          m2.word[r].ref = Cardinality(Held(h2, F2, m2.pointer[r]))
    BY <1>1 DEF CountInv
  <1>3. ASSUME NEW k \in Key, Held(h2, F2, k) # {}
        PROVE  \E r \in Record : m2.at[r] = "linked" /\ m2.pointer[r] = k
    <2>1. Cardinality(Held(h, F, k)) # 0 /\ IsFiniteSet(Held(h, F, k))
      BY <1>3, EmptyCard DEF CountInv
    <2>2. Held(h, F, k) # {}
      BY <2>1, EmptyCard
    <2>3. PICK r \in Record : m.at[r] = "linked" /\ m.pointer[r] = k
      BY <2>2 DEF CountInv
    <2>4. ~Dead(m, r)
      BY <2>1, <2>3 DEF CountInv, Dead
    <2>5. QED
      BY <2>3, <2>4
  <1>4. QED
    BY <1>2, <1>3 DEF CountInv

\* What a reference, or a call that has one, says of the Record.
LEMMA HeldIsLive ==
    ASSUME NEW m, MapInv(m), NEW h, NEW F, CountInv(m, h, F), NEW k \in Key, Held(h, F, k) # {}
    PROVE  \E r \in Record : m.at[r] = "linked" /\ m.pointer[r] = k /\ ~Dead(m, r)
  <1>1. IsFiniteSet(Held(h, F, k))
    BY DEF CountInv
  <1>2. Cardinality(Held(h, F, k)) # 0
    BY <1>1, EmptyCard
  <1>3. PICK r \in Record : m.at[r] = "linked" /\ m.pointer[r] = k
    BY DEF CountInv
  <1>4. ~Dead(m, r)
    BY <1>2, <1>3 DEF CountInv, Dead
  <1>5. QED
    BY <1>3, <1>4

\* Two linked Records of one pointer are one.
LEMMA OneRecord ==
    ASSUME NEW m, MapInv(m), NEW r \in Record, NEW q \in Record, m.at[r] = "linked", m.at[q] = "linked",
           m.pointer[r] = m.pointer[q]
    PROVE  r = q
  <1>1. m.pointer[r] \in Key /\ ListOf(m.pointer[r]) \in Lists
    BY Keyed DEF MapInv, PlaceInv
  <1> DEFINE l == ListOf(m.pointer[r])
  <1>2. r \in Members(m, l) /\ q \in Members(m, l)
    BY DEF Members
  <1>3. Distinct(m, Members(m, l))
    BY <1>1 DEF MapInv, ListInv
  <1>4. Rank(m, r) = Rank(m, q)
    BY Ranks DEF MapInv
  <1>5. QED
    BY <1>2, <1>3, <1>4 DEF Distinct

\* The counter of one Record changes with a reference to its pointer.
Recounts(m, m2, F, F2, t, c) ==
    /\ m2.at = m.at /\ m2.pointer = m.pointer
    /\ \A r \in Record : r # c => m2.word[r].ref = m.word[r].ref
    /\ \A k \in Key : k # m.pointer[c] => (Pending(F2[t], k) <=> Pending(F[t], k))
    /\ \/ /\ ~Pending(F[t], m.pointer[c]) /\ Pending(F2[t], m.pointer[c])
          /\ m2.word[c].ref = m.word[c].ref + 1
       \/ /\ Pending(F[t], m.pointer[c]) /\ ~Pending(F2[t], m.pointer[c])
          /\ m2.word[c].ref = m.word[c].ref - 1

LEMMA CountOne ==
    ASSUME NEW m, MapInv(m), NEW h, NEW F, CountInv(m, h, F), NEW m2, NEW F2,
           NEW t \in Thread, Moves(t, h, F, h, F2),
           NEW c \in Record, m.at[c] = "linked", Recounts(m, m2, F, F2, t, c)
    PROVE  CountInv(m2, h, F2)
  <1> USE DEF Recounts
  <1> DEFINE p == m.pointer[c]
             H(k) == Held(h, F, k)
             H2(k) == Held(h, F2, k)
  <1>1. /\ p \in Key /\ \A r \in Record : m.at[r] = "linked" => m.pointer[r] \in Key
    BY DEF MapInv, PlaceInv
  <1>2. \A k \in Key : k # p => H2(k) = H(k)
    BY HeldSame
  <1>3. IsFiniteSet(H(p)) /\ m.word[c].ref = Cardinality(H(p)) /\ Cardinality(H(p)) \in Nat
    BY <1>1, EmptyCard DEF CountInv
  <1>4. IsFiniteSet(H2(p)) /\ m2.word[c].ref = Cardinality(H2(p))
    <2>1. /\ <<t, 0>> \in H(p) <=> Pending(F[t], p)
          /\ Pending(F2[t], p) => H2(p) = H(p) \cup {<<t, 0>>}
          /\ ~Pending(F2[t], p) => H2(p) = H(p) \ {<<t, 0>>}
      BY <1>1, HeldOne
    <2>2. CASE ~Pending(F[t], p) /\ Pending(F2[t], p) /\ m2.word[c].ref = m.word[c].ref + 1
      <3>1. H2(p) = H(p) \cup {<<t, 0>>}
        BY <2>1, <2>2
      <3>2. <<t, 0>> \notin H(p)
        BY <2>1, <2>2
      <3> HIDE DEF H, H2, p
      <3>3. IsFiniteSet(H2(p)) /\ Cardinality(H2(p)) = Cardinality(H(p)) + 1
        BY <1>3, <3>1, <3>2, FS_AddElement
      <3>4. QED
        BY <1>3, <2>2, <3>3
    <2>3. CASE Pending(F[t], p) /\ ~Pending(F2[t], p) /\ m2.word[c].ref = m.word[c].ref - 1
      <3>1. H2(p) = H(p) \ {<<t, 0>>}
        BY <2>1, <2>3
      <3>2. <<t, 0>> \in H(p)
        BY <2>1, <2>3
      <3> HIDE DEF H, H2, p
      <3>3. IsFiniteSet(H2(p)) /\ Cardinality(H2(p)) = Cardinality(H(p)) - 1
        BY <1>3, <3>1, <3>2, FS_RemoveElement
      <3>4. QED
        BY <1>3, <2>3, <3>3
    <2>4. QED
      BY <2>2, <2>3
  <1>5. \A k \in Key : IsFiniteSet(H2(k))
    BY <1>2, <1>4 DEF CountInv
  <1>6. ASSUME NEW r \in Record, m2.at[r] = "linked" PROVE m2.word[r].ref = Cardinality(H2(m2.pointer[r]))
    <2>1. CASE r = c
      BY <1>4, <2>1
    <2>2. CASE r # c
      <3>1. m.pointer[r] # p /\ m.pointer[r] \in Key
        BY <1>1, <1>6, <2>2, OneRecord
      <3>2. H2(m.pointer[r]) = H(m.pointer[r])
        BY <1>2, <3>1
      <3>3. m.word[r].ref = Cardinality(H(m.pointer[r]))
        BY <1>6 DEF CountInv
      <3>4. QED
        BY <2>2, <3>2, <3>3
    <2>3. QED
      BY <2>1, <2>2
  <1>7. ASSUME NEW k \in Key, H2(k) # {} PROVE \E r \in Record : m2.at[r] = "linked" /\ m2.pointer[r] = k
    BY <1>2, <1>7 DEF CountInv
  <1>8. h \in [Thread -> [Key -> Nat]]
    BY DEF CountInv
  <1>9. QED
    BY <1>5, <1>6, <1>7, <1>8 DEF CountInv

\* The Record that the CAS links has the first reference to its pointer.
LEMMA CountLink ==
    ASSUME NEW m, MapInv(m), NEW h, NEW F, CountInv(m, h, F), NEW F2,
           NEW t \in Thread, Moves(t, h, F, h, F2),
           NEW f, FrameInv(m, t, f), f.pc = "cas", f.op = "RECORD",
           m.word[f.prev] = f.prevNext, m.word[f.prev].next + 1 < NextMod,
           NEW m2, m2 = AfterCas(m, t, f),
           \A k \in Key : k # f.key => (Pending(F2[t], k) <=> Pending(F[t], k)),
           ~Pending(F[t], f.key), Pending(F2[t], f.key)
    PROVE  CountInv(m2, h, F2)
  <1> DEFINE k == f.key
             S == Members(m, ListOf(f.key))
  <1>1. /\ k \in Key /\ ListOf(k) \in Lists
        /\ Rank(m, f.prev) < k /\ k < Rank(m, f.curr)
        /\ OnlyDead(m, S, f.prev, f.curr)
        /\ f.my \in Record /\ m.at[f.my] = "mine" /\ m.pointer[f.my] = k /\ m.word[f.my].ref = 1
    BY CasSetting
  <1>2. /\ m2.pointer = m.pointer
        /\ \A n \in Node : m2.word[n].ref = m.word[n].ref
        /\ \A r \in Record :
             /\ r \in Cut(m, f) => m2.at[r] = "gone"
             /\ Linking(f, r) => m2.at[r] = "linked"
             /\ r \notin Cut(m, f) /\ ~Linking(f, r) => m2.at[r] = m.at[r]
    BY AfterCasIs
  <1>3. \A r \in Cut(m, f) : Dead(m, r)
    BY CutIs
  <1>4. \A r \in Record : m.at[r] = "linked" /\ m.pointer[r] = k => r \in Cut(m, f)
    <2>1. SUFFICES ASSUME NEW r \in Record, m.at[r] = "linked", m.pointer[r] = k PROVE r \in Cut(m, f)
      OBVIOUS
    <2>2. r \in S /\ Rank(m, r) = k
      BY <2>1, Ranks DEF MapInv, Members
    <2>3. QED
      BY <1>1, <2>2 DEF Cut
  <1>5. Held(h, F, k) = {}
    <2>1. SUFFICES ASSUME Held(h, F, k) # {} PROVE FALSE
      OBVIOUS
    <2>2. PICK r \in Record : m.at[r] = "linked" /\ m.pointer[r] = k /\ ~Dead(m, r)
      BY <1>1, <2>1, HeldIsLive
    <2>3. QED
      BY <1>3, <1>4, <2>2
  <1>6. Held(h, F2, k) = {<<t, 0>>}
    <2>1. /\ <<t, 0>> \in Held(h, F, k) <=> Pending(F[t], k)
          /\ Pending(F2[t], k) => Held(h, F2, k) = Held(h, F, k) \cup {<<t, 0>>}
          /\ ~Pending(F2[t], k) => Held(h, F2, k) = Held(h, F, k) \ {<<t, 0>>}
      BY <1>1, HeldOne
    <2>2. QED
      BY <1>5, <2>1
  <1>7. IsFiniteSet(Held(h, F2, k)) /\ Cardinality(Held(h, F2, k)) = 1
    BY <1>6, FS_Singleton
  <1>8. \A j \in Key : j # k => Held(h, F2, j) = Held(h, F, j)
    BY HeldSame
  <1>9. \A j \in Key : IsFiniteSet(Held(h, F2, j))
    BY <1>7, <1>8 DEF CountInv
  <1>10. ASSUME NEW r \in Record, m2.at[r] = "linked"
         PROVE  m2.word[r].ref = Cardinality(Held(h, F2, m2.pointer[r]))
    <2>1. m2.word[r].ref = m.word[r].ref
      BY <1>2, Nodes
    <2>2. CASE r = f.my
      BY <1>1, <1>2, <1>7, <2>1, <2>2
    <2>3. CASE r # f.my
      <3>1. m.at[r] = "linked" /\ r \notin Cut(m, f)
        BY <1>2, <1>10, <2>3 DEF Linking
      <3>2. m.pointer[r] # k /\ m.pointer[r] \in Key
        BY <1>4, <3>1 DEF MapInv, PlaceInv
      <3>3. Held(h, F2, m.pointer[r]) = Held(h, F, m.pointer[r])
        BY <1>8, <3>2
      <3>4. m.word[r].ref = Cardinality(Held(h, F, m.pointer[r]))
        BY <3>1 DEF CountInv
      <3>5. QED
        BY <1>2, <2>1, <3>3, <3>4
    <2>4. QED
      BY <2>2, <2>3
  <1>11. ASSUME NEW j \in Key, Held(h, F2, j) # {}
         PROVE  \E r \in Record : m2.at[r] = "linked" /\ m2.pointer[r] = j
    <2>1. CASE j = k
      BY <1>1, <1>2, <2>1 DEF Linking
    <2>2. CASE j # k
      <3>1. PICK r \in Record : m.at[r] = "linked" /\ m.pointer[r] = j /\ ~Dead(m, r)
        BY <1>8, <1>11, <2>2, HeldIsLive
      <3>2. r \notin Cut(m, f)
        BY <1>3, <3>1
      <3>3. ~Linking(f, r)
        BY <1>1, <3>1 DEF Linking
      <3>4. QED
        BY <1>2, <3>1, <3>2, <3>3
    <2>3. QED
      BY <2>1, <2>2
  <1>12. h \in [Thread -> [Key -> Nat]]
    BY DEF CountInv
  <1>13. QED
    BY <1>9, <1>10, <1>11, <1>12 DEF CountInv

-----------------------------------------------------------------------------
(* What the callers see.                                                   *)

AnswerInv(f) == f.pc \in Walking \cup {"head", "back"} => f.answer = 0

\* The frame goes on, and its caller learns at most what its search has found.
SameCall(f, g) ==
    /\ g.op = f.op /\ g.key = f.key /\ g.my = f.my /\ AnswerInv(g)
    /\ \/ Stage(g) = Stage(f) /\ g.answer = f.answer
       \/ /\ f.op = "SEARCH" /\ f.pc \in {"readPrev", "checkCurr"}
          /\ Stage(f) = "called" /\ Stage(g) = "done"

\* So it does, and it is not about to check what it has read.
Calm(f, g) == SameCall(f, g) /\ g.pc \notin {"readPointer", "readPrev"}

LEMMA SamePending ==
    ASSUME NEW f, NEW g, SameCall(f, g), NEW k
    PROVE  Pending(g, k) <=> Pending(f, k)
  BY DEF SameCall, Pending, Stage

LEMMA WalkSame ==
    ASSUME NEW f, NEW g, f.pc \in Walking \cup {"head", "back"}, g.pc \in Walking \cup {"head", "back"},
           AnswerInv(f), g.op = f.op, g.key = f.key, g.my = f.my, g.removed = f.removed,
           g.answer = f.answer
    PROVE  SameCall(f, g)
  BY DEF SameCall, Stage, Settled, AnswerInv, Walking

LEMMA WalkCalm ==
    ASSUME NEW f, NEW g, f.pc \in Walking \cup {"head", "back"}, g.pc \in Walking \cup {"head", "back"},
           AnswerInv(f), g.op = f.op, g.key = f.key, g.my = f.my, g.removed = f.removed,
           g.answer = f.answer, g.pc \notin {"readPointer", "readPrev"}
    PROVE  Calm(f, g)
  BY WalkSame DEF Calm

LEMMA LookAtAnswer ==
    ASSUME NEW f \in Frame, NEW n
    PROVE  LookAt(f, n).answer = f.answer
  BY DEF LookAt, Frame

LEMMA LookCalm ==
    ASSUME NEW f \in Frame, NEW w \in Word, f.pc \in Walking \cup {"head", "back"}, AnswerInv(f)
    PROVE  Calm(f, LookAt(f, w.to)) /\ Calm(f, Follow(f, w))
  <1>1. w.to \in Node
    BY WordFields
  <1> DEFINE e == LookAt(f, w.to)
             g == Follow(f, w)
  <1>2. /\ e \in Frame /\ e.pc = "readCurr" /\ e.op = f.op /\ e.key = f.key /\ e.my = f.my
        /\ e.removed = f.removed /\ e.answer = f.answer
    BY <1>1, LookAtIs, LookAtAnswer
  <1>3. g = [e EXCEPT !.prevNext = w, !.found = NoRecord, !.foundNext = Blank]
    BY DEF Follow
  <1> HIDE DEF e
  <1>4. g.answer = f.answer
    BY <1>2, <1>3 DEF Frame
  <1>5. /\ g.pc = "readCurr" /\ g.op = f.op /\ g.key = f.key /\ g.my = f.my /\ g.removed = f.removed
    BY FollowIs
  <1> HIDE DEF g
  <1>6. Calm(f, e)
    BY <1>2, WalkCalm DEF Walking
  <1>7. Calm(f, g)
    BY <1>4, <1>5, WalkCalm DEF Walking
  <1>8. QED
    BY <1>6, <1>7 DEF e, g

LEMMA RestartCalm ==
    ASSUME NEW f \in Frame, f.pc \in Walking, AnswerInv(f)
    PROVE  Calm(f, Restarted(f))
  <1> DEFINE g == Restarted(f)
  <1>1. CASE build.restart = "head"
    <2>1. g = [f EXCEPT !.pc = "head"]
      BY <1>1 DEF Restarted
    <2> HIDE DEF g
    <2>2. /\ g.pc = "head" /\ g.op = f.op /\ g.key = f.key /\ g.my = f.my /\ g.removed = f.removed
          /\ g.answer = f.answer
      BY <2>1 DEF Frame
    <2>3. Calm(f, g)
      BY <2>2, WalkCalm
    <2>4. QED
      BY <2>3 DEF g
  <1>2. CASE build.restart # "head"
    <2>1. g = [f EXCEPT !.pc = "back", !.steps = @ - 1]
      BY <1>2 DEF Restarted
    <2> HIDE DEF g
    <2>2. /\ g.pc = "back" /\ g.op = f.op /\ g.key = f.key /\ g.my = f.my /\ g.removed = f.removed
          /\ g.answer = f.answer
      BY <2>1 DEF Frame
    <2>3. Calm(f, g)
      BY <2>2, WalkCalm
    <2>4. QED
      BY <2>3 DEF g
  <1>3. QED
    BY <1>1, <1>2

\* A search, or a call that has taken effect, has its answer.
LEMMA AnswerCalm ==
    ASSUME NEW f, NEW e \in Frame, e.op = f.op, e.key = f.key, e.my = f.my, NEW a \in Int,
           f.pc \in {"readPrev", "checkCurr"}, AnswerInv(f),
           (f.op = "SEARCH" /\ ~f.removed) \/ (f.removed /\ a = 0)
    PROVE  Calm(f, Answer(e, a))
  <1> DEFINE g == Answer(e, a)
  <1>1. g.pc = "return" /\ g.op = f.op /\ g.key = f.key /\ g.answer = a /\ g.my = f.my
    BY AnswerIs
  <1> HIDE DEF g
  <1>2. Calm(f, g)
    BY <1>1 DEF Calm, SameCall, Stage, Settled, AnswerInv, Walking
  <1>3. QED
    BY <1>2 DEF g

LEMMA FromHeadCalm ==
    ASSUME NEW f \in Frame, f.pc = "head", AnswerInv(f), NEW w \in Word, NEW h \in Node
    PROVE  Calm(f, [Follow(f, w) EXCEPT !.prev = h])
  <1> DEFINE e == Follow(f, w)
             g == [Follow(f, w) EXCEPT !.prev = h]
  <1>1. /\ e \in Frame /\ e.pc = "readCurr" /\ e.op = f.op /\ e.key = f.key /\ e.my = f.my
        /\ e.removed = f.removed
    BY FollowIs
  <1>2. Calm(f, e)
    BY LookCalm
  <1>3. g = [e EXCEPT !.prev = h]
    OBVIOUS
  <1> HIDE DEF e, g
  <1>4. /\ g.pc = e.pc /\ g.op = e.op /\ g.key = e.key /\ g.my = e.my /\ g.removed = e.removed
        /\ g.answer = e.answer
    BY <1>1, <1>3 DEF Frame
  <1>5. Calm(f, g)
    BY <1>2, <1>4 DEF Calm, SameCall, Stage, Settled, AnswerInv
  <1>6. QED
    BY <1>5 DEF g

LEMMA ReadCalm ==
    ASSUME NEW f \in Frame, f.pc \in Walking, AnswerInv(f), NEW w \in Word, NEW k \in Key \cup {0}
    PROVE  /\ SameCall(f, [f EXCEPT !.currNext = w, !.pc = "readPointer"])
           /\ SameCall(f, [f EXCEPT !.currKey = k, !.pc = "readPrev"])
           /\ \A pc \in Walking \ {"readPointer", "readPrev"} :
                /\ Calm(f, [f EXCEPT !.prevNext = w, !.pc = pc])
                /\ Calm(f, [f EXCEPT !.foundNext = w, !.pc = pc])
                /\ Calm(f, [f EXCEPT !.pc = pc])
           /\ f.pc \notin {"readPointer", "readPrev"} =>
                Calm(f, [f EXCEPT !.foundNext = w]) /\ Calm(f, [f EXCEPT !.prevNext = w])
  <1>1. ASSUME NEW pc \in Walking \ {"readPointer", "readPrev"}
        PROVE  /\ Calm(f, [f EXCEPT !.prevNext = w, !.pc = pc])
               /\ Calm(f, [f EXCEPT !.foundNext = w, !.pc = pc])
               /\ Calm(f, [f EXCEPT !.pc = pc])
    <2>1. SUFFICES ASSUME NEW g, g \in {[f EXCEPT !.prevNext = w, !.pc = pc],
                                       [f EXCEPT !.foundNext = w, !.pc = pc], [f EXCEPT !.pc = pc]}
                   PROVE  Calm(f, g)
      OBVIOUS
    <2>2. /\ g.pc = pc /\ g.op = f.op /\ g.key = f.key /\ g.my = f.my /\ g.removed = f.removed
          /\ g.answer = f.answer
      BY ZenonT(120), <2>1 DEF Frame
    <2>3. QED
      BY <2>2, WalkCalm
  <1>2. ASSUME NEW g, g \in {[f EXCEPT !.currNext = w, !.pc = "readPointer"],
                            [f EXCEPT !.currKey = k, !.pc = "readPrev"],
                            [f EXCEPT !.foundNext = w], [f EXCEPT !.prevNext = w]}
        PROVE  SameCall(f, g)
    <2>1. /\ g.pc \in {"readPointer", "readPrev", f.pc} /\ g.op = f.op /\ g.key = f.key /\ g.my = f.my
          /\ g.removed = f.removed /\ g.answer = f.answer
      BY ZenonT(120), <1>2 DEF Frame
    <2>2. g.pc \in Walking
      BY <2>1 DEF Walking
    <2>3. QED
      BY <2>1, <2>2, WalkSame
  <1>3. [f EXCEPT !.foundNext = w].pc = f.pc /\ [f EXCEPT !.prevNext = w].pc = f.pc
    BY DEF Frame
  <1>4. QED
    BY <1>1, <1>2, <1>3 DEF Calm

LEMMA ReadPrevCalm ==
    ASSUME NEW m, MapInv(m), NEW t, NEW f, FrameInv(m, t, f), f.pc = "readPrev", AnswerInv(f),
           NEW now, now = m.word[f.prev], now \in Word,
           f.op = "REMOVE" /\ ~f.removed =>
             \E r \in Record : m.at[r] = "linked" /\ m.pointer[r] = f.key /\ ~Dead(m, r)
    PROVE  Calm(f, Judged(f, now))
  <1> USE DEF Judged
  <1> DEFINE e == [f EXCEPT !.prevNext = now]
  <1>1. f \in Frame /\ f.pc \in Walking /\ f.op \in Operation /\ (f.removed => f.op = "REMOVE")
    BY DEF FrameInv, CallInv, Walking
  <1>2. CASE Stale(f.prevNext, now)
    BY <1>1, <1>2, RestartCalm
  <1>3. CASE ~Stale(f.prevNext, now) /\ NextChanged(f.prevNext, now)
    BY <1>1, <1>3, LookCalm
  <1>4. CASE ~Stale(f.prevNext, now) /\ ~NextChanged(f.prevNext, now)
    <2>1. Good(m, f)
      BY <1>1, <1>4, GoodPrev DEF NextChanged
    <2>2. Behind(f) => f.op = "SEARCH" \/ f.removed \/ f.op = "RECORD"
      BY <1>1, <2>1, NeverMissed DEF Operation
    <2>3. e \in Frame /\ e.op = f.op /\ e.key = f.key /\ e.my = f.my
      BY <1>1 DEF Frame
    <2>4. f.op = "SEARCH" => ~f.removed
      BY <1>1
    <2>5. f.currNext.ref \in Int
      BY <1>1, WordFields DEF Frame
    <2>6. \A pc \in Walking \ {"readPointer", "readPrev"} : Calm(f, [e EXCEPT !.pc = pc])
      <3>1. \A pc \in Walking : [e EXCEPT !.pc = pc] = [f EXCEPT !.prevNext = now, !.pc = pc]
        OBVIOUS
      <3>2. \A pc \in Walking \ {"readPointer", "readPrev"} : Calm(f, [f EXCEPT !.prevNext = now, !.pc = pc])
        BY <1>1, ReadCalm
      <3>3. QED
        BY <3>1, <3>2
    <2> HIDE DEF e
    <2>7. ASSUME f.op = "SEARCH" \/ f.removed PROVE Calm(f, Answer(e, 0))
      BY <2>3, <2>4, <2>7, AnswerCalm
    <2>8. ASSUME f.op = "SEARCH" PROVE Calm(f, Answer(e, f.currNext.ref))
      BY <2>3, <2>4, <2>5, <2>8, AnswerCalm
    <2>9. /\ {"cas", "get", "setWord", "checkCurr"} \subseteq Walking \ {"readPointer", "readPrev"}
          /\ f.op = "REMOVE" => f.op # "SEARCH" /\ f.op # "RECORD"
      BY DEF Walking
    <2>10. Calm(f, IF Behind(f)
             THEN IF f.op = "SEARCH" \/ (f.op = "REMOVE" /\ now.to = f.curr)
                  THEN Answer(e, 0)
                  ELSE [e EXCEPT !.pc =
                          IF f.op = "REMOVE" THEN "cas"
                          ELSE IF f.my = NoRecord THEN "get" ELSE "setWord"]
             ELSE IF f.op = "SEARCH" /\ f.currKey = f.key /\ build.search = "first"
             THEN Answer(e, f.currNext.ref)
             ELSE [e EXCEPT !.pc = "checkCurr"])
      BY <2>2, <2>6, <2>7, <2>8, <2>9
    <2>11. QED
      BY <1>4, <2>10 DEF e
  <1>5. QED
    BY <1>2, <1>3, <1>4

LEMMA BackCalm ==
    ASSUME NEW f \in Frame, f.pc = "back", AnswerInv(f), NEW place, NEW now \in Word
    PROVE  Calm(f, IF Stale(place, now) THEN [f EXCEPT !.steps = @ - 1]
                   ELSE [Follow(f, now) EXCEPT !.prev = place.r])
  <1>1. CASE Stale(place, now)
    <2> DEFINE g == [f EXCEPT !.steps = @ - 1]
    <2>1. /\ g.pc = f.pc /\ g.op = f.op /\ g.key = f.key /\ g.my = f.my /\ g.removed = f.removed
          /\ g.answer = f.answer
      BY DEF Frame
    <2> HIDE DEF g
    <2>2. Calm(f, g)
      BY <2>1, WalkCalm
    <2>3. QED
      BY <1>1, <2>2 DEF g
  <1>2. CASE ~Stale(place, now)
    <2> DEFINE e == Follow(f, now)
               g == [Follow(f, now) EXCEPT !.prev = place.r]
    <2>1. e \in Frame
      BY FollowIs
    <2>2. Calm(f, e)
      BY LookCalm
    <2>3. g = [e EXCEPT !.prev = place.r]
      OBVIOUS
    <2> HIDE DEF e, g
    <2>4. /\ g.pc = e.pc /\ g.op = e.op /\ g.key = e.key /\ g.my = e.my /\ g.removed = e.removed
          /\ g.answer = e.answer
      BY <2>1, <2>3 DEF Frame
    <2>5. Calm(f, g)
      BY <2>2, <2>4 DEF Calm, SameCall, Stage, Settled, AnswerInv
    <2>6. QED
      BY <1>2, <2>5 DEF g
  <1>3. QED
    BY <1>1, <1>2

LEMMA RecheckCalm ==
    ASSUME NEW f \in Frame, f.pc \in Walking, AnswerInv(f), NEW now \in Word
    PROVE  Calm(f, Recheck(f, now))
  BY RestartCalm, LookCalm DEF Recheck

LEMMA AdvanceIs ==
    ASSUME NEW f \in Frame, NEW now \in Word
    PROVE  Advance(f, now).pc = "readCurr" /\ Advance(f, now).removed = f.removed
  <1> DEFINE e == LookAt(f, now.to)
             g == Advance(f, now)
  <1>1. e \in Frame /\ e.pc = "readCurr" /\ e.removed = f.removed
    BY LookAtIs, WordFields
  <1>2. PICK e2 : e2 = [e EXCEPT !.prev = f.curr, !.prevNext = now]
    OBVIOUS
  <1>3. \/ g = e2
        \/ \E i, p : g = [e2 EXCEPT !.steps = i, !.prevs = p]
    BY <1>2 DEF Advance
  <1> HIDE DEF e, g
  <1>4. g.pc = e.pc /\ g.removed = e.removed
    BY <1>1, <1>2, <1>3 DEF Frame
  <1>5. QED
    BY <1>1, <1>4 DEF g

LEMMA AdvanceCalm ==
    ASSUME NEW f \in Frame, f.pc \in Walking, AnswerInv(f), NEW now \in Word
    PROVE  Calm(f, Advance(f, now))
  <1> DEFINE e == LookAt(f, now.to)
             g == Advance(f, now)
  <1>1. e \in Frame
    BY LookAtIs, WordFields
  <1>2. Calm(f, e)
    BY LookCalm
  <1>3. PICK e2 : e2 = [e EXCEPT !.prev = f.curr, !.prevNext = now]
    OBVIOUS
  <1>4. \/ g = e2
        \/ \E i, p : g = [e2 EXCEPT !.steps = i, !.prevs = p]
    BY <1>3 DEF Advance
  <1> HIDE DEF e, g
  <1>5. /\ e2.pc = e.pc /\ e2.op = e.op /\ e2.key = e.key /\ e2.my = e.my /\ e2.removed = e.removed
        /\ e2.answer = e.answer
    BY <1>1, <1>3 DEF Frame
  <1>6. /\ g.pc = e2.pc /\ g.op = e2.op /\ g.key = e2.key /\ g.my = e2.my /\ g.removed = e2.removed
        /\ g.answer = e2.answer
    BY <1>1, <1>3, <1>4 DEF Frame
  <1>7. Calm(f, g)
    BY <1>2, <1>5, <1>6 DEF Calm, SameCall, Stage, Settled, AnswerInv
  <1>8. QED
    BY <1>7 DEF g

LEMMA CheckCurrCalm ==
    ASSUME NEW f \in Frame, f.pc = "checkCurr", AnswerInv(f), f.removed => f.op = "REMOVE",
           NEW now \in Word
    PROVE  Calm(f, Checked(f, now))
  <1> USE DEF Checked
  <1>1. f.pc \in Walking /\ {"recheckPrev", "sub", "plus"} \subseteq Walking \ {"readPointer", "readPrev"}
    BY DEF Walking
  <1>2. Calm(f, LookAt(f, now.to)) /\ Calm(f, Advance(f, now))
    BY <1>1, LookCalm, AdvanceCalm
  <1>3. f.removed => Calm(f, Answer(f, 0))
    BY <1>1, AnswerCalm
  <1>4. now.ref \in Int
    BY WordFields
  <1>5. ASSUME f.op = "SEARCH", ~f.removed PROVE Calm(f, Answer(f, now.ref))
    BY <1>4, <1>5, AnswerCalm
  <1>6. /\ Calm(f, [f EXCEPT !.pc = "recheckPrev"])
        /\ Calm(f, [f EXCEPT !.foundNext = now, !.pc = IF f.op = "REMOVE" THEN "sub" ELSE "plus"])
    BY <1>1, ReadCalm
  <1>7. QED
    BY <1>2, <1>3, <1>5, <1>6

LEMMA PlusFailsCalm ==
    ASSUME NEW f \in Frame, f.pc = "plus", AnswerInv(f), NEW now \in Word
    PROVE  Calm(f, IF f.foundNext.node # now.node THEN [f EXCEPT !.pc = "recheckPrev"]
                   ELSE IF Deleted(now) THEN LookAt(f, now.to)
                   ELSE [f EXCEPT !.foundNext = now])
  <1>1. f.pc \in Walking /\ "recheckPrev" \in Walking \ {"readPointer", "readPrev"}
    BY DEF Walking
  <1>2. QED
    BY <1>1, LookCalm, ReadCalm

LEMMA CasFailsCalm ==
    ASSUME NEW f \in Frame, f.pc = "cas", AnswerInv(f), NEW now \in Word
    PROVE  Calm(f, IF Stale(f.prevNext, now) THEN Restarted(f)
                   ELSE IF NextChanged(f.prevNext, now) THEN Follow(f, now)
                   ELSE [f EXCEPT !.prevNext = now])
  <1>1. f.pc \in Walking
    BY DEF Walking
  <1>2. QED
    BY <1>1, LookCalm, ReadCalm, RestartCalm

\* A walk whose prev is what it has read goes on, and so it stays.
Tracks(m, m2, f, g) ==
    f.pc \in {"head", "back"} \/ (f.pc \in Walking /\ m.word[f.prev] = f.prevNext) =>
      /\ g.pc \in Walking => m2.word[g.prev] = g.prevNext
      /\ f.pc \in Walking => /\ g.pc \notin {"head", "back"}
                             /\ ~(g.pc = "readCurr" /\ g.prev = f.prev /\ g.prevNext # f.prevNext)

LEMMA AnswerTracks ==
    ASSUME NEW m, NEW m2, NEW f, NEW g, g.pc \notin Walking \cup {"head", "back"}
    PROVE  Tracks(m, m2, f, g)
  BY DEF Tracks, Walking

LEMMA AnswersTrack ==
    ASSUME NEW m, NEW m2, NEW f, NEW e \in Frame, NEW a \in Int
    PROVE  Tracks(m, m2, f, Answer(e, a))
  <1>1. Answer(e, a).pc = "return"
    BY AnswerIs
  <1>2. "return" \notin Walking \cup {"head", "back"}
    BY DEF Walking
  <1>3. QED
    BY <1>1, <1>2, AnswerTracks

LEMMA StayTracks ==
    ASSUME NEW m, NEW m2, NEW f, NEW g, f.pc \in Walking, g.prev = f.prev, g.prevNext = f.prevNext,
           g.pc \notin {"head", "back"}, m2.word[f.prev] = m.word[f.prev]
    PROVE  Tracks(m, m2, f, g)
  BY DEF Tracks, Walking

\* What a walk goes on with has been read just now.
LEMMA ReadTracks ==
    ASSUME NEW m, NEW f, NEW g, g.pc \notin {"head", "back"}, g.prevNext = m.word[g.prev]
    PROVE  Tracks(m, m, f, g)
  BY DEF Tracks, Walking

LEMMA FollowTracks ==
    ASSUME NEW m, NEW f \in Frame, NEW p \in Node, m.word[p] \in Word
    PROVE  /\ Tracks(m, m, f, [Follow(f, m.word[p]) EXCEPT !.prev = p])
           /\ p = f.prev => Tracks(m, m, f, Follow(f, m.word[p]))
  <1> DEFINE e == Follow(f, m.word[p])
             g == [Follow(f, m.word[p]) EXCEPT !.prev = p]
  <1>1. e \in Frame /\ e.pc = "readCurr" /\ e.prev = f.prev /\ e.prevNext = m.word[p]
    BY FollowIs
  <1>2. g = [e EXCEPT !.prev = p]
    OBVIOUS
  <1> HIDE DEF e, g
  <1>3. g.pc = "readCurr" /\ g.prev = p /\ g.prevNext = m.word[p]
    BY <1>1, <1>2 DEF Frame
  <1>4. Tracks(m, m, f, g)
    BY <1>3, ReadTracks
  <1>5. p = f.prev => Tracks(m, m, f, e)
    BY <1>1, ReadTracks
  <1>6. QED
    BY <1>4, <1>5 DEF e, g

\* prev turns out to be no longer good.
LEMMA RestartTracks ==
    ASSUME NEW m, NEW m2, NEW f \in Frame, f.pc \in Walking, f.prevNext.ref # 0,
           Stale(f.prevNext, m.word[f.prev]), NEW g
    PROVE  Tracks(m, m2, f, g)
  BY DEF Tracks, Stale, Deleted, Walking

LEMMA ReadPrevTracks ==
    ASSUME NEW m, NEW f \in Frame, f.pc = "readPrev", f.prevNext.ref # 0,
           NEW now \in Word, now = m.word[f.prev], f.prev \in Node
    PROVE  Tracks(m, m, f, Judged(f, now))
  <1> USE DEF Judged
  <1> DEFINE e == [f EXCEPT !.prevNext = now]
  <1>0. f.pc \in Walking
    BY DEF Walking
  <1>1. Stale(f.prevNext, now) => Tracks(m, m, f, Restarted(f))
    BY <1>0, RestartTracks
  <1>2. Tracks(m, m, f, Follow(f, now))
    BY FollowTracks
  <1>3. e \in Frame /\ e.prev = f.prev /\ e.prevNext = now
    BY DEF Frame
  <1>4. f.currNext.ref \in Int
    BY WordFields DEF Frame
  <1> HIDE DEF e
  <1>5. Tracks(m, m, f, Answer(e, 0)) /\ Tracks(m, m, f, Answer(e, f.currNext.ref))
    BY <1>3, <1>4, AnswersTrack
  <1>6. ASSUME NEW pc \in {"checkCurr", "cas", "get", "setWord"} PROVE Tracks(m, m, f, [e EXCEPT !.pc = pc])
    <2> DEFINE g == [e EXCEPT !.pc = pc]
    <2>1. g.pc = pc /\ g.prev = f.prev /\ g.prevNext = now
      BY <1>3 DEF Frame
    <2> HIDE DEF g
    <2>2. Tracks(m, m, f, g)
      BY <2>1, ReadTracks
    <2>3. QED
      BY <2>2 DEF g
  <1>7. Tracks(m, m, f,
             IF Stale(f.prevNext, now) THEN Restarted(f)
             ELSE IF NextChanged(f.prevNext, now) THEN Follow(f, now)
             ELSE IF Behind(f)
             THEN IF f.op = "SEARCH" \/ (f.op = "REMOVE" /\ now.to = f.curr)
                  THEN Answer(e, 0)
                  ELSE [e EXCEPT !.pc =
                          IF f.op = "REMOVE" THEN "cas"
                          ELSE IF f.my = NoRecord THEN "get" ELSE "setWord"]
             ELSE IF f.op = "SEARCH" /\ f.currKey = f.key /\ build.search = "first"
             THEN Answer(e, f.currNext.ref)
             ELSE [e EXCEPT !.pc = "checkCurr"])
    BY <1>1, <1>2, <1>5, <1>6
  <1>8. QED
    BY <1>7 DEF e

LEMMA BackTracks ==
    ASSUME NEW m, NEW f \in Frame, f.pc = "back", NEW place, place.r \in Node,
           NEW now \in Word, now = m.word[place.r]
    PROVE  Tracks(m, m, f, IF Stale(place, now) THEN [f EXCEPT !.steps = @ - 1]
                           ELSE [Follow(f, now) EXCEPT !.prev = place.r])
  <1>1. "back" \notin Walking
    BY DEF Walking
  <1>2. [f EXCEPT !.steps = @ - 1].pc = "back"
    BY DEF Frame
  <1>3. Tracks(m, m, f, [f EXCEPT !.steps = @ - 1])
    BY <1>1, <1>2 DEF Tracks
  <1>4. QED
    BY <1>3, FollowTracks

LEMMA RecheckTracks ==
    ASSUME NEW m, NEW f \in Frame, f.pc \in Walking, f.prevNext.ref # 0,
           NEW now \in Word, now = m.word[f.prev], f.prev \in Node
    PROVE  Tracks(m, m, f, Recheck(f, now))
  BY RestartTracks, FollowTracks DEF Recheck

LEMMA LookTracks ==
    ASSUME NEW m, NEW f \in Frame, f.pc \in Walking, NEW n \in Node
    PROVE  Tracks(m, m, f, LookAt(f, n))
  BY LookAtIs, StayTracks

LEMMA EditTracks ==
    ASSUME NEW m, NEW f \in Frame, f.pc \in Walking, NEW w
    PROVE  /\ \A pc \in Walking : /\ Tracks(m, m, f, [f EXCEPT !.pc = pc])
                                  /\ Tracks(m, m, f, [f EXCEPT !.foundNext = w, !.pc = pc])
                                  /\ Tracks(m, m, f, [f EXCEPT !.currNext = w, !.pc = pc])
                                  /\ Tracks(m, m, f, [f EXCEPT !.currKey = w, !.pc = pc])
           /\ Tracks(m, m, f, [f EXCEPT !.foundNext = w])
  <1>1. ASSUME NEW pc \in Walking,
               NEW g, g \in {[f EXCEPT !.pc = pc], [f EXCEPT !.foundNext = w, !.pc = pc],
                             [f EXCEPT !.currNext = w, !.pc = pc], [f EXCEPT !.currKey = w, !.pc = pc],
                             [f EXCEPT !.foundNext = w]}
        PROVE  Tracks(m, m, f, g)
    <2>1. g.pc \in {pc, f.pc} /\ g.prev = f.prev /\ g.prevNext = f.prevNext
      BY <1>1 DEF Frame
    <2>2. g.pc \notin {"head", "back"}
      BY <2>1 DEF Walking
    <2>3. QED
      BY <2>1, <2>2, StayTracks
  <1>2. QED
    BY <1>1

LEMMA AdvanceTracks ==
    ASSUME NEW m, NEW f \in Frame, f.pc \in Walking, NEW now \in Word, now = m.word[f.curr]
    PROVE  Tracks(m, m, f, Advance(f, now))
  <1> DEFINE e == LookAt(f, now.to)
             g == Advance(f, now)
  <1>1. e \in Frame /\ e.pc = "readCurr"
    BY LookAtIs, WordFields
  <1>3. PICK e2 : e2 = [e EXCEPT !.prev = f.curr, !.prevNext = now]
    OBVIOUS
  <1>4. \/ g = e2
        \/ \E i, p : g = [e2 EXCEPT !.steps = i, !.prevs = p]
    BY <1>3 DEF Advance
  <1> HIDE DEF e, g
  <1>5. e2.pc = "readCurr" /\ e2.prev = f.curr /\ e2.prevNext = now
    BY <1>1, <1>3 DEF Frame
  <1>6. g.pc = e2.pc /\ g.prev = e2.prev /\ g.prevNext = e2.prevNext
    BY <1>1, <1>3, <1>4 DEF Frame
  <1>7. Tracks(m, m, f, g)
    BY <1>5, <1>6, ReadTracks
  <1>8. QED
    BY <1>7 DEF g

LEMMA CheckCurrTracks ==
    ASSUME NEW m, NEW f \in Frame, f.pc = "checkCurr", NEW now \in Word, now = m.word[f.curr]
    PROVE  Tracks(m, m, f, Checked(f, now))
  <1> USE DEF Checked
  <1>1. f.pc \in Walking /\ {"recheckPrev", "sub", "plus"} \subseteq Walking
    BY DEF Walking
  <1>2. now.to \in Node /\ now.ref \in Int
    BY WordFields
  <1>3. Tracks(m, m, f, LookAt(f, now.to)) /\ Tracks(m, m, f, Advance(f, now))
    BY <1>1, <1>2, LookTracks, AdvanceTracks
  <1>6. Tracks(m, m, f, Answer(f, 0)) /\ Tracks(m, m, f, Answer(f, now.ref))
    BY <1>2, AnswersTrack
  <1>7. /\ Tracks(m, m, f, [f EXCEPT !.pc = "recheckPrev"])
        /\ Tracks(m, m, f, [f EXCEPT !.foundNext = now, !.pc = IF f.op = "REMOVE" THEN "sub" ELSE "plus"])
    BY <1>1, EditTracks
  <1>8. QED
    BY <1>3, <1>6, <1>7

LEMMA PlusFailsTracks ==
    ASSUME NEW m, NEW f \in Frame, f.pc = "plus", NEW now \in Word
    PROVE  Tracks(m, m, f, IF f.foundNext.node # now.node THEN [f EXCEPT !.pc = "recheckPrev"]
                           ELSE IF Deleted(now) THEN LookAt(f, now.to)
                           ELSE [f EXCEPT !.foundNext = now])
  <1>1. f.pc \in Walking /\ "recheckPrev" \in Walking
    BY DEF Walking
  <1>2. now.to \in Node
    BY WordFields
  <1>3. QED
    BY <1>1, <1>2, LookTracks, EditTracks

LEMMA CasFailsTracks ==
    ASSUME NEW m, NEW f \in Frame, m.word[f.prev] # f.prevNext, f.pc = "cas", NEW g
    PROVE  Tracks(m, m, f, g)
  BY DEF Tracks

StateInv(m, h, F) ==
    /\ MapInv(m) /\ OwnInv(m, F) /\ CountInv(m, h, F)
    /\ F = [t \in Thread |-> F[t]]
    /\ \A t \in Thread : FrameInv(m, t, F[t]) /\ AnswerInv(F[t])

IsNow(m) == m.build = build /\ m.word = word /\ m.pointer = pointer /\ m.free = free

MInv == \E m : IsNow(m) /\ StateInv(m, held, frame)

\* A reference to k is counted, n times, by the live Record that holds k.
Counted(m, k, n) == \E r \in Record : m.at[r] = "linked" /\ m.pointer[r] = k /\ m.word[r].ref = n /\ n # 0

Uncounted(m, k) == \A r \in Record : m.at[r] = "linked" /\ m.pointer[r] = k => Dead(m, r)

\* The answer of a search is what is counted now, or was when it read curr.
Searched(m, f, g) ==
    \/ g.answer = 0 /\ Uncounted(m, f.key)
    \/ Counted(m, f.key, g.answer)
    \/ /\ f.pc = "readPrev" /\ Good(m, f) /\ f.curr \in Record /\ m.at[f.curr] = "linked"
       /\ m.pointer[f.curr] = f.key /\ g.answer = f.currNext.ref

\* What the caller of t learns.
Tells(m, m2, f, g, h, h2, t) ==
    \/ /\ h2 = h /\ g.op = f.op /\ g.key = f.key
       /\ Stage(g) = Stage(f) /\ g.answer = f.answer
    \/ /\ h2 = h /\ g.op = f.op /\ g.key = f.key /\ f.op = "SEARCH"
       /\ Stage(f) = "called" /\ Stage(g) = "done" /\ Searched(m, f, g)
    \/ /\ h2 = h /\ g.op = f.op /\ g.key = f.key /\ f.op \in {"RECORD", "REMOVE"}
       /\ Stage(f) = "called" /\ Stage(g) = "done"
       /\ \E r \in Record : m2.at[r] = "linked" /\ m2.pointer[r] = f.key /\ m2.word[r].ref = g.answer
    \/ /\ f.pc = "idle" /\ g.pc = "head" /\ g.op \in Operation /\ g.key \in Key /\ g.answer = 0
       /\ Stage(g) = "called"
       /\ h2 = IF g.op = "REMOVE" THEN [h EXCEPT ![t][g.key] = @ - 1] ELSE h
    \/ /\ f.pc = "return" /\ g = Idle
       /\ h2 = IF f.op = "RECORD" THEN [h EXCEPT ![t][f.key] = @ + 1] ELSE h

\* What t has read of curr is of now, or was read before.
Reads2(m, f, g) ==
    /\ g.pc = "readPointer" => /\ f.pc = "readCurr" /\ g.prev = f.prev /\ g.prevNext = f.prevNext
                               /\ g.curr = f.curr /\ g.currNext = m.word[f.curr]
    /\ g.pc = "readPrev" => /\ f.pc = "readPointer" /\ g.prev = f.prev /\ g.prevNext = f.prevNext
                            /\ g.curr = f.curr /\ g.currNext = f.currNext

Effect(m, m2, f, g, h, h2, t) ==
    /\ Tells(m, m2, f, g, h, h2, t) /\ Reads2(m, f, g) /\ Tracks(m, m2, f, g)

LEMMA SubsAreLive ==
    ASSUME NEW m, NEW h, NEW F, StateInv(m, h, F), NEW t \in Thread
    PROVE  /\ F[t].pc = "sub" => ~Dead(m, F[t].curr)
           /\ F[t].pc # "idle" /\ F[t].op = "REMOVE" /\ Stage(F[t]) = "called" =>
                \E r \in Record : m.at[r] = "linked" /\ m.pointer[r] = F[t].key /\ ~Dead(m, r)
  <1> DEFINE f == F[t]
             k == F[t].key
  <1>1. MapInv(m) /\ CountInv(m, h, F) /\ FrameInv(m, t, f) /\ CallInv(f) /\ MetInv(m, f)
    BY DEF StateInv, FrameInv
  <1>2. h \in [Thread -> [Key -> Nat]]
    BY <1>1 DEF CountInv
  <1>3. ASSUME f.pc # "idle", f.op = "REMOVE", Stage(f) = "called"
        PROVE  \E r \in Record : m.at[r] = "linked" /\ m.pointer[r] = k /\ ~Dead(m, r)
    <2>1. k \in Key /\ Pending(f, k)
      BY <1>1, <1>3 DEF CallInv, Pending
    <2>2. Moves(t, h, F, h, F)
      BY <1>2 DEF Moves
    <2>3. /\ <<t, 0>> \in Held(h, F, k) <=> Pending(F[t], k)
          /\ Pending(F[t], k) => Held(h, F, k) = Held(h, F, k) \cup {<<t, 0>>}
          /\ ~Pending(F[t], k) => Held(h, F, k) = Held(h, F, k) \ {<<t, 0>>}
      BY <2>1, <2>2, HeldOne
    <2>4. Held(h, F, k) # {}
      BY <2>1, <2>3
    <2>5. QED
      BY <1>1, <2>1, <2>4, HeldIsLive
  <1>4. ASSUME f.pc = "sub" PROVE ~Dead(m, f.curr)
    <2>1. /\ f.op = "REMOVE" /\ ~f.removed /\ f.curr \in Record
          /\ m.at[f.curr] = "linked" /\ m.pointer[f.curr] = f.key
      BY <1>1, <1>4 DEF CallInv, MetInv
    <2>2. f.pc # "idle" /\ Stage(f) = "called"
      BY <1>4, <2>1 DEF Stage, Settled
    <2>3. PICK r \in Record : m.at[r] = "linked" /\ m.pointer[r] = k /\ ~Dead(m, r)
      BY <1>3, <2>1, <2>2
    <2>4. r = f.curr
      BY <1>1, <2>1, <2>3, OneRecord
    <2>5. QED
      BY <2>3, <2>4
  <1>5. QED
    BY <1>3, <1>4

\* A Record that is with a thread stays in its frame.
Keeping(m, m2, t, f, g) == \A r \in Record : m2.at[r] = "mine" =>
    \/ m.at[r] = "mine" /\ m2.by[r] = m.by[r] /\ (m.by[r] = t => g.my = f.my)
    \/ m2.by[r] = t /\ g.my = r

LEMMA NextState ==
    ASSUME NEW m, NEW h, NEW F, StateInv(m, h, F), NEW t \in Thread, NEW m2, MapInv(m2), Evolves(m, m2, t),
           NEW g, FrameInv(m2, t, g), AnswerInv(g), NEW F2, F2 = [F EXCEPT ![t] = g],
           NEW h2, CountInv(m2, h2, F2), Keeping(m, m2, t, F[t], g)
    PROVE  StateInv(m2, h2, F2)
  <1>1. F = [s \in Thread |-> F[s]] /\ MapInv(m) /\ OwnInv(m, F)
    BY DEF StateInv
  <1>2. F2[t] = g /\ \A s \in Thread : s # t => F2[s] = F[s]
    BY <1>1
  <1>3. F2 = [s \in Thread |-> F2[s]]
    BY <1>1
  <1>4. ASSUME NEW s \in Thread PROVE FrameInv(m2, s, F2[s]) /\ AnswerInv(F2[s])
    <2>1. CASE s = t
      BY <1>2, <2>1
    <2>2. CASE s # t
      <3>1. FrameInv(m, s, F[s]) /\ AnswerInv(F[s]) /\ (F[s].pc = "sub" => ~Dead(m, F[s].curr))
        BY SubsAreLive DEF StateInv
      <3>2. FrameInv(m2, s, F[s])
        BY <1>1, <2>2, <3>1, OthersKeep
      <3>3. QED
        BY <1>2, <2>2, <3>1, <3>2
    <2>3. QED
      BY <2>1, <2>2
  <1>5. OwnInv(m2, F2)
    <2>1. SUFFICES ASSUME NEW r \in Record, m2.at[r] = "mine" PROVE F2[m2.by[r]].my = r
      BY DEF OwnInv
    <2>2. CASE m.at[r] = "mine" /\ m2.by[r] = m.by[r] /\ (m.by[r] = t => g.my = F[t].my)
      <3>1. F[m.by[r]].my = r /\ m.by[r] \in Thread
        BY <1>1, <2>2 DEF OwnInv, MapInv, PlaceInv
      <3>2. QED
        BY <1>2, <2>2, <3>1
    <2>3. CASE m2.by[r] = t /\ g.my = r
      BY <1>2, <2>3
    <2>4. QED
      BY <2>1, <2>2, <2>3 DEF Keeping
  <1>6. QED
    BY <1>3, <1>4, <1>5 DEF StateInv

LEMMA SameMap ==
    ASSUME NEW m, MapInv(m), NEW t
    PROVE  Evolves(m, m, t)
  <1>1. SameLists(m, m)
    BY DEF SameLists, MapInv, ListInv
  <1>2. SameOthers(m, m, t)
    BY DEF SameOthers
  <1>3. QED
    BY <1>1, <1>2, SameListsEvolve

\* The frame of t goes on and nothing else changes.
LEMMA QuietStep ==
    ASSUME NEW m, NEW h, NEW F, StateInv(m, h, F), NEW t \in Thread,
           NEW g, FrameInv(m, t, g), SameCall(F[t], g), NEW F2, F2 = [F EXCEPT ![t] = g]
    PROVE  StateInv(m, h, F2) /\ Evolves(m, m, t)
  <1>1. MapInv(m) /\ F = [s \in Thread |-> F[s]] /\ CountInv(m, h, F)
    BY DEF StateInv
  <1>2. Evolves(m, m, t)
    BY <1>1, SameMap
  <1>3. F2[t] = g /\ \A s \in Thread : s # t => F2[s] = F[s]
    BY <1>1
  <1>4. h \in [Thread -> [Key -> Nat]]
    BY <1>1 DEF CountInv
  <1>5. Moves(t, h, F, h, F2)
    BY <1>3, <1>4 DEF Moves
  <1>6. \A k \in Key : Pending(F2[t], k) <=> Pending(F[t], k)
    BY <1>3, SamePending
  <1>7. ASSUME NEW k \in Key PROVE Held(h, F2, k) = Held(h, F, k)
    <2>1. \A s \in Thread : Pending(F2[s], k) <=> Pending(F[s], k)
      BY <1>3, <1>6
    <2>2. \A x \in Thread \X Nat : x[1] \in Thread
      OBVIOUS
    <2>3. QED
      BY <2>1, <2>2 DEF Held
  <1>8. CountInv(m, h, F2)
    <2>1. \A r \in Record : m.at[r] = "linked" => m.pointer[r] \in Key
      BY <1>1 DEF MapInv, PlaceInv
    <2>2. QED
      BY <1>1, <1>7, <2>1 DEF CountInv
  <1>9. AnswerInv(g) /\ g.my = F[t].my
    BY DEF SameCall
  <1>10. Keeping(m, m, t, F[t], g)
    BY <1>9 DEF Keeping
  <1>11. StateInv(m, h, F2)
    BY <1>1, <1>2, <1>8, <1>9, <1>10, NextState
  <1>12. QED
    BY <1>2, <1>11

IsNext(m) == m.build = build' /\ m.word = word' /\ m.pointer = pointer' /\ m.free = free'

\* A step of t takes the map m to m2.
Takes(m, m2, t) ==
    /\ IsNext(m2) /\ StateInv(m2, held', frame') /\ Evolves(m, m2, t)
    /\ frame' = [frame EXCEPT ![t] = frame'[t]]
    /\ Effect(m, m2, frame[t], frame'[t], held, held', t)

LEMMA Quiet ==
    ASSUME NEW m, IsNow(m), StateInv(m, held, frame), NEW t \in Thread, Reads,
           NEW g, frame' = [frame EXCEPT ![t] = g], FrameInv(m, t, g),
           Calm(frame[t], g), Stage(frame[t]) # Stage(g) => Searched(m, frame[t], g),
           Tracks(m, m, frame[t], g)
    PROVE  Takes(m, m, t)
  <1>1. IsNext(m) /\ held' = held
    BY DEF Reads, IsNow, IsNext, shared
  <1>2. frame = [s \in Thread |-> frame[s]]
    BY DEF StateInv
  <1>3. frame'[t] = g
    BY <1>2
  <1>4. SameCall(frame[t], g) /\ g.pc \notin {"readPointer", "readPrev"}
    BY DEF Calm
  <1>5. StateInv(m, held, frame') /\ Evolves(m, m, t)
    BY <1>4, QuietStep
  <1>6. Tells(m, m, frame[t], g, held, held', t)
    BY <1>1, <1>4 DEF Tells, SameCall
  <1>7. Reads2(m, frame[t], g)
    BY <1>4 DEF Reads2
  <1>8. Effect(m, m, frame[t], g, held, held', t)
    BY <1>6, <1>7 DEF Effect
  <1>9. QED
    BY <1>1, <1>3, <1>5, <1>8 DEF Takes

\* What every action finds.
LEMMA Standing ==
    ASSUME NEW m, IsNow(m), StateInv(m, held, frame), NEW t \in Thread, NEW f, f = frame[t]
    PROVE  /\ MapInv(m) /\ FrameInv(m, t, f) /\ AnswerInv(f) /\ f \in Frame
           /\ m.build = build /\ m.word = word /\ m.pointer = pointer /\ m.free = free
           /\ \A n \in Node : m.word[n] \in Word
           /\ f.removed => f.op = "REMOVE"
           /\ f.pc # "idle" => f.op \in Operation /\ f.key \in Key
           /\ frame = [s \in Thread |-> frame[s]]
           /\ f.pc \in Walking => f.prevNext.ref # 0 /\ f.prev \in Node /\ f.curr \in Node
  <1>1. MapInv(m) /\ FrameInv(m, t, f) /\ AnswerInv(f) /\ frame = [s \in Thread |-> frame[s]]
    BY DEF StateInv
  <1>2. f \in Frame /\ (f.removed => f.op = "REMOVE") /\ (f.pc # "idle" => f.op \in Operation /\ f.key \in Key)
    BY <1>1 DEF FrameInv, CallInv
  <1>3. \A n \in Node : m.word[n] \in Word
    BY <1>1 DEF MapInv, MapType
  <1>4. ASSUME f.pc \in Walking PROVE f.prevNext.ref # 0 /\ f.prev \in Node /\ f.curr \in Node
    <2>1. f.pc # "idle"
      BY <1>4 DEF Walking
    <2>2. f.key \in Key /\ ListOf(f.key) \in Lists
      BY <1>2, <2>1, Keyed
    <2>3. Before(m, f.prev, f.prevNext.node, f.key) /\ f.prevNext.ref # 0 /\ f.curr \in Node
      BY <1>1, <1>4 DEF FrameInv, PrevInv, CurrInv
    <2>4. f.prev \in Node
      BY <2>2, <2>3, Nodes DEF Before
    <2>5. QED
      BY <2>3, <2>4
  <1>5. QED
    BY <1>1, <1>2, <1>3, <1>4 DEF IsNow

LEMMA FromHeadTakes ==
    ASSUME NEW m, IsNow(m), StateInv(m, held, frame), NEW t \in Thread, FromHead(t)
    PROVE  Takes(m, m, t)
  <1> DEFINE f == frame[t]
             head == HeadOf(ListOf(frame[t].key))
             g == [Follow(frame[t], word[HeadOf(ListOf(frame[t].key))]) EXCEPT !.prev = HeadOf(ListOf(frame[t].key))]
  <1>1. f.pc = "head" /\ frame' = [frame EXCEPT ![t] = g] /\ Reads
    BY DEF FromHead
  <1>2. /\ MapInv(m) /\ FrameInv(m, t, f) /\ AnswerInv(f) /\ f \in Frame /\ m.word = word
        /\ f.key \in Key /\ \A n \in Node : m.word[n] \in Word
    BY <1>1, Standing
  <1>3. head \in Node
    BY <1>2, Keyed, Nodes
  <1>4. FrameInv(m, t, g)
    BY <1>1, <1>2, FromHeadKeeps
  <1>5. Calm(f, g)
    BY <1>1, <1>2, <1>3, FromHeadCalm
  <1>6. Stage(f) = Stage(g)
    BY <1>1, <1>5 DEF Calm, SameCall
  <1>7. Tracks(m, m, f, g)
    BY <1>2, <1>3, FollowTracks
  <1>8. QED
    BY <1>1, <1>4, <1>5, <1>6, <1>7, Quiet

LEMMA BackTakes ==
    ASSUME NEW m, IsNow(m), StateInv(m, held, frame), NEW t \in Thread, Back(t)
    PROVE  Takes(m, m, t)
  <1> DEFINE f == frame[t]
             place == f.prevs[Bucket(f)]
             now == word[place.r]
             g == IF Stale(place, now) THEN [f EXCEPT !.steps = @ - 1]
                  ELSE [Follow(f, now) EXCEPT !.prev = place.r]
  <1>1. f.pc = "back" /\ frame' = [frame EXCEPT ![t] = g] /\ Reads
    BY DEF Back
  <1>2. /\ MapInv(m) /\ m.build = build /\ FrameInv(m, t, f) /\ AnswerInv(f) /\ f \in Frame /\ m.word = word
        /\ f.key \in Key /\ \A n \in Node : m.word[n] \in Word
    BY <1>1, Standing
  <1>3. place.r \in Node /\ now \in Word
    <2>1. Bucket(f) \in 0 .. MaxPrev - 1
      BY <1>2, Numbers DEF Bucket, Frame
    <2>2. m.build.restart # "head" /\ place.r # NoRecord
      BY <1>1, <1>2 DEF FrameInv, StepsInv
    <2>3. place \in Place
      BY <1>2, <2>1 DEF Frame
    <2>4. QED
      BY <1>2, <2>2, <2>3 DEF Place
  <1> HIDE DEF place
  <1>4. FrameInv(m, t, g)
    BY <1>1, <1>2, BackKeeps DEF place
  <1>5. Calm(f, g)
    BY <1>1, <1>2, <1>3, BackCalm
  <1>6. Stage(f) = Stage(g)
    BY <1>1, <1>5 DEF Calm, SameCall
  <1>7. Tracks(m, m, f, g)
    BY <1>1, <1>2, <1>3, BackTracks
  <1>8. QED
    BY <1>1, <1>4, <1>5, <1>6, <1>7, Quiet

LEMMA RecheckTakes ==
    ASSUME NEW m, IsNow(m), StateInv(m, held, frame), NEW t \in Thread, RecheckPrev(t)
    PROVE  Takes(m, m, t)
  <1> DEFINE f == frame[t]
             g == Recheck(frame[t], word[frame[t].prev])
  <1>1. f.pc = "recheckPrev" /\ frame' = [frame EXCEPT ![t] = g] /\ Reads
    BY DEF RecheckPrev
  <1>2. f.pc \in Walking
    BY <1>1 DEF Walking
  <1>3. /\ MapInv(m) /\ m.build = build /\ FrameInv(m, t, f) /\ AnswerInv(f) /\ f \in Frame /\ m.word = word
        /\ f.prevNext.ref # 0 /\ f.prev \in Node /\ word[f.prev] \in Word
    BY <1>2, Standing
  <1>4. FrameInv(m, t, g)
    BY <1>2, <1>3, RecheckKeeps
  <1>5. Calm(f, g)
    BY <1>2, <1>3, RecheckCalm
  <1>6. Stage(f) = Stage(g)
    BY <1>1, <1>5 DEF Calm, SameCall
  <1>7. Tracks(m, m, f, g)
    BY <1>2, <1>3, RecheckTracks
  <1>8. QED
    BY <1>1, <1>4, <1>5, <1>6, <1>7, Quiet

LEMMA AnswerOf == ASSUME NEW f \in Frame, NEW a \in Int PROVE Answer(f, a).answer = a
  BY AnswerIs

LEMMA ReadTakes ==
    ASSUME NEW m, IsNow(m), StateInv(m, held, frame), NEW t \in Thread, Reads,
           NEW g, frame' = [frame EXCEPT ![t] = g], FrameInv(m, t, g),
           SameCall(frame[t], g), Stage(frame[t]) = Stage(g), Reads2(m, frame[t], g),
           Tracks(m, m, frame[t], g)
    PROVE  Takes(m, m, t)
  <1>1. IsNext(m) /\ held' = held
    BY DEF Reads, IsNow, IsNext, shared
  <1>2. frame = [s \in Thread |-> frame[s]]
    BY DEF StateInv
  <1>3. frame'[t] = g
    BY <1>2
  <1>5. StateInv(m, held, frame') /\ Evolves(m, m, t)
    BY QuietStep
  <1>6. Tells(m, m, frame[t], g, held, held', t)
    BY <1>1 DEF Tells, SameCall
  <1>8. Effect(m, m, frame[t], g, held, held', t)
    BY <1>6 DEF Effect
  <1>9. QED
    BY <1>1, <1>3, <1>5, <1>8 DEF Takes

LEMMA ReadCurrTakes ==
    ASSUME NEW m, IsNow(m), StateInv(m, held, frame), NEW t \in Thread, ReadCurr(t)
    PROVE  Takes(m, m, t)
  <1> DEFINE f == frame[t]
             w == word[frame[t].curr]
             g == [f EXCEPT !.currNext = w, !.pc = "readPointer"]
  <1>0. frame = [s \in Thread |-> frame[s]]
    BY DEF StateInv
  <1>1. f.pc = "readCurr" /\ frame' = [frame EXCEPT ![t] = g] /\ Reads
    BY <1>0 DEF ReadCurr
  <1>2. f.pc \in Walking /\ "readPointer" \in Walking /\ f.pc # "idle"
    BY <1>1 DEF Walking
  <1>3. /\ MapInv(m) /\ FrameInv(m, t, f) /\ AnswerInv(f) /\ f \in Frame /\ m.word = word
        /\ f.curr \in Node /\ w \in Word
    BY <1>2, Standing
  <1>4. FrameInv(m, t, g)
    BY <1>1, <1>3, ReadCurrKeeps
  <1>5. 0 \in Key \cup {0}
    OBVIOUS
  <1>6. SameCall(f, g)
    BY <1>2, <1>3, <1>5, ReadCalm
  <1>7. Stage(f) = Stage(g)
    BY <1>1, <1>6 DEF SameCall
  <1>8. Tracks(m, m, f, g)
    BY <1>2, <1>3, EditTracks
  <1>9. /\ g.pc = "readPointer" /\ g.prev = f.prev /\ g.prevNext = f.prevNext /\ g.curr = f.curr
        /\ g.currNext = m.word[f.curr]
    BY <1>3 DEF Frame
  <1>10. Reads2(m, f, g)
    BY <1>1, <1>9 DEF Reads2
  <1>11. QED
    BY <1>1, <1>4, <1>6, <1>7, <1>8, <1>10, ReadTakes

LEMMA ReadPointerTakes ==
    ASSUME NEW m, IsNow(m), StateInv(m, held, frame), NEW t \in Thread, ReadPointer(t)
    PROVE  Takes(m, m, t)
  <1> DEFINE f == frame[t]
             p == pointer[frame[t].curr]
             g == [f EXCEPT !.currKey = p, !.pc = "readPrev"]
  <1>0. frame = [s \in Thread |-> frame[s]]
    BY DEF StateInv
  <1>1. f.pc = "readPointer" /\ frame' = [frame EXCEPT ![t] = g] /\ Reads
    BY <1>0 DEF ReadPointer
  <1>2. f.pc \in Walking /\ "readPrev" \in Walking /\ f.pc # "idle"
    BY <1>1 DEF Walking
  <1>3. /\ MapInv(m) /\ FrameInv(m, t, f) /\ AnswerInv(f) /\ f \in Frame /\ m.pointer = pointer
        /\ f.curr \in Node
    BY <1>2, Standing
  <1>3a. p \in Key \cup {0}
    BY <1>3 DEF MapInv, MapType
  <1>4. FrameInv(m, t, g)
    BY <1>1, <1>3, ReadPointerKeeps
  <1>5. Blank \in Word
    BY BlankWord
  <1>6. SameCall(f, g)
    BY <1>2, <1>3, <1>3a, <1>5, ReadCalm
  <1>7. Stage(f) = Stage(g)
    BY <1>1, <1>6 DEF SameCall
  <1>8. Tracks(m, m, f, g)
    BY <1>2, <1>3, EditTracks
  <1>9. /\ g.pc = "readPrev" /\ g.prev = f.prev /\ g.prevNext = f.prevNext /\ g.curr = f.curr
        /\ g.currNext = f.currNext
    BY <1>3 DEF Frame
  <1>10. Reads2(m, f, g)
    BY <1>1, <1>9 DEF Reads2
  <1>11. QED
    BY <1>1, <1>4, <1>6, <1>7, <1>8, <1>10, ReadTakes

LEMMA ReadPrevTakes ==
    ASSUME NEW m, IsNow(m), StateInv(m, held, frame), NEW t \in Thread, ReadPrev(t)
    PROVE  Takes(m, m, t)
  <1> DEFINE f == frame[t]
             now == word[f.prev]
             e == [f EXCEPT !.prevNext = now]
             g == Judged(f, now)
  <1> HIDE DEF e
  <1>1. f.pc = "readPrev" /\ frame' = [frame EXCEPT ![t] = g] /\ Reads
    BY DEF ReadPrev, Judged
  <1> HIDE DEF g
  <1>2. f.pc \in Walking /\ f.pc # "idle"
    BY <1>1 DEF Walking
  <1>3. /\ MapInv(m) /\ m.build = build /\ FrameInv(m, t, f) /\ AnswerInv(f) /\ f \in Frame /\ m.word = word
        /\ f.prevNext.ref # 0 /\ f.prev \in Node /\ now \in Word /\ now = m.word[f.prev]
        /\ f.removed => f.op = "REMOVE"
    BY <1>2, Standing
  <1>4. f.op = "REMOVE" /\ ~f.removed =>
              \E r \in Record : m.at[r] = "linked" /\ m.pointer[r] = f.key /\ ~Dead(m, r)
    <2>1. ~f.removed => Stage(f) = "called"
      BY <1>1 DEF Stage, Settled
    <2>2. QED
      BY <1>2, <2>1, SubsAreLive
  <1>5. FrameInv(m, t, g)
    BY <1>1, <1>3, <1>4, ReadPrevKeeps DEF g
  <1>6. Calm(f, g)
    BY <1>1, <1>3, <1>4, ReadPrevCalm DEF g
  <1>7. Tracks(m, m, f, g)
    BY <1>1, <1>3, ReadPrevTracks DEF g
  <1>8. ASSUME Stage(f) # Stage(g) PROVE Searched(m, f, g)
    <2>1. f.op = "SEARCH" /\ Stage(g) = "done" /\ ~f.removed
      BY <1>3, <1>6, <1>8 DEF Calm, SameCall
    <2>2. ~Stale(f.prevNext, now)
      <3>1. SUFFICES ASSUME Stale(f.prevNext, now) PROVE FALSE
        OBVIOUS
      <3>2. g = Restarted(f)
        BY <3>1 DEF g, Judged
      <3>3. Stage(g) = "called"
        BY <1>1, <1>3, <2>1, <3>2 DEF Restarted, Stage, Settled, Frame
      <3>4. QED
        BY <2>1, <3>3
    <2>3. ~NextChanged(f.prevNext, now)
      <3>1. SUFFICES ASSUME NextChanged(f.prevNext, now) PROVE FALSE
        OBVIOUS
      <3>2. g = Follow(f, now)
        BY <2>2, <3>1 DEF g, Judged
      <3>3. g.pc = "readCurr" /\ g.removed = f.removed
        BY <1>3, <3>2, FollowIs
      <3>4. QED
        BY <2>1, <3>3 DEF Stage, Settled
    <2>4. Good(m, f)
      BY <1>2, <1>3, <2>2, <2>3, GoodPrev DEF NextChanged
    <2>5. e \in Frame /\ f.currNext.ref \in Int
      <3>1. e \in Frame
        BY <1>3 DEF e, Frame
      <3>2. f.currNext \in Word
        BY <1>3 DEF Frame
      <3>3. QED
        BY <3>1, <3>2, WordFields
    <2>6. CASE Behind(f)
      <3>1. g = Answer(e, 0)
        BY <2>1, <2>2, <2>3, <2>6 DEF g, Judged, e
      <3>2. 0 \in Int /\ Answer(e, 0).answer = 0
        BY <2>5, AnswerOf
      <3>3. Uncounted(m, f.key)
        BY <1>1, <1>3, <2>4, <2>6, NeverMissed DEF Uncounted
      <3>4. QED
        BY <3>1, <3>2, <3>3 DEF Searched
    <2>7. CASE ~Behind(f) /\ ~(f.currKey = f.key /\ build.search = "first")
      <3>1. g = [e EXCEPT !.pc = "checkCurr"]
        BY <2>1, <2>2, <2>3, <2>7 DEF g, Judged, e
      <3>2. g = [f EXCEPT !.prevNext = now, !.pc = "checkCurr"]
        BY <3>1 DEF e
      <3>3. g.pc = "checkCurr" /\ g.removed = f.removed
        BY <1>3, <3>2 DEF Frame
      <3>4. QED
        BY <2>1, <3>3 DEF Stage, Settled
    <2>8. CASE ~Behind(f) /\ f.currKey = f.key /\ build.search = "first"
      <3>1. g = Answer(e, f.currNext.ref)
        BY <2>1, <2>2, <2>3, <2>8 DEF g, Judged, e
      <3>2. g.answer = f.currNext.ref
        BY <2>5, <3>1, AnswerIs
      <3>3. f.curr # TailOf(ListOf(f.key))
        BY <2>8 DEF Behind
      <3>4. f.curr \in Record /\ m.at[f.curr] = "linked" /\ f.currKey = m.pointer[f.curr]
        BY <1>1, <1>3, <2>4, <3>3, CurrSeen
      <3>5. QED
        BY <1>1, <2>4, <2>8, <3>2, <3>4 DEF Searched
    <2>9. QED
      BY <2>6, <2>7, <2>8
  <1>9. QED
    BY <1>1, <1>5, <1>6, <1>7, <1>8, Quiet

LEMMA CheckCurrTakes ==
    ASSUME NEW m, IsNow(m), StateInv(m, held, frame), NEW t \in Thread, CheckCurr(t)
    PROVE  Takes(m, m, t)
  <1> DEFINE f == frame[t]
             now == word[f.curr]
             g == Checked(f, now)
  <1>1. f.pc = "checkCurr" /\ frame' = [frame EXCEPT ![t] = g] /\ Reads
    BY DEF CheckCurr, Checked
  <1> HIDE DEF g
  <1>2. f.pc \in Walking /\ f.pc # "idle"
    BY <1>1 DEF Walking
  <1>3. /\ MapInv(m) /\ m.build = build /\ FrameInv(m, t, f) /\ AnswerInv(f) /\ f \in Frame /\ m.word = word
        /\ f.curr \in Node /\ now \in Word /\ now = m.word[f.curr]
        /\ f.removed => f.op = "REMOVE"
    BY <1>2, Standing
  <1>5. FrameInv(m, t, g)
    BY <1>1, <1>3, CheckCurrKeeps DEF g
  <1>6. Calm(f, g)
    BY <1>1, <1>3, CheckCurrCalm DEF g
  <1>7. Tracks(m, m, f, g)
    BY <1>1, <1>3, CheckCurrTracks DEF g
  <1>8. ASSUME Stage(f) # Stage(g) PROVE Searched(m, f, g)
    <2>1. f.op = "SEARCH" /\ Stage(g) = "done" /\ ~f.removed
      BY <1>3, <1>6, <1>8 DEF Calm, SameCall
    <2>2. now.to \in Node /\ now.ref \in Int
      BY <1>3, WordFields
    <2>3. f.currNext.node = now.node
      <3>1. SUFFICES ASSUME f.currNext.node # now.node PROVE FALSE
        OBVIOUS
      <3>2. g.pc = "recheckPrev" /\ g.removed = f.removed
        BY <1>3, <3>1 DEF g, Checked, Frame
      <3>3. QED
        BY <2>1, <3>2 DEF Stage, Settled
    <2>4. ~Deleted(now)
      <3>1. SUFFICES ASSUME Deleted(now) PROVE FALSE
        OBVIOUS
      <3>2. g = LookAt(f, now.to)
        BY <2>3, <3>1 DEF g, Checked
      <3>3. g.pc = "readCurr" /\ g.removed = f.removed
        BY <1>3, <2>2, <3>2, LookAtIs
      <3>4. QED
        BY <2>1, <3>3 DEF Stage, Settled
    <2>5. f.currKey = f.key
      <3>1. SUFFICES ASSUME f.currKey # f.key PROVE FALSE
        OBVIOUS
      <3>2. g = Advance(f, now)
        BY <2>3, <2>4, <3>1 DEF g, Checked
      <3>3. g.removed = f.removed /\ g.pc = "readCurr"
        BY <1>3, <2>2, <3>2, AdvanceIs
      <3>4. QED
        BY <2>1, <3>3 DEF Stage, Settled
    <2>6. g = Answer(f, now.ref)
      BY <2>1, <2>3, <2>4, <2>5 DEF g, Checked
    <2>7. g.answer = now.ref
      BY <1>3, <2>2, <2>6, AnswerIs
    <2>8. f.curr \in Record /\ Was(m, f.curr, f.currNext.node, f.currKey)
      BY <1>1, <1>3 DEF FrameInv, MetInv
    <2>9. m.word[f.curr].node <= m.age[f.curr] /\ ~Dead(m, f.curr)
      BY <1>3, <2>3, <2>4, <2>8 DEF Was, Deleted, Dead
    <2>10. m.at[f.curr] = "linked" /\ m.age[f.curr] = m.word[f.curr].node
      BY <1>3, <2>8, <2>9, LiveIsLinked
    <2>11. m.pointer[f.curr] = f.key
      BY <1>3, <2>3, <2>5, <2>8, <2>10 DEF Was
    <2>12. Counted(m, f.key, g.answer)
      BY <1>3, <2>7, <2>8, <2>9, <2>10, <2>11 DEF Counted, Dead
    <2>13. QED
      BY <2>12 DEF Searched
  <1>9. QED
    BY <1>1, <1>5, <1>6, <1>7, <1>8, Quiet

\* A step of t that changes the map.
LEMMA Writes ==
    ASSUME NEW m, IsNow(m), StateInv(m, held, frame), NEW t \in Thread, NEW m2, IsNext(m2),
           MapInv(m2), Evolves(m, m2, t), NEW g, frame' = [frame EXCEPT ![t] = g],
           FrameInv(m2, t, g), AnswerInv(g), CountInv(m2, held', frame'),
           Keeping(m, m2, t, frame[t], g), Tells(m, m2, frame[t], g, held, held', t), g.pc \notin {"readPointer", "readPrev"},
           Tracks(m, m2, frame[t], g)
    PROVE  Takes(m, m2, t)
  <1>1. frame = [s \in Thread |-> frame[s]]
    BY DEF StateInv
  <1>2. frame'[t] = g
    BY <1>1
  <1>3. StateInv(m2, held', frame')
    BY NextState
  <1>4. Reads2(m, frame[t], g)
    BY DEF Reads2
  <1>5. Effect(m, m2, frame[t], g, held, held', t)
    BY <1>4 DEF Effect
  <1>6. QED
    BY <1>2, <1>3, <1>5 DEF Takes

\* ... and no reference.
LEMMA CountStays ==
    ASSUME NEW m, IsNow(m), StateInv(m, held, frame), NEW t \in Thread, NEW m2,
           NEW g, frame' = [frame EXCEPT ![t] = g], held' = held,
           \A k \in Key : Pending(g, k) <=> Pending(frame[t], k),
           \A r \in Record : m2.at[r] = "linked" =>
              m.at[r] = "linked" /\ m2.pointer[r] = m.pointer[r] /\ m2.word[r].ref = m.word[r].ref,
           \A r \in Record : m.at[r] = "linked" /\ ~Dead(m, r) =>
              m2.at[r] = "linked" /\ m2.pointer[r] = m.pointer[r]
    PROVE  CountInv(m2, held', frame')
  <1>1. MapInv(m) /\ CountInv(m, held, frame) /\ frame = [s \in Thread |-> frame[s]]
    BY DEF StateInv
  <1>2. \A s \in Thread, k \in Key : Pending(frame'[s], k) <=> Pending(frame[s], k)
    BY <1>1
  <1>3. \A x \in Thread \X Nat : x[1] \in Thread
    OBVIOUS
  <1>4. \A k \in Key : Held(held', frame', k) = Held(held, frame, k)
    BY <1>2, <1>3 DEF Held
  <1>5. \A k \in Key : /\ IsFiniteSet(Held(held', frame', k))
                       /\ Cardinality(Held(held', frame', k)) = Cardinality(Held(held, frame, k))
    BY <1>1, <1>4 DEF CountInv
  <1>6. held' \in [Thread -> [Key -> Nat]]
    BY <1>1 DEF CountInv
  <1>7. QED
    BY ZenonT(120), <1>1, <1>5, <1>6, CountSame

LEMMA GetTakes ==
    ASSUME NEW m, IsNow(m), StateInv(m, held, frame), NEW t \in Thread, Get(t)
    PROVE  \E m2 : Takes(m, m2, t)
  <1> DEFINE f == frame[t]
  <1>1. f.pc = "get" /\ f.pc \in Walking /\ f.pc # "idle"
    BY DEF Get, Walking
  <1>2. /\ MapInv(m) /\ FrameInv(m, t, f) /\ AnswerInv(f) /\ f \in Frame /\ m.build = build
        /\ m.word = word /\ m.pointer = pointer /\ m.free = free /\ frame = [s \in Thread |-> frame[s]]
        /\ f.prev \in Node
    BY <1>1, Standing
  <1>3. PICK r \in free : /\ free' = free \ {r}
                          /\ frame' = [frame EXCEPT ![t].my = r, ![t].localN = word[r], ![t].pc = "setWord"]
                          /\ UNCHANGED <<build, word, held, todo>>
    BY DEF Get, TakeRecord
  <1>4. r \in Record /\ m.at[r] = "free"
    BY <1>2 DEF MapInv, MapType
  <1> DEFINE g == [f EXCEPT !.my = r, !.localN = m.word[r], !.pc = "setWord"]
  <1>5. frame' = [frame EXCEPT ![t] = g]
    BY <1>2, <1>3
  <1>6. /\ g.my = r /\ g.pc = "setWord" /\ g.op = f.op /\ g.key = f.key /\ g.prev = f.prev
        /\ g.prevNext = f.prevNext /\ g.removed = f.removed /\ g.answer = f.answer
    BY <1>2 DEF Frame
  <1> HIDE DEF g
  <1>7. pointer' = [pointer EXCEPT ![r] = f.key]
    <2>1. frame'[t].my = r
      BY <1>2, <1>5, <1>6
    <2>2. pointer' = [pointer EXCEPT ![frame'[t].my] = f.key]
      BY DEF Get
    <2>3. QED
      BY <2>1, <2>2
  <1> DEFINE m2 == [build |-> m.build, word |-> m.word, pointer |-> [m.pointer EXCEPT ![r] = f.key],
                    free |-> m.free \ {r}, at |-> [m.at EXCEPT ![r] = "mine"],
                    by |-> [m.by EXCEPT ![r] = t], age |-> m.age]
  <1>8. /\ m2.build = m.build /\ m2.word = m.word /\ m2.pointer = [m.pointer EXCEPT ![r] = f.key]
        /\ m2.free = m.free \ {r} /\ m2.at = [m.at EXCEPT ![r] = "mine"]
        /\ m2.by = [m.by EXCEPT ![r] = t] /\ m2.age = m.age
    OBVIOUS
  <1> HIDE DEF m2
  <1>9. MapInv(m2) /\ Evolves(m, m2, t) /\ FrameInv(m2, t, g)
    BY <1>1, <1>2, <1>4, <1>8, GetKeeps DEF g
  <1>10. IsNext(m2)
    BY <1>2, <1>3, <1>7, <1>8 DEF IsNext
  <1>11. AnswerInv(g) /\ Stage(g) = Stage(f) /\ g.answer = f.answer
    BY <1>1, <1>2, <1>6 DEF AnswerInv, Stage, Settled, Walking
  <1>12. \A n \in Record : m2.at[n] = (IF n = r THEN "mine" ELSE m.at[n])
                           /\ m2.by[n] = (IF n = r THEN t ELSE m.by[n])
                           /\ m2.pointer[n] = (IF n = r THEN f.key ELSE m.pointer[n])
    BY <1>2, <1>4, <1>8, Nodes DEF MapInv, MapType
  <1>13. Keeping(m, m2, t, f, g)
    <2>1. SUFFICES ASSUME NEW n \in Record, n # r, m.at[n] = "mine", m.by[n] = t PROVE FALSE
      BY <1>6, <1>12 DEF Keeping
    <2>2. f.my = n
      BY <2>1 DEF StateInv, OwnInv
    <2>3. n # NoRecord
      BY Nodes
    <2>4. f.pc # "get"
      BY <1>2, <2>2, <2>3 DEF FrameInv, MineInv
    <2>5. QED
      BY <1>1, <2>4
  <1>14. \A k \in Key : Pending(g, k) <=> Pending(f, k)
    BY <1>6, <1>11 DEF Pending
  <1>15. /\ \A n \in Record : m2.at[n] = "linked" =>
              m.at[n] = "linked" /\ m2.pointer[n] = m.pointer[n] /\ m2.word[n].ref = m.word[n].ref
         /\ \A n \in Record : m.at[n] = "linked" /\ ~Dead(m, n) =>
              m2.at[n] = "linked" /\ m2.pointer[n] = m.pointer[n]
    BY <1>4, <1>8, <1>12
  <1>16. held' = held
    BY <1>3
  <1>17. CountInv(m2, held', frame')
    BY <1>5, <1>14, <1>15, <1>16, CountStays
  <1>18. Tracks(m, m2, f, g)
    BY <1>1, <1>6, <1>8, StayTracks
  <1>19. Tells(m, m2, f, g, held, held', t)
    BY <1>6, <1>11, <1>16 DEF Tells
  <1>20. g.pc \notin {"readPointer", "readPrev"}
    BY <1>6
  <1>21. Takes(m, m2, t)
    BY <1>5, <1>9, <1>10, <1>11, <1>13, <1>17, <1>18, <1>19, <1>20, Writes
  <1>22. QED
    BY <1>21

\* What the places of the Records say of the words.
LEMMA MineIs ==
    ASSUME NEW m, IsNow(m), StateInv(m, held, frame), NEW t \in Thread, NEW f, f = frame[t]
    PROVE  /\ \A r \in Record : m.at[r] = "mine" /\ m.by[r] = t => f.my = r
           /\ f.my # NoRecord => /\ f.my \in Record /\ m.at[f.my] = "mine" /\ m.by[f.my] = t
                                 /\ m.pointer[f.my] = f.key /\ f.localN \in Word
           /\ f.pc \in {"setWord", "giveBack"} \/ (f.pc = "cas" /\ f.op = "RECORD") => f.my # NoRecord
           /\ f.pc \in {"idle", "get", "unlink", "return"} => f.my = NoRecord
           /\ f.op # "RECORD" => f.my = NoRecord
           /\ f.pc \in {"plus", "giveBack", "get", "setWord"} => f.op = "RECORD"
           /\ f.removed => f.op = "REMOVE" /\ f.pc \in Walking \cup {"head", "back"}
  <1>1. FrameInv(m, t, f) /\ OwnInv(m, frame)
    BY DEF StateInv
  <1>2. f \in Frame /\ MineInv(m, t, f) /\ CallInv(f)
    BY <1>1 DEF FrameInv, CallInv
  <1>3. \A r \in Record : m.at[r] = "mine" /\ m.by[r] = t => f.my = r
    BY <1>1 DEF OwnInv
  <1>4. f.my # NoRecord => f.my \in Record /\ f.localN \in Word
    BY <1>2 DEF Frame
  <1>5. QED
    BY <1>2, <1>3, <1>4 DEF MineInv, CallInv

LEMMA SetWordTakes ==
    ASSUME NEW m, IsNow(m), StateInv(m, held, frame), NEW t \in Thread, SetWord(t), Unwrapped
    PROVE  \E m2 : Takes(m, m2, t)
  <1> DEFINE f == frame[t]
             w == NewNext(f.localN, f.curr)
             g == [f EXCEPT !.pc = "cas"]
  <1>1. f.pc = "setWord" /\ f.pc \in Walking /\ f.pc # "idle"
    BY DEF SetWord, Walking
  <1>2. /\ MapInv(m) /\ FrameInv(m, t, f) /\ AnswerInv(f) /\ f \in Frame /\ m.build = build
        /\ m.word = word /\ m.pointer = pointer /\ m.free = free /\ frame = [s \in Thread |-> frame[s]]
        /\ f.prev \in Node /\ \A n \in Node : m.word[n] \in Word
    BY <1>1, Standing
  <1>3. frame' = [frame EXCEPT ![t] = g] /\ word' = [word EXCEPT ![f.my] = w]
        /\ build' = build /\ pointer' = pointer /\ free' = free /\ held' = held
    BY <1>2 DEF SetWord
  <1>4. f.my \in Record /\ m.at[f.my] = "mine"
    BY <1>1, MineIs
  <1>5. /\ g.my = f.my /\ g.pc = "cas" /\ g.op = f.op /\ g.key = f.key /\ g.prev = f.prev
        /\ g.prevNext = f.prevNext /\ g.removed = f.removed /\ g.answer = f.answer
    BY <1>2 DEF Frame
  <1> HIDE DEF g, w
  <1> DEFINE m2 == [build |-> m.build, word |-> [m.word EXCEPT ![f.my] = w], pointer |-> m.pointer,
                    free |-> m.free, at |-> m.at, by |-> m.by, age |-> m.age]
  <1>6. /\ m2.build = m.build /\ m2.word = [m.word EXCEPT ![f.my] = w] /\ m2.pointer = m.pointer
        /\ m2.free = m.free /\ m2.at = m.at /\ m2.by = m.by /\ m2.age = m.age
    OBVIOUS
  <1> HIDE DEF m2
  <1>7. \A r \in Record : m.word[r].node + 1 < NodeMod
    BY <1>2, Nodes DEF Unwrapped
  <1>8. MapInv(m2) /\ Evolves(m, m2, t) /\ FrameInv(m2, t, g)
    <2>1. m2.word = [m.word EXCEPT ![f.my] = NewNext(f.localN, f.curr)]
      BY <1>6 DEF w
    <2>2. MapInv(m2) /\ Evolves(m, m2, t) /\ FrameInv(m2, t, [f EXCEPT !.pc = "cas"])
      BY <1>1, <1>2, <1>6, <1>7, <2>1, SetWordKeeps
    <2>3. QED
      BY <2>2 DEF g
  <1>9. IsNext(m2)
    BY <1>2, <1>3, <1>6 DEF IsNext
  <1>10. AnswerInv(g) /\ Stage(g) = Stage(f) /\ g.answer = f.answer
    BY <1>1, <1>2, <1>5 DEF AnswerInv, Stage, Settled, Walking
  <1>11. Keeping(m, m2, t, f, g)
    BY <1>5, <1>6 DEF Keeping
  <1>12. \A k \in Key : Pending(g, k) <=> Pending(f, k)
    BY <1>5, <1>10 DEF Pending
  <1>13. \A n \in Node : n # f.my => m2.word[n] = m.word[n]
    BY <1>2, <1>6 DEF MapInv, MapType
  <1>14. /\ \A n \in Record : m2.at[n] = "linked" =>
              m.at[n] = "linked" /\ m2.pointer[n] = m.pointer[n] /\ m2.word[n].ref = m.word[n].ref
         /\ \A n \in Record : m.at[n] = "linked" /\ ~Dead(m, n) =>
              m2.at[n] = "linked" /\ m2.pointer[n] = m.pointer[n]
    BY <1>4, <1>6, <1>13, Nodes
  <1>15. CountInv(m2, held', frame')
    BY <1>3, <1>12, <1>14, CountStays
  <1>16. Tracks(m, m2, f, g)
    <2>1. CASE f.prev # f.my
      <3>1. m2.word[f.prev] = m.word[f.prev]
        BY <1>2, <1>13, <2>1
      <3>2. g.pc \notin {"head", "back"}
        BY <1>5
      <3>3. QED
        BY <1>1, <1>5, <3>1, <3>2, StayTracks
    <2>2. CASE m.word[f.prev] # f.prevNext
      BY <1>1, <2>2 DEF Tracks, Walking
    <2>3. CASE f.prev = f.my /\ m.word[f.prev] = f.prevNext
      <3>1. /\ Before(m, f.prev, f.prevNext.node, f.key) /\ f.prevNext.ref # 0 /\ f.key \in Key
        BY <1>1, <1>2 DEF FrameInv, PrevInv, CallInv
      <3>2. f.prevNext.node \in Nat
        <4>1. f.prevNext \in Word
          BY <1>2 DEF Frame
        <4>2. QED
          BY <4>1, WordFields
      <3>3. f.prev \in Members(m, ListOf(f.key))
        BY <1>2, <2>3, <3>1, <3>2, Remembered
      <3>4. m.at[f.my] = "linked"
        BY <1>4, <2>3, <3>1, <3>3, Keyed, Nodes DEF Members
      <3>5. QED
        BY <1>4, <3>4
    <2>4. QED
      BY <2>1, <2>2, <2>3
  <1>17. Tells(m, m2, f, g, held, held', t)
    BY <1>3, <1>5, <1>10 DEF Tells
  <1>18. g.pc \notin {"readPointer", "readPrev"}
    BY <1>5
  <1>19. Takes(m, m2, t)
    BY <1>3, <1>8, <1>9, <1>10, <1>11, <1>15, <1>16, <1>17, <1>18, Writes
  <1>20. QED
    BY <1>19

LEMMA GiveBackTakes ==
    ASSUME NEW m, IsNow(m), StateInv(m, held, frame), NEW t \in Thread, GiveBack(t)
    PROVE  \E m2 : Takes(m, m2, t)
  <1> DEFINE f == frame[t]
             e == [f EXCEPT !.my = NoRecord]
             g == Answer(e, f.answer)
  <1>1. f.pc = "giveBack" /\ f.pc \notin Walking \cup {"head", "back"} /\ f.pc # "idle"
    BY DEF GiveBack, Walking
  <1>2. /\ MapInv(m) /\ FrameInv(m, t, f) /\ AnswerInv(f) /\ f \in Frame /\ m.build = build
        /\ m.word = word /\ m.pointer = pointer /\ m.free = free /\ frame = [s \in Thread |-> frame[s]]
        /\ \A n \in Node : m.word[n] \in Word
    BY <1>1, Standing
  <1>3. frame' = [frame EXCEPT ![t] = g] /\ word' = [word EXCEPT ![f.my] = f.localN]
        /\ build' = build /\ pointer' = pointer /\ free' = free \cup {f.my} /\ held' = held
    BY <1>2 DEF GiveBack
  <1>4. f.my \in Record /\ m.at[f.my] = "mine" /\ ~f.removed
    BY <1>1, MineIs
  <1>5. g.my = NoRecord /\ g.pc = "return" /\ g.op = f.op /\ g.key = f.key /\ g.answer = f.answer
    <2>1. e \in Frame /\ e.my = NoRecord /\ e.op = f.op /\ e.key = f.key /\ f.answer \in Int
      BY <1>2 DEF Frame
    <2> HIDE DEF e
    <2>2. QED
      BY <2>1, AnswerIs
  <1> HIDE DEF g
  <1> DEFINE m2 == [build |-> m.build, word |-> [m.word EXCEPT ![f.my] = f.localN], pointer |-> m.pointer,
                    free |-> m.free \cup {f.my}, at |-> [m.at EXCEPT ![f.my] = "free"],
                    by |-> m.by, age |-> m.age]
  <1>6. /\ m2.build = m.build /\ m2.word = [m.word EXCEPT ![f.my] = f.localN] /\ m2.pointer = m.pointer
        /\ m2.free = m.free \cup {f.my} /\ m2.at = [m.at EXCEPT ![f.my] = "free"]
        /\ m2.by = m.by /\ m2.age = m.age
    OBVIOUS
  <1> HIDE DEF m2
  <1>8. MapInv(m2) /\ Evolves(m, m2, t) /\ FrameInv(m2, t, g)
    BY <1>1, <1>2, <1>6, GiveBackKeeps DEF g
  <1>9. IsNext(m2)
    BY <1>2, <1>3, <1>6 DEF IsNext
  <1>10. AnswerInv(g) /\ Stage(g) = Stage(f)
    BY <1>1, <1>5 DEF AnswerInv, Stage, Settled, Walking
  <1>11. \A n \in Record : m2.at[n] = IF n = f.my THEN "free" ELSE m.at[n]
    BY <1>2, <1>4, <1>6 DEF MapInv, MapType
  <1>12. Keeping(m, m2, t, f, g)
    <2>1. SUFFICES ASSUME NEW n \in Record, m2.at[n] = "mine", m.by[n] = t PROVE FALSE
      BY <1>6, <1>11 DEF Keeping
    <2>2. m.at[n] = "mine" /\ n # f.my
      BY <1>11, <2>1
    <2>3. f.my = n
      BY <2>1, <2>2, MineIs
    <2>4. QED
      BY <2>2, <2>3
  <1>13. \A k \in Key : Pending(g, k) <=> Pending(f, k)
    BY <1>5, <1>10 DEF Pending
  <1>14. \A n \in Node : n # f.my => m2.word[n] = m.word[n]
    BY <1>2, <1>6 DEF MapInv, MapType
  <1>15. /\ \A n \in Record : m2.at[n] = "linked" =>
              m.at[n] = "linked" /\ m2.pointer[n] = m.pointer[n] /\ m2.word[n].ref = m.word[n].ref
         /\ \A n \in Record : m.at[n] = "linked" /\ ~Dead(m, n) =>
              m2.at[n] = "linked" /\ m2.pointer[n] = m.pointer[n]
    BY <1>4, <1>6, <1>11, <1>14, Nodes
  <1>16. CountInv(m2, held', frame')
    BY <1>3, <1>13, <1>15, CountStays
  <1>17. Tracks(m, m2, f, g)
    BY <1>1 DEF Tracks
  <1>18. Tells(m, m2, f, g, held, held', t)
    BY <1>3, <1>5, <1>10 DEF Tells
  <1>19. g.pc \notin {"readPointer", "readPrev"}
    BY <1>5
  <1>20. Takes(m, m2, t)
    BY <1>3, <1>8, <1>9, <1>10, <1>12, <1>16, <1>17, <1>18, <1>19, Writes
  <1>21. QED
    BY <1>20

LEMMA UnlinkTakes ==
    ASSUME NEW m, IsNow(m), StateInv(m, held, frame), NEW t \in Thread, Unlink(t)
    PROVE  \E m2 : Takes(m, m2, t)
  <1> DEFINE f == frame[t]
             next == word[f.local].to
             g == IF next = f.curr THEN Answer(f, f.answer) ELSE [f EXCEPT !.local = next]
  <1>1. f.pc = "unlink" /\ f.pc \notin Walking \cup {"head", "back"} /\ f.pc # "idle"
    BY DEF Unlink, Walking
  <1>2. /\ MapInv(m) /\ FrameInv(m, t, f) /\ AnswerInv(f) /\ f \in Frame /\ m.build = build
        /\ m.word = word /\ m.pointer = pointer /\ m.free = free /\ frame = [s \in Thread |-> frame[s]]
        /\ \A n \in Node : m.word[n] \in Word
    BY <1>1, Standing
  <1>3. frame' = [frame EXCEPT ![t] = g] /\ pointer' = [pointer EXCEPT ![f.local] = 0]
        /\ build' = build /\ word' = word /\ free' = free \cup {f.local} /\ held' = held
    BY <1>2 DEF Unlink
  <1>4. f.local \in Record /\ m.at[f.local] = "gone" /\ f.my = NoRecord /\ ~f.removed
    <2>1. f.local \in Record /\ m.at[f.local] = "gone"
      BY <1>1, <1>2 DEF FrameInv, GoneInv, Gone
    <2>2. f.my = NoRecord /\ ~f.removed
      BY <1>1, MineIs
    <2>3. QED
      BY <2>1, <2>2
  <1>5. /\ g.my = NoRecord /\ g.pc \in {"return", "unlink"} /\ g.op = f.op /\ g.key = f.key
        /\ g.answer = f.answer
    <2>1. f.answer \in Int
      BY <1>2 DEF Frame
    <2>2. CASE next = f.curr
      BY <1>2, <1>4, <2>1, <2>2, AnswerIs
    <2>3. CASE next # f.curr
      BY <1>1, <1>2, <1>4, <2>3 DEF Frame
    <2>4. QED
      BY <2>2, <2>3
  <1> HIDE DEF g
  <1> DEFINE m2 == [build |-> m.build, word |-> m.word, pointer |-> [m.pointer EXCEPT ![f.local] = 0],
                    free |-> m.free \cup {f.local}, at |-> [m.at EXCEPT ![f.local] = "free"],
                    by |-> m.by, age |-> m.age]
  <1>6. /\ m2.build = m.build /\ m2.word = m.word /\ m2.pointer = [m.pointer EXCEPT ![f.local] = 0]
        /\ m2.free = m.free \cup {f.local} /\ m2.at = [m.at EXCEPT ![f.local] = "free"]
        /\ m2.by = m.by /\ m2.age = m.age
    OBVIOUS
  <1> HIDE DEF m2
  <1>8. MapInv(m2) /\ Evolves(m, m2, t) /\ FrameInv(m2, t, g)
    BY <1>1, <1>2, <1>6, UnlinkKeeps DEF g
  <1>9. IsNext(m2)
    BY <1>2, <1>3, <1>6 DEF IsNext
  <1>10. AnswerInv(g) /\ Stage(g) = Stage(f)
    BY <1>1, <1>5 DEF AnswerInv, Stage, Settled, Walking
  <1>11. /\ \A n \in Record : m2.at[n] = IF n = f.local THEN "free" ELSE m.at[n]
         /\ \A n \in Record : n # f.local => m2.pointer[n] = m.pointer[n]
    BY <1>2, <1>4, <1>6, Nodes DEF MapInv, MapType
  <1>12. Keeping(m, m2, t, f, g)
    BY <1>4, <1>5, <1>6, <1>11 DEF Keeping
  <1>13. \A k \in Key : Pending(g, k) <=> Pending(f, k)
    BY <1>5, <1>10 DEF Pending
  <1>15. /\ \A n \in Record : m2.at[n] = "linked" =>
              m.at[n] = "linked" /\ m2.pointer[n] = m.pointer[n] /\ m2.word[n].ref = m.word[n].ref
         /\ \A n \in Record : m.at[n] = "linked" /\ ~Dead(m, n) =>
              m2.at[n] = "linked" /\ m2.pointer[n] = m.pointer[n]
    BY <1>4, <1>6, <1>11
  <1>16. CountInv(m2, held', frame')
    BY <1>3, <1>13, <1>15, CountStays
  <1>17. Tracks(m, m2, f, g)
    BY <1>1 DEF Tracks
  <1>18. Tells(m, m2, f, g, held, held', t)
    BY <1>3, <1>5, <1>10 DEF Tells
  <1>19. g.pc \notin {"readPointer", "readPrev"}
    BY <1>5
  <1>20. Takes(m, m2, t)
    BY <1>3, <1>8, <1>9, <1>10, <1>12, <1>16, <1>17, <1>18, <1>19, Writes
  <1>21. QED
    BY <1>20

TodoInv == todo \in [Thread -> Seq(SUBSET (Operation \X Key))]

\* The calls of t are called and return, the references go with them.
Handed(t, h, F, h2, F2, k) ==
    /\ h2 \in [Thread -> [Key -> Nat]]
    /\ \A s \in Thread : s # t => h2[s] = h[s]
    /\ \A j \in Key : j # k => h2[t][j] = h[t][j] /\ ~Pending(F[t], j) /\ ~Pending(F2[t], j)
    /\ Traded(t, h, F, h2, F2, k) \/ (h2[t][k] = h[t][k] /\ ~Pending(F[t], k) /\ ~Pending(F2[t], k))

LEMMA CountMoves ==
    ASSUME NEW m, NEW h, NEW F, StateInv(m, h, F), NEW t \in Thread, NEW g, NEW F2, F2 = [F EXCEPT ![t] = g],
           NEW k \in Key, NEW h2, Handed(t, h, F, h2, F2, k)
    PROVE  CountInv(m, h2, F2)
  <1>1. MapInv(m) /\ F = [s \in Thread |-> F[s]] /\ CountInv(m, h, F) /\ h \in [Thread -> [Key -> Nat]]
    BY DEF StateInv, CountInv
  <1>2. F2[t] = g /\ \A s \in Thread : s # t => F2[s] = F[s]
    BY <1>1
  <1>3. Moves(t, h, F, h2, F2)
    BY <1>1, <1>2 DEF Moves, Handed
  <1>4. ASSUME NEW j \in Key, h2[t][j] = h[t][j], Pending(F2[t], j) <=> Pending(F[t], j)
        PROVE  /\ IsFiniteSet(Held(h2, F2, j))
               /\ Cardinality(Held(h2, F2, j)) = Cardinality(Held(h, F, j))
    <2>1. \A s \in Thread : h2[s][j] = h[s][j] /\ (Pending(F2[s], j) <=> Pending(F[s], j))
      BY <1>2, <1>4 DEF Handed
    <2>2. \A x \in Thread \X Nat : x[1] \in Thread
      OBVIOUS
    <2>3. Held(h2, F2, j) = Held(h, F, j)
      BY <2>1, <2>2 DEF Held
    <2>4. QED
      BY <1>1, <2>3 DEF CountInv
  <1>5. /\ IsFiniteSet(Held(h2, F2, k))
        /\ Cardinality(Held(h2, F2, k)) = Cardinality(Held(h, F, k))
    <2>1. CASE h2[t][k] = h[t][k] /\ ~Pending(F[t], k) /\ ~Pending(g, k)
      BY <1>2, <1>4, <2>1
    <2>2. IsFiniteSet(Held(h, F, k))
      BY <1>1 DEF CountInv
    <2>3. CASE Traded(t, h, F, h2, F2, k)
      BY <1>3, <2>2, <2>3, HeldMoved
    <2>4. QED
      BY <1>2, <2>1, <2>3 DEF Handed
  <1>6. \A j \in Key : /\ IsFiniteSet(Held(h2, F2, j))
                       /\ Cardinality(Held(h2, F2, j)) = Cardinality(Held(h, F, j))
    BY <1>2, <1>4, <1>5 DEF Handed
  <1>7. QED
    BY <1>1, <1>6, CountSame DEF Handed

LEMMA InvokeTakes ==
    ASSUME NEW m, IsNow(m), StateInv(m, held, frame), NEW t \in Thread, Invoke(t), TodoInv
    PROVE  Takes(m, m, t)
  <1> DEFINE f == frame[t]
  <1>1. f.pc = "idle" /\ todo[t] # <<>> /\ f.pc \notin Walking \cup {"head", "back"}
    BY DEF Invoke, Walking
  <1>2. /\ MapInv(m) /\ FrameInv(m, t, f) /\ AnswerInv(f) /\ f \in Frame /\ m.build = build
        /\ m.word = word /\ m.pointer = pointer /\ m.free = free /\ frame = [s \in Thread |-> frame[s]]
    BY Standing
  <1>3. CountInv(m, held, frame) /\ held \in [Thread -> [Key -> Nat]]
    BY DEF StateInv, CountInv
  <1>4. PICK c \in Head(todo[t]) :
          /\ c[1] = "REMOVE" => held[t][c[2]] > 0
          /\ frame' = [frame EXCEPT ![t].op = c[1], ![t].key = c[2], ![t].pc = "head"]
          /\ held' = IF c[1] = "REMOVE" THEN [held EXCEPT ![t][c[2]] = @ - 1] ELSE held
    BY DEF Invoke
  <1>5. c \in Operation \X Key
    BY <1>1, <1>4 DEF TodoInv
  <1>6. PICK op \in Operation, k \in Key : op = c[1] /\ k = c[2]
    BY <1>5
  <1> DEFINE g == [f EXCEPT !.op = op, !.key = k, !.pc = "head"]
  <1>7. frame' = [frame EXCEPT ![t] = g]
    BY <1>2, <1>4, <1>6
  <1>8. f = Idle /\ Idle.op = "none" /\ Idle.key = 0 /\ Idle.my = NoRecord /\ Idle.answer = 0 /\ Idle.removed = FALSE
    BY <1>1, <1>2 DEF FrameInv, CallInv, Idle
  <1>9. /\ g.my = NoRecord /\ g.pc = "head" /\ g.op = op /\ g.key = k /\ g.answer = 0 /\ g.removed = FALSE
    BY <1>2, <1>8 DEF Frame
  <1>10. FrameInv(m, t, g)
    BY <1>1, <1>2, InvokeKeeps
  <1> HIDE DEF g
  <1>11. /\ \A j \in Key : ~Pending(f, j)
         /\ \A j \in Key : Pending(g, j) <=> j = k /\ op = "REMOVE"
    BY <1>8, <1>9 DEF Pending, Stage, Settled
  <1>12. CountInv(m, held', frame') /\ (held' = IF g.op = "REMOVE" THEN [held EXCEPT ![t][g.key] = @ - 1] ELSE held)
    <2>1. PICK h2 : h2 = held'
      OBVIOUS
    <2>2. held[t][k] \in Nat
      BY <1>3
    <2>3. h2 = IF op = "REMOVE" THEN [held EXCEPT ![t][k] = @ - 1] ELSE held
      BY <1>4, <1>6, <2>1
    <2>4. /\ h2 \in [Thread -> [Key -> Nat]] /\ \A s \in Thread : s # t => h2[s] = held[s]
          /\ \A j \in Key : j # k => h2[t][j] = held[t][j]
          /\ h2[t][k] = IF op = "REMOVE" THEN held[t][k] - 1 ELSE held[t][k]
      <3>1. CASE op = "REMOVE"
        <4>1. held[t][k] - 1 \in Nat
          BY <1>4, <1>6, <2>2, <3>1
        <4>2. h2 = [held EXCEPT ![t] = [held[t] EXCEPT ![k] = held[t][k] - 1]]
          BY <2>3, <3>1
        <4>3. [held[t] EXCEPT ![k] = held[t][k] - 1] \in [Key -> Nat]
          BY <1>3, <4>1
        <4>4. QED
          BY <1>3, <3>1, <4>2, <4>3
      <3>2. CASE op # "REMOVE"
        BY <1>3, <2>3, <3>2
      <3>3. QED
        BY <3>1, <3>2
    <2>5. \/ h2[t][k] = held[t][k] - 1 /\ ~Pending(f, k) /\ Pending(g, k)
          \/ h2[t][k] = held[t][k] + 1 /\ Pending(f, k) /\ ~Pending(g, k)
          \/ h2[t][k] = held[t][k] /\ ~Pending(f, k) /\ ~Pending(g, k)
      BY <1>11, <2>4
    <2>6. \A j \in Key : j # k => ~Pending(f, j) /\ ~Pending(g, j)
      BY <1>11
    <2>7. PICK F2 : F2 = frame'
      OBVIOUS
    <2>7a. F2[t] = g
      BY <1>2, <1>7, <2>7
    <2>7b. Traded(t, held, frame, h2, F2, k) \/ (h2[t][k] = held[t][k] /\ ~Pending(f, k) /\ ~Pending(g, k))
      BY <2>5, <2>7a DEF Traded
    <2>7c. Handed(t, held, frame, h2, F2, k)
      BY <2>4, <2>6, <2>7a, <2>7b DEF Handed
    <2>8. CountInv(m, h2, F2)
      BY <1>7, <2>7, <2>7c, CountMoves
    <2>9. QED
      BY <1>9, <2>1, <2>3, <2>7, <2>8
  <1>13. IsNext(m)
    BY <1>2 DEF IsNext, Invoke, shared
  <1>14. AnswerInv(g)
    BY <1>9 DEF AnswerInv
  <1>15. Evolves(m, m, t)
    BY <1>2, SameMap
  <1>16. Keeping(m, m, t, f, g)
    BY <1>8, <1>9 DEF Keeping
  <1>17. Tracks(m, m, f, g)
    BY <1>1 DEF Tracks
  <1>18. Stage(g) = "called"
    BY <1>9 DEF Stage, Settled
  <1>18a. Tells(m, m, f, g, held, held', t)
    BY <1>1, <1>9, <1>12, <1>18 DEF Tells
  <1>19. g.pc \notin {"readPointer", "readPrev"}
    BY <1>9
  <1>20. QED
    BY <1>2, <1>7, <1>10, <1>12, <1>13, <1>14, <1>15, <1>16, <1>17, <1>18a, <1>19, Writes

LEMMA ReturnTakes ==
    ASSUME NEW m, IsNow(m), StateInv(m, held, frame), NEW t \in Thread, Return(t)
    PROVE  Takes(m, m, t)
  <1> DEFINE f == frame[t]
             k == frame[t].key
             g == Idle
  <1>1. f.pc = "return" /\ f.pc \notin Walking \cup {"head", "back"} /\ f.pc # "idle"
    BY DEF Return, Walking
  <1>2. /\ MapInv(m) /\ FrameInv(m, t, f) /\ AnswerInv(f) /\ f \in Frame /\ m.build = build
        /\ m.word = word /\ m.pointer = pointer /\ m.free = free /\ frame = [s \in Thread |-> frame[s]]
        /\ f.op \in Operation /\ k \in Key
    BY <1>1, Standing
  <1>3. CountInv(m, held, frame) /\ held \in [Thread -> [Key -> Nat]]
    BY DEF StateInv, CountInv
  <1>4. /\ frame' = [frame EXCEPT ![t] = g]
        /\ held' = IF f.op = "RECORD" THEN [held EXCEPT ![t][k] = @ + 1] ELSE held
    BY DEF Return
  <1>5. Idle.op = "none" /\ Idle.key = 0 /\ Idle.my = NoRecord /\ Idle.pc = "idle"
    BY DEF Idle
  <1>6. f.my = NoRecord /\ ~f.removed
    BY <1>1, MineIs
  <1>7. FrameInv(m, t, g)
    BY <1>1, <1>2, IdleKeeps DEF FrameInv, GoneInv
  <1>8. /\ \A j \in Key : ~Pending(g, j)
        /\ \A j \in Key : Pending(f, j) <=> j = k /\ f.op = "RECORD"
    BY <1>1, <1>5 DEF Pending, Stage, Settled
  <1>9. CountInv(m, held', frame')
    <2>1. PICK h2 : h2 = held'
      OBVIOUS
    <2>2. held[t][k] \in Nat
      BY <1>2, <1>3
    <2>3. h2 = IF f.op = "RECORD" THEN [held EXCEPT ![t][k] = @ + 1] ELSE held
      BY <1>4, <2>1
    <2>4. /\ h2 \in [Thread -> [Key -> Nat]] /\ \A s \in Thread : s # t => h2[s] = held[s]
          /\ \A j \in Key : j # k => h2[t][j] = held[t][j]
          /\ h2[t][k] = IF f.op = "RECORD" THEN held[t][k] + 1 ELSE held[t][k]
      <3>1. CASE f.op = "RECORD"
        <4>1. held[t][k] + 1 \in Nat
          BY <2>2
        <4>2. h2 = [held EXCEPT ![t] = [held[t] EXCEPT ![k] = held[t][k] + 1]]
          BY <2>3, <3>1
        <4>3. [held[t] EXCEPT ![k] = held[t][k] + 1] \in [Key -> Nat]
          BY <1>3, <4>1
        <4>4. QED
          BY <1>2, <1>3, <3>1, <4>2, <4>3
      <3>2. CASE f.op # "RECORD"
        BY <1>3, <2>3, <3>2
      <3>3. QED
        BY <3>1, <3>2
    <2>5. \/ h2[t][k] = held[t][k] - 1 /\ ~Pending(f, k) /\ Pending(g, k)
          \/ h2[t][k] = held[t][k] + 1 /\ Pending(f, k) /\ ~Pending(g, k)
          \/ h2[t][k] = held[t][k] /\ ~Pending(f, k) /\ ~Pending(g, k)
      BY <1>2, <1>8, <2>4
    <2>6. \A j \in Key : j # k => ~Pending(f, j) /\ ~Pending(g, j)
      BY <1>8
    <2>7. PICK F2 : F2 = frame'
      OBVIOUS
    <2>7a. F2[t] = g
      BY <1>2, <1>4, <2>7
    <2>7b. Traded(t, held, frame, h2, F2, k) \/ (h2[t][k] = held[t][k] /\ ~Pending(f, k) /\ ~Pending(g, k))
      BY <2>5, <2>7a DEF Traded
    <2> HIDE DEF g
    <2>7c. Handed(t, held, frame, h2, F2, k)
      BY <2>4, <2>6, <2>7a, <2>7b DEF Handed
    <2>8. CountInv(m, h2, F2)
      BY <1>2, <1>4, <2>7, <2>7c, CountMoves
    <2>9. QED
      BY <2>1, <2>7, <2>8
  <1>10. IsNext(m)
    BY <1>2 DEF IsNext, Return, shared
  <1>11. AnswerInv(g)
    BY <1>5 DEF AnswerInv, Walking
  <1>12. Evolves(m, m, t)
    BY <1>2, SameMap
  <1>13. Keeping(m, m, t, f, g)
    BY <1>5, <1>6 DEF Keeping
  <1>14. Tracks(m, m, f, g)
    BY <1>1 DEF Tracks
  <1>15. Tells(m, m, f, g, held, held', t)
    BY <1>1, <1>4 DEF Tells
  <1>16. g.pc \notin {"readPointer", "readPrev"}
    BY <1>5
  <1> HIDE DEF g
  <1>17. QED
    BY <1>2, <1>4, <1>7, <1>9, <1>10, <1>11, <1>12, <1>13, <1>14, <1>15, <1>16, Writes

\* A walk whose prev is what it has read does not stand on it.
LEMMA PrevIsNotCurr ==
    ASSUME NEW m, MapInv(m), NEW t, NEW f, FrameInv(m, t, f), f.pc \in Walking, f.prevNext.ref # 0,
           m.word[f.prev] = f.prevNext
    PROVE  f.prev # f.curr
  <1>1. ~Stale(f.prevNext, m.word[f.prev])
    BY DEF Stale, Deleted
  <1>2. Good(m, f) /\ f.prev \in Node
    BY <1>1, GoodPrev
  <1>3. Rank(m, f.prev) < Rank(m, f.curr) /\ MapType(m)
    BY <1>2 DEF FrameInv, CurrInv, MapInv
  <1>4. Rank(m, f.prev) \in Nat
    BY <1>2, <1>3, Ranks
  <1>5. QED
    BY <1>3, <1>4

LEMMA SubTakes ==
    ASSUME NEW m, IsNow(m), StateInv(m, held, frame), NEW t \in Thread, Sub(t)
    PROVE  \E m2 : Takes(m, m2, t)
  <1> DEFINE f == frame[t]
             c == frame[t].curr
             now == MinusRecord(word[frame[t].curr])
             e == LookAt(f, now.to)
             g == IF Deleted(now) THEN [e EXCEPT !.removed = TRUE] ELSE Answer(f, now.ref)
  <1>1. f.pc = "sub" /\ f.pc \in Walking /\ f.pc # "idle"
    BY DEF Sub, Walking
  <1>2. /\ MapInv(m) /\ FrameInv(m, t, f) /\ AnswerInv(f) /\ f \in Frame /\ m.build = build
        /\ m.word = word /\ m.pointer = pointer /\ m.free = free /\ frame = [s \in Thread |-> frame[s]]
        /\ f.prevNext.ref # 0 /\ f.prev \in Node /\ \A n \in Node : m.word[n] \in Word
    BY <1>1, Standing
  <1>3. frame' = [frame EXCEPT ![t] = g] /\ word' = [word EXCEPT ![c] = now]
        /\ build' = build /\ pointer' = pointer /\ free' = free /\ held' = held
    BY <1>2 DEF Sub
  <1>4. /\ ~Dead(m, c) /\ c \in Record /\ c \in Node /\ m.at[c] = "linked" /\ m.pointer[c] = f.key
        /\ f.op = "REMOVE" /\ ~f.removed /\ f.my = NoRecord
    <2>1. ~Dead(m, c)
      BY <1>1, SubsAreLive
    <2>2. c \in Record /\ m.at[c] = "linked" /\ m.pointer[c] = f.key
      BY <1>1, <1>2 DEF FrameInv, MetInv
    <2>3. f.op = "REMOVE" /\ ~f.removed
      BY <1>1, <1>2 DEF FrameInv, CallInv
    <2>4. QED
      BY <2>1, <2>2, <2>3, MineIs, Nodes
  <1>5. /\ now \in Word /\ now.ref = word[c].ref - 1 /\ now.ref \in Int /\ now.to \in Node
    <2>1. word[c] \in Word /\ word[c].ref # 0
      BY <1>2, <1>4 DEF Dead
    <2>2. now \in Word /\ now.ref = word[c].ref - 1
      BY <2>1, MinusWord
    <2>3. QED
      BY <2>2, WordFields
  <1>6. /\ g.my = NoRecord /\ g.op = f.op /\ g.key = f.key /\ g.answer = now.ref
        /\ g.pc = "return" \/ (g.pc = "readCurr" /\ g.removed /\ g.prev = f.prev /\ g.prevNext = f.prevNext)
        /\ g.answer # 0 => g.pc = "return"
    <2>1. CASE Deleted(now)
      <3>1. e \in Frame /\ e.pc = "readCurr" /\ e.op = f.op /\ e.key = f.key /\ e.my = NoRecord
            /\ e.prev = f.prev /\ e.prevNext = f.prevNext
        BY <1>2, <1>4, <1>5, LookAtIs
      <3>2. e.answer = 0 /\ now.ref = 0
        BY <1>1, <1>2, <2>1, LookAtAnswer DEF AnswerInv, Deleted
      <3>3. g = [e EXCEPT !.removed = TRUE]
        BY <2>1
      <3> HIDE DEF e, g
      <3>4. QED
        BY <3>1, <3>2, <3>3 DEF Frame
    <2>2. CASE ~Deleted(now)
      BY <1>2, <1>4, <1>5, <2>2, AnswerIs
    <2>3. QED
      BY <2>1, <2>2
  <1> DEFINE m2 == [build |-> m.build, word |-> [m.word EXCEPT ![c] = now], pointer |-> m.pointer,
                    free |-> m.free, at |-> m.at, by |-> m.by, age |-> m.age]
  <1>7. /\ m2.build = m.build /\ m2.word = [m.word EXCEPT ![c] = now] /\ m2.pointer = m.pointer
        /\ m2.free = m.free /\ m2.at = m.at /\ m2.by = m.by /\ m2.age = m.age
    OBVIOUS
  <1> HIDE DEF m2
  <1>8. MapInv(m2) /\ Evolves(m, m2, t) /\ FrameInv(m2, t, g)
    <2>1. now = MinusRecord(m.word[f.curr])
      BY <1>2
    <2> HIDE DEF now
    <2>2. QED
      BY <1>1, <1>2, <1>4, <1>7, <2>1, SubKeeps
  <1> HIDE DEF g, now
  <1>9. IsNext(m2)
    BY <1>2, <1>3, <1>7 DEF IsNext
  <1>10. AnswerInv(g) /\ Stage(g) = "done" /\ Stage(f) = "called"
    BY <1>1, <1>4, <1>6 DEF AnswerInv, Stage, Settled, Walking
  <1>11. Keeping(m, m2, t, f, g)
    BY <1>4, <1>6, <1>7 DEF Keeping
  <1>12. m2.word[c] = now /\ \A n \in Node : n # c => m2.word[n] = m.word[n]
    BY <1>2, <1>4, <1>7 DEF MapInv, MapType
  <1>13. CountInv(m2, held', frame')
    <2>1. CountInv(m, held, frame) /\ held \in [Thread -> [Key -> Nat]]
      BY DEF StateInv, CountInv
    <2>2. PICK F2 : F2 = frame'
      OBVIOUS
    <2>3. F2[t] = g /\ \A s \in Thread : s # t => F2[s] = frame[s]
      BY <1>2, <1>3, <2>2
    <2>4. Moves(t, held, frame, held, F2)
      BY <2>1, <2>3 DEF Moves
    <2>5. /\ \A k \in Key : Pending(f, k) <=> k = f.key
          /\ \A k \in Key : ~Pending(F2[t], k)
      BY <1>4, <1>6, <1>10, <2>3 DEF Pending
    <2>6. Pending(f, m.pointer[c]) /\ ~Pending(F2[t], m.pointer[c])
      <3>1. f.key \in Key
        BY <1>1, Standing
      <3>2. QED
        BY <1>4, <2>5, <3>1
    <2>7. m2.word[c].ref = m.word[c].ref - 1 /\ \A r \in Record : r # c => m2.word[r].ref = m.word[r].ref
      BY <1>2, <1>5, <1>12, Nodes
    <2>8. \A k \in Key : k # m.pointer[c] => (Pending(F2[t], k) <=> Pending(frame[t], k))
      BY <1>4, <2>5
    <2>8a. Recounts(m, m2, frame, F2, t, c)
      BY <1>7, <2>6, <2>7, <2>8 DEF Recounts
    <2>9. CountInv(m2, held, F2)
      BY <1>2, <1>4, <2>1, <2>4, <2>8a, CountOne
    <2>10. QED
      BY <1>3, <2>2, <2>9
  <1>14. Tracks(m, m2, f, g)
    <2>1. CASE g.pc = "return"
      <3>1. g.pc \notin Walking \cup {"head", "back"}
        BY <2>1 DEF Walking
      <3>2. QED
        BY <3>1, AnswerTracks
    <2>2. CASE m.word[f.prev] # f.prevNext
      BY <1>1, <2>2 DEF Tracks, Walking
    <2>3. CASE g.pc = "readCurr" /\ g.prev = f.prev /\ g.prevNext = f.prevNext /\ m.word[f.prev] = f.prevNext
      <3>1. f.prev # c
        BY <1>1, <1>2, <2>3, PrevIsNotCurr
      <3>2. m2.word[f.prev] = m.word[f.prev]
        BY <1>2, <1>12, <3>1
      <3>3. g.pc \notin {"head", "back"}
        BY <2>3
      <3>4. QED
        BY <1>1, <2>3, <3>2, <3>3, StayTracks
    <2>4. QED
      BY <1>6, <2>1, <2>2, <2>3
  <1>15. Tells(m, m2, f, g, held, held', t)
    <2>1. m2.at[c] = "linked" /\ m2.pointer[c] = f.key /\ m2.word[c].ref = g.answer
      BY <1>4, <1>6, <1>7, <1>12
    <2>2. QED
      BY <1>3, <1>4, <1>6, <1>10, <2>1 DEF Tells
  <1>16. g.pc \notin {"readPointer", "readPrev"}
    BY <1>6
  <1>17. Takes(m, m2, t)
    BY <1>3, <1>8, <1>9, <1>10, <1>11, <1>13, <1>14, <1>15, <1>16, Writes
  <1>18. QED
    BY <1>17

PlusFailed(f, now) ==
    IF f.foundNext.node # now.node THEN [f EXCEPT !.pc = "recheckPrev"]
    ELSE IF Deleted(now) THEN LookAt(f, now.to)
    ELSE [f EXCEPT !.foundNext = now]

CasFailed(f, now) ==
    IF Stale(f.prevNext, now) THEN Restarted(f)
    ELSE IF NextChanged(f.prevNext, now) THEN Follow(f, now)
    ELSE [f EXCEPT !.prevNext = now]

LEMMA PlusTakes ==
    ASSUME NEW m, IsNow(m), StateInv(m, held, frame), NEW t \in Thread, Plus(t), Unwrapped
    PROVE  \E m2 : Takes(m, m2, t)
  <1> DEFINE f == frame[t]
             c == frame[t].curr
             w == word[c]
             now == PlusRecord(w)
             e == Answer(f, now.ref)
             g == [e EXCEPT !.pc = IF f.my = NoRecord THEN "return" ELSE "giveBack"]
  <1>1. f.pc = "plus" /\ f.pc \in Walking /\ f.pc # "idle"
    BY DEF Plus, Walking
  <1>2. /\ MapInv(m) /\ FrameInv(m, t, f) /\ AnswerInv(f) /\ f \in Frame /\ m.build = build
        /\ m.word = word /\ m.pointer = pointer /\ m.free = free /\ frame = [s \in Thread |-> frame[s]]
        /\ f.prev \in Node /\ c \in Node /\ \A n \in Node : m.word[n] \in Word
    BY <1>1, Standing
  <1>2a. w \in Word /\ f.op = "RECORD" /\ ~f.removed /\ f.key \in Key
    <2>1. f.op = "RECORD" /\ (f.removed => f.op = "REMOVE")
      BY <1>1, MineIs
    <2>2. QED
      BY <1>1, <1>2, <2>1, Standing
  <1>3. CASE w # f.foundNext
    <2> DEFINE d == PlusFailed(f, w)
    <2>1. frame' = [frame EXCEPT ![t] = d] /\ Reads
      BY <1>3 DEF Plus, PlusFailed, Reads, shared
    <2>2. FrameInv(m, t, d)
      BY <1>1, <1>2, PlusFails DEF PlusFailed
    <2>3. Calm(f, d)
      BY <1>1, <1>2, <1>2a, PlusFailsCalm DEF PlusFailed
    <2>4. Tracks(m, m, f, d)
      BY <1>1, <1>2, <1>2a, PlusFailsTracks DEF PlusFailed
    <2> HIDE DEF d
    <2>5. Stage(f) = Stage(d)
      BY <1>2a, <2>3 DEF Calm, SameCall
    <2>6. Takes(m, m, t)
      BY <2>1, <2>2, <2>3, <2>4, <2>5, Quiet
    <2>7. QED
      BY <2>6
  <1>4. CASE w = f.foundNext
    <2>1. frame' = [frame EXCEPT ![t] = g] /\ word' = [word EXCEPT ![c] = now]
          /\ build' = build /\ pointer' = pointer /\ free' = free /\ held' = held
      BY <1>2, <1>4 DEF Plus
    <2>2. w.ref + 1 < RefMod
      BY <1>2 DEF Unwrapped
    <2>3. now \in Word /\ now.ref = w.ref + 1 /\ now.ref \in Int
      <3>1. now \in Word /\ now.ref = w.ref + 1
        BY <1>2a, <2>2, PlusWord
      <3>2. QED
        BY <3>1, WordFields
    <2>4. /\ g.my = f.my /\ g.op = f.op /\ g.key = f.key /\ g.answer = now.ref
          /\ g.pc \in {"return", "giveBack"} /\ g.removed = FALSE
      <3>1. e \in Frame /\ e.my = f.my /\ e.op = f.op /\ e.key = f.key /\ e.answer = now.ref /\ e.removed = FALSE
        BY <1>2, <2>3, AnswerIs
      <3> HIDE DEF e
      <3>2. QED
        BY <3>1 DEF Frame
    <2> DEFINE m2 == [build |-> m.build, word |-> [m.word EXCEPT ![c] = now], pointer |-> m.pointer,
                      free |-> m.free, at |-> m.at, by |-> m.by, age |-> m.age]
    <2>5. /\ m2.build = m.build /\ m2.word = [m.word EXCEPT ![c] = now] /\ m2.pointer = m.pointer
          /\ m2.free = m.free /\ m2.at = m.at /\ m2.by = m.by /\ m2.age = m.age
      OBVIOUS
    <2> HIDE DEF m2
    <2>6. /\ m.at[c] = "linked" /\ m.pointer[c] = f.key /\ ~Dead(m, c)
          /\ MapInv(m2) /\ Evolves(m, m2, t) /\ FrameInv(m2, t, g)
      <3>1. now = PlusRecord(m.word[f.curr]) /\ m.word[f.curr] = f.foundNext /\ f.foundNext.ref + 1 < RefMod
        BY <1>2, <1>4, <2>2
      <3> HIDE DEF now
      <3>2. QED
        BY <1>1, <1>2, <2>5, <3>1, PlusKeeps
    <2> HIDE DEF g, now
    <2>7. c \in Record
      BY <1>1, <1>2 DEF FrameInv, MetInv
    <2>8. IsNext(m2)
      BY <1>2, <2>1, <2>5 DEF IsNext
    <2>9. AnswerInv(g) /\ Stage(g) = "done" /\ Stage(f) = "called"
      BY <1>1, <1>2a, <2>4 DEF AnswerInv, Stage, Settled, Walking
    <2>10. Keeping(m, m2, t, f, g)
      BY <2>4, <2>5 DEF Keeping
    <2>11. m2.word[c] = now /\ \A n \in Node : n # c => m2.word[n] = m.word[n]
      BY <1>2, <2>5 DEF MapInv, MapType
    <2>12. CountInv(m2, held', frame')
      <3>1. CountInv(m, held, frame) /\ held \in [Thread -> [Key -> Nat]]
        BY DEF StateInv, CountInv
      <3>2. PICK F2 : F2 = frame'
        OBVIOUS
      <3>3. F2[t] = g /\ \A s \in Thread : s # t => F2[s] = frame[s]
        BY <1>2, <2>1, <3>2
      <3>4. Moves(t, held, frame, held, F2)
        BY <3>1, <3>3 DEF Moves
      <3>5. /\ \A k \in Key : ~Pending(f, k)
            /\ \A k \in Key : Pending(F2[t], k) <=> k = f.key
        BY <1>2a, <2>4, <2>9, <3>3 DEF Pending
      <3>6. ~Pending(f, m.pointer[c]) /\ Pending(F2[t], m.pointer[c])
        BY <1>2a, <2>6, <3>5
      <3>7. m2.word[c].ref = m.word[c].ref + 1 /\ \A r \in Record : r # c => m2.word[r].ref = m.word[r].ref
        BY <1>2, <2>3, <2>11, Nodes
      <3>8. \A k \in Key : k # m.pointer[c] => (Pending(F2[t], k) <=> Pending(frame[t], k))
        BY <2>6, <3>5
      <3>9. Recounts(m, m2, frame, F2, t, c)
        BY <2>5, <3>6, <3>7, <3>8 DEF Recounts
      <3>10. CountInv(m2, held, F2)
        BY <1>2, <2>6, <2>7, <3>1, <3>4, <3>9, CountOne
      <3>11. QED
        BY <2>1, <3>2, <3>10
    <2>13. Tracks(m, m2, f, g)
      <3>1. g.pc \notin Walking \cup {"head", "back"}
        BY <2>4 DEF Walking
      <3>2. QED
        BY <3>1, AnswerTracks
    <2>14. Tells(m, m2, f, g, held, held', t)
      <3>1. m2.at[c] = "linked" /\ m2.pointer[c] = f.key /\ m2.word[c].ref = g.answer
        BY <2>4, <2>5, <2>6, <2>11
      <3>2. QED
        BY <1>2a, <2>1, <2>4, <2>7, <2>9, <3>1 DEF Tells
    <2>15. g.pc \notin {"readPointer", "readPrev"}
      BY <2>4
    <2>16. Takes(m, m2, t)
      BY <2>1, <2>6, <2>8, <2>9, <2>10, <2>12, <2>13, <2>14, <2>15, Writes
    <2>17. QED
      BY <2>16
  <1>5. QED
    BY <1>3, <1>4

LEMMA CasTakes ==
    ASSUME NEW m, IsNow(m), StateInv(m, held, frame), NEW t \in Thread, Cas(t), Unwrapped
    PROVE  \E m2 : Takes(m, m2, t)
  <1> DEFINE f == frame[t]
             now == word[frame[t].prev]
             a == IF f.op = "RECORD" THEN 1 ELSE 0
             e == Answer([f EXCEPT !.my = NoRecord], a)
             g == IF now.to = f.curr THEN e
                  ELSE [e EXCEPT !.local = now.to, !.curr = f.curr, !.pc = "unlink"]
  <1>1. f.pc = "cas" /\ f.pc \in Walking /\ f.pc # "idle"
    BY DEF Cas, Walking
  <1>2. /\ MapInv(m) /\ FrameInv(m, t, f) /\ AnswerInv(f) /\ f \in Frame /\ m.build = build
        /\ m.word = word /\ m.pointer = pointer /\ m.free = free /\ frame = [s \in Thread |-> frame[s]]
        /\ f.prev \in Node /\ f.curr \in Node /\ \A n \in Node : m.word[n] \in Word
    BY <1>1, Standing
  <1>3. now \in Word /\ f.op \in {"RECORD", "REMOVE"} /\ (f.removed <=> f.op = "REMOVE") /\ f.key \in Key
    <2>1. f.op = "RECORD" \/ f.removed
      BY <1>1, <1>2 DEF FrameInv, CallInv
    <2>2. f.removed => f.op = "REMOVE"
      BY <1>2 DEF FrameInv, CallInv
    <2>3. f.removed \in BOOLEAN
      BY <1>2 DEF Frame
    <2>4. QED
      BY <1>1, <1>2, <2>1, <2>2, <2>3, Standing
  <1>4. CASE now # f.prevNext
    <2> DEFINE d == CasFailed(f, now)
    <2>1. frame' = [frame EXCEPT ![t] = d] /\ Reads
      BY <1>4 DEF Cas, CasFailed, Reads, shared
    <2>2. FrameInv(m, t, d)
      BY <1>1, <1>2, CasFails DEF CasFailed
    <2>3. Calm(f, d)
      BY <1>1, <1>2, <1>3, CasFailsCalm DEF CasFailed
    <2>4. Tracks(m, m, f, d)
      BY <1>1, <1>2, <1>4, CasFailsTracks
    <2> HIDE DEF d
    <2>5. Stage(f) = Stage(d)
      BY <1>1, <2>3 DEF Calm, SameCall
    <2>6. Takes(m, m, t)
      BY <2>1, <2>2, <2>3, <2>4, <2>5, Quiet
    <2>7. QED
      BY <2>6
  <1>5. CASE now = f.prevNext
    <2>1. frame' = [frame EXCEPT ![t] = g] /\ word' = [word EXCEPT ![f.prev] = NxtAddrV(f.prevNext, Appended(f))]
          /\ build' = build /\ pointer' = pointer /\ free' = free /\ held' = held
      BY <1>2, <1>5 DEF Cas, Appended
    <2>2. m.word[f.prev] = f.prevNext /\ m.word[f.prev].next + 1 < NextMod
      BY <1>2, <1>5 DEF Unwrapped
    <2>3. /\ g.my = NoRecord /\ g.op = f.op /\ g.key = f.key /\ g.answer = a
          /\ g.pc \in {"return", "unlink"} /\ g.removed = FALSE
      <3> DEFINE d == [f EXCEPT !.my = NoRecord]
      <3>1. d \in Frame /\ d.op = f.op /\ d.key = f.key /\ d.my = NoRecord /\ a \in Int
        BY <1>2 DEF Frame
      <3>2. e = Answer(d, a)
        OBVIOUS
      <3> HIDE DEF d, a, e
      <3>3. e \in Frame /\ e.my = NoRecord /\ e.op = f.op /\ e.key = f.key /\ e.answer = a /\ e.removed = FALSE
            /\ e.pc = "return"
        BY <3>1, <3>2, AnswerIs
      <3>4. QED
        BY <3>3 DEF Frame
    <2>4. PICK m2 : m2 = AfterCas(m, t, f)
      OBVIOUS
    <2>5. MapInv(m2) /\ Evolves(m, m2, t)
      BY <1>1, <1>2, <2>2, <2>4, CasEvolves
    <2>6. FrameInv(m2, t, g)
      BY <1>1, <1>2, <1>5, <2>2, <2>4, CasKeeps
    <2> HIDE DEF g
    <2>7. IsNext(m2)
      BY <1>2, <2>1, <2>4 DEF IsNext, AfterCas
    <2>8. /\ m2.build = m.build /\ m2.pointer = m.pointer
          /\ \A n \in Node : m2.word[n].ref = m.word[n].ref
          /\ \A r \in Record :
                /\ r \in Cut(m, f) => m2.at[r] = "gone"
                /\ Linking(f, r) => m2.at[r] = "linked"
                /\ r \notin Cut(m, f) => m2.by[r] = m.by[r]
                /\ r \notin Cut(m, f) /\ ~Linking(f, r) => m2.at[r] = m.at[r]
      BY <1>1, <1>2, <2>2, <2>4, AfterCasIs
    <2>9. \A r \in Cut(m, f) : Dead(m, r)
      BY <1>1, <1>2, <2>2, CutIs
    <2>10. f.op = "RECORD" => f.my \in Record /\ m.at[f.my] = "mine" /\ m.pointer[f.my] = f.key /\ m.word[f.my].ref = 1
      <3>1. f.op = "RECORD" => f.my # NoRecord /\ m.word[f.my].ref = 1
        BY <1>1, <1>2 DEF FrameInv, MineInv
      <3>2. QED
        BY <3>1, MineIs
    <2>11. Keeping(m, m2, t, f, g)
      <3>1. SUFFICES ASSUME NEW r \in Record, m2.at[r] = "mine"
                     PROVE  m.at[r] = "mine" /\ m2.by[r] = m.by[r] /\ (m.by[r] = t => g.my = f.my)
        BY DEF Keeping
      <3>2. r \notin Cut(m, f) /\ ~Linking(f, r)
        BY <2>8, <3>1
      <3>3. m.at[r] = "mine" /\ m2.by[r] = m.by[r]
        BY <2>8, <3>1, <3>2
      <3>4. m.by[r] = t => f.my = r /\ r # NoRecord
        BY <3>3, MineIs, Nodes
      <3>5. f.my = r /\ r # NoRecord => Linking(f, r)
        BY <1>3, MineIs DEF Linking
      <3>6. QED
        BY <3>2, <3>3, <3>4, <3>5
    <2>12. AnswerInv(g) /\ Stage(g) = "done"
      BY <2>3 DEF AnswerInv, Stage, Settled, Walking
    <2>13. Tracks(m, m2, f, g)
      <3>1. g.pc \notin Walking \cup {"head", "back"}
        BY <2>3 DEF Walking
      <3>2. QED
        BY <3>1, AnswerTracks
    <2>14. g.pc \notin {"readPointer", "readPrev"}
      BY <2>3
    <2>15. CASE f.op = "RECORD"
      <3>1. Stage(f) = "called" /\ a = 1
        BY <1>1, <1>3, <2>15 DEF Stage, Settled
      <3>2. CountInv(m2, held', frame')
        <4>1. CountInv(m, held, frame) /\ held \in [Thread -> [Key -> Nat]]
          BY DEF StateInv, CountInv
        <4>2. PICK F2 : F2 = frame'
          OBVIOUS
        <4>3. F2[t] = g /\ \A s \in Thread : s # t => F2[s] = frame[s]
          BY <1>2, <2>1, <4>2
        <4>4. Moves(t, held, frame, held, F2)
          BY <4>1, <4>3 DEF Moves
        <4>5. /\ \A k \in Key : ~Pending(f, k)
              /\ \A k \in Key : Pending(F2[t], k) <=> k = f.key
          BY <2>3, <2>12, <2>15, <3>1, <4>3 DEF Pending
        <4>6. \A k \in Key : k # f.key => (Pending(F2[t], k) <=> Pending(frame[t], k))
          BY <4>5
        <4>7. ~Pending(frame[t], f.key) /\ Pending(F2[t], f.key)
          BY <1>3, <4>5
        <4>8. CountInv(m2, held, F2)
          BY <1>1, <1>2, <2>2, <2>4, <2>15, <4>1, <4>4, <4>6, <4>7, CountLink
        <4>9. QED
          BY <2>1, <4>2, <4>8
      <3>3. Tells(m, m2, f, g, held, held', t)
        <4>1. f.my \in Record /\ f.my \in Node /\ Linking(f, f.my)
          BY <2>10, <2>15, Nodes DEF Linking
        <4>2. m2.at[f.my] = "linked" /\ m2.pointer[f.my] = f.key /\ m2.word[f.my].ref = g.answer
          BY <2>3, <2>8, <2>10, <2>15, <3>1, <4>1
        <4>3. QED
          BY <2>1, <2>3, <2>12, <2>15, <3>1, <4>1, <4>2 DEF Tells
      <3>4. Takes(m, m2, t)
        BY <2>1, <2>5, <2>6, <2>7, <2>11, <2>12, <2>13, <2>14, <3>2, <3>3, Writes
      <3>5. QED
        BY <3>4
    <2>16. CASE f.op = "REMOVE"
      <3>1. Stage(f) = "done" /\ a = 0 /\ f.answer = 0
        BY <1>1, <1>2, <1>3, <2>16 DEF Stage, Settled, AnswerInv
      <3>2. \A k \in Key : Pending(g, k) <=> Pending(f, k)
        BY <2>3, <2>12, <3>1 DEF Pending
      <3>3. /\ \A r \in Record : m2.at[r] = "linked" =>
                 m.at[r] = "linked" /\ m2.pointer[r] = m.pointer[r] /\ m2.word[r].ref = m.word[r].ref
            /\ \A r \in Record : m.at[r] = "linked" /\ ~Dead(m, r) =>
                 m2.at[r] = "linked" /\ m2.pointer[r] = m.pointer[r]
        <4>1. \A r \in Record : ~Linking(f, r)
          BY <2>16 DEF Linking
        <4>2. QED
          BY <2>8, <2>9, <4>1, Nodes
      <3>4. CountInv(m2, held', frame')
        BY <2>1, <3>2, <3>3, CountStays
      <3>5. Tells(m, m2, f, g, held, held', t)
        BY <2>1, <2>3, <2>12, <3>1 DEF Tells
      <3>6. Takes(m, m2, t)
        BY <2>1, <2>5, <2>6, <2>7, <2>11, <2>12, <2>13, <2>14, <3>4, <3>5, Writes
      <3>7. QED
        BY <3>6
    <2>17. QED
      BY <1>3, <2>15, <2>16
  <1>6. QED
    BY <1>4, <1>5

LEMMA OnceTakes ==
    ASSUME NEW m, IsNow(m), StateInv(m, held, frame), NEW t \in Thread, OnceStep(t), Unwrapped
    PROVE  \E m2 : Takes(m, m2, t)
  <1>1. CASE FromHead(t) BY <1>1, FromHeadTakes
  <1>2. CASE ReadCurr(t) BY <1>2, ReadCurrTakes
  <1>3. CASE ReadPointer(t) BY <1>3, ReadPointerTakes
  <1>4. CASE ReadPrev(t) BY <1>4, ReadPrevTakes
  <1>5. CASE Back(t) BY <1>5, BackTakes
  <1>6. CASE RecheckPrev(t) BY <1>6, RecheckTakes
  <1>7. CASE CheckCurr(t) BY <1>7, CheckCurrTakes
  <1>8. CASE Sub(t) BY <1>8, SubTakes
  <1>9. CASE Plus(t) BY <1>9, PlusTakes
  <1>10. CASE GiveBack(t) BY <1>10, GiveBackTakes
  <1>11. CASE Get(t) BY <1>11, GetTakes
  <1>12. CASE SetWord(t) BY <1>12, SetWordTakes
  <1>13. CASE Cas(t) BY <1>13, CasTakes
  <1>14. CASE Unlink(t) BY <1>14, UnlinkTakes
  <1>15. QED
    BY <1>1, <1>2, <1>3, <1>4, <1>5, <1>6, <1>7, <1>8, <1>9, <1>10, <1>11, <1>12, <1>13, <1>14 DEF OnceStep

\* Every step of a thread.
LEMMA StepTakes ==
    ASSUME NEW m, IsNow(m), StateInv(m, held, frame), NEW t \in Thread, Step(t), build.walk = "once", Unwrapped,
           TodoInv
    PROVE  \E m2 : Takes(m, m2, t)
  <1>1. CASE Invoke(t)
    <2>1. Takes(m, m, t)
      BY <1>1, InvokeTakes
    <2>2. QED
      BY <2>1
  <1>2. CASE OnceStep(t)
    BY <1>2, OnceTakes
  <1>3. CASE Return(t)
    <2>1. Takes(m, m, t)
      BY <1>3, ReturnTakes
    <2>2. QED
      BY <2>1
  <1>4. "once" # "late"
    OBVIOUS
  <1>5. QED
    BY <1>1, <1>2, <1>3, <1>4 DEF Step

-----------------------------------------------------------------------------
(* The start.                                                              *)

\* A set of numbers has a least one.
LEMMA LeastIn ==
    ASSUME NEW S, S \subseteq Nat, S # {}
    PROVE  Min(S) \in S /\ \A j \in S : Min(S) <= j
  <1> DEFINE R == OpToRel(<, Nat)
  <1>1. S \subseteq Nat /\ S # {} /\ IsWellFoundedOn(R, Nat)
    BY NatLessThanWellFounded
  <1>2. PICK i \in S : \A j \in S : <<j, i>> \notin R
    <2> HIDE DEF R
    <2> QED
      BY ONLY <1>1, WFMin
  <1>3. \A j \in S : i <= j
    <2>1. \A j \in S : ~(j < i)
      BY <1>2 DEF OpToRel
    <2>2. QED
      BY <2>1
  <1>4. QED
    BY <1>3 DEF Min

\* The references that "h" holds.
LEMMA ReferencesIs ==
    ASSUME NEW h \in [Thread -> [Key -> Nat]], NEW k \in Key
    PROVE  LET R == UNION {{t} \X (1 .. h[t][k]) : t \in Thread}
           IN  /\ IsFiniteSet(R) /\ References(h, k) = Cardinality(R) /\ References(h, k) \in Nat
               /\ R = Held(h, [t \in Thread |-> Idle], k)
  <1> DEFINE B == [t \in Thread |-> {t} \X (1 .. h[t][k])]
             D == {{t} \X (1 .. h[t][k]) : t \in Thread}
             R == UNION {{t} \X (1 .. h[t][k]) : t \in Thread}
             F == [t \in Thread |-> Idle]
  <1>0. IsFiniteSet(Thread)
    BY MapAssumption
  <1>1. IsFiniteSet(D)
    <2>1. B \in Surjection(Thread, D)
      <3>1. B \in [Thread -> D]
        OBVIOUS
      <3>2. \A d \in D : \E t \in Thread : B[t] = d
        OBVIOUS
      <3> HIDE DEF B, D
      <3>3. QED
        BY <3>1, <3>2 DEF Surjection
    <2> HIDE DEF B, D
    <2>2. QED
      BY <1>0, <2>1, FS_Surjection
  <1>2. \A d \in D : IsFiniteSet(d)
    <2>1. SUFFICES ASSUME NEW t \in Thread PROVE IsFiniteSet({t} \X (1 .. h[t][k]))
      OBVIOUS
    <2>2. IsFiniteSet({t})
      BY FS_Singleton
    <2>3. h[t][k] \in Int /\ 1 \in Int
      OBVIOUS
    <2>4. IsFiniteSet(1 .. h[t][k])
      BY <2>3, FS_Interval
    <2>5. QED
      BY <2>2, <2>4, FS_Product
  <1>3. IsFiniteSet(R)
    <2>1. R = UNION D
      OBVIOUS
    <2> HIDE DEF D, R
    <2>2. QED
      BY <1>1, <1>2, <2>1, FS_UNION
  <1>4. References(h, k) = Cardinality(R)
    BY DEF References
  <1>5. Cardinality(R) \in Nat
    BY <1>3, EmptyCard
  <1>6. R = Held(h, F, k)
    <2>1. \A t \in Thread : ~Pending(F[t], k)
      <3>1. Idle.key = 0 /\ k # 0
        BY Keyed DEF Idle
      <3>2. QED
        BY <3>1 DEF Pending
    <2>2. \A t \in Thread, i \in Nat : <<t, i>> \in Held(h, F, k) <=> (IF i = 0 THEN FALSE ELSE i <= h[t][k])
      BY <2>1 DEF Held
    <2>3. \A x \in Held(h, F, k) : \E t \in Thread, i \in Nat : x = <<t, i>>
      BY DEF Held
    <2>4. \A t \in Thread : h[t][k] \in Nat
      OBVIOUS
    <2>5. \A t \in Thread, i \in Nat : <<t, i>> \in R <=> i # 0 /\ i <= h[t][k]
      BY <2>4
    <2>6. \A x \in R : \E t \in Thread, i \in Nat : x = <<t, i>>
      BY <2>4
    <2>7. \A t \in Thread, i \in Nat : <<t, i>> \in R <=> <<t, i>> \in Held(h, F, k)
      BY <2>2, <2>5
    <2> HIDE DEF R, F
    <2>8. R \subseteq Held(h, F, k)
      BY <2>6, <2>7
    <2>9. Held(h, F, k) \subseteq R
      BY <2>3, <2>7
    <2>10. QED
      BY <2>8, <2>9
  <1>7. QED
    BY <1>3, <1>4, <1>5, <1>6

\* The map at the start: the first Records hold the pointers that have references.
StartMap == [build |-> build, word |-> word, pointer |-> pointer, free |-> free,
             at |-> [r \in Record |-> IF pointer[r] = 0 THEN "free" ELSE "linked"],
             by |-> [r \in Record |-> 0],
             age |-> [r \in Record |-> word[r].node]]

LEMMA StartWords ==
    ASSUME InitMap, Unwrapped
    PROVE  /\ held \in [Thread -> [Key -> Nat]] /\ TodoInv
           /\ \A k \in Key : References(held, k) \in Nat
           /\ \A n \in Node : pointer[n] = IF n \in Key /\ References(held, n) > 0 THEN n ELSE 0
           /\ \A r \in Record : pointer[r] = 0 => word[r] = Blank
           /\ \A r \in Record : pointer[r] # 0 =>
                /\ r \in Key /\ pointer[r] = r /\ word[r].ref = References(held, r) /\ word[r].ref # 0
                /\ word[r].to = FirstAbove(held, ListOf(r), r)
           /\ \A l \in Lists : word[HeadOf(l)] = NewNext(Blank, FirstAbove(held, l, 0))
           /\ \A l \in Lists : word[TailOf(l)] = Blank
           /\ \A l \in Lists, k \in Key \cup {0} :
                LET b == FirstAbove(held, l, k)
                    S == {j \in Key : j > k /\ ListOf(j) = l /\ References(held, j) > 0}
                IN  /\ b \in Node
                    /\ (b = TailOf(l) /\ S = {}) \/ (b \in S /\ \A j \in S : b <= j)
           /\ \A n \in Node : word[n] \in Word
  <1>1. PICK s \in Scenarios : held = s.held /\ todo = s.todo
    BY DEF InitMap
  <1>2. held \in [Thread -> [Key -> Nat]] /\ TodoInv
    <2>1. s.held \in [Thread -> [Key -> Nat]] /\ s.todo \in [Thread -> Seq(SUBSET (Operation \X Key))]
      BY MapAssumption
    <2>2. QED
      BY <1>1, <2>1 DEF TodoInv
  <1>3. \A k \in Key : References(held, k) \in Nat
    BY <1>2, ReferencesIs
  <1>4. /\ word = [n \in Node |-> InitialWord(held, n)]
        /\ pointer = [n \in Node |-> IF n \in Key /\ References(held, n) > 0 THEN n ELSE 0]
    BY DEF InitMap
  <1>5. Key \subseteq Record /\ \A k \in Key : k \in Nat /\ k # 0 /\ k \in Node
    BY Numbers, Nodes DEF Key, Record
  <1>6. \A n \in Node : pointer[n] = IF n \in Key /\ References(held, n) > 0 THEN n ELSE 0
    BY <1>4
  <1>7. \A n \in Node : word[n] = InitialWord(held, n)
    BY <1>4
  <1>8. \A r \in Record : pointer[r] = 0 => word[r] = Blank
    <2>1. \A r \in Record : r \in Node /\ r \notin {HeadOf(l) : l \in Lists}
      BY Nodes
    <2>2. QED
      BY <1>5, <1>6, <1>7, <2>1 DEF InitialWord
  <1>9. \A r \in Record : pointer[r] # 0 =>
            /\ r \in Key /\ pointer[r] = r /\ References(held, r) > 0
            /\ word[r] = [ref |-> References(held, r), node |-> 1, next |-> 0, to |-> FirstAbove(held, ListOf(r), r)]
    BY <1>5, <1>6, <1>7, Nodes DEF InitialWord
  <1>10. \A r \in Record : pointer[r] # 0 =>
            /\ r \in Key /\ pointer[r] = r /\ word[r].ref = References(held, r) /\ word[r].ref # 0
            /\ word[r].to = FirstAbove(held, ListOf(r), r)
    <2>1. SUFFICES ASSUME NEW r \in Record, pointer[r] # 0
                   PROVE  /\ r \in Key /\ pointer[r] = r /\ word[r].ref = References(held, r) /\ word[r].ref # 0
                          /\ word[r].to = FirstAbove(held, ListOf(r), r)
      OBVIOUS
    <2>2. r \in Key /\ pointer[r] = r /\ References(held, r) > 0 /\ References(held, r) \in Nat
      BY <1>3, <1>9, <2>1
    <2>3. word[r] = [ref |-> References(held, r), node |-> 1, next |-> 0, to |-> FirstAbove(held, ListOf(r), r)]
      BY <1>9, <2>1
    <2>3a. word[r].ref = References(held, r) /\ word[r].to = FirstAbove(held, ListOf(r), r)
      BY <2>3
    <2>4. QED
      BY <2>2, <2>3a
  <1>11. ASSUME NEW l \in Lists PROVE word[HeadOf(l)] = NewNext(Blank, FirstAbove(held, l, 0))
    <2>1. HeadOf(l) \in Node /\ HeadOf(l) \notin Key /\ HeadOf(l) \in {HeadOf(i) : i \in Lists}
      BY <1>5, Nodes
    <2>2. (CHOOSE i \in Lists : HeadOf(l) = HeadOf(i)) = l
      BY Nodes
    <2>3. QED
      BY <1>7, <2>1, <2>2 DEF InitialWord
  <1>12. ASSUME NEW l \in Lists PROVE word[TailOf(l)] = Blank
    <2>1. TailOf(l) \in Node /\ TailOf(l) \notin Key /\ TailOf(l) \notin {HeadOf(i) : i \in Lists}
      BY <1>5, Nodes
    <2>2. QED
      BY <1>7, <2>1 DEF InitialWord
  <1>13. ASSUME NEW l \in Lists, NEW k \in Key \cup {0}
         PROVE  LET b == FirstAbove(held, l, k)
                    S == {j \in Key : j > k /\ ListOf(j) = l /\ References(held, j) > 0}
                IN  /\ b \in Node
                    /\ (b = TailOf(l) /\ S = {}) \/ (b \in S /\ \A j \in S : b <= j)
    <2> DEFINE S == {j \in Key : j > k /\ ListOf(j) = l /\ References(held, j) > 0}
               b == FirstAbove(held, l, k)
    <2>1. b = IF S = {} THEN TailOf(l) ELSE Min(S)
      BY DEF FirstAbove
    <2>2. S \subseteq Nat /\ S \subseteq Node
      BY <1>5
    <2> HIDE DEF S, b
    <2>3. CASE S = {}
      BY <2>1, <2>3, Nodes DEF S, b
    <2>4. CASE S # {}
      <3>1. b \in S /\ \A j \in S : b <= j
        BY <2>1, <2>2, <2>4, LeastIn
      <3>2. QED
        BY <2>2, <3>1 DEF S, b
    <2>5. QED
      BY <2>3, <2>4
  <1>14. ASSUME NEW n \in Node PROVE word[n] \in Word
    <2>1. CASE n \in Record
      <3>1. CASE pointer[n] = 0
        BY <1>8, <2>1, <3>1, BlankWord
      <3>2. CASE pointer[n] # 0
        <4>1. /\ n \in Key /\ word[n] = [ref |-> References(held, n), node |-> 1, next |-> 0,
                                         to |-> FirstAbove(held, ListOf(n), n)]
          BY <1>9, <2>1, <3>2
        <4>2. word[n].ref = References(held, n) /\ word[n].node = 1
          BY <4>1
        <4>3. References(held, n) + 1 < RefMod /\ 1 + 1 < NodeMod
          BY <4>2 DEF Unwrapped
        <4>4. ListOf(n) \in Lists
          BY <1>5, <4>1, Nodes
        <4>5. FirstAbove(held, ListOf(n), n) \in Node
          BY <1>13, <4>1, <4>4
        <4>6. References(held, n) \in 0 .. RefMod - 1 /\ 1 \in 0 .. NodeMod - 1 /\ 0 \in 0 .. NextMod - 1
          BY <1>3, <4>1, <4>3, Numbers
        <4>7. QED
          BY <4>1, <4>5, <4>6 DEF Word
      <3>3. QED
        BY <3>1, <3>2
    <2>2. CASE n \notin Record
      <3>1. n \notin Key
        BY <1>5, <2>2
      <3>2. CASE n \in {HeadOf(l) : l \in Lists}
        <4>1. PICK l \in Lists : n = HeadOf(l)
          BY <3>2
        <4>2. word[n] = NewNext(Blank, FirstAbove(held, l, 0)) /\ FirstAbove(held, l, 0) \in Node
          BY <1>11, <1>13, <4>1
        <4>3. word[n] = [Blank EXCEPT !.ref = 1, !.node = (0 + 1) % NodeMod, !.to = FirstAbove(held, l, 0)]
          BY <4>2 DEF NewNext, Blank
        <4>4. (0 + 1) % NodeMod \in 0 .. NodeMod - 1 /\ 1 \in 0 .. RefMod - 1
          BY Numbers
        <4>5. QED
          BY <4>2, <4>3, <4>4, BlankWord DEF Word
      <3>3. CASE n \notin {HeadOf(l) : l \in Lists}
        BY <1>7, <3>1, <3>3, BlankWord DEF InitialWord
      <3>4. QED
        BY <3>2, <3>3
    <2>3. QED
      BY <2>1, <2>2
  <1>15. QED
    BY <1>2, <1>3, <1>6, <1>8, <1>10, <1>11, <1>12, <1>13, <1>14

LEMMA StartLists ==
    ASSUME InitMap, Unwrapped, NEW m, m = StartMap, MapType(m), NEW l \in Lists
    PROVE  ListInv(m, l)
  <1> DEFINE S == Members(m, l)
  <1>0. m.word = word /\ m.pointer = pointer /\ m.at = [r \in Record |-> IF pointer[r] = 0 THEN "free" ELSE "linked"]
    BY DEF StartMap
  <1>1. /\ \A n \in Node : pointer[n] = IF n \in Key /\ References(held, n) > 0 THEN n ELSE 0
        /\ \A r \in Record : pointer[r] # 0 =>
             /\ r \in Key /\ pointer[r] = r /\ word[r].to = FirstAbove(held, ListOf(r), r)
        /\ word[HeadOf(l)] = NewNext(Blank, FirstAbove(held, l, 0))
        /\ \A k \in Key \cup {0} :
             LET b == FirstAbove(held, l, k)
                 T == {j \in Key : j > k /\ ListOf(j) = l /\ References(held, j) > 0}
             IN  (b = TailOf(l) /\ T = {}) \/ (b \in T /\ \A j \in T : b <= j)
    BY StartWords
  <1>2. Key \subseteq Record /\ \A k \in Key : k \in Nat /\ k # 0 /\ k <= Keys /\ k \in Node
    BY Numbers, Nodes DEF Key, Record
  <1>3. \A r \in Record : r \in S <=> r \in Key /\ ListOf(r) = l /\ References(held, r) > 0
    <2>1. \A r \in Record : r \in S <=> m.at[r] = "linked" /\ ListOf(m.pointer[r]) = l
      BY Nodes DEF Members
    <2>2. \A r \in Record : m.at[r] = "linked" <=> pointer[r] # 0
      BY <1>0
    <2>3. QED
      BY <1>0, <1>1, <1>2, <2>1, <2>2, Nodes
  <1>4. /\ Rank(m, HeadOf(l)) = 0 /\ Rank(m, TailOf(l)) = Keys + 1
        /\ \A r \in Record : r \in S => Rank(m, r) = r
    <2>1. Rank(m, HeadOf(l)) = 0 /\ Rank(m, TailOf(l)) = Keys + 1 /\ \A r \in Record : Rank(m, r) = m.pointer[r]
      BY Ranks
    <2>2. QED
      BY <1>0, <1>1, <1>2, <1>3, <2>1
  <1>5. /\ S = {HeadOf(l), TailOf(l)} \cup {r \in Record : r \in S}
        /\ HeadOf(l) \in S /\ TailOf(l) \in S /\ Keys \in Nat
    BY Numbers DEF Members
  <1> HIDE DEF S
  <1>6. Distinct(m, S)
    <2>1. \A r \in Record : r \in S => r \in Nat /\ r # 0 /\ r <= Keys
      BY <1>2, <1>3
    <2>2. \A n \in S : n = HeadOf(l) \/ n = TailOf(l) \/ n \in Record
      BY <1>5
    <2>3. QED
      BY <1>4, <1>5, <2>1, <2>2 DEF Distinct
  <1>7. ASSUME NEW n \in S, n # TailOf(l) PROVE Follows(m, S, n, m.word[n].to)
    <2>1. PICK k \in Key \cup {0} : Rank(m, n) = k /\ m.word[n].to = FirstAbove(held, l, k)
      <3>1. CASE n = HeadOf(l)
        <4>1. word[n].to = FirstAbove(held, l, 0)
          <5>1. word[n] = [Blank EXCEPT !.ref = 1, !.node = (@ + 1) % NodeMod, !.to = FirstAbove(held, l, 0)]
            BY <1>1, <3>1 DEF NewNext
          <5>2. QED
            BY <5>1 DEF Blank
        <4>2. QED
          BY <1>0, <1>4, <3>1, <4>1
      <3>2. CASE n \in Record
        <4>1. n \in Key /\ ListOf(n) = l /\ References(held, n) > 0
          BY <1>3, <1>7, <3>2
        <4>2. pointer[n] # 0
          BY <1>1, <1>2, <4>1
        <4>3. QED
          BY <1>0, <1>1, <1>4, <1>7, <3>2, <4>1, <4>2
      <3>3. QED
        BY <1>5, <1>7, <3>1, <3>2
    <2> DEFINE T == {j \in Key : j > k /\ ListOf(j) = l /\ References(held, j) > 0}
               b == FirstAbove(held, l, k)
    <2>2. (b = TailOf(l) /\ T = {}) \/ (b \in T /\ \A j \in T : b <= j)
      BY <1>1
    <2>3. \A r \in S : r \in T \/ Rank(m, r) <= k \/ r = TailOf(l)
      <3>1. k \in Nat
        BY <1>2
      <3>2. \A r \in Record : r \in S => r \in T \/ Rank(m, r) <= k
        BY <1>2, <1>3, <1>4, <3>1
      <3>3. QED
        BY <1>4, <1>5, <3>1, <3>2
    <2>4. \A j \in T : j \in S /\ Rank(m, j) = j /\ k < j /\ j <= Keys /\ j \in Nat
      BY <1>2, <1>3, <1>4
    <2>5. k <= Keys /\ k \in Nat
      BY <1>2, <1>5
    <2> HIDE DEF T, b
    <2>6. CASE b = TailOf(l) /\ T = {}
      <3>1. b \in S /\ k < Rank(m, b)
        BY <1>4, <1>5, <2>5, <2>6
      <3>2. \A r \in S : Rank(m, r) <= k \/ Rank(m, b) <= Rank(m, r)
        BY <1>4, <1>5, <2>3, <2>6
      <3>3. QED
        BY <2>1, <3>1, <3>2 DEF Follows, b
    <2>7. CASE b \in T /\ \A j \in T : b <= j
      <3>1. b \in S /\ k < Rank(m, b) /\ Rank(m, b) <= Keys + 1 /\ Rank(m, b) = b
        BY <1>5, <2>4, <2>5, <2>7
      <3>2. \A r \in S : Rank(m, r) <= k \/ Rank(m, b) <= Rank(m, r)
        BY <1>4, <2>3, <2>4, <2>7, <3>1
      <3>3. QED
        BY <2>1, <3>1, <3>2 DEF Follows, b
    <2>8. QED
      BY <2>2, <2>6, <2>7
  <1>8. m.word[HeadOf(l)].node = 1 % NodeMod /\ m.word[HeadOf(l)].ref = 1
    <2>1. word[HeadOf(l)] = [Blank EXCEPT !.ref = 1, !.node = (@ + 1) % NodeMod, !.to = FirstAbove(held, l, 0)]
      BY <1>1 DEF NewNext
    <2>2. QED
      BY <1>0, <2>1 DEF Blank
  <1>9. QED
    BY <1>6, <1>7, <1>8 DEF ListInv, Dead, S

LEMMA StartInv ==
    ASSUME InitMap, Unwrapped
    PROVE  MInv
  <1>1. PICK m : m = StartMap
    OBVIOUS
  <1>2. /\ m.build = build /\ m.word = word /\ m.pointer = pointer /\ m.free = free
        /\ m.at = [r \in Record |-> IF pointer[r] = 0 THEN "free" ELSE "linked"]
        /\ m.by = [r \in Record |-> 0] /\ m.age = [r \in Record |-> word[r].node]
    BY <1>1 DEF StartMap
  <1>3. /\ held \in [Thread -> [Key -> Nat]]
        /\ \A k \in Key : References(held, k) \in Nat
        /\ \A n \in Node : pointer[n] = IF n \in Key /\ References(held, n) > 0 THEN n ELSE 0
        /\ \A r \in Record : pointer[r] = 0 => word[r] = Blank
        /\ \A r \in Record : pointer[r] # 0 => r \in Key /\ pointer[r] = r /\ word[r].ref = References(held, r)
        /\ \A n \in Node : word[n] \in Word
    BY StartWords
  <1>4. /\ word = [n \in Node |-> word[n]] /\ pointer = [n \in Node |-> pointer[n]]
        /\ free = {r \in Record : pointer[r] = 0} /\ frame = [t \in Thread |-> Idle]
    BY DEF InitMap
  <1>5. Key \subseteq Record /\ Record \subseteq Node
    BY Numbers, Nodes DEF Key, Record
  <1>6. MapType(m)
    <2>1. \A r \in Record : word[r].node \in Nat
      BY <1>3, <1>5, WordFields
    <2>2. \A n \in Node : pointer[n] \in Key \cup {0}
      BY <1>3
    <2>3. \A r \in Record : m.at[r] = "free" <=> pointer[r] = 0
      BY <1>2
    <2>4. QED
      BY <1>2, <1>3, <1>4, <2>1, <2>2, <2>3 DEF MapType
  <1>7. ASSUME NEW r \in Record PROVE PlaceInv(m, r)
    <2>1. m.word[r].node = m.age[r]
      BY <1>2
    <2>2. m.at[r] \in {"free", "linked"} /\ (m.at[r] = "free" => Dead(m, r)) /\ (m.at[r] = "linked" => m.pointer[r] \in Key)
      BY <1>2, <1>3 DEF Dead, Blank
    <2>3. QED
      BY <2>1, <2>2 DEF PlaceInv
  <1>8. MapInv(m)
    BY <1>1, <1>6, <1>7, StartLists DEF MapInv
  <1>9. \A r \in Record : m.at[r] \in {"free", "linked"}
    BY <1>2
  <1>10. OwnInv(m, frame)
    BY <1>9 DEF OwnInv
  <1>11. ASSUME NEW t \in Thread PROVE FrameInv(m, t, frame[t]) /\ AnswerInv(frame[t])
    <2>1. Gone(m, t) = {}
      BY <1>9 DEF Gone
    <2>2. FrameInv(m, t, Idle)
      BY <1>8, <2>1, IdleKeeps
    <2>3. AnswerInv(Idle)
      BY DEF AnswerInv, Idle, Walking
    <2>4. QED
      BY <1>4, <2>2, <2>3
  <1>12. CountInv(m, held, frame)
    <2>1. \A k \in Key : /\ IsFiniteSet(Held(held, frame, k))
                         /\ References(held, k) = Cardinality(Held(held, frame, k))
      <3>1. SUFFICES ASSUME NEW k \in Key
                     PROVE  /\ IsFiniteSet(Held(held, frame, k))
                            /\ References(held, k) = Cardinality(Held(held, frame, k))
        OBVIOUS
      <3>2. PICK R : IsFiniteSet(R) /\ References(held, k) = Cardinality(R)
                     /\ R = Held(held, [t \in Thread |-> Idle], k)
        BY <1>3, ReferencesIs
      <3>3. QED
        BY <1>4, <3>2
    <2>2. \A r \in Record : m.at[r] = "linked" => m.word[r].ref = Cardinality(Held(held, frame, m.pointer[r]))
      BY <1>2, <1>3, <2>1
    <2>3. ASSUME NEW k \in Key, Held(held, frame, k) # {} PROVE \E r \in Record : m.at[r] = "linked" /\ m.pointer[r] = k
      <3>1. References(held, k) # 0
        BY <2>1, <2>3, EmptyCard
      <3>2. k # 0 /\ k \in Record /\ k \in Node /\ References(held, k) > 0
        BY <1>3, <1>5, <3>1, Keyed
      <3>3. pointer[k] = k
        BY <1>3, <3>2
      <3>4. QED
        BY <1>2, <3>2, <3>3
    <2>4. QED
      BY <1>3, <2>1, <2>2, <2>3 DEF CountInv
  <1>13. frame = [t \in Thread |-> frame[t]]
    BY <1>4
  <1>14. QED
    BY <1>2, <1>8, <1>10, <1>11, <1>12, <1>13 DEF MInv, IsNow, StateInv

-----------------------------------------------------------------------------
(* Walks through a list.                                                   *)

\* Induction, for a set of numbers.
LEMMA EveryNumber ==
    ASSUME NEW S, S \subseteq Nat, 0 \in S, \A n \in S : n + 1 \in S
    PROVE  S = Nat
  <1> SUFFICES ASSUME S # Nat PROVE FALSE
    OBVIOUS
  <1> DEFINE T == Nat \ S
             R == OpToRel(<, Nat)
  <1>1. T \subseteq Nat /\ T # {} /\ IsWellFoundedOn(R, Nat)
    BY NatLessThanWellFounded
  <1>2. PICK n \in T : \A m \in T : <<m, n>> \notin R
    <2> HIDE DEF R, T
    <2> QED
      BY ONLY <1>1, WFMin
  <1>3. \A m \in T : ~(m < n)
    BY <1>2 DEF OpToRel
  <1>4. n # 0 /\ n - 1 \in Nat /\ n - 1 \notin T
    BY <1>3
  <1>5. QED
    BY <1>4

\* One step of a walk that begins at a and stays at z, by the words w.
Stepped(w, a, z, f, i) == IF i = 0 THEN a ELSE IF f[i - 1] = z THEN z ELSE w[f[i - 1]].to

Walk(w, a, z, N, f) == f = [i \in 0 .. N |-> Stepped(w, a, z, f, i)]

LEMMA WalkExists ==
    ASSUME NEW w, NEW a, NEW z, NEW N \in Nat
    PROVE  \E f : Walk(w, a, z, N, f)
  <1> DEFINE S == {n \in Nat : \E f : Walk(w, a, z, n, f)}
  <1>1. 0 \in S
    <2> DEFINE f == [i \in 0 .. 0 |-> a]
    <2>1. f = [i \in 0 .. 0 |-> Stepped(w, a, z, f, i)]
      BY DEF Stepped
    <2> HIDE DEF f
    <2>2. Walk(w, a, z, 0, f)
      BY <2>1 DEF Walk
    <2>3. QED
      BY <2>2
  <1>2. ASSUME NEW n \in S PROVE n + 1 \in S
    <2>1. PICK f : Walk(w, a, z, n, f)
      OBVIOUS
    <2>1a. \A i \in 0 .. n : f[i] = Stepped(w, a, z, f, i)
      BY <2>1 DEF Walk
    <2> DEFINE b == IF f[n] = z THEN z ELSE w[f[n]].to
               g == [i \in 0 .. n + 1 |-> IF i = n + 1 THEN b ELSE f[i]]
    <2>2. n \in Nat
      OBVIOUS
    <2>2a. \A i \in 0 .. n : i \in 0 .. n + 1 /\ i # n + 1
      BY <2>2
    <2>2b. \A i \in 0 .. n : g[i] = f[i]
      BY <2>2a
    <2>3. \A i \in 0 .. n : g[i] = f[i] /\ f[i] = Stepped(w, a, z, f, i)
      BY <2>1a, <2>2b
    <2>4. ASSUME NEW i \in 0 .. n + 1 PROVE g[i] = Stepped(w, a, z, g, i)
      <3>1. CASE i = n + 1
        <4>1. i # 0 /\ i - 1 = n /\ g[i] = b /\ g[n] = f[n]
          BY <2>2, <2>3, <3>1
        <4> HIDE DEF g
        <4>2. QED
          BY <4>1 DEF Stepped
      <3>2. CASE i # n + 1
        <4>1. i \in 0 .. n /\ (i # 0 => i - 1 \in 0 .. n)
          BY <2>2, <3>2
        <4>2. g[i] = f[i] /\ f[i] = Stepped(w, a, z, f, i) /\ (i # 0 => g[i - 1] = f[i - 1])
          BY <2>3, <4>1
        <4> HIDE DEF g
        <4>3. QED
          BY <4>2 DEF Stepped
      <3>3. QED
        BY <3>1, <3>2
    <2>5. g = [i \in 0 .. n + 1 |-> g[i]]
      OBVIOUS
    <2> HIDE DEF g
    <2>6. Walk(w, a, z, n + 1, g)
      BY <2>4, <2>5 DEF Walk
    <2>7. QED
      BY <2>2, <2>6
  <1>3. S \subseteq Nat
    OBVIOUS
  <1>4. S = Nat
    <2> HIDE DEF S
    <2> QED
      BY <1>1, <1>2, <1>3, EveryNumber
  <1>5. QED
    BY <1>4

\* The places K of the nodes of S tell them apart, and w leads from each one
\* but z to the next one.
Ordered(S, K, w, a, z, N) ==
    /\ a \in S /\ z \in S /\ K \in [S -> Nat]
    /\ \A n, j \in S : K[n] = K[j] => n = j
    /\ \A n \in S : K[a] <= K[n] /\ K[n] <= K[z]
    /\ \A n \in S : n # z => /\ w[n].to \in S /\ K[n] < K[w[n].to]
                             /\ \A j \in S : K[j] <= K[n] \/ K[w[n].to] <= K[j]
    /\ K[z] <= K[a] + N

\* A walk passes all of them, in order.
LEMMA WalkPasses ==
    ASSUME NEW S, NEW K, NEW w, NEW a, NEW z, NEW N \in Nat, Ordered(S, K, w, a, z, N),
           NEW f, Walk(w, a, z, N, f)
    PROVE  /\ \A i \in 0 .. N : f[i] \in S
           /\ \A n \in S : \E i \in 0 .. N : f[i] = n
           /\ \A i, j \in 0 .. N : i < j /\ f[j] # z => K[f[i]] < K[f[j]]
           /\ f[0] = a
           /\ \A i \in 0 .. N : i # 0 => f[i] # a \/ a = z
  <1>1. \A i \in 0 .. N : f[i] = Stepped(w, a, z, f, i)
    BY DEF Walk
  <1>2. f[0] = a
    BY <1>1 DEF Stepped
  <1>3. \A i \in Nat : i + 1 <= N => f[i + 1] = IF f[i] = z THEN z ELSE w[f[i]].to
    <2>1. SUFFICES ASSUME NEW i \in Nat, i + 1 <= N PROVE f[i + 1] = IF f[i] = z THEN z ELSE w[f[i]].to
      OBVIOUS
    <2>2. i + 1 \in 0 .. N /\ i + 1 # 0 /\ (i + 1) - 1 = i
      BY <2>1
    <2>3. QED
      BY <1>1, <2>2 DEF Stepped
  <1> DEFINE P(n) == n <= N =>
                 /\ f[n] \in S
                 /\ f[n] # z => K[a] + n <= K[f[n]]
                 /\ \A x \in S : K[x] <= K[f[n]] => \E i \in 0 .. n : f[i] = x
                 /\ \A i \in 0 .. n : i < n /\ f[n] # z => K[f[i]] < K[f[n]]
                 /\ \A i \in 0 .. n : f[i] \in S /\ (f[i] = z => f[n] = z)
             T == {n \in Nat : P(n)}
  <1>4. 0 \in T
    <2>1. a \in S /\ K[a] \in Nat
      BY DEF Ordered
    <2>2. \A x \in S : K[x] <= K[a] => x = a
      <3>1. \A x \in S : K[x] \in Nat /\ K[a] <= K[x] /\ (K[x] = K[a] => x = a)
        BY <2>1 DEF Ordered
      <3>2. QED
        BY <2>1, <3>1
    <2>3. QED
      BY <1>2, <2>1, <2>2
  <1>5. ASSUME NEW n \in T PROVE n + 1 \in T
    <2>1. SUFFICES ASSUME n + 1 <= N PROVE P(n + 1)
      OBVIOUS
    <2>2. n \in Nat /\ n <= N
      BY <2>1
    <2>3. /\ f[n] \in S
          /\ f[n] # z => K[a] + n <= K[f[n]]
          /\ \A x \in S : K[x] <= K[f[n]] => \E i \in 0 .. n : f[i] = x
          /\ \A i \in 0 .. n : i < n /\ f[n] # z => K[f[i]] < K[f[n]]
          /\ \A i \in 0 .. n : f[i] \in S /\ (f[i] = z => f[n] = z)
      BY <2>2
    <2>4. f[n + 1] = IF f[n] = z THEN z ELSE w[f[n]].to
      BY <1>3, <2>1, <2>2
    <2>5. K[a] \in Nat /\ K[f[n]] \in Nat
      BY <2>3 DEF Ordered
    <2>6. \A i \in 0 .. n + 1 : i \in 0 .. n \/ i = n + 1
      BY <2>2
    <2>7. CASE f[n] = z
      <3>1. f[n + 1] = z
        BY <2>4, <2>7
      <3>2. \A x \in S : K[x] <= K[f[n + 1]] => \E i \in 0 .. n + 1 : f[i] = x
        BY <2>2, <2>3, <2>7, <3>1
      <3>3. f[n + 1] \in S /\ \A i \in 0 .. n + 1 : f[i] \in S /\ (f[i] = z => f[n + 1] = z)
        BY <2>3, <2>6, <2>7, <3>1
      <3>4. QED
        BY <2>7, <3>1, <3>2, <3>3
    <2>8. CASE f[n] # z
      <3>1. /\ f[n + 1] \in S /\ K[f[n]] < K[f[n + 1]] /\ K[f[n + 1]] \in Nat
            /\ \A j \in S : K[j] <= K[f[n]] \/ K[f[n + 1]] <= K[j]
        BY <2>3, <2>4, <2>8 DEF Ordered
      <3>2. K[a] + (n + 1) <= K[f[n + 1]]
        BY <2>2, <2>3, <2>5, <2>8, <3>1
      <3>3. ASSUME NEW x \in S, K[x] <= K[f[n + 1]] PROVE \E i \in 0 .. n + 1 : f[i] = x
        <4>1. K[x] \in Nat /\ (K[x] = K[f[n + 1]] => x = f[n + 1])
          BY <3>1 DEF Ordered
        <4>2. K[x] <= K[f[n]] \/ x = f[n + 1]
          BY <3>1, <3>3, <4>1
        <4>3. n + 1 \in 0 .. n + 1 /\ 0 .. n \subseteq 0 .. n + 1
          BY <2>2
        <4>4. QED
          BY <2>3, <4>2, <4>3
      <3>4. ASSUME NEW i \in 0 .. n + 1, i < n + 1 PROVE K[f[i]] < K[f[n + 1]]
        <4>1. i \in 0 .. n
          BY <2>2, <3>4
        <4>2. i = n \/ i < n
          BY <2>2, <4>1
        <4>3. CASE i = n
          BY <3>1, <4>3
        <4>4. CASE i < n
          <5>1. K[f[i]] < K[f[n]]
            BY <2>3, <2>8, <4>1, <4>4
          <5>2. f[i] \in S
            BY <2>3, <4>1
          <5>3. QED
            BY <3>1, <5>1, <5>2, <2>5 DEF Ordered
        <4>5. QED
          BY <4>2, <4>3, <4>4
      <3>5. \A i \in 0 .. n + 1 : f[i] \in S /\ (f[i] = z => f[n + 1] = z)
        BY <2>3, <2>6, <2>8, <3>1
      <3>6. QED
        BY <3>1, <3>2, <3>3, <3>4, <3>5
    <2>9. QED
      BY <2>7, <2>8
  <1>6. T = Nat
    <2>1. T \subseteq Nat
      OBVIOUS
    <2> HIDE DEF T
    <2>2. QED
      BY <1>4, <1>5, <2>1, EveryNumber
  <1>7. \A n \in 0 .. N : P(n)
    BY <1>6
  <1>8. \A i \in 0 .. N : f[i] \in S
    BY <1>7
  <1>9. f[N] = z
    <2>1. SUFFICES ASSUME f[N] # z PROVE FALSE
      OBVIOUS
    <2>2. N \in 0 .. N
      OBVIOUS
    <2>3. P(N)
      BY <1>7, <2>2
    <2>4. K[a] + N <= K[f[N]] /\ f[N] \in S
      BY <2>1, <2>3
    <2>5. K[f[N]] <= K[z] /\ K[z] <= K[a] + N /\ K[z] \in Nat /\ K[a] \in Nat /\ K[f[N]] \in Nat
          /\ (K[f[N]] = K[z] => f[N] = z)
      BY <2>4 DEF Ordered
    <2>6. QED
      BY <2>1, <2>4, <2>5
  <1>10. ASSUME NEW n \in S PROVE \E i \in 0 .. N : f[i] = n
    <2>1. N \in 0 .. N /\ N <= N
      OBVIOUS
    <2>2. K[n] <= K[z]
      BY DEF Ordered
    <2>3. QED
      BY <1>7, <1>9, <2>1, <2>2
  <1>11. ASSUME NEW i \in 0 .. N, NEW j \in 0 .. N, i < j, f[j] # z PROVE K[f[i]] < K[f[j]]
    <2>1. P(j) /\ i \in 0 .. j /\ j <= N
      BY <1>7, <1>11
    <2>2. QED
      BY <1>11, <2>1
  <1>12. ASSUME NEW i \in 0 .. N, i # 0, f[i] = a, a # z PROVE FALSE
    <2>1. 0 \in 0 .. N /\ 0 < i
      BY <1>12
    <2>2. K[f[0]] < K[f[i]]
      BY <1>11, <1>12, <2>1
    <2>3. K[a] \in Nat
      BY DEF Ordered
    <2>4. QED
      BY <1>2, <1>12, <2>2, <2>3
  <1>13. QED
    BY <1>2, <1>8, <1>10, <1>11, <1>12

ChainOf(w, l) == LET f == CHOOSE g : Walk(w, HeadOf(l), TailOf(l), Records + 1, g)
                 IN  [i \in 1 .. Records + 1 |-> f[i]]

LEMMA ChainIs ==
    ASSUME NEW w, NEW l
    PROVE  \E f : /\ Walk(w, HeadOf(l), TailOf(l), Records + 1, f)
                  /\ ChainOf(w, l) = [i \in 1 .. Records + 1 |-> f[i]]
  <1> DEFINE c == CHOOSE f : Walk(w, HeadOf(l), TailOf(l), Records + 1, f)
  <1>1. Records + 1 \in Nat
    BY Numbers
  <1>2. ChainOf(w, l) = [i \in 1 .. Records + 1 |-> c[i]]
    BY DEF ChainOf
  <1>3. \E f : Walk(w, HeadOf(l), TailOf(l), Records + 1, f)
    BY <1>1, WalkExists
  <1>4. Walk(w, HeadOf(l), TailOf(l), Records + 1, c)
    BY <1>3, Zenon
  <1> HIDE DEF c
  <1>5. QED
    BY <1>2, <1>4

LEMMA ChainsOf ==
    /\ Chains = [l \in Lists |-> ChainOf(word, l)]
    /\ Chains' = [l \in Lists |-> ChainOf(word', l)]
  <1>1. \A l : Chain(l) = ChainOf(word, l)
    BY DEF Chain, ChainOf, Walk, Stepped
  <1>2. \A l : Chain(l)' = ChainOf(word', l)
    BY DEF Chain, ChainOf, Walk, Stepped
  <1> HIDE DEF ChainOf
  <1>3. QED
    BY <1>1, <1>2 DEF Chains

\* A list is in the order of the pointers.
LEMMA ListIsOrdered ==
    ASSUME NEW m, MapInv(m), NEW l \in Lists, NEW S, S = Members(m, l)
    PROVE  Ordered(S, [n \in S |-> Rank(m, n)], m.word, HeadOf(l), TailOf(l), Records + 1)
  <1>1. MapType(m) /\ ListInv(m, l)
    BY DEF MapInv
  <1>2. /\ \A n \in S : Rank(m, n) \in Nat /\ Rank(m, n) <= Keys + 1
        /\ Rank(m, HeadOf(l)) = 0 /\ Rank(m, TailOf(l)) = Keys + 1
        /\ HeadOf(l) \in S /\ TailOf(l) \in S
    BY <1>1, Ranks
  <1>3. Keys \in Nat /\ Records \in Nat /\ Keys <= Records
    BY Numbers
  <1>4. \A n, j \in S : Rank(m, n) = Rank(m, j) => n = j
    BY <1>1 DEF ListInv, Distinct
  <1>5. \A n \in S : n # TailOf(l) => Follows(m, S, n, m.word[n].to)
    BY <1>1 DEF ListInv
  <1>6. PICK K : K = [n \in S |-> Rank(m, n)]
    OBVIOUS
  <1>7. K \in [S -> Nat] /\ \A n \in S : K[n] = Rank(m, n)
    BY <1>2, <1>6
  <1>8. \A n \in S : n # TailOf(l) => /\ m.word[n].to \in S /\ K[n] < K[m.word[n].to]
                                      /\ \A j \in S : K[j] <= K[n] \/ K[m.word[n].to] <= K[j]
    BY <1>5, <1>7 DEF Follows
  <1>9. /\ \A n, j \in S : K[n] = K[j] => n = j
        /\ \A n \in S : K[HeadOf(l)] <= K[n] /\ K[n] <= K[TailOf(l)]
        /\ K[TailOf(l)] <= K[HeadOf(l)] + (Records + 1)
    BY <1>2, <1>3, <1>4, <1>7
  <1>10. Ordered(S, K, m.word, HeadOf(l), TailOf(l), Records + 1)
    BY <1>2, <1>7, <1>8, <1>9 DEF Ordered
  <1>11. QED
    BY <1>6, <1>10

\* What the chain of a list holds.
LEMMA ChainHolds ==
    ASSUME NEW m, MapInv(m), NEW l \in Lists
    PROVE  /\ {ChainOf(m.word, l)[i] : i \in DOMAIN ChainOf(m.word, l)} \ {TailOf(l)}
                = {r \in Record : m.at[r] = "linked" /\ ListOf(m.pointer[r]) = l}
           /\ DOMAIN ChainOf(m.word, l) = 1 .. Records + 1
           /\ \A i, j \in DOMAIN ChainOf(m.word, l) : i < j /\ ChainOf(m.word, l)[j] # TailOf(l) =>
                Rank(m, ChainOf(m.word, l)[i]) < Rank(m, ChainOf(m.word, l)[j])
  <1> DEFINE a == HeadOf(l)
             z == TailOf(l)
             N == Records + 1
  <1>1. PICK f : Walk(m.word, a, z, N, f) /\ ChainOf(m.word, l) = [i \in 1 .. N |-> f[i]]
    BY ChainIs
  <1>2. PICK S : S = Members(m, l)
    OBVIOUS
  <1>3. PICK K : K = [n \in S |-> Rank(m, n)]
    OBVIOUS
  <1>4. Ordered(S, K, m.word, a, z, N)
    BY <1>2, <1>3, ListIsOrdered
  <1>5. N \in Nat /\ N # 0
    BY Numbers
  <1>6. Walk(m.word, a, z, N, f)
    BY <1>1
  <1>7. a # z /\ a \notin Record /\ z \notin Record
    BY Nodes
  <1> HIDE DEF a, z, N
  <1>8. /\ \A i \in 0 .. N : f[i] \in S
        /\ \A n \in S : \E i \in 0 .. N : f[i] = n
        /\ \A i, j \in 0 .. N : i < j /\ f[j] # z => K[f[i]] < K[f[j]]
        /\ f[0] = a
        /\ \A i \in 0 .. N : i # 0 => f[i] # a \/ a = z
    BY <1>4, <1>5, <1>6, WalkPasses
  <1>9. /\ DOMAIN ChainOf(m.word, l) = 1 .. N /\ \A i \in 1 .. N : ChainOf(m.word, l)[i] = f[i] /\ i \in 0 .. N /\ i # 0
        /\ \A i \in 0 .. N : i # 0 => i \in 1 .. N
    BY <1>1, <1>5
  <1>10. \A n : n \in S <=> n = a \/ n = z \/ (n \in Record /\ m.at[n] = "linked" /\ ListOf(m.pointer[n]) = l)
    BY <1>2 DEF Members, a, z
  <1>11. {ChainOf(m.word, l)[i] : i \in DOMAIN ChainOf(m.word, l)} \ {z}
            = {r \in Record : m.at[r] = "linked" /\ ListOf(m.pointer[r]) = l}
    <2>1. ASSUME NEW i \in 1 .. N, f[i] # z PROVE f[i] \in {r \in Record : m.at[r] = "linked" /\ ListOf(m.pointer[r]) = l}
      BY <1>7, <1>8, <1>9, <1>10, <2>1
    <2>2. ASSUME NEW r \in Record, m.at[r] = "linked", ListOf(m.pointer[r]) = l
          PROVE  \E i \in 1 .. N : f[i] = r
      <3>1. r \in S /\ r # a
        BY <1>7, <1>10, <2>2
      <3>2. PICK i \in 0 .. N : f[i] = r
        BY <1>8, <3>1
      <3>3. i # 0
        BY <1>8, <3>1, <3>2
      <3>4. QED
        BY <1>9, <3>2, <3>3
    <2>3. {ChainOf(m.word, l)[i] : i \in DOMAIN ChainOf(m.word, l)} = {f[i] : i \in 1 .. N}
      BY <1>9
    <2>4. QED
      BY <1>7, <2>1, <2>2, <2>3
  <1>12. \A i, j \in DOMAIN ChainOf(m.word, l) : i < j /\ ChainOf(m.word, l)[j] # z =>
           Rank(m, ChainOf(m.word, l)[i]) < Rank(m, ChainOf(m.word, l)[j])
    <2>1. \A i \in 0 .. N : K[f[i]] = Rank(m, f[i])
      BY <1>3, <1>8
    <2>2. QED
      BY <1>8, <1>9, <2>1
  <1>13. QED
    BY <1>9, <1>11, <1>12 DEF N, z

\* What a thread has unlinked is what it still has to give back.
LEMMA UnlinkedIs ==
    ASSUME NEW m, m.word = word, MapInv(m), NEW t \in Thread, FrameInv(m, t, frame[t])
    PROVE  Unlinked(t) = Gone(m, t)
  <1> DEFINE f == frame[t]
             a == frame[t].local
             z == frame[t].curr
             G == Gone(m, t)
  <1>1. f.pc \in PcLabels /\ f \in Frame
    BY DEF FrameInv, CallInv, Frame
  <1>2. CASE f.pc # "unlink"
    <2>1. Gone(m, t) = {}
      BY <1>2 DEF FrameInv, GoneInv
    <2>2. f.pc \notin {"unlink", "unlinkOne", "watchPrev"}
      BY <1>1, <1>2 DEF PcLabels, Walking
    <2>3. QED
      BY <2>1, <2>2 DEF Unlinked
  <1>3. CASE f.pc = "unlink"
    <2> DEFINE c == CHOOSE g : Walk(word, a, z, Records, g)
    <2>1. Records \in Nat
      BY Numbers
    <2>2. \E g : Walk(word, a, z, Records, g)
      BY <2>1, WalkExists
    <2>3. Walk(word, a, z, Records, c)
      BY <2>2, Zenon
    <2>4. Unlinked(t) = {c[i] : i \in 0 .. Records} \ {z}
      BY <1>3 DEF Unlinked, Walk, Stepped
    <2> HIDE DEF c
    <2>5. /\ a \in G /\ z \in Node \ G /\ Distinct(m, G)
          /\ \A r \in G :
               /\ m.pointer[r] \in Key /\ m.pointer[a] <= m.pointer[r]
               /\ \/ m.word[r].to = z /\ \A q \in G : m.pointer[q] <= m.pointer[r]
                  \/ Follows(m, G, r, m.word[r].to)
      BY <1>3 DEF FrameInv, GoneInv
    <2>6. MapType(m) /\ G \subseteq Record
      BY DEF MapInv, Gone
    <2>7. \A r \in Record : Rank(m, r) = m.pointer[r]
      BY <2>6, Ranks
    <2>8. \A k \in Key : k \in Nat /\ k <= Keys /\ 1 <= k
      BY Numbers DEF Key
    <2>9. Keys \in Nat /\ Keys <= Records
      BY Numbers
    <2>10. PICK S : S = G \cup {z}
      OBVIOUS
    <2>11. PICK K : K = [n \in S |-> IF n = z THEN Keys + 1 ELSE m.pointer[n]]
      OBVIOUS
    <2> HIDE DEF G, a, z, f
    <2>12. /\ K \in [S -> Nat] /\ K[z] = Keys + 1
           /\ \A r \in G : K[r] = m.pointer[r] /\ K[r] \in Nat /\ K[r] <= Keys /\ 1 <= K[r] /\ r # z /\ r \in S
           /\ a \in S /\ z \in S
      BY <2>5, <2>8, <2>9, <2>10, <2>11
    <2>13. Ordered(S, K, m.word, a, z, Records)
      <3>1. \A n, j \in S : K[n] = K[j] => n = j
        <4>1. \A n, j \in G : K[n] = K[j] => n = j
          BY <2>5, <2>6, <2>7, <2>12 DEF Distinct
        <4>2. \A n \in S : n \in G \/ n = z
          BY <2>10
        <4>3. \A n \in G : K[n] # K[z]
          BY <2>9, <2>12
        <4>4. QED
          BY <4>1, <4>2, <4>3
      <3>2. \A n \in S : K[a] <= K[n] /\ K[n] <= K[z]
        <4>1. \A n \in G : K[a] <= K[n] /\ K[n] <= K[z]
          BY <2>5, <2>9, <2>12
        <4>2. K[a] <= K[z]
          BY <2>5, <4>1
        <4>3. QED
          BY <2>9, <2>10, <2>12, <4>1, <4>2
      <3>3. K[z] <= K[a] + Records
        <4>1. K[a] \in Nat /\ 1 <= K[a]
          BY <2>5, <2>12
        <4>2. K[z] = Keys + 1
          BY <2>12
        <4>3. QED
          BY <2>1, <2>9, <4>1, <4>2
      <3>4. ASSUME NEW n \in S, n # z
            PROVE  /\ m.word[n].to \in S /\ K[n] < K[m.word[n].to]
                   /\ \A j \in S : K[j] <= K[n] \/ K[m.word[n].to] <= K[j]
        <4>1. n \in G
          BY <2>10, <3>4
        <4>2. CASE m.word[n].to = z /\ \A q \in G : m.pointer[q] <= m.pointer[n]
          <5>1. \A j \in S : K[j] <= K[n] \/ K[z] <= K[j]
            BY <2>9, <2>10, <2>12, <4>1, <4>2
          <5>2. QED
            BY <2>9, <2>12, <4>1, <4>2, <5>1
        <4>3. CASE Follows(m, G, n, m.word[n].to)
          <5>1. /\ m.word[n].to \in G /\ m.pointer[n] < m.pointer[m.word[n].to]
                /\ \A j \in G : m.pointer[j] <= m.pointer[n] \/ m.pointer[m.word[n].to] <= m.pointer[j]
            BY <2>6, <2>7, <4>1, <4>3 DEF Follows
          <5>2. \A j \in S : K[j] <= K[n] \/ K[m.word[n].to] <= K[j]
            <6>1. K[m.word[n].to] <= K[z]
              BY <2>9, <2>12, <5>1
            <6>2. QED
              BY <2>10, <2>12, <4>1, <5>1, <6>1
          <5>3. QED
            BY <2>12, <4>1, <5>1, <5>2
        <4>4. QED
          BY <2>5, <4>1, <4>2, <4>3
      <3>5. QED
        BY <2>12, <3>1, <3>2, <3>3, <3>4 DEF Ordered
    <2>14. Walk(m.word, a, z, Records, c)
      BY <2>3
    <2>15. /\ \A i \in 0 .. Records : c[i] \in S
           /\ \A n \in S : \E i \in 0 .. Records : c[i] = n
      BY <2>1, <2>13, <2>14, WalkPasses
    <2>16. {c[i] : i \in 0 .. Records} = S
      BY <2>15
    <2>17. Unlinked(t) = S \ {z}
      BY <2>4, <2>16
    <2>18. Unlinked(t) = G
      BY <2>10, <2>12, <2>17
    <2>19. QED
      BY <2>18 DEF G
  <1>4. QED
    BY <1>2, <1>3

-----------------------------------------------------------------------------
(* The invariant.                                                          *)

Inv ==
    /\ MInv /\ TodoInv
    /\ build.walk = "once"
    /\ list = Chains /\ count = Counts
    /\ call = [t \in Thread |-> CallOf(frame[t])]

LEMMA InitInv ==
    ASSUME Init, build.walk = "once", Unwrapped
    PROVE  Inv
  <1>1. InitMap /\ list = Chains /\ count = Counts /\ call = [t \in Thread |-> CallOf(frame[t])]
    BY DEF Init
  <1>2. MInv
    BY <1>1, StartInv
  <1>3. TodoInv
    BY <1>1, StartWords
  <1>4. QED
    BY <1>1, <1>2, <1>3 DEF Inv

LEMMA TodoKeeps ==
    ASSUME NEW t \in Thread, Step(t), build.walk = "once", TodoInv
    PROVE  TodoInv'
  <1>1. CASE Invoke(t)
    <2>1. todo[t] \in Seq(SUBSET (Operation \X Key)) /\ todo[t] # <<>>
          /\ todo' = [todo EXCEPT ![t] = Tail(@)]
      BY <1>1 DEF Invoke, TodoInv
    <2>2. Tail(todo[t]) \in Seq(SUBSET (Operation \X Key))
      BY <2>1
    <2>3. QED
      BY <2>1, <2>2 DEF TodoInv
  <1>2. CASE OnceStep(t)
    <2>1. todo' = todo
      BY <1>2 DEF OnceStep, FromHead, ReadCurr, ReadPointer, ReadPrev, Back, RecheckPrev, CheckCurr, Reads,
                  Sub, Plus, GiveBack, Get, TakeRecord, SetWord, Cas, Unlink
    <2>2. QED
      BY <2>1 DEF TodoInv
  <1>3. CASE Return(t)
    BY <1>3 DEF Return, TodoInv
  <1>4. "once" # "late"
    OBVIOUS
  <1>5. QED
    BY <1>1, <1>2, <1>3, <1>4 DEF Step

LEMMA ListKeeps ==
    ASSUME Watch, list = Chains, count = Counts
    PROVE  list' = Chains' /\ count' = Counts'
  <1>1. list' = Chains'
    <2>1. list' = IF word' = word THEN list ELSE Chains'
      BY DEF Watch
    <2>2. word' = word => Chains' = Chains
      BY ChainsOf
    <2>3. QED
      BY <2>1, <2>2
  <1>2. count' = IF UNCHANGED shared THEN count ELSE Counts'
    BY DEF Watch
  <1>3. ASSUME UNCHANGED shared PROVE Counts' = Counts
    <2>1. word' = word /\ pointer' = pointer
      BY <1>3 DEF shared
    <2>2. list' = list
      BY <2>1 DEF Watch
    <2>3. \A l : Live(l)' = Live(l)
      BY <2>1, <2>2 DEF Live, Linked
    <2>4. QED
      BY <2>1, <2>3 DEF Counts
  <1>4. QED
    BY <1>1, <1>2, <1>3

LEMMA StepInv ==
    ASSUME Inv, Unwrapped, NEW t \in Thread, Step(t), Watch
    PROVE  Inv'
  <1>1. PICK m : IsNow(m) /\ StateInv(m, held, frame)
    BY DEF Inv, MInv
  <1>2. build.walk = "once" /\ TodoInv
    BY DEF Inv
  <1>3. PICK m2 : Takes(m, m2, t)
    BY <1>1, <1>2, StepTakes
  <1>4. IsNow(m2)' /\ StateInv(m2, held', frame')
    BY <1>3 DEF Takes, IsNext, IsNow
  <1>5. MInv'
    BY <1>4 DEF MInv
  <1>6. TodoInv'
    BY <1>2, TodoKeeps
  <1>7. m2.build = m.build
    BY <1>3 DEF Takes, Evolves
  <1>8. m.build = build /\ m2.build = build'
    BY <1>1, <1>3 DEF IsNow, Takes, IsNext
  <1>9. list = Chains /\ count = Counts
    BY DEF Inv
  <1>10. list' = Chains' /\ count' = Counts'
    BY <1>9, ListKeeps
  <1>11. call' = [s \in Thread |-> CallOf(frame[s])']
    BY DEF Watch, CallOf, Stage, Settled
  <1>12. QED
    BY <1>2, <1>5, <1>6, <1>7, <1>8, <1>10, <1>11 DEF Inv

LEMMA SameInv ==
    ASSUME Inv, UNCHANGED vars
    PROVE  Inv'
  <1>1. /\ build' = build /\ word' = word /\ pointer' = pointer /\ free' = free /\ frame' = frame /\ held' = held
        /\ todo' = todo /\ list' = list /\ count' = count /\ call' = call
    BY DEF vars, mapVars
  <1>2. MInv'
    BY <1>1 DEF Inv, MInv, IsNow
  <1>3. Chains' = Chains
    BY <1>1, ChainsOf
  <1>4. \A l : Live(l)' = Live(l)
    BY <1>1 DEF Live, Linked
  <1>5. Counts' = Counts
    BY <1>1, <1>4 DEF Counts
  <1>6. QED
    BY <1>1, <1>2, <1>3, <1>5 DEF Inv, TodoInv, CallOf, Stage, Settled

LEMMA InvAlways == Spec /\ build.walk = "once" /\ []Unwrapped => []Inv
  <1>1. Init /\ build.walk = "once" /\ Unwrapped => Inv
    BY InitInv
  <1>2. Inv /\ Unwrapped /\ [Next]_vars => Inv'
    <2>1. CASE Finished
      BY <2>1, SameInv DEF Finished
    <2>2. CASE UNCHANGED vars
      BY <2>2, SameInv
    <2>3. ASSUME Inv, Unwrapped, NEW t \in Thread, Step(t), Watch PROVE Inv'
      BY <2>3, StepInv
    <2>4. QED
      BY <2>1, <2>2, <2>3 DEF Next
  <1>3. QED
    BY <1>1, <1>2, PTL DEF Spec

-----------------------------------------------------------------------------
(* What the invariant says of lists and threads.                           *)

LinksOf(w, l) == {ChainOf(w, l)[i] : i \in DOMAIN ChainOf(w, l)} \ {TailOf(l)}

LEMMA LinksAre ==
    ASSUME NEW m, MapInv(m), NEW l \in Lists
    PROVE  LinksOf(m.word, l) = {r \in Record : m.at[r] = "linked" /\ ListOf(m.pointer[r]) = l}
  BY ChainHolds DEF LinksOf

LEMMA LinkedIs ==
    ASSUME Inv, NEW m, IsNow(m), MapInv(m), NEW l \in Lists
    PROVE  /\ Linked(l) = {r \in Record : m.at[r] = "linked" /\ ListOf(m.pointer[r]) = l}
           /\ Live(l) = {r \in Record : m.at[r] = "linked" /\ ListOf(m.pointer[r]) = l /\ ~Dead(m, r)}
  <1>1. list[l] = ChainOf(m.word, l) /\ m.word = word
    BY ChainsOf DEF Inv, IsNow
  <1>2. LinksOf(m.word, l) = {r \in Record : m.at[r] = "linked" /\ ListOf(m.pointer[r]) = l}
    BY LinksAre
  <1>3. Linked(l) = {r \in Record : m.at[r] = "linked" /\ ListOf(m.pointer[r]) = l}
    BY <1>1, <1>2 DEF Linked, LinksOf
  <1>4. \A r : Deleted(word[r]) <=> Dead(m, r)
    BY <1>1 DEF Deleted, Dead
  <1>5. QED
    BY <1>3, <1>4 DEF Live

LEMMA InvIs ==
    ASSUME Inv
    PROVE  \E m : IsNow(m) /\ StateInv(m, held, frame) /\ MapInv(m) /\ MapType(m)
                  /\ \A t \in Thread : FrameInv(m, t, frame[t]) /\ frame[t] \in Frame
  BY DEF Inv, MInv, StateInv, MapInv, FrameInv, CallInv

LEMMA InvType == Inv => TypeOK
  <1>1. SUFFICES ASSUME Inv PROVE TypeOK
    OBVIOUS
  <1>2. PICK m : /\ IsNow(m) /\ MapType(m)
                 /\ \A t \in Thread : FrameInv(m, t, frame[t]) /\ frame[t] \in Frame
    BY <1>1, InvIs
  <1>3. word \in [Node -> Word] /\ pointer \in [Node -> Key \cup {0}] /\ free \subseteq Record
    BY <1>2 DEF IsNow, MapType
  <1>4. ASSUME NEW t \in Thread
        PROVE  /\ frame[t].steps \in Nat
               /\ {frame[t].curr, frame[t].my, frame[t].found} \subseteq Node \cup {NoRecord}
    <2>1. frame[t] \in Frame
      BY <1>2
    <2>2. /\ frame[t].steps \in Nat /\ frame[t].curr \in Node \cup {NoRecord}
          /\ frame[t].my \in Record \cup {NoRecord} /\ frame[t].found \in Node \cup {NoRecord}
      BY <2>1 DEF Frame
    <2>3. QED
      BY <2>2, Nodes
  <1>5. QED
    BY <1>3, <1>4 DEF TypeOK

LEMMA InvReallyLinked == Inv => ReallyLinked
  <1>1. SUFFICES ASSUME Inv, NEW t \in Thread, frame[t].pc = "readPrev",
                        ~Stale(frame[t].prevNext, word[frame[t].prev]),
                        ~NextChanged(frame[t].prevNext, word[frame[t].prev])
                 PROVE  frame[t].curr \in Linked(ListOf(frame[t].key)) \cup {TailOf(ListOf(frame[t].key))}
    BY DEF ReallyLinked
  <1> DEFINE f == frame[t]
             l == ListOf(frame[t].key)
  <1>2. PICK m : IsNow(m) /\ MapInv(m) /\ MapType(m) /\ FrameInv(m, t, f)
    BY <1>1, InvIs
  <1>3. f.pc \in Walking /\ m.word = word
    BY <1>1, <1>2 DEF Walking, IsNow
  <1>4. l \in Lists
    BY <1>1, <1>2, Keyed DEF FrameInv, CallInv
  <1>5. /\ f.prev \in Members(m, ListOf(f.key)) /\ f.prev # TailOf(ListOf(f.key)) /\ f.prev \in Node
        /\ Rank(m, f.prev) < f.key
        /\ m.word[f.prev] \in Word /\ m.word[f.prev].ref # 0
        /\ m.word[f.prev].node = f.prevNext.node
        /\ Before(m, f.prev, m.word[f.prev].node, f.key)
        /\ Good(m, f) <=> m.word[f.prev].next = f.prevNext.next
        /\ Good(m, f) => m.word[f.prev].to = f.prevNext.to
    BY <1>1, <1>2, <1>3, GoodPrev
  <1>6. Good(m, f)
    BY <1>1, <1>3, <1>5 DEF NextChanged
  <1>7. f.curr \in Members(m, l) /\ Rank(m, f.prev) < Rank(m, f.curr)
    BY <1>2, <1>3, <1>6 DEF FrameInv, CurrInv
  <1>8. f.curr # HeadOf(l)
    <2>1. Rank(m, HeadOf(l)) = 0
      BY <1>2, <1>4, Ranks
    <2>2. Rank(m, f.prev) \in Nat
      BY <1>2, <1>5, Ranks
    <2>3. QED
      BY <1>7, <2>1, <2>2
  <1>9. f.curr = TailOf(l) \/ (f.curr \in Record /\ m.at[f.curr] = "linked" /\ ListOf(m.pointer[f.curr]) = l)
    BY <1>7, <1>8 DEF Members
  <1>10. Linked(l) = {r \in Record : m.at[r] = "linked" /\ ListOf(m.pointer[r]) = l}
    BY <1>1, <1>2, <1>4, LinkedIs
  <1>11. QED
    BY <1>9, <1>10

LEMMA InvConserved == Inv => Conserved
  <1>1. SUFFICES ASSUME Inv, NEW r \in Record
                 PROVE  (IF r \in free THEN 1 ELSE 0)
                        + Cardinality({l \in Lists : r \in Linked(l)})
                        + Cardinality({t \in Thread : r = frame[t].my})
                        + Cardinality({t \in Thread : r \in Unlinked(t)}) = 1
    BY DEF Conserved
  <1>2. PICK m : IsNow(m) /\ StateInv(m, held, frame) /\ MapInv(m) /\ MapType(m)
                 /\ \A t \in Thread : FrameInv(m, t, frame[t]) /\ frame[t] \in Frame
    BY <1>1, InvIs
  <1>3. m.at[r] \in {"free", "linked", "mine", "gone"} /\ (r \in free <=> m.at[r] = "free")
    BY <1>2 DEF MapType, IsNow
  <1>4. {l \in Lists : r \in Linked(l)} = IF m.at[r] = "linked" THEN {ListOf(m.pointer[r])} ELSE {}
    <2>1. \A l \in Lists : r \in Linked(l) <=> m.at[r] = "linked" /\ ListOf(m.pointer[r]) = l
      BY <1>1, <1>2, LinkedIs
    <2>2. m.at[r] = "linked" => ListOf(m.pointer[r]) \in Lists
      BY <1>2, Keyed DEF MapInv, PlaceInv
    <2>3. QED
      BY <2>1, <2>2
  <1>5. {t \in Thread : r = frame[t].my} = IF m.at[r] = "mine" THEN {m.by[r]} ELSE {}
    <2>1. ASSUME NEW t \in Thread, r = frame[t].my PROVE m.at[r] = "mine" /\ m.by[r] = t
      <3>1. r # NoRecord
        BY Nodes
      <3>2. QED
        BY <1>2, <2>1, <3>1 DEF FrameInv, MineInv
    <2>2. m.at[r] = "mine" => m.by[r] \in Thread /\ frame[m.by[r]].my = r
      BY <1>2 DEF StateInv, OwnInv, MapInv, PlaceInv
    <2>3. QED
      BY <2>1, <2>2
  <1>6. {t \in Thread : r \in Unlinked(t)} = IF m.at[r] = "gone" THEN {m.by[r]} ELSE {}
    <2>1. \A t \in Thread : Unlinked(t) = Gone(m, t)
      BY <1>2, UnlinkedIs DEF IsNow
    <2>2. \A t \in Thread : r \in Unlinked(t) <=> m.at[r] = "gone" /\ m.by[r] = t
      BY <2>1 DEF Gone
    <2>3. m.at[r] = "gone" => m.by[r] \in Thread
      BY <1>2 DEF MapInv, PlaceInv
    <2>4. QED
      BY <2>2, <2>3
  <1>7. Cardinality({}) = 0 /\ \A x : Cardinality({x}) = 1
    BY FS_EmptySet, FS_Singleton
  <1>8. PICK a, b, c : /\ a = Cardinality({l \in Lists : r \in Linked(l)})
                       /\ b = Cardinality({t \in Thread : r = frame[t].my})
                       /\ c = Cardinality({t \in Thread : r \in Unlinked(t)})
    OBVIOUS
  <1>9. a = IF m.at[r] = "linked" THEN 1 ELSE 0
    BY <1>4, <1>7, <1>8
  <1>10. b = IF m.at[r] = "mine" THEN 1 ELSE 0
    BY <1>5, <1>7, <1>8
  <1>11. c = IF m.at[r] = "gone" THEN 1 ELSE 0
    BY <1>6, <1>7, <1>8
  <1>12. (IF r \in free THEN 1 ELSE 0) + a + b + c = 1
    BY <1>3, <1>9, <1>10, <1>11
  <1>13. QED
    BY <1>8, <1>12

LEMMA InvSorted == Inv => Sorted
  <1>1. SUFFICES ASSUME Inv, NEW l \in Lists, NEW i \in DOMAIN list[l], NEW j \in DOMAIN list[l], i < j,
                        {list[l][i], list[l][j]} \subseteq Live(l)
                 PROVE  pointer[list[l][i]] < pointer[list[l][j]]
    BY DEF Sorted
  <1>2. PICK m : IsNow(m) /\ MapInv(m) /\ MapType(m)
    BY <1>1, InvIs
  <1>3. list[l] = ChainOf(m.word, l) /\ m.word = word /\ m.pointer = pointer
    BY <1>1, <1>2, ChainsOf DEF Inv, IsNow
  <1>4. Live(l) = {r \in Record : m.at[r] = "linked" /\ ListOf(m.pointer[r]) = l /\ ~Dead(m, r)}
    BY <1>1, <1>2, LinkedIs
  <1>5. ChainOf(m.word, l)[i] \in Record /\ ChainOf(m.word, l)[j] \in Record
    BY <1>1, <1>3, <1>4
  <1>6. ChainOf(m.word, l)[j] # TailOf(l)
    BY <1>5, Nodes
  <1>7. \A a, b \in DOMAIN ChainOf(m.word, l) : a < b /\ ChainOf(m.word, l)[b] # TailOf(l) =>
          Rank(m, ChainOf(m.word, l)[a]) < Rank(m, ChainOf(m.word, l)[b])
    BY <1>2, <1>3, ChainHolds
  <1>8. Rank(m, ChainOf(m.word, l)[i]) < Rank(m, ChainOf(m.word, l)[j])
    BY <1>1, <1>3, <1>6, <1>7
  <1>9. QED
    BY <1>3, <1>5, <1>8 DEF Rank

\* What a step of t does to the map, with the invariant before and after it.
LEMMA StepIs ==
    ASSUME Inv, Unwrapped, NEW t \in Thread, Step(t), Watch
    PROVE  \E m, m2 : /\ IsNow(m) /\ StateInv(m, held, frame) /\ MapInv(m) /\ MapInv(m2)
                      /\ Takes(m, m2, t) /\ Inv'
  <1>1. Inv'
    BY StepInv
  <1>2. PICK m : IsNow(m) /\ StateInv(m, held, frame)
    BY DEF Inv, MInv
  <1>3. build.walk = "once" /\ TodoInv
    BY DEF Inv
  <1>4. PICK m2 : Takes(m, m2, t)
    BY <1>2, <1>3, StepTakes
  <1>5. MapInv(m) /\ MapInv(m2)
    BY <1>2, <1>4 DEF Takes, StateInv
  <1>6. QED
    BY <1>1, <1>2, <1>4, <1>5

\* What lists link after a step.
LEMMA LinkedNext ==
    ASSUME Inv', NEW m, IsNext(m), MapInv(m), NEW l \in Lists
    PROVE  Linked(l)' = {r \in Record : m.at[r] = "linked" /\ ListOf(m.pointer[r]) = l}
  <1>1. list'[l] = ChainOf(m.word, l)
    BY ChainsOf DEF Inv, IsNext
  <1>2. LinksOf(m.word, l) = {r \in Record : m.at[r] = "linked" /\ ListOf(m.pointer[r]) = l}
    BY LinksAre
  <1>3. Linked(l)' = LinksOf(m.word, l)
    BY <1>1 DEF Linked, LinksOf
  <1>4. QED
    BY <1>2, <1>3

LEMMA StepOnlyDeleted ==
    ASSUME Inv, Unwrapped, NEW t \in Thread, Step(t), Watch, NEW l \in Lists
    PROVE  Live(l) \subseteq Linked(l)'
  <1>1. PICK m, m2 : /\ IsNow(m) /\ StateInv(m, held, frame) /\ MapInv(m) /\ MapInv(m2)
                     /\ Takes(m, m2, t) /\ Inv'
    BY StepIs
  <1>2. Live(l) = {r \in Record : m.at[r] = "linked" /\ ListOf(m.pointer[r]) = l /\ ~Dead(m, r)}
    BY <1>1, LinkedIs
  <1>3. IsNext(m2) /\ Evolves(m, m2, t)
    BY <1>1 DEF Takes
  <1>4. Linked(l)' = {r \in Record : m2.at[r] = "linked" /\ ListOf(m2.pointer[r]) = l}
    BY <1>1, <1>3, LinkedNext
  <1>5. \A r \in Record : m.at[r] = "linked" /\ ~Dead(m, r) =>
           m2.at[r] = "linked" /\ m2.age[r] = m.age[r] /\ m2.pointer[r] = m.pointer[r]
    BY <1>3 DEF Evolves
  <1>6. QED
    BY <1>2, <1>4, <1>5

\* What a thread does when it is not walking.
LEMMA OutsideWalks ==
    ASSUME NEW t \in Thread, Step(t), build.walk = "once"
    PROVE  /\ frame[t].pc = "idle" => Invoke(t)
           /\ frame[t].pc = "return" => Return(t)
           /\ frame[t].pc = "giveBack" => GiveBack(t)
           /\ frame[t].pc = "unlink" => Unlink(t)
  <1>1. "once" # "late"
    OBVIOUS
  <1>2. Invoke(t) \/ OnceStep(t) \/ Return(t)
    BY <1>1 DEF Step
  <1>3. Invoke(t) => frame[t].pc = "idle"
    BY DEF Invoke
  <1>4. Return(t) => frame[t].pc = "return"
    BY DEF Return
  <1>5. OnceStep(t) => \/ frame[t].pc \in Walking \cup {"head", "back"}
                       \/ GiveBack(t) /\ frame[t].pc = "giveBack"
                       \/ Unlink(t) /\ frame[t].pc = "unlink"
    BY DEF OnceStep, FromHead, ReadCurr, ReadPointer, ReadPrev, Back, RecheckPrev, CheckCurr,
           Sub, Plus, GiveBack, Get, SetWord, Cas, Unlink, Walking
  <1>6. QED
    BY <1>2, <1>3, <1>4, <1>5 DEF Walking

-----------------------------------------------------------------------------
(* The counts.                                                             *)

\* What the live Records of k count.
CountOf(m, k) == Cardinality(UNION {{r} \X (1 .. m.word[r].ref) :
     r \in {n \in Record : m.at[n] = "linked" /\ m.pointer[n] = k /\ ~Dead(m, n)}})

LEMMA CountOfIs ==
    ASSUME NEW m, MapInv(m), NEW k \in Key
    PROVE  /\ Uncounted(m, k) => CountOf(m, k) = 0
           /\ \A r \in Record : m.at[r] = "linked" /\ m.pointer[r] = k => CountOf(m, k) = m.word[r].ref
           /\ CountOf(m, k) \in Nat
  <1> DEFINE L == {n \in Record : m.at[n] = "linked" /\ m.pointer[n] = k /\ ~Dead(m, n)}
  <1>1. Uncounted(m, k) => CountOf(m, k) = 0
    <2>1. SUFFICES ASSUME Uncounted(m, k) PROVE CountOf(m, k) = 0
      OBVIOUS
    <2>2. UNION {{r} \X (1 .. m.word[r].ref) : r \in L} = {}
      BY <2>1 DEF Uncounted
    <2>3. QED
      BY <2>2, FS_EmptySet DEF CountOf
  <1>2. ASSUME NEW r \in Record, m.at[r] = "linked", m.pointer[r] = k PROVE CountOf(m, k) = m.word[r].ref
    <2>1. m.word[r] \in Word
      BY Nodes DEF MapInv, MapType
    <2>2. m.word[r].ref \in Nat
      BY <2>1, WordFields
    <2>3. \A n \in Record : m.at[n] = "linked" /\ m.pointer[n] = k => n = r
      BY <1>2, OneRecord
    <2>4. CASE Dead(m, r)
      <3>1. Uncounted(m, k)
        BY <2>3, <2>4 DEF Uncounted
      <3>2. QED
        BY <1>1, <2>4, <3>1 DEF Dead
    <2>5. CASE ~Dead(m, r)
      <3>1. L = {r}
        BY <1>2, <2>3, <2>5
      <3>2. UNION {{n} \X (1 .. m.word[n].ref) : n \in L} = {r} \X (1 .. m.word[r].ref)
        BY <3>1
      <3>3. IsFiniteSet({r}) /\ Cardinality({r}) = 1
        BY FS_Singleton
      <3>4. PICK i \in Nat : i = m.word[r].ref
        BY <2>2
      <3>5. IsFiniteSet(1 .. i) /\ Cardinality(1 .. i) = IF 1 > i THEN 0 ELSE i - 1 + 1
        BY FS_Interval
      <3>6. Cardinality({r} \X (1 .. i)) = Cardinality({r}) * Cardinality(1 .. i)
        BY <3>3, <3>5, FS_Product
      <3>7. Cardinality(1 .. i) = i
        BY <3>5
      <3>8. Cardinality({r} \X (1 .. i)) = i
        BY <3>3, <3>6, <3>7
      <3>9. QED
        BY <3>2, <3>4, <3>8 DEF CountOf
    <2>6. QED
      BY <2>4, <2>5
  <1>3. CountOf(m, k) \in Nat
    <2>1. CASE \E r \in Record : m.at[r] = "linked" /\ m.pointer[r] = k
      <3>1. PICK r \in Record : m.at[r] = "linked" /\ m.pointer[r] = k
        BY <2>1
      <3>2. m.word[r] \in Word
        BY Nodes DEF MapInv, MapType
      <3>3. QED
        BY <1>2, <3>1, <3>2, WordFields
    <2>2. CASE ~\E r \in Record : m.at[r] = "linked" /\ m.pointer[r] = k
      BY <1>1, <2>2 DEF Uncounted
    <2>3. QED
      BY <2>1, <2>2
  <1>4. QED
    BY <1>1, <1>2, <1>3

\* It is the number of references that the threads and their calls hold.
LEMMA CountHeld ==
    ASSUME NEW m, MapInv(m), NEW h, NEW F, CountInv(m, h, F), NEW k \in Key
    PROVE  CountOf(m, k) = Cardinality(Held(h, F, k)) /\ IsFiniteSet(Held(h, F, k))
  <1>1. IsFiniteSet(Held(h, F, k))
    BY DEF CountInv
  <1>2. CASE \E r \in Record : m.at[r] = "linked" /\ m.pointer[r] = k
    <2>1. PICK r \in Record : m.at[r] = "linked" /\ m.pointer[r] = k
      BY <1>2
    <2>2. CountOf(m, k) = m.word[r].ref
      BY <2>1, CountOfIs
    <2>3. QED
      BY <1>1, <2>1, <2>2 DEF CountInv
  <1>3. CASE ~\E r \in Record : m.at[r] = "linked" /\ m.pointer[r] = k
    <2>1. Held(h, F, k) = {}
      BY <1>3 DEF CountInv
    <2>2. Uncounted(m, k)
      BY <1>3 DEF Uncounted
    <2>3. CountOf(m, k) = 0
      BY <2>2, CountOfIs
    <2>4. QED
      BY <1>1, <2>1, <2>3, FS_EmptySet
  <1>4. QED
    BY <1>2, <1>3

LEMMA CountIs ==
    ASSUME Inv, NEW m, IsNow(m), MapInv(m), NEW k \in Key
    PROVE  count[k] = CountOf(m, k)
  <1>1. ListOf(k) \in Lists
    BY Keyed
  <1>2. Live(ListOf(k)) = {r \in Record : m.at[r] = "linked" /\ ListOf(m.pointer[r]) = ListOf(k) /\ ~Dead(m, r)}
    BY <1>1, LinkedIs
  <1>3. m.word = word /\ m.pointer = pointer
    BY DEF IsNow
  <1>4. {n \in Live(ListOf(k)) : pointer[n] = k}
          = {n \in Record : m.at[n] = "linked" /\ m.pointer[n] = k /\ ~Dead(m, n)}
    BY <1>2, <1>3
  <1>5. count[k] = Cardinality(UNION {{r} \X (1 .. word[r].ref) : r \in {n \in Live(ListOf(k)) : pointer[n] = k}})
    BY DEF Inv, Counts
  <1>6. QED
    BY <1>3, <1>4, <1>5 DEF CountOf

LEMMA CountNext ==
    ASSUME Inv', NEW m, IsNext(m), MapInv(m), NEW k \in Key
    PROVE  count'[k] = CountOf(m, k)
  <1>1. ListOf(k) \in Lists
    BY Keyed
  <1>2. Linked(ListOf(k))' = {r \in Record : m.at[r] = "linked" /\ ListOf(m.pointer[r]) = ListOf(k)}
    BY <1>1, LinkedNext
  <1>3. m.word = word' /\ m.pointer = pointer'
    BY DEF IsNext
  <1>4. Live(ListOf(k))' = {r \in Linked(ListOf(k))' : ~Deleted(word'[r])}
    BY DEF Live, Deleted
  <1>5. \A r : Deleted(word'[r]) <=> Dead(m, r)
    BY <1>3 DEF Deleted, Dead
  <1>6. PICK S : S = Live(ListOf(k))'
    OBVIOUS
  <1>7. S = {r \in Record : m.at[r] = "linked" /\ ListOf(m.pointer[r]) = ListOf(k) /\ ~Dead(m, r)}
    BY <1>2, <1>4, <1>5, <1>6
  <1>8. {n \in S : pointer'[n] = k}
          = {n \in Record : m.at[n] = "linked" /\ m.pointer[n] = k /\ ~Dead(m, n)}
    BY <1>3, <1>7
  <1>9. count'[k] = Cardinality(UNION {{r} \X (1 .. word'[r].ref) : r \in {n \in S : pointer'[n] = k}})
    BY <1>6 DEF Inv, Counts
  <1>10. QED
    BY <1>3, <1>8, <1>9 DEF CountOf

-----------------------------------------------------------------------------
(* The calls count.                                                        *)

\* What a search has read of a Record that still holds its key was the count
\* while it ran.
ReadInv(m, f, S) ==
    /\ f.pc \in {"readPointer", "readPrev"} /\ Good(m, f)
    /\ f.curr \in Record /\ m.at[f.curr] = "linked" /\ m.pointer[f.curr] = f.key
    => f.currNext.ref \in S

SeenOf(m, f, S) ==
    IF Searches(f) THEN CountOf(m, f.key) \in S /\ ReadInv(m, f, S) ELSE S = {}

SeenInv == \E m :
    /\ IsNow(m) /\ StateInv(m, held, frame)
    /\ seen = [t \in Thread |-> seen[t]]
    /\ \A t \in Thread : SeenOf(m, frame[t], seen[t])

\* A good prev says that curr was linked before, as the same Record.
LEMMA CurrBefore ==
    ASSUME NEW m, MapInv(m), NEW m2, MapInv(m2), NEW t, Evolves(m, m2, t),
           NEW s, NEW f, FrameInv(m, s, f), f.pc \in Walking, Good(m2, f), f.curr \in Record
    PROVE  Good(m, f) /\ m.at[f.curr] = "linked" /\ m2.pointer[f.curr] = m.pointer[f.curr]
  <1> DEFINE l == ListOf(f.key)
  <1>1. Good(m, f) /\ Stays(m, m2, f.prev) /\ m2.word[f.prev].next = m.word[f.prev].next
    BY GoodBefore
  <1>2. l \in Lists
    BY Keyed DEF FrameInv, CallInv, Walking
  <1>3. /\ f.curr \in Members(m, l) /\ Rank(m, f.prev) < Rank(m, f.curr)
        /\ OnlyDead(m, Members(m, l), f.prev, f.curr)
    BY <1>1 DEF FrameInv, CurrInv
  <1>4. f.prev \in Members(m, l) /\ ~Dead(m2, f.prev)
    BY <1>1 DEF Good
  <1>5. f.curr # TailOf(l) /\ f.curr \notin Heads /\ f.curr # HeadOf(l)
    BY <1>2, Nodes
  <1>6. Stays(m, m2, f.curr)
    BY <1>1, <1>2, <1>3, <1>4, <1>5 DEF Evolves
  <1>7. m.at[f.curr] = "linked" /\ m2.at[f.curr] = "linked" /\ m2.age[f.curr] = m.age[f.curr]
    BY <1>5, <1>6 DEF Stays
  <1>8. m2.pointer[f.curr] = m.pointer[f.curr]
    BY <1>7 DEF Evolves
  <1>9. QED
    BY <1>1, <1>7, <1>8

\* The thread that steps.
LEMMA ReadsAreSeen ==
    ASSUME NEW m, MapInv(m), NEW m2, MapInv(m2), NEW t, Evolves(m, m2, t),
           NEW f, FrameInv(m, t, f), NEW g, g.key = f.key, f.key \in Key, Reads2(m, f, g),
           NEW S, CountOf(m, f.key) \in S, ReadInv(m, f, S), NEW S2, S \subseteq S2
    PROVE  ReadInv(m2, g, S2)
  <1>1. SUFFICES ASSUME g.pc \in {"readPointer", "readPrev"}, Good(m2, g),
                        g.curr \in Record, m2.at[g.curr] = "linked", m2.pointer[g.curr] = g.key
                 PROVE  g.currNext.ref \in S2
    BY DEF ReadInv
  <1>2. /\ f.pc \in {"readCurr", "readPointer"} /\ g.prev = f.prev /\ g.prevNext = f.prevNext /\ g.curr = f.curr
        /\ g.pc = "readPointer" => g.currNext = m.word[f.curr]
        /\ g.pc = "readPrev" => f.pc = "readPointer" /\ g.currNext = f.currNext
    BY <1>1 DEF Reads2
  <1>3. Good(m2, f)
    BY <1>1, <1>2 DEF Good
  <1>4. f.pc \in Walking /\ f.curr \in Record
    BY <1>1, <1>2 DEF Walking
  <1>5. Good(m, f) /\ m.at[f.curr] = "linked" /\ m2.pointer[f.curr] = m.pointer[f.curr]
    BY <1>3, <1>4, CurrBefore
  <1>6. m.pointer[f.curr] = f.key
    BY <1>1, <1>2, <1>5
  <1>7. CASE g.pc = "readPointer"
    <2>1. CountOf(m, f.key) = m.word[f.curr].ref
      BY <1>4, <1>5, <1>6, CountOfIs
    <2>2. QED
      BY <1>2, <1>7, <2>1
  <1>8. CASE g.pc = "readPrev"
    <2>1. f.currNext.ref \in S
      BY <1>2, <1>4, <1>5, <1>6, <1>8 DEF ReadInv
    <2>2. QED
      BY <1>2, <1>8, <2>1
  <1>9. QED
    BY <1>1, <1>7, <1>8

\* The threads that do not.
LEMMA OthersHaveRead ==
    ASSUME NEW m, MapInv(m), NEW m2, MapInv(m2), NEW t, Evolves(m, m2, t),
           NEW s, NEW f, FrameInv(m, s, f), NEW S, ReadInv(m, f, S), NEW S2, S \subseteq S2
    PROVE  ReadInv(m2, f, S2)
  <1>1. SUFFICES ASSUME f.pc \in {"readPointer", "readPrev"}, Good(m2, f),
                        f.curr \in Record, m2.at[f.curr] = "linked", m2.pointer[f.curr] = f.key
                 PROVE  f.currNext.ref \in S2
    BY DEF ReadInv
  <1>2. f.pc \in Walking
    BY <1>1 DEF Walking
  <1>3. Good(m, f) /\ m.at[f.curr] = "linked" /\ m2.pointer[f.curr] = m.pointer[f.curr]
    BY <1>1, <1>2, CurrBefore
  <1>4. QED
    BY <1>1, <1>3 DEF ReadInv

\* The frame of t after a call or a return.
LEMMA FreshReads ==
    ASSUME NEW m, NEW g, g.pc \notin {"readPointer", "readPrev"}, NEW S
    PROVE  ReadInv(m, g, S)
  BY DEF ReadInv

\* How a call and what the threads hold change, with the counts.
LEMMA CountsMove ==
    ASSUME NEW m, MapInv(m), NEW h, NEW F, CountInv(m, h, F), NEW m2, MapInv(m2), NEW F2, CountInv(m2, h, F2),
           NEW t \in Thread, \A s \in Thread : s # t => F2[s] = F[s], NEW k \in Key
    PROVE  /\ (Pending(F2[t], k) <=> Pending(F[t], k)) => CountOf(m2, k) = CountOf(m, k)
           /\ ~Pending(F[t], k) /\ Pending(F2[t], k) => CountOf(m2, k) = CountOf(m, k) + 1
           /\ Pending(F[t], k) /\ ~Pending(F2[t], k) => CountOf(m2, k) = CountOf(m, k) - 1 /\ CountOf(m, k) > 0
  <1>1. /\ CountOf(m, k) = Cardinality(Held(h, F, k)) /\ IsFiniteSet(Held(h, F, k))
    BY CountHeld
  <1>2. /\ CountOf(m2, k) = Cardinality(Held(h, F2, k)) /\ IsFiniteSet(Held(h, F2, k))
    BY CountHeld
  <1>3. Moves(t, h, F, h, F2)
    BY DEF Moves, CountInv
  <1>4. /\ <<t, 0>> \in Held(h, F, k) <=> Pending(F[t], k)
        /\ Pending(F2[t], k) => Held(h, F2, k) = Held(h, F, k) \cup {<<t, 0>>}
        /\ ~Pending(F2[t], k) => Held(h, F2, k) = Held(h, F, k) \ {<<t, 0>>}
    BY <1>3, HeldOne
  <1>5. PICK S, x : S = Held(h, F, k) /\ x = <<t, 0>>
    OBVIOUS
  <1>6. ASSUME Pending(F2[t], k) <=> Pending(F[t], k) PROVE CountOf(m2, k) = CountOf(m, k)
    <2>1. Held(h, F2, k) = Held(h, F, k)
      BY <1>4, <1>6
    <2>2. QED
      BY <1>1, <1>2, <2>1
  <1>7. ASSUME ~Pending(F[t], k), Pending(F2[t], k) PROVE CountOf(m2, k) = CountOf(m, k) + 1
    <2>1. Held(h, F2, k) = S \cup {x} /\ x \notin S /\ IsFiniteSet(S)
      BY <1>1, <1>4, <1>5, <1>7
    <2>2. Cardinality(S \cup {x}) = Cardinality(S) + 1
      BY <2>1, FS_AddElement
    <2>3. QED
      BY <1>1, <1>2, <1>5, <2>1, <2>2
  <1>8. ASSUME Pending(F[t], k), ~Pending(F2[t], k)
        PROVE  CountOf(m2, k) = CountOf(m, k) - 1 /\ CountOf(m, k) > 0
    <2>1. Held(h, F2, k) = S \ {x} /\ x \in S /\ IsFiniteSet(S)
      BY <1>1, <1>4, <1>5, <1>8
    <2>2. Cardinality(S \ {x}) = Cardinality(S) - 1 /\ Cardinality(S) \in Nat
      BY <2>1, FS_RemoveElement, FS_CardinalityType
    <2>3. Cardinality(S) # 0
      BY <2>1, EmptyCard
    <2>4. QED
      BY <1>1, <1>2, <1>5, <2>1, <2>2, <2>3
  <1>9. QED
    BY <1>6, <1>7, <1>8

\* A step of t with what the invariants say before and after it.
Counting(m, m2, t) ==
    /\ MapInv(m) /\ MapInv(m2) /\ StateInv(m, held, frame) /\ Takes(m, m2, t)
    /\ seen = [s \in Thread |-> seen[s]]
    /\ \A s \in Thread : SeenOf(m, frame[s], seen[s])
    /\ \A k \in Key : count[k] = CountOf(m, k) /\ count'[k] = CountOf(m2, k)

LEMMA CountingIs ==
    ASSUME Inv, Unwrapped, NEW t \in Thread, Step(t), Watch, SeenInv
    PROVE  Inv' /\ \E m, m2 : Counting(m, m2, t)
  <1>1. PICK m : /\ IsNow(m) /\ StateInv(m, held, frame)
                 /\ seen = [s \in Thread |-> seen[s]]
                 /\ \A s \in Thread : SeenOf(m, frame[s], seen[s])
    BY DEF SeenInv
  <1>2. build.walk = "once" /\ TodoInv
    BY DEF Inv
  <1>3. PICK m2 : Takes(m, m2, t)
    BY <1>1, <1>2, StepTakes
  <1>4. MapInv(m) /\ MapInv(m2) /\ IsNext(m2)
    BY <1>1, <1>3 DEF Takes, StateInv
  <1>5. Inv'
    BY StepInv
  <1>6. ASSUME NEW k \in Key PROVE count[k] = CountOf(m, k) /\ count'[k] = CountOf(m2, k)
    BY <1>1, <1>4, <1>5, CountIs, CountNext
  <1>7. QED
    BY <1>1, <1>3, <1>4, <1>5, <1>6 DEF Counting

\* The frames in a step of t, and what is seen.
InStep(m, m2, t, F2, h2) ==
    /\ \A s \in Thread : s # t => F2[s] = frame[s]
    /\ \A s \in Thread : FrameInv(m, s, frame[s]) /\ FrameInv(m2, s, F2[s])
    /\ \A s \in Thread : Stage(frame[s]) = "called" => frame[s].op \in Operation /\ frame[s].key \in Key
    /\ \A s \in Thread : Stage(F2[s]) = "called" => F2[s].op \in Operation /\ F2[s].key \in Key
    /\ IsNext(m2) /\ Evolves(m, m2, t) /\ StateInv(m2, h2, F2)
    /\ CountInv(m, held, frame) /\ CountInv(m2, h2, F2)
    /\ Tells(m, m2, frame[t], F2[t], held, h2, t) /\ Reads2(m, frame[t], F2[t])
    /\ \A s \in Thread : seen'[s] = IF ~Searches(F2[s]) THEN {}
                                    ELSE (IF Searches(frame[s]) THEN seen[s] ELSE {}) \cup {count'[F2[s].key]}
    /\ seen' = [s \in Thread |-> seen'[s]]

LEMMA Setting ==
    ASSUME NEW m, NEW m2, NEW t \in Thread, Counting(m, m2, t), Watch, NEW F2, F2 = frame', NEW h2, h2 = held'
    PROVE  InStep(m, m2, t, F2, h2)
  <1>1. /\ StateInv(m, held, frame) /\ StateInv(m2, h2, F2) /\ IsNext(m2) /\ Evolves(m, m2, t)
        /\ F2 = [frame EXCEPT ![t] = F2[t]]
        /\ Effect(m, m2, frame[t], F2[t], held, h2, t)
    BY DEF Counting, Takes
  <1>2. frame = [s \in Thread |-> frame[s]] /\ CountInv(m, held, frame)
        /\ \A s \in Thread : FrameInv(m, s, frame[s])
    BY <1>1 DEF StateInv
  <1>3. CountInv(m2, h2, F2) /\ \A s \in Thread : FrameInv(m2, s, F2[s])
    BY <1>1 DEF StateInv
  <1>4. \A s \in Thread : s # t => F2[s] = frame[s]
    BY <1>1, <1>2
  <1>5. \A s \in Thread : Stage(frame[s]) = "called" => frame[s].op \in Operation /\ frame[s].key \in Key
    BY <1>2 DEF FrameInv, CallInv, Stage
  <1>6. \A s \in Thread : Stage(F2[s]) = "called" => F2[s].op \in Operation /\ F2[s].key \in Key
    BY <1>3 DEF FrameInv, CallInv, Stage
  <1>7. /\ \A s \in Thread : seen'[s] = IF ~Searches(F2[s]) THEN {}
                                        ELSE (IF Searches(frame[s]) THEN seen[s] ELSE {}) \cup {count'[F2[s].key]}
        /\ seen' = [s \in Thread |-> seen'[s]]
    BY DEF Watch
  <1>8. Tells(m, m2, frame[t], F2[t], held, h2, t) /\ Reads2(m, frame[t], F2[t])
    BY <1>1 DEF Effect
  <1>9. QED
    BY <1>1, <1>2, <1>3, <1>4, <1>5, <1>6, <1>7, <1>8 DEF InStep

LEMMA SeenKeeps ==
    ASSUME NEW m, NEW m2, NEW t \in Thread, Counting(m, m2, t), Watch
    PROVE  SeenInv'
  <1>1. PICK F2, h2, S2 : F2 = frame' /\ h2 = held' /\ S2 = seen'
    OBVIOUS
  <1>1a. InStep(m, m2, t, F2, h2)
    BY <1>1, Setting
  <1>2. /\ \A s \in Thread : s # t => F2[s] = frame[s]
        /\ \A s \in Thread : FrameInv(m, s, frame[s]) /\ FrameInv(m2, s, F2[s])
        /\ \A s \in Thread : Stage(frame[s]) = "called" => frame[s].op \in Operation /\ frame[s].key \in Key
        /\ \A s \in Thread : Stage(F2[s]) = "called" => F2[s].op \in Operation /\ F2[s].key \in Key
        /\ IsNext(m2) /\ Evolves(m, m2, t) /\ StateInv(m2, h2, F2)
        /\ CountInv(m, held, frame) /\ CountInv(m2, h2, F2)
        /\ Tells(m, m2, frame[t], F2[t], held, h2, t) /\ Reads2(m, frame[t], F2[t])
        /\ \A s \in Thread : seen'[s] = IF ~Searches(F2[s]) THEN {}
                                        ELSE (IF Searches(frame[s]) THEN seen[s] ELSE {}) \cup {count'[F2[s].key]}
        /\ seen' = [s \in Thread |-> seen'[s]]
    BY <1>1a DEF InStep
  <1>3. MapInv(m) /\ MapInv(m2) /\ \A k \in Key : count'[k] = CountOf(m2, k)
    BY DEF Counting
  <1>4. \A s \in Thread : SeenOf(m, frame[s], seen[s])
    BY DEF Counting
  <1>5. ASSUME NEW s \in Thread PROVE SeenOf(m2, F2[s], S2[s])
    <2>1. CASE ~Searches(F2[s])
      BY <1>1, <1>2, <2>1 DEF SeenOf
    <2>2. CASE Searches(F2[s])
      <3>1. F2[s].key \in Key /\ Stage(F2[s]) = "called" /\ F2[s].op = "SEARCH"
        BY <1>2, <2>2 DEF Searches
      <3>2. S2[s] = (IF Searches(frame[s]) THEN seen[s] ELSE {}) \cup {CountOf(m2, F2[s].key)}
        BY <1>1, <1>2, <1>3, <2>2, <3>1
      <3>3. CASE s # t
        <4>1. F2[s] = frame[s] /\ Searches(frame[s])
          BY <1>2, <2>2, <3>3
        <4>2. ReadInv(m, frame[s], seen[s])
          BY <1>4, <4>1 DEF SeenOf
        <4>3. ReadInv(m2, frame[s], S2[s])
          BY <1>2, <1>3, <3>2, <4>1, <4>2, OthersHaveRead
        <4>4. QED
          BY <2>2, <3>2, <4>1, <4>3 DEF SeenOf
      <3>4. CASE s = t /\ frame[t].pc = "idle"
        <4>1. F2[t].pc \notin {"readPointer", "readPrev"}
          BY <1>2, <3>4 DEF Reads2
        <4>2. ReadInv(m2, F2[s], S2[s])
          BY <3>4, <4>1, FreshReads
        <4>3. QED
          BY <2>2, <3>2, <4>2 DEF SeenOf
      <3>5. CASE s = t /\ frame[t].pc # "idle"
        <4>1. F2[t] # Idle
          BY <3>1, <3>5 DEF Idle, Stage
        <4>2. F2[t].op = frame[t].op /\ F2[t].key = frame[t].key /\ Stage(frame[t]) = "called"
          BY <1>2, <3>1, <3>5, <4>1 DEF Tells
        <4>3. Searches(frame[t]) /\ frame[t].key \in Key
          BY <3>1, <3>5, <4>2 DEF Searches
        <4>4. CountOf(m, frame[t].key) \in seen[t] /\ ReadInv(m, frame[t], seen[t])
          BY <1>4, <4>3 DEF SeenOf
        <4>5. seen[t] \subseteq S2[t]
          BY <3>2, <3>5, <4>3
        <4>6. FrameInv(m, t, frame[t]) /\ Evolves(m, m2, t) /\ Reads2(m, frame[t], F2[t])
          BY <1>2
        <4>7. ReadInv(m2, F2[t], S2[t])
          BY <1>3, <4>2, <4>3, <4>4, <4>5, <4>6, ReadsAreSeen
        <4>8. QED
          BY <2>2, <3>2, <3>5, <4>7 DEF SeenOf
      <3>6. QED
        BY <3>3, <3>4, <3>5
    <2>3. QED
      BY <2>1, <2>2
  <1>6. IsNow(m2)'
    BY <1>2 DEF IsNext, IsNow
  <1>7. QED
    BY <1>1, <1>2, <1>5, <1>6 DEF SeenInv

LEMMA InitSeen ==
    ASSUME Init, Inv
    PROVE  SeenInv
  <1>1. PICK m : IsNow(m) /\ StateInv(m, held, frame)
    BY DEF Inv, MInv
  <1>2. frame = [t \in Thread |-> Idle] /\ seen = [t \in Thread |-> {}]
    BY DEF Init, InitMap
  <1>3. \A t \in Thread : ~Searches(frame[t])
    BY <1>2 DEF Searches, Stage, Idle
  <1>4. QED
    BY <1>1, <1>2, <1>3 DEF SeenInv, SeenOf

LEMMA SameSeen ==
    ASSUME SeenInv, UNCHANGED vars
    PROVE  SeenInv'
  BY DEF SeenInv, IsNow, vars, mapVars

LEMMA InitCounts ==
    ASSUME Init, Inv
    PROVE  Promise!Init
  <1>1. PICK m : IsNow(m) /\ MapInv(m)
    BY InvIs
  <1>2. \A k \in Key : count[k] \in Nat
    BY <1>1, CountIs, CountOfIs
  <1>3. count = [k \in Key |-> count[k]]
    BY DEF Inv, Counts
  <1>4. count \in [Key -> Nat]
    BY <1>2, <1>3
  <1>5. call = [t \in Thread |-> CallOf(Idle)] /\ seen = [t \in Thread |-> {}]
    BY DEF Init, InitMap
  <1>6. CallOf(Idle) = [op |-> "none", key |-> 0, answer |-> 0, stage |-> "idle"]
    BY DEF CallOf, Idle, Stage
  <1>7. QED
    BY <1>4, <1>5, <1>6 DEF Promise!Init, Promise!NoCall

\* A step of t as a caller sees it: the calls, the counts and what is seen.
Outside(m, m2, t, F2, h2) ==
    /\ Counting(m, m2, t) /\ InStep(m, m2, t, F2, h2)
    /\ call = [s \in Thread |-> CallOf(frame[s])] /\ call' = [s \in Thread |-> CallOf(F2[s])]
    /\ \A s \in Thread : s # t => F2[s] = frame[s]
    /\ count = [k \in Key |-> count[k]] /\ count' = [k \in Key |-> count'[k]]
    /\ seen = [s \in Thread |-> seen[s]] /\ seen' = [s \in Thread |-> seen'[s]]
    /\ \A s \in Thread : Searches(frame[s]) => frame[s].key \in Key /\ count[frame[s].key] \in seen[s]
    /\ \A s \in Thread : ~Searches(frame[s]) => seen[s] = {}
    /\ \A s \in Thread : seen'[s] = IF ~Searches(F2[s]) THEN {}
                                    ELSE (IF Searches(frame[s]) THEN seen[s] ELSE {}) \cup {count'[F2[s].key]}

LEMMA OutsideIs ==
    ASSUME Inv, Inv', NEW t \in Thread, Watch, NEW m, NEW m2, Counting(m, m2, t),
           NEW F2, F2 = frame', NEW h2, h2 = held'
    PROVE  Outside(m, m2, t, F2, h2)
  <1>1. InStep(m, m2, t, F2, h2)
    BY Setting
  <1>2. call = [s \in Thread |-> CallOf(frame[s])] /\ call' = [s \in Thread |-> CallOf(F2[s])]
    BY DEF Inv, Watch
  <1>3. count = [k \in Key |-> count[k]] /\ count' = [k \in Key |-> count'[k]]
    BY DEF Inv, Counts
  <1>4. ASSUME NEW s \in Thread
        PROVE  /\ Searches(frame[s]) => frame[s].key \in Key /\ count[frame[s].key] \in seen[s]
               /\ ~Searches(frame[s]) => seen[s] = {}
    <2>1. SeenOf(m, frame[s], seen[s]) /\ \A k \in Key : count[k] = CountOf(m, k)
      BY DEF Counting
    <2>2. Searches(frame[s]) => frame[s].key \in Key
      BY <1>1 DEF InStep, Searches
    <2>3. QED
      BY <2>1, <2>2 DEF SeenOf
  <1>5. /\ \A s \in Thread : s # t => F2[s] = frame[s]
        /\ \A s \in Thread : seen'[s] = IF ~Searches(F2[s]) THEN {}
                                        ELSE (IF Searches(frame[s]) THEN seen[s] ELSE {}) \cup {count'[F2[s].key]}
        /\ seen' = [s \in Thread |-> seen'[s]]
    BY <1>1 DEF InStep
  <1>6. seen = [s \in Thread |-> seen[s]]
    BY DEF Counting
  <1>7. QED
    BY <1>1, <1>2, <1>3, <1>4, <1>5, <1>6 DEF Outside

LEMMA CallFields == \A f : /\ CallOf(f).op = f.op /\ CallOf(f).key = f.key
                           /\ CallOf(f).answer = f.answer /\ CallOf(f).stage = Stage(f)
  BY DEF CallOf

LEMMA CallDone ==
    ASSUME NEW f, NEW g, g.op = f.op, g.key = f.key, Stage(g) = "done"
    PROVE  CallOf(g) = [CallOf(f) EXCEPT !.answer = g.answer, !.stage = "done"]
  <1>1. PICK o, k, a, b, c : o = f.op /\ k = f.key /\ a = f.answer /\ b = g.answer /\ c = Stage(f)
    OBVIOUS
  <1>2. CallOf(f) = [op |-> o, key |-> k, answer |-> a, stage |-> c]
    BY <1>1 DEF CallOf
  <1>3. CallOf(g) = [op |-> o, key |-> k, answer |-> b, stage |-> "done"]
    BY <1>1 DEF CallOf
  <1>4. PICK R : R = [op |-> o, key |-> k, answer |-> a, stage |-> c]
    OBVIOUS
  <1>5. [R EXCEPT !.answer = b] = [op |-> o, key |-> k, answer |-> b, stage |-> c]
    BY <1>4
  <1>6. PICK Q : Q = [op |-> o, key |-> k, answer |-> b, stage |-> c]
    OBVIOUS
  <1>7. [Q EXCEPT !.stage = "done"] = [op |-> o, key |-> k, answer |-> b, stage |-> "done"]
    BY <1>6
  <1>8. [R EXCEPT !.answer = b, !.stage = "done"] = [[R EXCEPT !.answer = b] EXCEPT !.stage = "done"]
    OBVIOUS
  <1>9. QED
    BY <1>1, <1>2, <1>3, <1>4, <1>5, <1>6, <1>7, <1>8

\* A thread whose search goes on, while the count of its key stays.
LEMMA SeenStays ==
    ASSUME NEW m, NEW m2, NEW t \in Thread, NEW F2, NEW h2, Outside(m, m2, t, F2, h2), NEW s \in Thread,
           Searches(F2[s]) <=> Searches(frame[s]), F2[s].key = frame[s].key,
           Searches(frame[s]) => count'[frame[s].key] = count[frame[s].key]
    PROVE  seen'[s] = seen[s]
  BY DEF Outside

\* The counts, when held stays.
LEMMA CountsOutside ==
    ASSUME NEW m, NEW m2, NEW t \in Thread, NEW F2, NEW h2, Outside(m, m2, t, F2, h2), h2 = held, NEW k \in Key
    PROVE  /\ (Pending(F2[t], k) <=> Pending(frame[t], k)) => count'[k] = count[k]
           /\ ~Pending(frame[t], k) /\ Pending(F2[t], k) => count'[k] = count[k] + 1
           /\ Pending(frame[t], k) /\ ~Pending(F2[t], k) => count'[k] = count[k] - 1 /\ count[k] > 0
  <1>1. MapInv(m) /\ MapInv(m2) /\ \A j \in Key : count[j] = CountOf(m, j) /\ count'[j] = CountOf(m2, j)
    BY DEF Outside, Counting
  <1>2. /\ CountInv(m, held, frame) /\ CountInv(m2, held, F2) /\ \A s \in Thread : s # t => F2[s] = frame[s]
    BY DEF Outside, InStep
  <1>3. PICK h, F : h = held /\ F = frame
    OBVIOUS
  <1>4. CountInv(m, h, F) /\ CountInv(m2, h, F2) /\ \A s \in Thread : s # t => F2[s] = F[s]
    BY <1>2, <1>3
  <1>5. /\ (Pending(F2[t], k) <=> Pending(F[t], k)) => CountOf(m2, k) = CountOf(m, k)
        /\ ~Pending(F[t], k) /\ Pending(F2[t], k) => CountOf(m2, k) = CountOf(m, k) + 1
        /\ Pending(F[t], k) /\ ~Pending(F2[t], k) => CountOf(m2, k) = CountOf(m, k) - 1 /\ CountOf(m, k) > 0
    BY <1>1, <1>4, CountsMove
  <1>6. QED
    BY <1>1, <1>3, <1>5

LEMMA GoesOn ==
    ASSUME NEW m, NEW m2, NEW t \in Thread, NEW F2, NEW h2, Outside(m, m2, t, F2, h2), h2 = held,
           F2[t].op = frame[t].op, F2[t].key = frame[t].key,
           Stage(F2[t]) = Stage(frame[t]), F2[t].answer = frame[t].answer
    PROVE  UNCHANGED Promise!vars
  <1>1. \A k \in Key : Pending(F2[t], k) <=> Pending(frame[t], k)
    BY DEF Pending
  <1>2. \A k \in Key : count'[k] = count[k]
    BY <1>1, CountsOutside
  <1>3. count' = count
    BY <1>2 DEF Outside
  <1>4. \A s \in Thread : CallOf(F2[s]) = CallOf(frame[s])
    BY DEF Outside, CallOf
  <1>5. call' = call
    BY <1>4 DEF Outside
  <1>6. ASSUME NEW s \in Thread PROVE seen'[s] = seen[s]
    <2>1. /\ Searches(F2[s]) <=> Searches(frame[s])
          /\ F2[s].key = frame[s].key
      BY DEF Searches, Outside
    <2>2. QED
      BY <1>3, <2>1, SeenStays
  <1>7. seen' = seen
    BY <1>6 DEF Outside
  <1>8. QED
    BY <1>3, <1>5, <1>7 DEF Promise!vars

LEMMA Found ==
    ASSUME NEW m, NEW m2, NEW t \in Thread, NEW F2, NEW h2, Outside(m, m2, t, F2, h2), h2 = held,
           F2[t].op = frame[t].op, F2[t].key = frame[t].key, frame[t].op = "SEARCH",
           Stage(frame[t]) = "called", Stage(F2[t]) = "done", Searched(m, frame[t], F2[t])
    PROVE  Promise!Search(t)
  <1> DEFINE f == frame[t]
             g == F2[t]
  <1>1. \A k \in Key : ~Pending(g, k) /\ ~Pending(f, k)
    BY DEF Pending
  <1>2. \A k \in Key : count'[k] = count[k]
    BY <1>1, CountsOutside
  <1>3. count' = count
    BY <1>2 DEF Outside
  <1>4. Searches(f) /\ ~Searches(g)
    BY DEF Searches
  <1>5. f.key \in Key /\ count[f.key] \in seen[t] /\ count[f.key] = CountOf(m, f.key)
    BY <1>4 DEF Outside, Counting
  <1>6. g.answer \in seen[t]
    <2>1. MapInv(m)
      BY DEF Outside, Counting
    <2>2. CASE g.answer = 0 /\ Uncounted(m, f.key)
      BY <1>5, <2>1, <2>2, CountOfIs
    <2>3. CASE Counted(m, f.key, g.answer)
      BY <1>5, <2>1, <2>3, CountOfIs DEF Counted
    <2>4. CASE /\ f.pc = "readPrev" /\ Good(m, f) /\ f.curr \in Record /\ m.at[f.curr] = "linked"
               /\ m.pointer[f.curr] = f.key /\ g.answer = f.currNext.ref
      <3>1. ReadInv(m, f, seen[t])
        BY <1>4 DEF Outside, Counting, SeenOf
      <3>2. QED
        BY <2>4, <3>1 DEF ReadInv
    <2>5. QED
      BY <2>2, <2>3, <2>4 DEF Searched
  <1>7. ASSUME NEW s \in Thread, s # t PROVE seen'[s] = seen[s]
    <2>1. F2[s] = frame[s]
      BY <1>7 DEF Outside
    <2>2. QED
      BY <1>3, <2>1, SeenStays
  <1>8. seen'[t] = {}
    BY <1>4 DEF Outside
  <1>9. seen' = [seen EXCEPT ![t] = {}]
    BY <1>7, <1>8 DEF Outside
  <1>10. call = [s \in Thread |-> CallOf(frame[s])] /\ call' = [s \in Thread |-> CallOf(F2[s])]
         /\ \A s \in Thread : s # t => F2[s] = frame[s]
    BY DEF Outside
  <1>11. CallOf(g) = [CallOf(f) EXCEPT !.answer = g.answer, !.stage = "done"]
    BY CallDone
  <1>12. call' = [call EXCEPT ![t].answer = g.answer, ![t].stage = "done"]
    BY <1>10, <1>11
  <1>13. Promise!Searching(t)
    BY <1>10, CallFields DEF Promise!Searching
  <1>14. QED
    BY <1>3, <1>6, <1>9, <1>12, <1>13 DEF Promise!Search

LEMMA Changed ==
    ASSUME NEW m, NEW m2, NEW t \in Thread, NEW F2, NEW h2, Outside(m, m2, t, F2, h2), h2 = held,
           F2[t].op = frame[t].op, F2[t].key = frame[t].key, frame[t].op \in {"RECORD", "REMOVE"},
           Stage(frame[t]) = "called", Stage(F2[t]) = "done",
           \E r \in Record : m2.at[r] = "linked" /\ m2.pointer[r] = frame[t].key /\ m2.word[r].ref = F2[t].answer
    PROVE  Promise!Record(t) \/ Promise!Remove(t)
  <1> DEFINE f == frame[t]
             g == F2[t]
             k == frame[t].key
             n == count'[frame[t].key]
  <1>1. k \in Key
    BY DEF Outside, InStep
  <1>2. \A j \in Key : j # k => ~Pending(g, j) /\ ~Pending(f, j)
    BY DEF Pending
  <1>3. \A j \in Key : j # k => count'[j] = count[j]
    BY <1>2, CountsOutside
  <1>4. IF f.op = "RECORD" THEN n = count[k] + 1 ELSE n = count[k] - 1 /\ count[k] > 0
    <2>1. CASE f.op = "RECORD"
      <3>1. ~Pending(f, k) /\ Pending(g, k)
        BY <2>1 DEF Pending
      <3>2. QED
        BY <1>1, <2>1, <3>1, CountsOutside
    <2>2. CASE f.op = "REMOVE"
      <3>1. Pending(f, k) /\ ~Pending(g, k)
        BY <2>2 DEF Pending
      <3>2. QED
        BY <1>1, <2>2, <3>1, CountsOutside
    <2>3. QED
      BY <2>1, <2>2
  <1>5. g.answer = n
    <2>1. MapInv(m2) /\ count'[k] = CountOf(m2, k)
      BY <1>1 DEF Outside, Counting
    <2>2. QED
      BY <1>1, <2>1, CountOfIs
  <1>6. count' = [count EXCEPT ![k] = n]
    <2>1. count = [j \in Key |-> count[j]] /\ count' = [j \in Key |-> count'[j]]
      BY DEF Outside
    <2>2. QED
      BY <1>1, <1>3, <2>1
  <1>7. call = [s \in Thread |-> CallOf(frame[s])] /\ call' = [s \in Thread |-> CallOf(F2[s])]
        /\ \A s \in Thread : s # t => F2[s] = frame[s]
    BY DEF Outside
  <1>8. CallOf(g) = [CallOf(f) EXCEPT !.answer = g.answer, !.stage = "done"]
    BY CallDone
  <1>9. call' = [call EXCEPT ![t].answer = n, ![t].stage = "done"]
    BY <1>5, <1>7, <1>8
  <1>10. \A s \in Thread : /\ Promise!Searching(s) <=> Searches(frame[s])
                           /\ call[s].key = frame[s].key /\ call[s].op = frame[s].op /\ call[s].stage = Stage(frame[s])
    BY <1>7, CallFields DEF Promise!Searching, Searches
  <1>11. ASSUME NEW s \in Thread
         PROVE  seen'[s] = IF Promise!Searching(s) /\ call[s].key = k THEN seen[s] \cup {n} ELSE seen[s]
    <2>1. CASE s = t
      BY <1>10, <2>1 DEF Outside, Searches
    <2>2. CASE s # t
      <3>1. F2[s] = frame[s]
        BY <1>7, <2>2
      <3>2. CASE Searches(frame[s]) /\ frame[s].key = k
        BY <1>10, <3>1, <3>2 DEF Outside
      <3>3. CASE Searches(frame[s]) /\ frame[s].key # k
        <4>1. count'[frame[s].key] = count[frame[s].key]
          BY <1>3, <3>3 DEF Outside
        <4>2. /\ Searches(F2[s]) <=> Searches(frame[s])
              /\ F2[s].key = frame[s].key
              /\ Searches(frame[s]) => count'[frame[s].key] = count[frame[s].key]
          BY <3>1, <4>1
        <4>2a. seen'[s] = seen[s]
          BY <4>2, SeenStays
        <4>3. QED
          BY <1>10, <3>3, <4>2a
      <3>4. CASE ~Searches(frame[s])
        BY <1>10, <3>1, <3>4 DEF Outside
      <3>5. QED
        BY <3>2, <3>3, <3>4
    <2>3. QED
      BY <2>1, <2>2
  <1>12. seen' = [s \in Thread |-> IF Promise!Searching(s) /\ call[s].key = k THEN seen[s] \cup {n} ELSE seen[s]]
    BY <1>11 DEF Outside
  <1>13. Promise!Becomes(t, n)
    BY <1>6, <1>9, <1>10, <1>12 DEF Promise!Becomes
  <1>14. QED
    BY <1>4, <1>10, <1>13 DEF Promise!Record, Promise!Remove

LEMMA Called ==
    ASSUME NEW m, NEW m2, NEW t \in Thread, NEW F2, NEW h2, Outside(m, m2, t, F2, h2), count' = count,
           frame[t].pc = "idle", F2[t].op \in Operation, F2[t].key \in Key, F2[t].answer = 0,
           Stage(F2[t]) = "called"
    PROVE  Promise!Invoke(t)
  <1> DEFINE f == frame[t]
             g == F2[t]
  <1>1. call = [s \in Thread |-> CallOf(frame[s])] /\ call' = [s \in Thread |-> CallOf(F2[s])]
        /\ \A s \in Thread : s # t => F2[s] = frame[s]
    BY DEF Outside
  <1>2. Stage(f) = "idle" /\ ~Searches(f)
    BY DEF Stage, Searches
  <1>3. call[t].stage = "idle"
    BY <1>1, <1>2, CallFields
  <1>4. CallOf(g) = [op |-> g.op, key |-> g.key, answer |-> 0, stage |-> "called"]
    BY DEF CallOf
  <1>5. call' = [call EXCEPT ![t] = [op |-> g.op, key |-> g.key, answer |-> 0, stage |-> "called"]]
    BY <1>1, <1>4
  <1>6. seen'[t] = IF g.op = "SEARCH" THEN {count[g.key]} ELSE {}
    BY <1>2 DEF Outside, Searches
  <1>7. ASSUME NEW s \in Thread, s # t PROVE seen'[s] = seen[s]
    <2>1. F2[s] = frame[s]
      BY <1>1, <1>7
    <2>2. /\ Searches(F2[s]) <=> Searches(frame[s])
          /\ F2[s].key = frame[s].key
          /\ Searches(frame[s]) => count'[frame[s].key] = count[frame[s].key]
      BY <2>1
    <2>3. QED
      BY <2>2, SeenStays
  <1>8. seen' = [seen EXCEPT ![t] = IF g.op = "SEARCH" THEN {count[g.key]} ELSE {}]
    BY <1>6, <1>7 DEF Outside
  <1>9. QED
    BY <1>3, <1>5, <1>8 DEF Promise!Invoke, Operation

LEMMA Returned ==
    ASSUME NEW m, NEW m2, NEW t \in Thread, NEW F2, NEW h2, Outside(m, m2, t, F2, h2), count' = count,
           frame[t].pc = "return", F2[t] = Idle
    PROVE  Promise!Return(t)
  <1>1. call = [s \in Thread |-> CallOf(frame[s])] /\ call' = [s \in Thread |-> CallOf(F2[s])]
        /\ \A s \in Thread : s # t => F2[s] = frame[s]
    BY DEF Outside
  <1>2. Stage(frame[t]) = "done" /\ ~Searches(frame[t]) /\ ~Searches(Idle)
    BY DEF Stage, Settled, Searches, Idle
  <1>3. call[t].stage = "done"
    BY <1>1, <1>2, CallFields
  <1>4. CallOf(Idle) = [op |-> "none", key |-> 0, answer |-> 0, stage |-> "idle"]
    BY DEF CallOf, Idle, Stage
  <1>5. call' = [call EXCEPT ![t] = Promise!NoCall]
    BY <1>1, <1>4 DEF Promise!NoCall
  <1>6. ASSUME NEW s \in Thread PROVE seen'[s] = seen[s]
    <2>1. /\ Searches(F2[s]) <=> Searches(frame[s])
          /\ Searches(frame[s]) => s # t
          /\ s # t => F2[s].key = frame[s].key
      BY <1>1, <1>2
    <2>2. CASE s = t
      BY <1>2, <2>2 DEF Outside
    <2>3. CASE s # t
      BY <2>1, <2>3, SeenStays
    <2>4. QED
      BY <2>2, <2>3
  <1>7. seen' = seen
    BY <1>6 DEF Outside
  <1>8. QED
    BY <1>3, <1>5, <1>7 DEF Promise!Return

LEMMA StepCounts ==
    ASSUME Inv, Unwrapped, NEW t \in Thread, Step(t), Watch, SeenInv
    PROVE  SeenInv' /\ [Promise!Next]_(Promise!vars)
  <1>1. PICK m, m2 : Counting(m, m2, t)
    BY CountingIs
  <1>2. Inv'
    BY CountingIs
  <1>3. SeenInv'
    BY <1>1, SeenKeeps
  <1>4. PICK F2, h2 : F2 = frame' /\ h2 = held'
    OBVIOUS
  <1>5. Outside(m, m2, t, F2, h2)
    BY <1>1, <1>2, <1>4, OutsideIs
  <1> DEFINE f == frame[t]
             g == F2[t]
             h == held
  <1>6. Tells(m, m2, f, g, h, h2, t)
    BY <1>5 DEF Outside, InStep
  <1>7. UNCHANGED shared => count' = count
    BY DEF Watch
  <1>8. build.walk = "once"
    BY DEF Inv
  <1>9. CASE /\ h2 = h /\ g.op = f.op /\ g.key = f.key
             /\ Stage(g) = Stage(f) /\ g.answer = f.answer
    <2>1. UNCHANGED Promise!vars
      BY <1>5, <1>9, GoesOn
    <2>2. QED
      BY <1>3, <2>1
  <1>10. CASE /\ h2 = h /\ g.op = f.op /\ g.key = f.key /\ f.op = "SEARCH"
              /\ Stage(f) = "called" /\ Stage(g) = "done" /\ Searched(m, f, g)
    <2>1. Promise!Search(t)
      BY <1>5, <1>10, Found
    <2>2. QED
      BY <1>3, <2>1 DEF Promise!Next
  <1>11. CASE /\ h2 = h /\ g.op = f.op /\ g.key = f.key /\ f.op \in {"RECORD", "REMOVE"}
              /\ Stage(f) = "called" /\ Stage(g) = "done"
              /\ \E r \in Record : m2.at[r] = "linked" /\ m2.pointer[r] = f.key /\ m2.word[r].ref = g.answer
    <2>1. Promise!Record(t) \/ Promise!Remove(t)
      BY <1>5, <1>11, Changed
    <2>2. QED
      BY <1>3, <2>1 DEF Promise!Next
  <1>12. CASE /\ f.pc = "idle" /\ g.op \in Operation /\ g.key \in Key /\ g.answer = 0
              /\ Stage(g) = "called"
    <2>1. Invoke(t)
      BY <1>8, <1>12, OutsideWalks
    <2>2. UNCHANGED shared
      BY <2>1 DEF Invoke
    <2>3. Promise!Invoke(t)
      BY <1>5, <1>7, <1>12, <2>2, Called
    <2>4. QED
      BY <1>3, <2>3 DEF Promise!Next
  <1>13. CASE f.pc = "return" /\ g = Idle
    <2>1. Return(t)
      BY <1>8, <1>13, OutsideWalks
    <2>2. UNCHANGED shared
      BY <2>1 DEF Return
    <2>3. Promise!Return(t)
      BY <1>5, <1>7, <1>13, <2>2, Returned
    <2>4. QED
      BY <1>3, <2>3 DEF Promise!Next
  <1>14. QED
    BY <1>3, <1>6, <1>9, <1>10, <1>11, <1>12, <1>13 DEF Tells

-----------------------------------------------------------------------------
(* Turning back.                                                           *)

\* What t does when it is not walking does not bring it back into its walk.
LEMMA NoWayBack ==
    ASSUME Inv, NEW t \in Thread, Step(t), frame[t].pc \notin Walking \cup {"head", "back"}
    PROVE  /\ frame'[t].pc \notin Walking \cup {"back"}
           /\ frame[t].pc # "idle" => frame'[t].pc # "head"
  <1>1. PICK m : IsNow(m) /\ StateInv(m, held, frame) /\ \A s \in Thread : FrameInv(m, s, frame[s]) /\ frame[s] \in Frame
    BY InvIs
  <1>2. frame = [s \in Thread |-> frame[s]] /\ frame[t] \in Frame
    BY <1>1 DEF StateInv
  <1>3. frame[t].pc \in {"idle", "return", "giveBack", "unlink"} /\ build.walk = "once"
    BY <1>1 DEF FrameInv, CallInv, Frame, PcLabels, Inv
  <1>4. CASE frame[t].pc = "idle"
    <2>1. Invoke(t)
      BY <1>3, <1>4, OutsideWalks
    <2>2. PICK c : frame' = [frame EXCEPT ![t].op = c[1], ![t].key = c[2], ![t].pc = "head"]
      BY <2>1 DEF Invoke
    <2>3. frame'[t] = [frame[t] EXCEPT !.op = c[1], !.key = c[2], !.pc = "head"]
      BY <1>2, <2>2
    <2>4. frame'[t].pc = "head"
      BY <1>2, <2>3 DEF Frame
    <2>5. QED
      BY <1>4, <2>4 DEF Walking
  <1>5. CASE frame[t].pc = "return"
    <2>1. Return(t)
      BY <1>3, <1>5, OutsideWalks
    <2>2. frame'[t] = Idle
      BY <1>2, <2>1 DEF Return
    <2>3. QED
      BY <2>2 DEF Idle, Walking
  <1>6. CASE frame[t].pc = "giveBack"
    <2>1. GiveBack(t)
      BY <1>3, <1>6, OutsideWalks
    <2>2. frame'[t] = Answer([frame[t] EXCEPT !.my = NoRecord], frame[t].answer)
      BY <1>2, <2>1 DEF GiveBack
    <2>3. frame'[t].pc = "return"
      BY <2>2 DEF Answer, Idle
    <2>4. QED
      BY <2>3 DEF Walking
  <1>7. CASE frame[t].pc = "unlink"
    <2>1. Unlink(t)
      BY <1>3, <1>7, OutsideWalks
    <2>2. PICK n : frame'[t] = IF n = frame[t].curr THEN Answer(frame[t], frame[t].answer)
                               ELSE [frame[t] EXCEPT !.local = n]
      BY <1>2, <2>1 DEF Unlink
    <2>3. Answer(frame[t], frame[t].answer).pc = "return"
      BY DEF Answer, Idle
    <2>4. [frame[t] EXCEPT !.local = n].pc = "unlink"
      BY <1>2, <1>7 DEF Frame
    <2>5. QED
      BY <2>2, <2>3, <2>4 DEF Walking
  <1>8. QED
    BY <1>3, <1>4, <1>5, <1>6, <1>7

\* A walk that nobody has disturbed knows the word of prev.
DisturbInv ==
    /\ disturbed = [t \in Thread |-> disturbed[t]]
    /\ \A t \in Watched : ~disturbed[t] /\ frame[t].pc \in Walking => word[frame[t].prev] = frame[t].prevNext

LEMMA TracksNow ==
    ASSUME Inv, Unwrapped, NEW t \in Thread, Step(t), Watch
    PROVE  /\ frame' = [frame EXCEPT ![t] = frame'[t]] /\ \A s \in Thread : s # t => frame'[s] = frame[s]
           /\ frame[t].pc \in {"head", "back"} \/ (frame[t].pc \in Walking /\ word[frame[t].prev] = frame[t].prevNext) =>
                /\ frame'[t].pc \in Walking => word'[frame'[t].prev] = frame'[t].prevNext
                /\ frame[t].pc \in Walking =>
                     /\ frame'[t].pc \notin {"head", "back"}
                     /\ ~(frame'[t].pc = "readCurr" /\ frame'[t].prev = frame[t].prev
                          /\ frame'[t].prevNext # frame[t].prevNext)
  <1>1. PICK m, m2 : /\ IsNow(m) /\ StateInv(m, held, frame) /\ Takes(m, m2, t)
    BY StepIs
  <1>2. frame = [s \in Thread |-> frame[s]]
    BY <1>1 DEF StateInv
  <1>3. PICK F2 : F2 = frame'
    OBVIOUS
  <1>4. F2 = [frame EXCEPT ![t] = F2[t]] /\ Tracks(m, m2, frame[t], F2[t])
    BY <1>1, <1>3 DEF Takes, Effect
  <1>5. m.word = word /\ m2.word = word'
    BY <1>1 DEF IsNow, Takes, IsNext
  <1>6. \A s \in Thread : s # t => F2[s] = frame[s]
    BY <1>2, <1>4
  <1>7. QED
    BY <1>3, <1>4, <1>5, <1>6 DEF Tracks

LEMMA StepTurns ==
    ASSUME Inv, Unwrapped, NEW t \in Thread, Step(t), Watch, DisturbInv
    PROVE  DisturbInv' /\ \A s \in Watched : TurnsBackAt(s) => disturbed[s]
  <1>1. PICK F2, w2, d2 : F2 = frame' /\ w2 = word' /\ d2 = disturbed'
    OBVIOUS
  <1>2. /\ \A s \in Thread : s # t => F2[s] = frame[s]
        /\ frame[t].pc \in {"head", "back"} \/ (frame[t].pc \in Walking /\ word[frame[t].prev] = frame[t].prevNext) =>
             /\ F2[t].pc \in Walking => w2[F2[t].prev] = F2[t].prevNext
             /\ frame[t].pc \in Walking =>
                  /\ F2[t].pc \notin {"head", "back"}
                  /\ ~(F2[t].pc = "readCurr" /\ F2[t].prev = frame[t].prev /\ F2[t].prevNext # frame[t].prevNext)
    BY <1>1, TracksNow
  <1>3. /\ frame[t].pc \notin Walking \cup {"head", "back"} => F2[t].pc \notin Walking \cup {"back"}
        /\ frame[t].pc \notin Walking \cup {"head", "back", "idle"} => F2[t].pc # "head"
    BY <1>1, NoWayBack
  <1>4. \A s \in Watched : TurnsBackAt(s) <=>
          /\ F2[s] # frame[s] /\ frame[s].pc \notin {"idle", "head", "back"}
          /\ \/ F2[s].pc \in {"head", "back"}
             \/ F2[s].pc = "readCurr" /\ F2[s].prev = frame[s].prev /\ F2[s].prevNext # frame[s].prevNext
    BY <1>1 DEF TurnsBackAt
  <1>5. \A s \in Watched : s \in Thread
    BY WatchAssumption
  <1>6. \A s \in Watched : ~disturbed[s] /\ frame[s].pc \in Walking => word[frame[s].prev] = frame[s].prevNext
    BY DEF DisturbInv
  <1>7. ASSUME NEW s \in Watched, TurnsBackAt(s), ~disturbed[s] PROVE FALSE
    <2>1. s = t
      BY <1>2, <1>4, <1>5, <1>7
    <2>2. frame[t].pc \in Walking
      BY <1>3, <1>4, <1>7, <2>1 DEF Walking
    <2>3. QED
      BY <1>2, <1>4, <1>6, <1>7, <2>1, <2>2
  <1>8. ASSUME NEW s \in Watched, ~d2[s], F2[s].pc \in Walking PROVE w2[F2[s].prev] = F2[s].prevNext
    <2>1. d2[s] = IF s \notin Watched \/ F2[s].pc = "idle" THEN FALSE
                  ELSE IF TurnsBackAt(s)
                  THEN F2[s].pc = "readCurr" /\ w2[F2[s].prev] # F2[s].prevNext
                  ELSE \/ disturbed[s]
                       \/ w2 # word /\ F2[s] = frame[s] /\ frame[s].pc # "idle"
      BY <1>1, <1>5 DEF Watch
    <2>2. F2[s].pc # "idle" /\ F2[s].pc \notin {"head", "back"}
      BY <1>8 DEF Walking
    <2>3. CASE TurnsBackAt(s)
      BY <1>4, <1>8, <2>1, <2>2, <2>3
    <2>4. CASE ~TurnsBackAt(s)
      <3>1. ~disturbed[s] /\ ~(w2 # word /\ F2[s] = frame[s] /\ frame[s].pc # "idle")
        BY <1>8, <2>1, <2>2, <2>4
      <3>2. CASE s = t
        <4>1. frame[t].pc \in {"head", "back"} \/ frame[t].pc \in Walking
          BY <1>3, <1>8, <3>2
        <4>2. QED
          BY <1>2, <1>6, <1>8, <3>1, <3>2, <4>1
      <3>3. CASE s # t
        BY <1>2, <1>5, <1>6, <1>8, <2>2, <3>1, <3>3
      <3>4. QED
        BY <3>2, <3>3
    <2>5. QED
      BY <2>3, <2>4
  <1>9. d2 = [s \in Thread |-> d2[s]]
    BY <1>1 DEF Watch
  <1>10. DisturbInv'
    BY <1>1, <1>8, <1>9 DEF DisturbInv
  <1>11. QED
    BY <1>7, <1>10

-----------------------------------------------------------------------------
(* The theorems.                                                           *)

LEMMA SeenAlways == Spec /\ build.walk = "once" /\ []Unwrapped => []SeenInv
  <1>1. Init /\ Inv => SeenInv
    BY InitSeen
  <1>2. Inv /\ Unwrapped /\ SeenInv /\ [Next]_vars => SeenInv'
    <2>1. CASE Finished
      BY <2>1, SameSeen DEF Finished
    <2>2. CASE UNCHANGED vars
      BY <2>2, SameSeen
    <2>3. ASSUME Inv, Unwrapped, SeenInv, NEW t \in Thread, Step(t), Watch PROVE SeenInv'
      BY <2>3, StepCounts
    <2>4. QED
      BY <2>1, <2>2, <2>3 DEF Next
  <1>3. QED
    BY <1>1, <1>2, InvAlways, PTL DEF Spec

LEMMA DisturbAlways == Spec /\ build.walk = "once" /\ []Unwrapped => []DisturbInv
  <1>1. Init => DisturbInv
    <2>1. Init => \A t \in Watched : frame[t] = Idle
      BY WatchAssumption DEF Init, InitMap
    <2>2. Idle.pc \notin Walking
      BY DEF Idle, Walking
    <2>3. Init => disturbed = [t \in Thread |-> disturbed[t]]
      BY DEF Init
    <2>4. QED
      BY <2>1, <2>2, <2>3 DEF DisturbInv
  <1>2. Inv /\ Unwrapped /\ DisturbInv /\ [Next]_vars => DisturbInv'
    <2>1. ASSUME DisturbInv, UNCHANGED vars PROVE DisturbInv'
      BY <2>1 DEF DisturbInv, vars, mapVars
    <2>2. CASE Finished
      BY <2>1, <2>2 DEF Finished
    <2>3. CASE UNCHANGED vars
      BY <2>1, <2>3
    <2>4. ASSUME Inv, Unwrapped, DisturbInv, NEW t \in Thread, Step(t), Watch PROVE DisturbInv'
      BY <2>4, StepTurns
    <2>5. QED
      BY <2>2, <2>3, <2>4 DEF Next
  <1>3. QED
    BY <1>1, <1>2, InvAlways, PTL DEF Spec

\* Words stay within their widths, and the steps a restarted walk goes back
\* never pass the head: psly_handle_records finds a place it remembers.
THEOREM TypeCorrect == Spec /\ build.walk = "once" /\ []Unwrapped => []TypeOK
  <1>1. Inv => TypeOK
    BY InvType
  <1>2. QED
    BY <1>1, InvAlways, PTL

\* A walk of psly_handle_records whose curr is not in its list any more finds
\* that out when it checks prev: prev was deleted, has come back as another
\* Record or is followed by another one.
THEOREM CheckedPrev == Spec /\ build.walk = "once" /\ []Unwrapped => []ReallyLinked
  <1>1. Inv => ReallyLinked
    BY InvReallyLinked
  <1>2. QED
    BY <1>1, InvAlways, PTL

\* Whatever the threads do, every Record is in one place: in the free list, in
\* one list, or with the one thread that took it with get_Record or unlinked it.
\* None is linked twice, given back while it is linked, given back twice or lost.
THEOREM RecordsConserved == Spec /\ build.walk = "once" /\ []Unwrapped => []Conserved
  <1>1. Inv => Conserved
    BY InvConserved
  <1>2. QED
    BY <1>1, InvAlways, PTL

\* The live Records of a list are in the order of their pointers, and no
\* pointer has two: psly_record never links a second Record for a pointer.
THEOREM ListsSorted == Spec /\ build.walk = "once" /\ []Unwrapped => []Sorted
  <1>1. Inv => Sorted
    BY InvSorted
  <1>2. QED
    BY <1>1, InvAlways, PTL

\* The one CAS that links a new Record and unlinks deleted ones never takes a
\* Record out of its list that still counts references.
THEOREM LiveStays == Spec /\ build.walk = "once" /\ []Unwrapped => OnlyDeleted
  <1>1. Inv /\ Unwrapped /\ [Next]_vars => [\A l \in Lists : Live(l) \subseteq Linked(l)']_vars
    <2>1. CASE Finished
      BY <2>1 DEF Finished
    <2>2. CASE UNCHANGED vars
      BY <2>2
    <2>3. ASSUME Inv, Unwrapped, NEW t \in Thread, Step(t), Watch
          PROVE  \A l \in Lists : Live(l) \subseteq Linked(l)'
      BY <2>3, StepOnlyDeleted
    <2>4. QED
      BY <2>1, <2>2, <2>3 DEF Next
  <1>2. QED
    BY <1>1, InvAlways, PTL DEF Spec, OnlyDeleted

\* A walk turns back only when another thread has written a word since it last
\* did, whatever it finds: a call that runs alone never goes round.
THEOREM NeverTurnsAlone == Spec /\ build.walk = "once" /\ []Unwrapped => TurnsBack
  <1>1. Inv /\ Unwrapped /\ DisturbInv /\ [Next]_vars => [\A t \in Watched : TurnsBackAt(t) => disturbed[t]]_vars
    <2>1. CASE Finished
      BY <2>1 DEF Finished
    <2>2. CASE UNCHANGED vars
      BY <2>2
    <2>3. ASSUME Inv, Unwrapped, DisturbInv, NEW t \in Thread, Step(t), Watch
          PROVE  \A s \in Watched : TurnsBackAt(s) => disturbed[s]
      BY <2>3, StepTurns
    <2>4. QED
      BY <2>1, <2>2, <2>3 DEF Next
  <1>2. QED
    BY <1>1, InvAlways, DisturbAlways, PTL DEF Spec, TurnsBack

\* The map implements a counter for every pointer: psly_record and psly_remove
\* return the number of references after them, psly_search a number that there
\* was while it ran, although none of them ever stops another one.
THEOREM ImplementsCounts == Spec /\ build.walk = "once" /\ []Unwrapped => CountsSpec
  <1>1. Init /\ Inv => Promise!Init
    BY InitCounts
  <1>2. Inv /\ Unwrapped /\ SeenInv /\ [Next]_vars => [Promise!Next]_(Promise!vars)
    <2>1. ASSUME UNCHANGED vars PROVE UNCHANGED Promise!vars
      BY <2>1 DEF vars, Promise!vars
    <2>2. CASE Finished
      BY <2>1, <2>2 DEF Finished
    <2>3. CASE UNCHANGED vars
      BY <2>1, <2>3
    <2>4. ASSUME Inv, Unwrapped, SeenInv, NEW t \in Thread, Step(t), Watch PROVE [Promise!Next]_(Promise!vars)
      BY <2>4, StepCounts
    <2>5. QED
      BY <2>2, <2>3, <2>4 DEF Next
  <1>3. QED
    BY <1>1, <1>2, InvAlways, SeenAlways, PTL DEF Spec, CountsSpec, Promise!Spec

=============================================================================
