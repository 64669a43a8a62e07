-------------------------- MODULE RecordQueueProof --------------------------
(***************************************************************************)
(* The free list of RecordQueue for every number of threads, queues and    *)
(* Records, as long as no version wraps: no Record is handed out twice and *)
(* none is lost.                                                           *)
(***************************************************************************)
EXTENDS RecordQueue, TLAPS, FiniteSetTheorems, WellFoundedInduction

\* The Records of queue a that no thread holds.
Free(a) == {i \in Idx : \A t \in Thread : <<a, i>> \notin held[t]}

\* They have places that count up from the version of the head to e; the tail
\* is among them, and every word "next" leads one place on.
Placed(a, p, e) ==
    /\ head[a].idx \in Free(a) /\ p[head[a].idx] = head[a].version
    /\ tail[a].idx \in Free(a) /\ p[tail[a].idx] = tail[a].version + IDXNUM - 1
    /\ \A i \in Free(a) :
          /\ head[a].version <= p[i] /\ p[i] <= e
          /\ next[<<a, i>>].last <=> p[i] = e
          /\ ~next[<<a, i>>].last =>
               next[<<a, i>>].idx \in Free(a) /\ p[next[<<a, i>>].idx] = p[i] + 1
    /\ \A i, j \in Free(a) : p[i] = p[j] => i = j
    /\ \A k \in head[a].version .. e : \E i \in Free(a) : p[i] = k
    /\ \A i \in Idx : next[<<a, i>>].version + IDXNUM - 1 <= e

Placement == \A a \in Array : \E p \in [Idx -> Nat], e \in Nat : Placed(a, p, e)

\* A word that was read, seen from what is there now.
Since(old, now) == old.version <= now.version /\ (old.version = now.version => old = now)

Growth == {"growRead", "growCas", "growNum", "growNumCas"}
HeadRead == {"getTail", "getNext", "getCheck", "getTailCas", "getHeadCas"}
BothRead == HeadRead \ {"getTail"}
Returning == {"retMark", "retTail", "retNext", "retCheck", "retAdvance", "retCas", "retSwing"}
TailRead == BothRead \cup (Returning \ {"retMark", "retTail"})

\* A thread about to add an array has room for it; a Record comes from an array
\* that is there, and return_Record was given one.
PlaceInv(t) ==
    /\ pc[t] \in Growth => localNum[t] < ARRAYNUM_MAX
    /\ pc[t] \in {"growNum", "growNumCas"} => localNum[t] \in made
    /\ pc[t] \in Returning => back[t] \in Record
    /\ held[t] \subseteq made \X Idx

TypeInv == TypeOK /\ \A t \in Thread : PlaceInv(t)

\* What get_Record knows, as long as the head or the tail is the one it read.
GetInv(t) ==
    LET a == array[t]
        h == <<a, headWord[t].idx>>
    IN  /\ pc[t] \in HeadRead => Since(headWord[t], head[a])
        /\ pc[t] \in TailRead => Since(tailWord[t], tail[a])
        /\ pc[t] \in BothRead /\ headWord[t] = head[a] /\ headWord[t].idx # tailWord[t].idx =>
             tail[a].idx # head[a].idx
        /\ pc[t] \in {"getCheck", "getHeadCas"} /\ headWord[t] = head[a]
             /\ (headWord[t].idx # tailWord[t].idx \/ ~nextWord[t].last) =>
             next[h] = nextWord[t] /\ ~nextWord[t].last
        /\ pc[t] = "getHeadCas" => headWord[t].idx # tailWord[t].idx

\* What return_Record knows, and whoever moves the tail.
RetInv(t) ==
    LET a == array[t]
        l == <<a, tailWord[t].idx>>
    IN  /\ pc[t] \in Returning => back[t][1] = a
        /\ pc[t] \in Returning \ {"retSwing"} => back[t] \in held[t]
        /\ pc[t] = "retMark" => nextWord[t] = next[back[t]]
        /\ pc[t] \in Returning \ {"retMark", "retSwing"} => next[back[t]].last
        /\ pc[t] \in {"retCheck", "retCas"} => nextWord[t].version <= next[l].version
        /\ pc[t] = "retCheck" /\ tail[a] = tailWord[t] =>
             \/ next[l] = nextWord[t]
             \/ nextWord[t].last /\ nextWord[t].version < next[l].version
        /\ pc[t] = "retCas" =>
             /\ nextWord[t].last
             /\ next[l].version = nextWord[t].version =>
                  tailWord[t].idx \in Free(a) /\ next[l] = nextWord[t]
        /\ pc[t] \in {"getTailCas", "retAdvance"} /\ tail[a] = tailWord[t] =>
             next[l] = nextWord[t] /\ ~nextWord[t].last
        /\ pc[t] = "retSwing" /\ tail[a] = tailWord[t] =>
             ~next[l].last /\ next[l].idx = back[t][2]

\* No Record is held by two threads.
Disjoint == \A s, t \in Thread : s # t => held[s] \cap held[t] = {}

\* The Records of an array that is not made yet are chained as they will be.
Unmade == \A r \in Record : r[1] \notin made => next[r] = Last(r[2])

IInv ==
    /\ TypeInv
    /\ Disjoint
    /\ Unmade
    /\ Placement
    /\ \A t \in Thread : GetInv(t) /\ RetInv(t)

\* The CAS on the head of a queue still has a version left, and so have those
\* on its words "next".
Unwrapped == \A a \in Array : head[a].version + 1 < VERSIONS /\ head[a].version + 1 < NEXTVERSIONS

-----------------------------------------------------------------------------
(* Types.                                                                  *)

LEMMA ModRange ==
    ASSUME NEW i \in Nat, NEW n \in Nat \ {0}
    PROVE  i % n \in 0 .. n - 1 /\ (i < n => i % n = i)
  OBVIOUS

\* The words that the CASes write.
LEMMA WordTypes ==
    /\ \A w \in End, i \in Idx : Moved(w, i) \in End /\ Moved(w, i).idx = i
    /\ \A w \in Next_, i \in Idx : Linked(w, i) \in Next_ /\ Linked(w, i).idx = i /\ ~Linked(w, i).last
    /\ \A w \in Next_ : /\ Marked(w) \in Next_ /\ Marked(w).last
                        /\ Marked(w).version = w.version /\ Marked(w).idx = w.idx
    /\ \A i \in Idx : Last(i) \in Next_
    /\ Zero \in End
  <1> USE DEF End, Next_, Idx
  <1>1. ASSUME NEW w \in End, NEW i \in Idx
        PROVE  Moved(w, i) \in End /\ Moved(w, i).idx = i
    <2>1. w.version + 1 \in Nat /\ VERSIONS \in Nat \ {0}
      BY RecordAssumption
    <2>2. (w.version + 1) % VERSIONS \in 0 .. VERSIONS - 1
      BY <2>1, ModRange
    <2>3. QED
      BY <2>2 DEF Moved
  <1>2. ASSUME NEW w \in Next_, NEW i \in Idx
        PROVE  Linked(w, i) \in Next_ /\ Linked(w, i).idx = i /\ ~Linked(w, i).last
    <2>1. w.version + 1 \in Nat /\ NEXTVERSIONS \in Nat \ {0}
      BY RecordAssumption
    <2>2. (w.version + 1) % NEXTVERSIONS \in 0 .. NEXTVERSIONS - 1
      BY <2>1, ModRange
    <2>3. QED
      BY <2>2 DEF Linked
  <1>3. ASSUME NEW w \in Next_
        PROVE  /\ Marked(w) \in Next_ /\ Marked(w).last
               /\ Marked(w).version = w.version /\ Marked(w).idx = w.idx
    BY DEF Marked
  <1>4. ASSUME NEW i \in Idx PROVE Last(i) \in Next_
    BY RecordAssumption, ModRange DEF Last
  <1>5. Zero \in End
    BY RecordAssumption DEF Zero
  <1>6. QED
    BY <1>1, <1>2, <1>3, <1>4, <1>5

\* While no version wraps, a CAS raises it by one.
LEMMA Raised ==
    /\ \A w \in End, i \in Idx : w.version + 1 < VERSIONS =>
         Moved(w, i).version = w.version + 1
    /\ \A w \in Next_, i \in Idx : w.version + 1 < NEXTVERSIONS =>
         Linked(w, i).version = w.version + 1
  <1>1. ASSUME NEW w \in End, NEW i \in Idx, w.version + 1 < VERSIONS
        PROVE  Moved(w, i).version = w.version + 1
    BY <1>1, RecordAssumption, ModRange DEF Moved, End
  <1>2. ASSUME NEW w \in Next_, NEW i \in Idx, w.version + 1 < NEXTVERSIONS
        PROVE  Linked(w, i).version = w.version + 1
    BY <1>2, RecordAssumption, ModRange DEF Linked, Next_
  <1>3. QED
    BY <1>1, <1>2

LEMMA ThreadTypes ==
    ASSUME TypeOK, NEW t \in Thread
    PROVE  /\ array[t] \in made /\ array[t] \in Array /\ made \subseteq Array
           /\ localNum[t] \in 1 .. arrayNum /\ localNum[t] \in Nat \ {0} /\ localNum[t] <= ARRAYNUM_MAX
           /\ \A i \in 0 .. localNum[t] - 1 : i \in made
           /\ tried[t] \in Array /\ tried[t] \in Nat /\ recordTake \in Nat
           /\ headWord[t] \in End /\ headWord[t].idx \in Idx /\ headWord[t].version \in Nat
           /\ tailWord[t] \in End /\ tailWord[t].idx \in Idx /\ tailWord[t].version \in Nat
           /\ nextWord[t] \in Next_ /\ nextWord[t].idx \in Idx /\ nextWord[t].version \in Nat
           /\ nextWord[t].last \in BOOLEAN
           /\ held[t] \subseteq Record
           /\ pc[t] \in PcLabels
  <1>1. /\ array[t] \in made /\ made \subseteq Array
        /\ localNum[t] \in 1 .. arrayNum /\ arrayNum \in 1 .. ARRAYNUM_MAX
        /\ 0 .. arrayNum - 1 \subseteq made
        /\ tried[t] \in Array /\ recordTake \in 0 .. TAKES - 1
        /\ headWord[t] \in End /\ tailWord[t] \in End /\ nextWord[t] \in Next_
        /\ held[t] \subseteq Record /\ pc[t] \in PcLabels
    BY DEF TypeOK
  <1>2. ARRAYNUM_MAX \in Nat /\ TAKES \in Nat
    BY RecordAssumption
  <1>3. /\ localNum[t] \in Nat \ {0} /\ localNum[t] <= ARRAYNUM_MAX
        /\ \A i \in 0 .. localNum[t] - 1 : i \in made
    BY <1>1, <1>2
  <1>4. array[t] \in Array /\ tried[t] \in Nat /\ recordTake \in Nat
    <2>1. array[t] \in Array
      BY <1>1
    <2>2. \A i \in Array : i \in Nat
      BY <1>2 DEF Array
    <2>3. recordTake \in Nat
      BY <1>1, <1>2
    <2>4. QED
      BY <1>1, <2>1, <2>2, <2>3
  <1>5. /\ headWord[t].idx \in Idx /\ headWord[t].version \in Nat
        /\ tailWord[t].idx \in Idx /\ tailWord[t].version \in Nat
    BY <1>1 DEF End
  <1>6. nextWord[t].idx \in Idx /\ nextWord[t].version \in Nat /\ nextWord[t].last \in BOOLEAN
    BY <1>1 DEF Next_
  <1>7. QED
    BY <1>1, <1>3, <1>4, <1>5, <1>6

LEMMA SharedTypes ==
    ASSUME TypeOK, NEW a \in Array
    PROVE  /\ head[a] \in End /\ head[a].idx \in Idx /\ head[a].version \in Nat
           /\ tail[a] \in End /\ tail[a].idx \in Idx /\ tail[a].version \in Nat
           /\ \A i \in Idx : /\ <<a, i>> \in Record
                             /\ next[<<a, i>>] \in Next_ /\ next[<<a, i>>].idx \in Idx
                             /\ next[<<a, i>>].version \in Nat /\ next[<<a, i>>].last \in BOOLEAN
  <1>1. \A i \in Idx : <<a, i>> \in Record
    BY DEF Record
  <1>2. head[a] \in End /\ tail[a] \in End /\ \A i \in Idx : next[<<a, i>>] \in Next_
    BY <1>1 DEF TypeOK
  <1>3. QED
    BY <1>1, <1>2 DEF End, Next_

LEMMA TypeInit == Init => TypeInv
  <1> SUFFICES ASSUME Init PROVE TypeInv
    OBVIOUS
  <1>1. /\ arrayNum \in 1 .. ARRAYNUM_MAX /\ made = 0 .. arrayNum - 1 /\ made \subseteq Array
        /\ 0 \in made /\ 0 \in Array /\ 0 \in 0 .. MaxGets /\ 0 \in 0 .. TAKES - 1
    BY RecordAssumption DEF Init, Array
  <1>2. 0 \in Idx /\ IDXNUM - 1 \in Idx
    BY RecordAssumption DEF Idx
  <1>3. Zero \in End /\ [version |-> 0, idx |-> IDXNUM - 1] \in End
    BY <1>2, WordTypes, RecordAssumption DEF End
  <1>4. head \in [Array -> End] /\ tail \in [Array -> End]
    BY <1>3 DEF Init
  <1>5. next \in [Record -> Next_]
    BY WordTypes DEF Init, Record
  <1>6. headWord \in [Thread -> End] /\ tailWord \in [Thread -> End] /\ nextWord \in [Thread -> Next_]
    BY <1>2, <1>3, WordTypes DEF Init
  <1>7. TypeOK
    BY <1>1, <1>4, <1>5, <1>6 DEF Init, TypeOK, PcLabels
  <1>8. QED
    BY <1>7 DEF Init, TypeInv, PlaceInv, Growth, Returning

\* A CAS on the tail writes a word of its type.
LEMMA CasTailType ==
    ASSUME TypeOK, NEW t \in Thread, NEW i \in Idx, CasTail(t, i)
    PROVE  tail' \in [Array -> End]
  BY ThreadTypes, WordTypes DEF TypeOK, CasTail

\* The next queue is one whose array is there.
LEMMA NextQueueType ==
    ASSUME TypeOK, NEW t \in Thread, NextQueue(t)
    PROVE  /\ array' \in [Thread -> made]
           /\ round' \in [Thread -> {"last", "take", "index"}]
           /\ tried' \in [Thread -> Array]
           /\ pc' \in [Thread -> PcLabels]
           /\ pc'[t] \in {"take", "getHead", "grow", "idle"}
           /\ pc'[t] = "grow" => grows
           /\ \A s \in Thread \ {t} : pc'[s] = pc[s]
  <1> DEFINE n == IF round[t] = "last" THEN 0 ELSE (tried[t] + 1) % localNum[t]
  <1>1. n \in made /\ n \in Array
    <2>1. 0 \in made /\ tried[t] + 1 \in Nat
      BY ThreadTypes
    <2>2. (tried[t] + 1) % localNum[t] \in made
      BY <2>1, ThreadTypes, ModRange
    <2>3. QED
      BY <2>1, <2>2, ThreadTypes
  <1>2. tried' = [tried EXCEPT ![t] = n]
    BY DEF NextQueue
  <1>3. array' = [array EXCEPT ![t] = IF round'[t] = "take" THEN @ ELSE n]
        /\ round' \in [Thread -> {"last", "take", "index"}]
    BY DEF NextQueue, TypeOK
  <1>4. \E l \in {"take", "getHead", "grow", "idle"} :
            (l = "grow" => grows) /\ pc' = [pc EXCEPT ![t] = l]
    BY DEF NextQueue, Goto
  <1>5. QED
    BY <1>1, <1>2, <1>3, <1>4 DEF TypeOK, PcLabels

LEMMA TypeInductive == TypeInv /\ [Next]_vars => TypeInv'
  <1> SUFFICES ASSUME TypeInv, [Next]_vars PROVE TypeInv'
    OBVIOUS
  <1>1. CASE UNCHANGED vars
    BY <1>1 DEF TypeInv, TypeOK, PlaceInv, vars, arrays, queues, place, words
  <1>2. SUFFICES ASSUME NEW t \in Thread, Get(t) \/ (\E r \in Record : Return(t, r)) \/ Step(t)
                 PROVE  TypeInv'
    BY <1>1 DEF Next
  <1>3. TypeOK /\ PlaceInv(t)
    BY DEF TypeInv
  <1> USE DEF Goto, arrays, queues, place, words
  <1>4. CASE Get(t)
    <2>1. gets[t] \in 0 .. MaxGets /\ gets[t] < MaxGets /\ MaxGets \in Nat /\ 0 \in Array
      BY <1>3, <1>4, RecordAssumption DEF Get, TypeOK, Array
    <2>2. gets[t] + 1 \in 0 .. MaxGets
      BY <2>1
    <2>3. TypeOK'
      BY <1>3, <1>4, <2>1, <2>2 DEF Get, TypeOK, PcLabels
    <2>4. pc' = [pc EXCEPT ![t] = IF grows THEN "size" ELSE "take"] /\ UNCHANGED <<made, held, localNum, back>>
      BY <1>4 DEF Get
    <2>5. QED
      BY <1>3, <2>3, <2>4 DEF TypeInv, PlaceInv, Growth, Returning, TypeOK
  <1>16. CASE Size(t)
    <2>1. /\ arrayNum \in 1 .. ARRAYNUM_MAX /\ 0 .. arrayNum - 1 \subseteq made /\ ARRAYNUM_MAX \in Nat
          /\ made \subseteq Array
      BY <1>3, RecordAssumption DEF TypeOK
    <2>2. arrayNum - 1 \in made /\ arrayNum \in 1 .. arrayNum
      BY <2>1
    <2>3. 0 \in Array
      BY RecordAssumption DEF Array
    <2>4. TypeOK'
      BY <1>3, <1>16, <2>2, <2>3 DEF Size, TypeOK, PcLabels
    <2>5. QED
      BY <1>3, <1>16, <2>4 DEF Size, TypeInv, PlaceInv, Growth, Returning, TypeOK
  <1>5. CASE Take(t)
    <2>1. recordTake % localNum[t] \in made
      BY <1>3, ThreadTypes, ModRange
    <2>2. (recordTake + 1) % TAKES \in 0 .. TAKES - 1
      <3>1. recordTake + 1 \in Nat
        BY <1>3, ThreadTypes
      <3>2. QED
        BY <3>1, ModRange, RecordAssumption
    <2>3. TypeOK'
      BY <1>3, <1>5, <2>1, <2>2 DEF Take, TypeOK, PcLabels
    <2>4. QED
      BY <1>3, <1>5, <2>3 DEF Take, TypeInv, PlaceInv, Growth, Returning, TypeOK
  <1>6. CASE GetHead(t) \/ GetTail(t) \/ GetNext(t)
    <2>1. /\ head[array[t]] \in End /\ tail[array[t]] \in End
          /\ next[<<array[t], headWord[t].idx>>] \in Next_
      BY <1>3, ThreadTypes, SharedTypes
    <2>2. TypeOK'
      BY <1>3, <1>6, <2>1 DEF GetHead, GetTail, GetNext, TypeOK, PcLabels
    <2>3. /\ UNCHANGED <<made, held, localNum, array, back>>
          /\ \E l \in {"getTail", "getNext", "getCheck"} : pc' = [pc EXCEPT ![t] = l]
      BY <1>6 DEF GetHead, GetTail, GetNext
    <2>4. QED
      BY <1>3, <2>2, <2>3 DEF TypeInv, PlaceInv, Growth, Returning, TypeOK
  <1>7. CASE GetCheck(t)
    <2>1. CASE NextQueue(t)
      <3>1. TypeOK'
        BY <1>3, <1>7, <2>1, NextQueueType DEF GetCheck, TypeOK
      <3>2. QED
        BY <1>3, <1>7, <2>1, <3>1, NextQueueType DEF GetCheck, TypeInv, PlaceInv, Growth, Returning
    <2>2. CASE ~NextQueue(t)
      <3>1. TypeOK'
        BY <1>3, <1>7, <2>2 DEF GetCheck, TypeOK, PcLabels
      <3>2. QED
        BY <1>3, <1>7, <2>2, <3>1 DEF GetCheck, TypeInv, PlaceInv, Growth, Returning, TypeOK
    <2>3. QED
      BY <2>1, <2>2
  <1>8. CASE GetTailCas(t) \/ RetAdvance(t) \/ RetSwing(t)
    <2>1. \E i \in Idx : CasTail(t, i)
      BY <1>3, <1>8, ThreadTypes DEF GetTailCas, RetAdvance, RetSwing, PlaceInv, Returning, Record
    <2>2. tail' \in [Array -> End]
      BY <1>3, <2>1, CasTailType
    <2>3. TypeOK'
      BY <1>3, <1>8, <2>2 DEF GetTailCas, RetAdvance, RetSwing, TypeOK, PcLabels
    <2>4. CASE GetTailCas(t)
      BY <1>3, <2>3, <2>4 DEF GetTailCas, TypeInv, PlaceInv, Growth, Returning, TypeOK
    <2>5. CASE RetAdvance(t)
      BY <1>3, <2>3, <2>5 DEF RetAdvance, TypeInv, PlaceInv, Growth, Returning, TypeOK
    <2>6. CASE RetSwing(t)
      BY <1>3, <2>3, <2>6 DEF RetSwing, TypeInv, PlaceInv, Growth, Returning, TypeOK
    <2>7. QED
      BY <1>8, <2>4, <2>5, <2>6
  <1>9. CASE GetHeadCas(t)
    <2>1. CASE NextQueue(t) /\ UNCHANGED <<head, held>>
      <3>1. TypeOK'
        BY <1>3, <1>9, <2>1, NextQueueType DEF GetHeadCas, TypeOK
      <3>2. QED
        BY <1>3, <1>9, <2>1, <3>1, NextQueueType DEF GetHeadCas, TypeInv, PlaceInv, Growth, Returning
    <2>2. CASE head[array[t]] = headWord[t]
      <3>1. /\ head' = [head EXCEPT ![array[t]] = Moved(headWord[t], nextWord[t].idx)]
            /\ held' = [held EXCEPT ![t] = @ \cup {<<array[t], headWord[t].idx>>}]
            /\ Goto(t, "idle")
            /\ UNCHANGED <<array, round, tried>>
            /\ UNCHANGED <<arrays, tail, next, recordTake, gets, localNum, back, words>>
        BY <1>9, <2>2 DEF GetHeadCas
      <3>2. Moved(headWord[t], nextWord[t].idx) \in End /\ <<array[t], headWord[t].idx>> \in Record
        BY <1>3, ThreadTypes, WordTypes DEF Record
      <3>3. held' \in [Thread -> SUBSET Record] /\ head' \in [Array -> End]
        BY <1>3, <3>1, <3>2 DEF TypeOK
      <3>4. TypeOK'
        BY <1>3, <3>1, <3>3 DEF TypeOK, PcLabels
      <3>5. <<array[t], headWord[t].idx>> \in made \X Idx
        BY <1>3, ThreadTypes
      <3>6. QED
        BY <1>3, <3>1, <3>4, <3>5 DEF TypeInv, PlaceInv, Growth, Returning, TypeOK
    <2>3. CASE UNCHANGED <<head, held, array, round, tried>> /\ Goto(t, "getHead")
      <3>1. TypeOK'
        BY <1>3, <1>9, <2>3 DEF GetHeadCas, TypeOK, PcLabels
      <3>2. QED
        BY <1>3, <1>9, <2>3, <3>1 DEF GetHeadCas, TypeInv, PlaceInv, Growth, Returning, TypeOK
    <2>4. QED
      BY <1>9, <2>1, <2>2, <2>3 DEF GetHeadCas
  <1>10. CASE Grow(t) \/ GrowRead(t) \/ GrowNum(t)
    <2>1. /\ UNCHANGED <<arrays, queues, held, gets, place, back, words>>
          /\ pc' \in [Thread -> PcLabels] /\ \A s \in Thread \ {t} : pc'[s] = pc[s]
          /\ pc'[t] \notin Returning
          /\ pc'[t] \in Growth => localNum[t] < ARRAYNUM_MAX
          /\ pc'[t] \in {"growNum", "growNumCas"} => localNum[t] \in made
      <3>1. localNum[t] <= ARRAYNUM_MAX /\ localNum[t] \in Nat /\ ARRAYNUM_MAX \in Nat
        BY <1>3, ThreadTypes, RecordAssumption
      <3>2. CASE Grow(t)
        BY <1>3, <3>1, <3>2 DEF Grow, TypeOK, PcLabels, Returning, Growth
      <3>3. CASE GrowRead(t)
        BY <1>3, <3>3 DEF GrowRead, PlaceInv, TypeOK, PcLabels, Returning, Growth
      <3>4. CASE GrowNum(t)
        BY <1>3, <3>4 DEF GrowNum, PlaceInv, TypeOK, PcLabels, Returning, Growth
      <3>5. QED
        BY <1>10, <3>2, <3>3, <3>4
    <2>2. TypeOK'
      BY <1>3, <2>1 DEF TypeOK
    <2>3. QED
      BY <1>3, <2>1, <2>2 DEF TypeInv, PlaceInv, TypeOK
  <1>11. CASE GrowCas(t)
    <2>1. localNum[t] \in Array
      BY <1>3, <1>11, ThreadTypes, RecordAssumption DEF GrowCas, PlaceInv, Growth, Array
    <2>2. next' \in [Record -> Next_]
      BY <1>3, <1>11, WordTypes DEF GrowCas, TypeOK, Record
    <2>3. made' = made \cup {localNum[t]}
      BY <1>11 DEF GrowCas
    <2>4. TypeOK'
      BY <1>3, <1>11, <2>1, <2>2, <2>3 DEF GrowCas, TypeOK, PcLabels
    <2>5. \A s \in Thread : held[s] \subseteq made \X Idx => held[s] \subseteq made' \X Idx
      BY <2>3
    <2>6. QED
      BY <1>3, <1>11, <2>3, <2>4, <2>5 DEF GrowCas, TypeInv, PlaceInv, Growth, Returning, TypeOK
  <1>12. CASE GrowNumCas(t)
    <2>1. /\ arrayNum \in 1 .. ARRAYNUM_MAX /\ localNum[t] \in 1 .. arrayNum
          /\ localNum[t] < ARRAYNUM_MAX /\ localNum[t] \in made /\ 0 .. arrayNum - 1 \subseteq made
      BY <1>3, <1>12 DEF GrowNumCas, PlaceInv, Growth, TypeOK
    <2>2. arrayNum' \in 1 .. ARRAYNUM_MAX /\ arrayNum <= arrayNum' /\ 0 .. arrayNum' - 1 \subseteq made
      BY <1>12, <2>1, RecordAssumption DEF GrowNumCas
    <2>3. localNum \in [Thread -> 1 .. arrayNum']
      BY <1>3, <2>1, <2>2, RecordAssumption DEF TypeOK
    <2>4. TypeOK'
      BY <1>3, <1>12, <2>2, <2>3 DEF GrowNumCas, TypeOK, PcLabels
    <2>5. QED
      BY <1>3, <1>12, <2>4 DEF GrowNumCas, TypeInv, PlaceInv, Growth, Returning, TypeOK
  <1>13. CASE \E r \in Record : Return(t, r)
    <2>1. PICK r \in Record : Return(t, r)
      BY <1>13
    <2>2. r[1] \in made /\ next[r] \in Next_
      BY <1>3, <2>1 DEF Return, PlaceInv, TypeOK
    <2>3. TypeOK'
      BY <1>3, <2>1, <2>2 DEF Return, TypeOK, PcLabels
    <2>4. QED
      BY <1>3, <2>1, <2>3 DEF Return, TypeInv, PlaceInv, Growth, Returning, TypeOK
  <1>14. CASE RetMark(t) \/ RetTail(t) \/ RetNext(t) \/ RetCheck(t)
    <2>1. Marked(nextWord[t]) \in Next_
      BY <1>3, ThreadTypes, WordTypes
    <2>2. tail[array[t]] \in End /\ next[<<array[t], tailWord[t].idx>>] \in Next_
      BY <1>3, ThreadTypes, SharedTypes
    <2>3. TypeOK'
      BY <1>3, <1>14, <2>1, <2>2 DEF RetMark, RetTail, RetNext, RetCheck, TypeOK, PcLabels
    <2>4. /\ UNCHANGED <<made, held, localNum, array, back>>
          /\ \E l \in Returning : pc' = [pc EXCEPT ![t] = l]
          /\ pc[t] \in Returning
      BY <1>14 DEF RetMark, RetTail, RetNext, RetCheck, Returning
    <2>5. QED
      BY <1>3, <2>3, <2>4 DEF TypeInv, PlaceInv, Growth, Returning, TypeOK
  <1>15. CASE RetCas(t)
    <2>1. Linked(nextWord[t], back[t][2]) \in Next_
      BY <1>3, <1>15, ThreadTypes, WordTypes DEF RetCas, PlaceInv, Returning, Record
    <2>2. TypeOK'
      BY <1>3, <1>15, <2>1 DEF RetCas, TypeOK, PcLabels
    <2>3. QED
      BY <1>3, <1>15, <2>2 DEF RetCas, TypeInv, PlaceInv, Growth, Returning, TypeOK
  <1>17. QED
    BY <1>2, <1>4, <1>5, <1>6, <1>7, <1>8, <1>9, <1>10, <1>11, <1>12, <1>13, <1>14, <1>15, <1>16
       DEF Step

\* Every field has its type: an index that a word names is one of its queue, and
\* a thread reads only queues whose array has been made, although arrays are
\* added while it runs.
THEOREM TypeCorrect == Spec => []TypeOK
  <1>1. TypeInv => TypeOK
    BY DEF TypeInv
  <1>2. QED
    BY <1>1, TypeInit, TypeInductive, PTL DEF Spec

-----------------------------------------------------------------------------
(* Places.                                                                 *)

\* The places of a queue are as many as its Records at most: the version of the
\* head bounds all others.
LEMMA FewPlaces ==
    ASSUME TypeOK, NEW a \in Array, NEW p \in [Idx -> Nat], NEW e \in Nat, Placed(a, p, e)
    PROVE  /\ head[a].version <= e /\ e - head[a].version <= IDXNUM - 1
           /\ tail[a].version <= head[a].version
           /\ \A i \in Idx : next[<<a, i>>].version <= head[a].version
  <1>1. head[a].version \in Nat /\ tail[a].version \in Nat /\ IDXNUM \in Nat \ {0}
        /\ \A i \in Idx : next[<<a, i>>].version \in Nat
    BY SharedTypes, RecordAssumption
  <1>2. /\ head[a].version <= e
        /\ tail[a].version + IDXNUM - 1 <= e
        /\ \A i \in Idx : next[<<a, i>>].version + IDXNUM - 1 <= e
    <2>1. /\ head[a].idx \in Free(a) /\ p[head[a].idx] = head[a].version
          /\ tail[a].idx \in Free(a) /\ p[tail[a].idx] = tail[a].version + IDXNUM - 1
          /\ \A i \in Free(a) : p[i] <= e
          /\ \A i \in Idx : next[<<a, i>>].version + IDXNUM - 1 <= e
      BY DEF Placed
    <2>2. QED
      BY ONLY <2>1
  <1>3. e - head[a].version <= IDXNUM - 1
    <2> DEFINE S == head[a].version .. e
               f == [k \in S |-> CHOOSE i \in Free(a) : p[i] = k]
    <2>1. \A k \in S : f[k] \in Free(a) /\ p[f[k]] = k
      BY DEF Placed
    <2>2. IsFiniteSet(S) /\ Cardinality(S) = e - head[a].version + 1
      <3>1. head[a].version \in Int /\ e \in Int /\ ~(head[a].version > e)
        BY <1>1, <1>2
      <3>2. QED
        BY <3>1, FS_Interval
    <2>3. IsFiniteSet(Idx) /\ Cardinality(Idx) = IDXNUM
      BY <1>1, FS_Interval DEF Idx
    <2>4. f \in [S -> Idx]
      BY <2>1 DEF Free
    <2>5. \A j, k \in S : j # k => f[j] # f[k]
      BY <2>1
    <2> HIDE DEF S, f
    <2>6. ~(Cardinality(Idx) < Cardinality(S))
      BY <2>2, <2>3, <2>4, <2>5, FS_PigeonHole
    <2>7. QED
      BY <1>1, <2>2, <2>3, <2>6
  <1>4. QED
    BY <1>1, <1>2, <1>3

\* Where the head and the tail are.
LEMMA Ends ==
    ASSUME TypeOK, Placement, NEW a \in Array
    PROVE  /\ head[a].idx \in Free(a) /\ tail[a].idx \in Free(a)
           /\ tail[a].idx # head[a].idx => ~next[<<a, head[a].idx>>].last
  <1>1. PICK p \in [Idx -> Nat], e \in Nat : Placed(a, p, e)
    BY DEF Placement
  <1>2. head[a].idx \in Free(a) /\ tail[a].idx \in Free(a) /\ Free(a) \subseteq Idx
    BY <1>1 DEF Placed, Free
  <1>3. ASSUME tail[a].idx # head[a].idx PROVE p[head[a].idx] # e
    <2>1. p[head[a].idx] \in Nat /\ p[tail[a].idx] \in Nat
      BY <1>2
    <2>2. p[tail[a].idx] # p[head[a].idx]
      BY <1>1, <1>2, <1>3 DEF Placed
    <2>3. p[head[a].idx] = head[a].version /\ head[a].version <= p[tail[a].idx] /\ p[tail[a].idx] <= e
      BY <1>1, <1>2 DEF Placed
    <2>4. QED
      BY <2>1, <2>2, <2>3
  <1>4. QED
    BY <1>1, <1>2, <1>3 DEF Placed

\* Nothing that Placed speaks of changes.
LEMMA SamePlaced ==
    ASSUME NEW a \in Array, head'[a] = head[a], tail'[a] = tail[a], Free(a)' = Free(a),
           \A i \in Idx : next'[<<a, i>>] = next[<<a, i>>],
           NEW p, NEW e, Placed(a, p, e)
    PROVE  Placed(a, p, e)'
  <1>1. Free(a) \subseteq Idx
    BY DEF Free
  <1>2. QED
    BY <1>1 DEF Placed

-----------------------------------------------------------------------------
(* How the queues may change under a thread that reads them.               *)

\* The word of Record i of queue a is only replaced by one with a higher version
\* while the Record is free, and the last Record stays free.
WordEvolves(a, i) ==
    /\ next[<<a, i>>].version <= next'[<<a, i>>].version
    /\ i \in Free(a) => \/ next'[<<a, i>>] = next[<<a, i>>]
                        \/ /\ next[<<a, i>>].last
                           /\ next[<<a, i>>].version < next'[<<a, i>>].version
    /\ i \in Free(a) /\ next[<<a, i>>].last => i \in Free(a)'

Evolves(a) ==
    /\ head'[a] = head[a] \/ head[a].version < head'[a].version
    /\ tail'[a] = tail[a] \/ tail[a].version < tail'[a].version
    /\ head'[a] = head[a] /\ tail[a].idx # head[a].idx => tail'[a].idx # head[a].idx
    /\ \A i \in Idx : WordEvolves(a, i)

\* Thread s and the Records it holds are left alone.
Keeps(s) ==
    /\ pc'[s] = pc[s] /\ array'[s] = array[s] /\ back'[s] = back[s]
    /\ headWord'[s] = headWord[s] /\ tailWord'[s] = tailWord[s] /\ nextWord'[s] = nextWord[s]
    /\ held'[s] = held[s]
    /\ \A r \in held[s] : next'[r] = next[r]

\* A word read before still is there only if nothing came between.
LEMMA Aged ==
    ASSUME NEW old, NEW now, NEW new, Since(old, now), new = now \/ now.version < new.version,
           old.version \in Nat, now.version \in Nat, new.version \in Nat
    PROVE  Since(old, new) /\ (new = old => now = old)
  BY DEF Since

\* What a thread knows of its reads survives the steps of the others.
LEMMA OtherStep ==
    ASSUME IInv, TypeOK', NEW s \in Thread, Keeps(s), Evolves(array[s])
    PROVE  GetInv(s)' /\ RetInv(s)'
  <1> DEFINE a == array[s]
             h == <<a, headWord[s].idx>>
             l == <<a, tailWord[s].idx>>
  <1>1. /\ IInv /\ TypeOK /\ a \in Array /\ GetInv(s) /\ RetInv(s) /\ Placement
        /\ headWord[s].idx \in Idx /\ tailWord[s].idx \in Idx
        /\ headWord[s].version \in Nat /\ tailWord[s].version \in Nat /\ nextWord[s].version \in Nat
    BY ThreadTypes DEF IInv, TypeInv
  <1>2. /\ head[a].version \in Nat /\ tail[a].version \in Nat
        /\ head'[a].version \in Nat /\ tail'[a].version \in Nat
        /\ \A i \in Idx : next[<<a, i>>].version \in Nat /\ next'[<<a, i>>].version \in Nat
    BY <1>1, SharedTypes DEF TypeOK, End, Next_, Record
  <1>3. /\ head[a].idx \in Free(a) /\ tail[a].idx \in Free(a)
    BY <1>1, Ends
  <1>4. pc[s] \in HeadRead => Since(headWord[s], head'[a]) /\ (head'[a] = headWord[s] => head[a] = headWord[s])
    BY <1>1, <1>2, Aged DEF GetInv, Evolves
  <1>5. pc[s] \in TailRead => Since(tailWord[s], tail'[a]) /\ (tail'[a] = tailWord[s] => tail[a] = tailWord[s])
    BY <1>1, <1>2, Aged DEF GetInv, Evolves
  <1>6. WordEvolves(a, headWord[s].idx) /\ WordEvolves(a, tailWord[s].idx)
    BY <1>1 DEF Evolves
  <1>7. GetInv(s)'
    <2>1. pc[s] \in BothRead /\ head'[a] = headWord[s] /\ headWord[s].idx # tailWord[s].idx =>
            tail'[a].idx # head'[a].idx
      BY <1>1, <1>4 DEF GetInv, Evolves, BothRead, HeadRead
    <2>2. pc[s] \in {"getCheck", "getHeadCas"} /\ head'[a] = headWord[s]
            /\ (headWord[s].idx # tailWord[s].idx \/ ~nextWord[s].last) =>
            next'[h] = nextWord[s] /\ ~nextWord[s].last
      <3>1. SUFFICES ASSUME pc[s] \in {"getCheck", "getHeadCas"}, head'[a] = headWord[s],
                            headWord[s].idx # tailWord[s].idx \/ ~nextWord[s].last
                     PROVE  next'[h] = nextWord[s] /\ ~nextWord[s].last
        OBVIOUS
      <3>2. head[a] = headWord[s]
        BY <1>4, <3>1 DEF HeadRead
      <3>3. next[h] = nextWord[s] /\ ~nextWord[s].last
        BY <1>1, <3>1, <3>2 DEF GetInv
      <3>4. headWord[s].idx \in Free(a)
        BY <1>3, <3>2
      <3>5. QED
        BY <1>6, <3>3, <3>4 DEF WordEvolves
    <2>3. pc[s] = "getHeadCas" => headWord[s].idx # tailWord[s].idx
      BY <1>1 DEF GetInv
    <2>4. QED
      BY <1>4, <1>5, <2>1, <2>2, <2>3 DEF GetInv, Keeps
  <1>8. RetInv(s)'
    <2>1. pc[s] \in Returning \ {"retSwing"} => next'[back[s]] = next[back[s]]
      BY <1>1 DEF RetInv, Keeps
    <2>2. pc[s] \in {"retCheck", "retCas"} => nextWord[s].version <= next'[l].version
      BY <1>1, <1>2, <1>6 DEF RetInv, WordEvolves
    <2>3. pc[s] = "retCheck" /\ tail'[a] = tailWord[s] =>
            \/ next'[l] = nextWord[s]
            \/ nextWord[s].last /\ nextWord[s].version < next'[l].version
      <3>1. SUFFICES ASSUME pc[s] = "retCheck", tail'[a] = tailWord[s]
                     PROVE  \/ next'[l] = nextWord[s]
                            \/ nextWord[s].last /\ nextWord[s].version < next'[l].version
        OBVIOUS
      <3>2. tail[a] = tailWord[s] /\ tailWord[s].idx \in Free(a)
        BY <1>3, <1>5, <3>1 DEF TailRead, BothRead, HeadRead, Returning
      <3>3. \/ next[l] = nextWord[s]
            \/ nextWord[s].last /\ nextWord[s].version < next[l].version
        BY <1>1, <3>1, <3>2 DEF RetInv
      <3>4. QED
        BY <1>1, <1>2, <1>6, <3>2, <3>3 DEF WordEvolves
    <2>4. pc[s] = "retCas" =>
            /\ nextWord[s].last
            /\ next'[l].version = nextWord[s].version =>
                 tailWord[s].idx \in Free(a)' /\ next'[l] = nextWord[s]
      <3>1. SUFFICES ASSUME pc[s] = "retCas"
                     PROVE  /\ nextWord[s].last
                            /\ next'[l].version = nextWord[s].version =>
                                 tailWord[s].idx \in Free(a)' /\ next'[l] = nextWord[s]
        OBVIOUS
      <3>2. /\ nextWord[s].last /\ nextWord[s].version <= next[l].version
            /\ next[l].version = nextWord[s].version =>
                 tailWord[s].idx \in Free(a) /\ next[l] = nextWord[s]
        BY <1>1, <3>1 DEF RetInv
      <3>3. QED
        BY <1>1, <1>2, <1>6, <3>2 DEF WordEvolves
    <2>5. tail'[a] = tailWord[s] =>
            /\ pc[s] \in {"getTailCas", "retAdvance"} => next'[l] = nextWord[s] /\ ~nextWord[s].last
            /\ pc[s] = "retSwing" => ~next'[l].last /\ next'[l].idx = back[s][2]
      <3>1. SUFFICES ASSUME tail'[a] = tailWord[s], pc[s] \in {"getTailCas", "retAdvance", "retSwing"}
                     PROVE  next'[l] = next[l] /\ tail[a] = tailWord[s]
        BY <1>1 DEF RetInv
      <3>2. tail[a] = tailWord[s] /\ tailWord[s].idx \in Free(a)
        BY <1>3, <1>5, <3>1 DEF TailRead, BothRead, HeadRead, Returning
      <3>3. ~next[l].last
        BY <1>1, <3>1, <3>2 DEF RetInv
      <3>4. QED
        BY <1>6, <3>2, <3>3 DEF WordEvolves
    <2>6. /\ pc[s] \in Returning => back[s][1] = a
          /\ pc[s] \in Returning \ {"retSwing"} => back[s] \in held[s]
          /\ pc[s] = "retMark" => nextWord[s] = next[back[s]]
          /\ pc[s] \in Returning \ {"retMark", "retSwing"} => next[back[s]].last
      BY <1>1 DEF RetInv
    <2>7. "retMark" \in Returning \ {"retSwing"}
      BY DEF Returning
    <2>8. QED
      BY <2>1, <2>2, <2>3, <2>4, <2>5, <2>6, <2>7 DEF RetInv, Keeps
  <1>9. QED
    BY <1>7, <1>8

-----------------------------------------------------------------------------
(* The changes of the queues.                                              *)

\* Nothing of a queue changes.
LEMMA SameQueue ==
    ASSUME TypeOK, NEW a \in Array, head'[a] = head[a], tail'[a] = tail[a], Free(a)' = Free(a),
           \A i \in Idx : next'[<<a, i>>] = next[<<a, i>>]
    PROVE  /\ Evolves(a)
           /\ \A p, e : Placed(a, p, e) => Placed(a, p, e)'
  <1>1. \A i \in Idx : next[<<a, i>>].version \in Nat
    BY SharedTypes
  <1>2. Evolves(a)
    BY <1>1 DEF Evolves, WordEvolves
  <1>3. QED
    BY <1>2, SamePlaced

\* What a step must do to the queues and to what is held.
Carried ==
    /\ Placement'
    /\ Disjoint'
    /\ \A a \in Array : Evolves(a)

LEMMA QueuesUnchanged ==
    ASSUME IInv, UNCHANGED <<head, tail, next, held>>
    PROVE  Carried
  <1>1. TypeOK /\ Placement /\ Disjoint
    BY DEF IInv, TypeInv
  <1>2. \A a \in Array : Free(a)' = Free(a)
    BY DEF Free
  <1>3. ASSUME NEW a \in Array
        PROVE  Evolves(a) /\ \A p, e : Placed(a, p, e) => Placed(a, p, e)'
    BY <1>1, <1>2, SameQueue
  <1>4. Placement'
    BY <1>1, <1>3 DEF Placement
  <1>5. QED
    BY <1>1, <1>3, <1>4 DEF Carried, Disjoint

\* get_Record takes the Record at the head, not the one at the tail.
LEMMA HeadMoves ==
    ASSUME IInv, Unwrapped, NEW t \in Thread, NEW a \in Array, tail[a].idx # head[a].idx,
           head' = [head EXCEPT ![a] = Moved(head[a], next[<<a, head[a].idx>>].idx)],
           held' = [held EXCEPT ![t] = @ \cup {<<a, head[a].idx>>}],
           UNCHANGED <<tail, next>>
    PROVE  Carried
  <1> DEFINE h == head[a].idx
             n == next[<<a, h>>].idx
             v == head[a].version
  <1>1. TypeOK /\ Placement /\ Disjoint /\ h \in Free(a) /\ tail[a].idx \in Free(a)
        /\ ~next[<<a, h>>].last
    BY Ends DEF IInv, TypeInv
  <1>2. head \in [Array -> End] /\ held \in [Thread -> SUBSET Record]
    BY <1>1 DEF TypeOK
  <1>3. /\ h \in Idx /\ n \in Idx /\ v \in Nat /\ tail[a].version \in Nat
        /\ \A i \in Idx : next[<<a, i>>].version \in Nat
    BY <1>1, SharedTypes
  <1>4. /\ head'[a] = Moved(head[a], n) /\ head'[a].idx = n /\ head'[a].version = v + 1
        /\ \A c \in Array \ {a} : head'[c] = head[c]
    <2>1. head[a] \in End /\ v + 1 < VERSIONS
      BY <1>1, SharedTypes DEF Unwrapped
    <2>2. Moved(head[a], n).idx = n /\ Moved(head[a], n).version = v + 1
      BY <1>3, <2>1, WordTypes, Raised
    <2>3. QED
      BY <1>2, <2>2
  <1>5. Free(a)' = Free(a) \ {h}
    BY <1>2, <1>3 DEF Free
  <1>6. \A c \in Array \ {a} : Free(c)' = Free(c)
    BY <1>2 DEF Free
  <1>7. Disjoint'
    <2>1. \A s \in Thread : <<a, h>> \notin held[s]
      BY <1>1 DEF Free
    <2>2. QED
      BY <1>1, <1>2, <2>1 DEF Disjoint
  <1>8. \A c \in Array \ {a} : Evolves(c) /\ \A p, e : Placed(c, p, e) => Placed(c, p, e)'
    BY <1>1, <1>4, <1>6, SameQueue
  <1>9. Evolves(a)
    BY <1>1, <1>3, <1>4, <1>5 DEF Evolves, WordEvolves
  <1>10. ASSUME NEW p \in [Idx -> Nat], NEW e \in Nat, Placed(a, p, e)
         PROVE  Placed(a, p, e)'
    <2>1. p[h] = v /\ n \in Free(a) /\ p[n] = v + 1 /\ n # h
      BY <1>1, <1>3, <1>10 DEF Placed
    <2>2. \A i \in Free(a) : p[i] \in Nat /\ v <= p[i] /\ (i # h => p[i] # v)
      <3>1. SUFFICES ASSUME NEW i \in Free(a)
                     PROVE  p[i] \in Nat /\ v <= p[i] /\ (i # h => p[i] # v)
        OBVIOUS
      <3>2. i \in Idx
        BY DEF Free
      <3>3. v <= p[i] /\ (p[i] = p[h] => i = h)
        BY <1>1, <1>10, <3>1 DEF Placed
      <3>4. QED
        BY <2>1, <3>2, <3>3
    <2>3. \A i \in Free(a) \ {h} : v + 1 <= p[i]
      BY <1>3, <2>2
    <2>4. \A i \in Free(a) \ {h} : ~next[<<a, i>>].last =>
            next[<<a, i>>].idx \in Free(a) \ {h} /\ p[next[<<a, i>>].idx] = p[i] + 1
      <3>1. SUFFICES ASSUME NEW i \in Free(a) \ {h}, ~next[<<a, i>>].last
                     PROVE  next[<<a, i>>].idx # h
        BY <1>10 DEF Placed
      <3>2. p[next[<<a, i>>].idx] = p[i] + 1
        BY <1>10, <3>1 DEF Placed
      <3>3. QED
        BY <1>3, <2>1, <2>2, <3>2
    <2>5. \A k \in v + 1 .. e : \E i \in Free(a) \ {h} : p[i] = k
      <3>1. SUFFICES ASSUME NEW k \in v + 1 .. e PROVE \E i \in Free(a) \ {h} : p[i] = k
        OBVIOUS
      <3>2. k \in v .. e /\ k # v
        BY <1>3
      <3>3. PICK i \in Free(a) : p[i] = k
        BY <1>10, <3>2 DEF Placed
      <3>4. QED
        BY <2>1, <3>2, <3>3
    <2>6. head'[a].idx \in Free(a)' /\ p[head'[a].idx] = head'[a].version
      BY <1>4, <1>5, <2>1
    <2>7. tail'[a].idx \in Free(a)' /\ p[tail'[a].idx] = tail'[a].version + IDXNUM - 1
      BY <1>1, <1>5, <1>10 DEF Placed
    <2>8. \A i \in Free(a)' :
             /\ head'[a].version <= p[i] /\ p[i] <= e
             /\ next'[<<a, i>>].last <=> p[i] = e
             /\ ~next'[<<a, i>>].last =>
                  next'[<<a, i>>].idx \in Free(a)' /\ p[next'[<<a, i>>].idx] = p[i] + 1
      BY <1>4, <1>5, <1>10, <2>3, <2>4 DEF Placed
    <2>9. /\ \A i, j \in Free(a)' : p[i] = p[j] => i = j
          /\ \A k \in head'[a].version .. e : \E i \in Free(a)' : p[i] = k
          /\ \A i \in Idx : next'[<<a, i>>].version + IDXNUM - 1 <= e
      BY <1>4, <1>5, <1>10, <2>5 DEF Placed
    <2>10. QED
      BY <2>6, <2>7, <2>8, <2>9 DEF Placed
  <1>11. Placement'
    BY <1>1, <1>8, <1>10 DEF Placement
  <1>12. QED
    BY <1>7, <1>8, <1>9, <1>11 DEF Carried

\* A thread moves the tail on to the Record behind it.
LEMMA TailMoves ==
    ASSUME IInv, Unwrapped, NEW a \in Array, ~next[<<a, tail[a].idx>>].last,
           tail' = [tail EXCEPT ![a] = Moved(tail[a], next[<<a, tail[a].idx>>].idx)],
           UNCHANGED <<head, next, held>>
    PROVE  Carried
  <1> DEFINE l == tail[a].idx
             n == next[<<a, l>>].idx
             v == tail[a].version
  <1>1. TypeOK /\ Placement /\ Disjoint /\ l \in Free(a) /\ head[a].idx \in Free(a)
    BY Ends DEF IInv, TypeInv
  <1>2. tail \in [Array -> End]
    BY <1>1 DEF TypeOK
  <1>3. /\ l \in Idx /\ n \in Idx /\ v \in Nat /\ head[a].version \in Nat
        /\ \A i \in Idx : next[<<a, i>>].version \in Nat
        /\ IDXNUM \in Nat
    BY <1>1, SharedTypes, RecordAssumption
  <1>4. PICK p \in [Idx -> Nat], e \in Nat : Placed(a, p, e)
    BY <1>1 DEF Placement
  <1>5. v <= head[a].version
    BY <1>1, <1>4, FewPlaces
  <1>6. /\ tail'[a] = Moved(tail[a], n) /\ tail'[a].idx = n /\ tail'[a].version = v + 1
        /\ \A c \in Array \ {a} : tail'[c] = tail[c]
    <2>1. v + 1 < VERSIONS
      BY <1>3, <1>5, RecordAssumption DEF Unwrapped
    <2>2. tail[a] \in End
      BY <1>1, SharedTypes
    <2>3. Moved(tail[a], n).idx = n /\ Moved(tail[a], n).version = v + 1
      BY <1>3, <2>1, <2>2, WordTypes, Raised
    <2>4. QED
      BY <1>2, <2>3
  <1>7. \A c \in Array : Free(c)' = Free(c)
    BY DEF Free
  <1>8. Disjoint'
    BY <1>1 DEF Disjoint
  <1>9. \A c \in Array \ {a} : Evolves(c) /\ \A q, f : Placed(c, q, f) => Placed(c, q, f)'
    BY <1>1, <1>6, <1>7, SameQueue
  <1>10. /\ p[l] = v + IDXNUM - 1 /\ n \in Free(a) /\ p[n] = p[l] + 1
         /\ p[head[a].idx] = head[a].version /\ head[a].version <= p[l]
    BY <1>1, <1>4 DEF Placed
  <1>11. Evolves(a)
    <2>1. n # head[a].idx
      BY <1>3, <1>10
    <2>2. QED
      BY <1>3, <1>6, <1>7, <2>1 DEF Evolves, WordEvolves
  <1>12. Placed(a, p, e)'
    <2>1. p[n] = (v + 1) + IDXNUM - 1
      BY <1>3, <1>10
    <2>2. QED
      BY <1>4, <1>6, <1>7, <1>10, <2>1 DEF Placed
  <1>13. Placement'
    BY <1>1, <1>4, <1>9, <1>12 DEF Placement
  <1>14. QED
    BY <1>8, <1>9, <1>11, <1>13 DEF Carried

\* The owner of a Record marks it as the last one before it gives it back.
LEMMA RecordMarked ==
    ASSUME IInv, NEW t \in Thread, NEW r \in held[t],
           next' = [next EXCEPT ![r] = Marked(next[r])], UNCHANGED <<head, tail, held>>
    PROVE  Carried
  <1>1. TypeOK /\ Placement /\ Disjoint /\ r \in Record
    BY ThreadTypes DEF IInv, TypeInv
  <1>2. /\ next \in [Record -> Next_]
        /\ Marked(next[r]).version = next[r].version /\ next[r].version \in Nat
    BY <1>1, WordTypes DEF TypeOK, Next_
  <1>3. ASSUME NEW a \in Array
        PROVE  Evolves(a) /\ \A p, e : Placed(a, p, e) => Placed(a, p, e)'
    <2>1. Free(a)' = Free(a)
      BY DEF Free
    <2>2. \A i \in Free(a) : next'[<<a, i>>] = next[<<a, i>>]
      BY <1>1, <1>2 DEF Free, Record
    <2>3. \A i \in Idx : next[<<a, i>>].version \in Nat /\ next'[<<a, i>>].version = next[<<a, i>>].version
      BY <1>1, <1>2, SharedTypes DEF Record
    <2>4. Evolves(a)
      BY <2>1, <2>2, <2>3 DEF Evolves, WordEvolves
    <2>5. ASSUME NEW p, NEW e, Placed(a, p, e) PROVE Placed(a, p, e)'
      BY <2>1, <2>2, <2>3, <2>5 DEF Placed
    <2>6. QED
      BY <2>4, <2>5
  <1>4. Placement'
    BY <1>1, <1>3 DEF Placement
  <1>5. QED
    BY <1>1, <1>3, <1>4 DEF Carried, Disjoint

\* return_Record links its Record k behind the last one, j.
LEMMA RecordLinked ==
    ASSUME IInv, Unwrapped, NEW t \in Thread, NEW a \in Array, NEW j \in Free(a), NEW k \in Idx,
           next[<<a, j>>].last, <<a, k>> \in held[t], next[<<a, k>>].last,
           next' = [next EXCEPT ![<<a, j>>] = Linked(next[<<a, j>>], k)],
           held' = [held EXCEPT ![t] = @ \ {<<a, k>>}],
           UNCHANGED <<head, tail>>
    PROVE  Carried
  <1> DEFINE l == <<a, j>>
             v == next[<<a, j>>].version
  <1>1. TypeOK /\ Placement /\ Disjoint /\ j \in Idx /\ l \in Record
        /\ head[a].idx \in Free(a) /\ tail[a].idx \in Free(a)
    BY Ends DEF IInv, TypeInv, Free, Record
  <1>2. next \in [Record -> Next_] /\ held \in [Thread -> SUBSET Record]
    BY <1>1 DEF TypeOK
  <1>3. /\ v \in Nat /\ head[a].version \in Nat /\ tail[a].version \in Nat
        /\ \A i \in Idx : next[<<a, i>>].version \in Nat
        /\ IDXNUM \in Nat \ {0}
    BY <1>1, SharedTypes, RecordAssumption
  <1>4. PICK p \in [Idx -> Nat], e \in Nat : Placed(a, p, e)
    BY <1>1 DEF Placement
  <1>5. v <= head[a].version
    BY <1>1, <1>4, FewPlaces
  <1>6. /\ next'[l].version = v + 1 /\ next'[l].idx = k /\ ~next'[l].last
        /\ \A r \in Record : r # l => next'[r] = next[r]
    <2>1. v + 1 < NEXTVERSIONS
      BY <1>3, <1>5, RecordAssumption DEF Unwrapped
    <2>2. next[l] \in Next_
      BY <1>1, <1>2
    <2>3. Linked(next[l], k).version = v + 1 /\ Linked(next[l], k).idx = k /\ ~Linked(next[l], k).last
      BY <2>1, <2>2, WordTypes, Raised
    <2>4. QED
      BY <1>1, <1>2, <2>3
  <1>7. k \notin Free(a) /\ k # j /\ Free(a) \subseteq Idx
    BY DEF Free
  <1>8. Free(a)' = Free(a) \cup {k}
    BY <1>1, <1>2 DEF Free, Disjoint
  <1>9. \A c \in Array \ {a} : Free(c)' = Free(c) /\ \A i \in Idx : next'[<<c, i>>] = next[<<c, i>>]
    BY <1>2, <1>6 DEF Free, Record
  <1>10. \A i \in Idx : i # j => next'[<<a, i>>] = next[<<a, i>>]
    BY <1>6 DEF Record
  <1>11. Disjoint'
    BY <1>1, <1>2 DEF Disjoint
  <1>12. \A c \in Array \ {a} : Evolves(c) /\ \A q, f : Placed(c, q, f) => Placed(c, q, f)'
    BY <1>1, <1>9, SameQueue
  <1>13. Evolves(a)
    <2>1. ASSUME NEW i \in Idx PROVE WordEvolves(a, i)
      BY <1>3, <1>6, <1>8, <1>10 DEF WordEvolves
    <2>2. QED
      BY <2>1 DEF Evolves
  <1> DEFINE q == [p EXCEPT ![k] = e + 1]
  <1>14. Placed(a, q, e + 1)'
    <2>1. /\ q \in [Idx -> Nat] /\ q[k] = e + 1 /\ \A i \in Free(a) : q[i] = p[i] /\ p[i] \in Nat
      BY <1>7
    <2>2. p[j] = e /\ \A i \in Free(a) : (next[<<a, i>>].last <=> p[i] = e) /\ p[i] <= e /\ head[a].version <= p[i]
      BY <1>4 DEF Placed
    <2>3. /\ q[head[a].idx] = head[a].version /\ q[tail[a].idx] = tail[a].version + IDXNUM - 1
      BY <1>1, <1>4, <2>1 DEF Placed
    <2>4. head[a].version <= e
      BY <1>3, <2>1, <2>2
    <2>5. ASSUME NEW i \in Free(a)'
          PROVE  /\ head[a].version <= q[i] /\ q[i] <= e + 1
                 /\ next'[<<a, i>>].last <=> q[i] = e + 1
                 /\ ~next'[<<a, i>>].last =>
                      next'[<<a, i>>].idx \in Free(a)' /\ q[next'[<<a, i>>].idx] = q[i] + 1
      <3>1. CASE i = k
        BY <1>3, <1>7, <1>10, <2>1, <2>4, <3>1
      <3>2. CASE i = j
        BY <1>3, <1>6, <1>8, <2>1, <2>2, <3>2
      <3>3. CASE i \in Free(a) /\ i # j
        <4>1. next'[<<a, i>>] = next[<<a, i>>] /\ q[i] = p[i] /\ p[i] \in Nat
          BY <1>7, <1>10, <2>1, <3>3
        <4>2. p[i] # e
          BY <1>4, <2>2, <3>3 DEF Placed
        <4>3. ~next[<<a, i>>].last
          BY <2>2, <3>3, <4>2
        <4>4. next[<<a, i>>].idx \in Free(a) /\ p[next[<<a, i>>].idx] = p[i] + 1
          BY <1>4, <3>3, <4>3 DEF Placed
        <4>5. head[a].version <= p[i] /\ p[i] <= e
          BY <2>2, <3>3
        <4>6. QED
          BY <1>3, <1>8, <2>1, <4>1, <4>2, <4>3, <4>4, <4>5
      <3>4. QED
        BY <1>8, <3>1, <3>2, <3>3
    <2>6. \A i, m \in Free(a)' : q[i] = q[m] => i = m
      <3>1. \A i \in Free(a) : q[i] # e + 1
        <4>1. ASSUME NEW i \in Free(a) PROVE q[i] # e + 1
          <5>1. q[i] = p[i] /\ p[i] \in Nat /\ p[i] <= e
            BY <2>1, <2>2
          <5>2. QED
            BY <5>1
        <4>2. QED
          BY <4>1
      <3>2. \A i, m \in Free(a) : q[i] = q[m] => i = m
        BY <1>4, <2>1 DEF Placed
      <3>3. QED
        BY <1>8, <2>1, <3>1, <3>2
    <2>7. \A m \in head[a].version .. e + 1 : \E i \in Free(a)' : q[i] = m
      <3>1. SUFFICES ASSUME NEW m \in head[a].version .. e + 1, m # e + 1
                     PROVE  \E i \in Free(a) : q[i] = m
        BY <1>8, <2>1
      <3>2. m \in head[a].version .. e
        BY <1>3, <3>1
      <3>3. QED
        BY <1>4, <2>1, <3>2 DEF Placed
    <2>8. \A i \in Idx : next'[<<a, i>>].version + IDXNUM - 1 <= e + 1
      <3>1. SUFFICES ASSUME NEW i \in Idx PROVE next'[<<a, i>>].version + IDXNUM - 1 <= e + 1
        OBVIOUS
      <3>2. next[<<a, i>>].version + IDXNUM - 1 <= e /\ v + IDXNUM - 1 <= e
        BY <1>1, <1>4 DEF Placed
      <3>3. next'[<<a, i>>].version = next[<<a, i>>].version \/ next'[<<a, i>>].version = v + 1
        BY <1>6, <1>10
      <3>4. QED
        BY <1>3, <3>2, <3>3
    <2>9. /\ head'[a] = head[a] /\ tail'[a] = tail[a]
          /\ head[a].idx \in Free(a)' /\ tail[a].idx \in Free(a)'
      BY <1>1, <1>8
    <2> HIDE DEF q
    <2>10. QED
      BY <2>3, <2>5, <2>6, <2>7, <2>8, <2>9 DEF Placed
  <1>15. \E x \in [Idx -> Nat], f \in Nat : Placed(a, x, f)'
    <2>1. q \in [Idx -> Nat] /\ e + 1 \in Nat
      OBVIOUS
    <2> HIDE DEF q
    <2>2. QED
      BY <1>14, <2>1
  <1>16. Placement'
    BY <1>1, <1>12, <1>15 DEF Placement
  <1>17. QED
    BY <1>11, <1>12, <1>13, <1>16 DEF Carried

-----------------------------------------------------------------------------
(* The steps of one thread.                                                *)

\* A step writes only the locals of its thread.
LEMMA Frame ==
    ASSUME TypeOK, NEW t \in Thread, Get(t) \/ (\E r \in Record : Return(t, r)) \/ Step(t),
           NEW s \in Thread, s # t
    PROVE  /\ pc'[s] = pc[s] /\ array'[s] = array[s] /\ back'[s] = back[s]
           /\ headWord'[s] = headWord[s] /\ tailWord'[s] = tailWord[s] /\ nextWord'[s] = nextWord[s]
           /\ held'[s] = held[s]
  <1> USE DEF TypeOK, Goto, place, words, queues
  <1>1. CASE Get(t) \/ Size(t) \/ Take(t)
    BY <1>1 DEF Get, Size, Take
  <1>2. CASE GetHead(t) \/ GetTail(t) \/ GetNext(t)
    BY <1>2 DEF GetHead, GetTail, GetNext
  <1>3. CASE GetCheck(t)
    BY <1>3 DEF GetCheck, NextQueue
  <1>4. CASE GetTailCas(t) \/ RetAdvance(t) \/ RetSwing(t)
    BY <1>4 DEF GetTailCas, RetAdvance, RetSwing
  <1>5. CASE GetHeadCas(t)
    BY <1>5 DEF GetHeadCas, NextQueue
  <1>6. CASE Grow(t) \/ GrowRead(t) \/ GrowCas(t) \/ GrowNum(t) \/ GrowNumCas(t)
    BY <1>6 DEF Grow, GrowRead, GrowCas, GrowNum, GrowNumCas
  <1>7. CASE \E r \in Record : Return(t, r)
    BY <1>7 DEF Return
  <1>8. CASE RetMark(t) \/ RetTail(t) \/ RetNext(t) \/ RetCheck(t)
    BY <1>8 DEF RetMark, RetTail, RetNext, RetCheck
  <1>9. CASE RetCas(t)
    BY <1>9 DEF RetCas
  <1>10. QED
    BY <1>1, <1>2, <1>3, <1>4, <1>5, <1>6, <1>7, <1>8, <1>9 DEF Step

Reading(t) ==
    \/ Get(t) \/ Size(t) \/ Take(t) \/ GetHead(t) \/ GetTail(t) \/ GetNext(t) \/ GetCheck(t)
    \/ Grow(t) \/ GrowRead(t) \/ GrowNum(t) \/ GrowNumCas(t)
    \/ (\E r \in Record : Return(t, r)) \/ RetTail(t) \/ RetNext(t) \/ RetCheck(t)

\* A step that changes no queue.
Leaves == UNCHANGED <<head, tail, next, held>>

\* Another array is one whose Records are chained already.
LEMMA GrowLeaves ==
    ASSUME IInv, NEW t \in Thread, GrowCas(t)
    PROVE  Leaves
  <1>1. next \in [Record -> Next_] /\ Unmade
    BY DEF IInv, TypeInv, TypeOK
  <1>2. CASE localNum[t] \in made
    BY <1>2 DEF GrowCas, Leaves, queues
  <1>3. CASE localNum[t] \notin made
    <2>1. next' = [r \in Record |-> IF r[1] = localNum[t] THEN Last(r[2]) ELSE next[r]]
      BY <1>3 DEF GrowCas
    <2>2. \A r \in Record : r[1] = localNum[t] => next[r] = Last(r[2])
      BY <1>1, <1>3 DEF Unmade
    <2>3. next' = next
      BY <1>1, <2>1, <2>2
    <2>4. QED
      BY <2>3 DEF GrowCas, Leaves
  <1>4. QED
    BY <1>2, <1>3

\* The CAS on the tail, by whoever makes it, moves it one Record on.
LEMMA TailSteps ==
    ASSUME IInv, Unwrapped, NEW t \in Thread, GetTailCas(t) \/ RetAdvance(t) \/ RetSwing(t)
    PROVE  Carried /\ UNCHANGED <<head, next, held, made>>
  <1> DEFINE a == array[t]
  <1>1. TypeOK /\ RetInv(t) /\ UNCHANGED <<head, next, held, made>> /\ a \in Array
    BY ThreadTypes DEF IInv, TypeInv, GetTailCas, RetAdvance, RetSwing, arrays
  <1>2. CASE tail' = tail
    BY <1>1, <1>2, QueuesUnchanged
  <1>3. CASE tail' # tail
    <2>1. tail[a] = tailWord[t] /\ ~next[<<a, tail[a].idx>>].last
          /\ tail' = [tail EXCEPT ![a] = Moved(tail[a], next[<<a, tail[a].idx>>].idx)]
      <3>1. CASE GetTailCas(t) \/ RetAdvance(t)
        BY <1>1, <1>3, <3>1 DEF GetTailCas, RetAdvance, CasTail, RetInv
      <3>2. CASE RetSwing(t)
        BY <1>1, <1>3, <3>2 DEF RetSwing, CasTail, RetInv
      <3>3. QED
        BY <3>1, <3>2
    <2>2. PICK c \in Array : c = a
      BY <1>1
    <2>3. ~next[<<c, tail[c].idx>>].last
          /\ tail' = [tail EXCEPT ![c] = Moved(tail[c], next[<<c, tail[c].idx>>].idx)]
      BY <2>1, <2>2
    <2>4. QED
      BY <1>1, <2>3, TailMoves
  <1>4. QED
    BY <1>2, <1>3

\* get_Record either takes the head, or changes nothing.
LEMMA HeadStep ==
    ASSUME IInv, Unwrapped, NEW t \in Thread, GetHeadCas(t)
    PROVE  Carried /\ UNCHANGED <<tail, next, made>> /\ (pc'[t] \notin {"idle", "getHead"} => Leaves)
  <1> DEFINE a == array[t]
  <1>1. TypeOK /\ GetInv(t) /\ UNCHANGED <<tail, next, made>> /\ a \in Array /\ pc[t] = "getHeadCas"
    BY ThreadTypes DEF IInv, TypeInv, GetHeadCas, arrays
  <1>2. CASE head[a] # headWord[t]
    BY <1>1, <1>2, QueuesUnchanged DEF GetHeadCas, Leaves
  <1>3. CASE head[a] = headWord[t]
    <2>1. /\ head' = [head EXCEPT ![a] = Moved(headWord[t], nextWord[t].idx)]
          /\ held' = [held EXCEPT ![t] = @ \cup {<<a, headWord[t].idx>>}]
          /\ pc'[t] = "idle"
      BY <1>1, <1>3 DEF GetHeadCas, Goto, TypeOK
    <2>2. tail[a].idx # head[a].idx /\ next[<<a, head[a].idx>>] = nextWord[t]
      BY <1>1, <1>3 DEF GetInv, BothRead, HeadRead
    <2>3. PICK c \in Array : c = a
      BY <1>1
    <2>4. /\ tail[c].idx # head[c].idx
          /\ head' = [head EXCEPT ![c] = Moved(head[c], next[<<c, head[c].idx>>].idx)]
          /\ held' = [held EXCEPT ![t] = @ \cup {<<c, head[c].idx>>}]
      BY <1>3, <2>1, <2>2, <2>3
    <2>5. QED
      BY <1>1, <2>1, <2>4, HeadMoves
  <1>4. QED
    BY <1>2, <1>3

\* return_Record marks the Record it was given ...
LEMMA MarkStep ==
    ASSUME IInv, NEW t \in Thread, RetMark(t)
    PROVE  /\ Carried /\ UNCHANGED <<held, made>>
           /\ back[t] \in held[t] /\ back[t] \in Record
           /\ next' = [next EXCEPT ![back[t]] = Marked(next[back[t]])]
  <1>1. TypeOK /\ RetInv(t) /\ pc[t] = "retMark" /\ UNCHANGED <<head, tail, held, made>>
    BY DEF IInv, TypeInv, RetMark, arrays
  <1>2. back[t] \in held[t] /\ nextWord[t] = next[back[t]]
    BY <1>1 DEF RetInv, Returning
  <1>3. next' = [next EXCEPT ![back[t]] = Marked(next[back[t]])]
    BY <1>2 DEF RetMark
  <1>4. PICK r \in held[t] : r = back[t]
    BY <1>2
  <1>5. Carried
    BY <1>1, <1>3, <1>4, RecordMarked
  <1>6. QED
    BY <1>1, <1>2, <1>3, <1>5, ThreadTypes

\* ... and links it behind the last one, if that still is the last one.
LEMMA LinkStep ==
    ASSUME IInv, Unwrapped, NEW t \in Thread, RetCas(t)
    PROVE  /\ Carried /\ UNCHANGED <<head, tail, made>>
           /\ \/ Leaves /\ pc'[t] = "retTail"
              \/ /\ tailWord[t].idx \in Free(array[t])
                 /\ \A r \in Record : r # <<array[t], tailWord[t].idx>> => next'[r] = next[r]
                 /\ ~next'[<<array[t], tailWord[t].idx>>].last
                 /\ next'[<<array[t], tailWord[t].idx>>].idx = back[t][2]
                 /\ pc'[t] = "retSwing"
  <1> DEFINE a == array[t]
             l == <<a, tailWord[t].idx>>
  <1>1. /\ TypeOK /\ RetInv(t) /\ pc[t] = "retCas" /\ UNCHANGED <<head, tail, made>>
        /\ a \in Array /\ back[t] \in Record /\ tailWord[t].idx \in Idx /\ l \in Record
    BY ThreadTypes DEF IInv, TypeInv, PlaceInv, RetCas, arrays, Returning, Record
  <1>2. CASE next[l] # nextWord[t]
    <2>1. Leaves /\ pc'[t] = "retTail"
      BY <1>1, <1>2 DEF RetCas, Leaves, Goto, TypeOK
    <2>2. QED
      BY <1>1, <2>1, QueuesUnchanged DEF Leaves
  <1>3. CASE next[l] = nextWord[t]
    <2>1. /\ next' = [next EXCEPT ![l] = Linked(nextWord[t], back[t][2])]
          /\ held' = [held EXCEPT ![t] = @ \ {back[t]}]
          /\ pc'[t] = "retSwing"
      BY <1>1, <1>3 DEF RetCas, Goto, TypeOK
    <2>2. /\ tailWord[t].idx \in Free(a) /\ next[l].last
          /\ back[t] \in held[t] /\ next[back[t]].last /\ back[t][1] = a
      BY <1>1, <1>3 DEF RetInv, Returning
    <2>3. PICK c \in Array, j \in Idx, k \in Idx : c = a /\ j = tailWord[t].idx /\ k = back[t][2]
      BY <1>1 DEF Record
    <2>4. back[t] = <<c, k>> /\ l = <<c, j>> /\ j \in Free(c)
      BY <1>1, <2>2, <2>3 DEF Record
    <2>5. /\ next[<<c, j>>].last /\ <<c, k>> \in held[t] /\ next[<<c, k>>].last
          /\ next' = [next EXCEPT ![<<c, j>>] = Linked(next[<<c, j>>], k)]
          /\ held' = [held EXCEPT ![t] = @ \ {<<c, k>>}]
      BY <1>3, <2>1, <2>2, <2>3, <2>4
    <2>6. Carried
      BY <1>1, <2>4, <2>5, RecordLinked
    <2>7. Linked(nextWord[t], back[t][2]).idx = back[t][2] /\ ~Linked(nextWord[t], back[t][2]).last
      BY <1>1, <2>3, ThreadTypes, WordTypes
    <2>8. /\ \A r \in Record : r # l => next'[r] = next[r]
          /\ ~next'[l].last /\ next'[l].idx = back[t][2]
      BY <1>1, <2>1, <2>7 DEF TypeOK
    <2>9. QED
      BY <1>1, <2>1, <2>2, <2>6, <2>8
  <1>4. QED
    BY <1>2, <1>3

\* Nobody else loses what it knows, and nothing is lost.
LEMMA SharedStep ==
    ASSUME IInv, Unwrapped, NEW t \in Thread, Get(t) \/ (\E r \in Record : Return(t, r)) \/ Step(t)
    PROVE  Carried /\ Unmade' /\ \A s \in Thread : s # t => Keeps(s)
  <1>1. /\ TypeOK /\ Unmade /\ Disjoint /\ made \subseteq Array
        /\ \A s \in Thread : held[s] \subseteq made \X Idx /\ held[s] \subseteq Record
        /\ array[t] \in made /\ tailWord[t].idx \in Idx
    BY ThreadTypes DEF IInv, TypeInv, PlaceInv
  <1>2. \A s \in Thread : s # t =>
            /\ pc'[s] = pc[s] /\ array'[s] = array[s] /\ back'[s] = back[s]
            /\ headWord'[s] = headWord[s] /\ tailWord'[s] = tailWord[s] /\ nextWord'[s] = nextWord[s]
            /\ held'[s] = held[s]
    BY <1>1, Frame
  <1>3. SUFFICES ASSUME Carried, made \subseteq made',
                        \/ next' = next
                        \/ RetMark(t)
                        \/ RetCas(t)
                 PROVE  Carried /\ Unmade' /\ \A s \in Thread : s # t => Keeps(s)
    <2>1. Carried /\ made \subseteq made' /\ (next' = next \/ RetMark(t) \/ RetCas(t))
      <3>1. CASE Reading(t)
        <4>1. Leaves /\ made' = made
          <5>1. CASE \/ Get(t) \/ Size(t) \/ Take(t) \/ GetHead(t) \/ GetTail(t) \/ GetNext(t)
                     \/ GetCheck(t)
            BY <5>1 DEF Leaves, queues, arrays, Get, Size, Take, GetHead, GetTail, GetNext, GetCheck
          <5>2. CASE \/ Grow(t) \/ GrowRead(t) \/ GrowNum(t) \/ GrowNumCas(t)
                     \/ RetTail(t) \/ RetNext(t) \/ RetCheck(t)
            BY <5>2 DEF Leaves, queues, arrays, Grow, GrowRead, GrowNum, GrowNumCas, RetTail, RetNext,
               RetCheck
          <5>3. CASE \E r \in Record : Return(t, r)
            BY <5>3 DEF Leaves, queues, arrays, Return
          <5>4. QED
            BY <3>1, <5>1, <5>2, <5>3 DEF Reading
        <4>2. QED
          BY <4>1, QueuesUnchanged DEF Leaves
      <3>2. CASE GrowCas(t)
        BY <3>2, GrowLeaves, QueuesUnchanged DEF Leaves, GrowCas
      <3>3. CASE GetTailCas(t) \/ RetAdvance(t) \/ RetSwing(t)
        BY <3>3, TailSteps
      <3>4. CASE GetHeadCas(t)
        BY <3>4, HeadStep
      <3>5. CASE RetMark(t)
        BY <3>5, MarkStep
      <3>6. CASE RetCas(t)
        BY <3>6, LinkStep
      <3>7. QED
        BY <3>1, <3>2, <3>3, <3>4, <3>5, <3>6 DEF Step, Reading
    <2>2. QED
      BY <1>3, <2>1
  <1>4. CASE next' = next
    BY <1>1, <1>2, <1>3, <1>4 DEF Unmade, Keeps
  <1>5. CASE RetMark(t)
    <2>1. back[t] \in held[t] /\ \A r \in Record : r # back[t] => next'[r] = next[r]
      BY <1>1, <1>5, MarkStep DEF TypeOK
    <2>2. \A s \in Thread : s # t => back[t] \notin held[s]
      BY <1>1, <2>1 DEF Disjoint
    <2>3. \A r \in Record : r[1] \notin made' => r # back[t] /\ r[1] \notin made
      BY <1>1, <1>3, <2>1
    <2>4. QED
      BY <1>1, <1>2, <1>3, <2>1, <2>2, <2>3 DEF Unmade, Keeps
  <1>6. CASE RetCas(t)
    <2>1. CASE next' = next
      BY <1>4, <2>1
    <2>2. CASE next' # next
      <3> DEFINE l == <<array[t], tailWord[t].idx>>
      <3>1. /\ tailWord[t].idx \in Free(array[t])
            /\ \A r \in Record : r # l => next'[r] = next[r]
        BY <1>6, <2>2, LinkStep DEF Leaves
      <3>2. \A s \in Thread : l \notin held[s]
        BY <3>1 DEF Free
      <3>3. \A r \in Record : r[1] \notin made' => r # l /\ r[1] \notin made
        BY <1>1, <1>3
      <3> HIDE DEF l
      <3>4. QED
        BY <1>1, <1>2, <1>3, <3>1, <3>2, <3>3 DEF Unmade, Keeps
    <2>3. QED
      BY <2>1, <2>2
  <1>7. QED
    BY <1>3, <1>4, <1>5, <1>6

\* Where a thread knows nothing of the queues yet.
Afresh == {"idle", "size", "take", "getHead", "grow", "growRead", "growCas", "growNum", "growNumCas"}

LEMMA AfreshStep ==
    ASSUME NEW t \in Thread, pc'[t] \in Afresh
    PROVE  GetInv(t)' /\ RetInv(t)'
  <1>1. pc'[t] \notin HeadRead /\ pc'[t] \notin TailRead /\ pc'[t] \notin Returning
    BY DEF Afresh, HeadRead, TailRead, BothRead, Returning
  <1>2. pc'[t] \notin BothRead /\ pc'[t] \notin {"getCheck", "getHeadCas", "getTailCas"}
        /\ pc'[t] \notin {"retMark", "retCheck", "retCas", "retAdvance", "retSwing"}
    BY DEF Afresh, BothRead, HeadRead
  <1>3. GetInv(t)'
    BY <1>1, <1>2 DEF GetInv
  <1>4. RetInv(t)'
    BY <1>1, <1>2 DEF RetInv
  <1>5. QED
    BY <1>3, <1>4

\* A word that has just been read.
LEMMA SinceSame ==
    ASSUME NEW w, w.version \in Nat
    PROVE  Since(w, w)
  BY DEF Since

\* get_Record reads head, tail and next, and checks the head.
LEMMA GetReads ==
    ASSUME IInv, NEW t \in Thread, GetHead(t) \/ GetTail(t) \/ GetNext(t) \/ GetCheck(t)
    PROVE  GetInv(t)' /\ RetInv(t)'
  <1> DEFINE a == array[t]
             h == <<a, headWord[t].idx>>
             l == <<a, tailWord[t].idx>>
  <1>1. /\ TypeOK /\ GetInv(t) /\ RetInv(t) /\ Placement /\ a \in Array
        /\ headWord[t].version \in Nat /\ tailWord[t].version \in Nat
        /\ head[a].version \in Nat /\ tail[a].version \in Nat
    BY ThreadTypes, SharedTypes DEF IInv, TypeInv
  <1> USE DEF Goto
  <1>2. CASE GetHead(t)
    <2>1. /\ pc'[t] = "getTail" /\ headWord'[t] = head[a] /\ array'[t] = a /\ head' = head
      BY <1>1, <1>2 DEF GetHead, TypeOK, queues, place
    <2>2. Since(head[a], head[a])
      BY <1>1, SinceSame
    <2>3. GetInv(t)'
      BY <2>1, <2>2 DEF GetInv, HeadRead, BothRead, TailRead, Returning
    <2>4. RetInv(t)'
      BY <2>1 DEF RetInv, Returning
    <2>5. QED
      BY <2>3, <2>4
  <1>3. CASE GetTail(t)
    <2>1. /\ pc[t] = "getTail" /\ pc'[t] = "getNext" /\ tailWord'[t] = tail[a] /\ array'[t] = a
          /\ headWord'[t] = headWord[t] /\ head' = head /\ tail' = tail
      BY <1>1, <1>3 DEF GetTail, TypeOK, queues, place
    <2>2. Since(tail[a], tail[a]) /\ Since(headWord[t], head[a])
      BY <1>1, <2>1, SinceSame DEF GetInv, HeadRead
    <2>3. GetInv(t)'
      BY <2>1, <2>2 DEF GetInv, HeadRead, BothRead, TailRead, Returning
    <2>4. RetInv(t)'
      BY <2>1 DEF RetInv, Returning
    <2>5. QED
      BY <2>3, <2>4
  <1>4. CASE GetNext(t)
    <2>1. /\ pc[t] = "getNext" /\ pc'[t] = "getCheck" /\ nextWord'[t] = next[h] /\ array'[t] = a
          /\ headWord'[t] = headWord[t] /\ tailWord'[t] = tailWord[t]
          /\ head' = head /\ tail' = tail /\ next' = next
      BY <1>1, <1>4 DEF GetNext, TypeOK, queues, place
    <2>2. Since(tailWord[t], tail[a]) /\ Since(headWord[t], head[a])
      BY <1>1, <2>1 DEF GetInv, HeadRead, BothRead, TailRead
    <2>3. headWord[t] = head[a] /\ headWord[t].idx # tailWord[t].idx =>
            tail[a].idx # head[a].idx /\ ~next[h].last
      BY <1>1, <2>1, Ends DEF GetInv, HeadRead, BothRead
    <2>4. GetInv(t)'
      BY <2>1, <2>2, <2>3 DEF GetInv, HeadRead, BothRead, TailRead, Returning
    <2>5. RetInv(t)'
      BY <2>1 DEF RetInv, Returning
    <2>6. QED
      BY <2>4, <2>5
  <1>5. CASE GetCheck(t)
    <2>1. /\ pc[t] = "getCheck" /\ headWord'[t] = headWord[t] /\ tailWord'[t] = tailWord[t]
          /\ nextWord'[t] = nextWord[t] /\ head' = head /\ tail' = tail /\ next' = next
      BY <1>1, <1>5 DEF GetCheck, queues, words
    <2>2. CASE NextQueue(t)
      BY <1>1, <2>2, NextQueueType, AfreshStep DEF Afresh
    <2>3. CASE headWord[t] # head[a]
      <3>1. pc'[t] = "getHead"
        BY <1>1, <1>5, <2>3 DEF GetCheck, TypeOK
      <3>2. QED
        BY <3>1, AfreshStep DEF Afresh
    <2>4. CASE headWord[t] = head[a] /\ ~NextQueue(t)
      <3>1. /\ array'[t] = a /\ (headWord[t].idx # tailWord[t].idx \/ ~nextWord[t].last)
            /\ pc'[t] = IF headWord[t].idx = tailWord[t].idx THEN "getTailCas" ELSE "getHeadCas"
        BY <1>1, <1>5, <2>4 DEF GetCheck, TypeOK
      <3>2. /\ Since(tailWord[t], tail[a]) /\ Since(headWord[t], head[a])
            /\ headWord[t].idx # tailWord[t].idx => tail[a].idx # head[a].idx
            /\ next[h] = nextWord[t] /\ ~nextWord[t].last
        BY <1>1, <2>1, <2>4, <3>1 DEF GetInv, HeadRead, BothRead, TailRead
      <3>3. CASE headWord[t].idx = tailWord[t].idx
        <4>1. pc'[t] = "getTailCas"
          BY <3>1, <3>3
        <4>2. GetInv(t)'
          BY <2>1, <3>1, <3>2, <3>3, <4>1 DEF GetInv, HeadRead, BothRead, TailRead, Returning
        <4>3. RetInv(t)'
          BY <2>1, <3>1, <3>2, <3>3, <4>1 DEF RetInv, Returning
        <4>4. QED
          BY <4>2, <4>3
      <3>4. CASE headWord[t].idx # tailWord[t].idx
        <4>1. pc'[t] = "getHeadCas"
          BY <3>1, <3>4
        <4>2. GetInv(t)'
          BY <2>1, <3>1, <3>2, <3>4, <4>1 DEF GetInv, HeadRead, BothRead, TailRead, Returning
        <4>3. RetInv(t)'
          BY <4>1 DEF RetInv, Returning
        <4>4. QED
          BY <4>2, <4>3
      <3>5. QED
        BY <3>3, <3>4
    <2>5. QED
      BY <2>2, <2>3, <2>4
  <1>6. QED
    BY <1>2, <1>3, <1>4, <1>5

\* return_Record gets its Record, and reads the tail and the word behind it.
LEMMA RetReads ==
    ASSUME IInv, NEW t \in Thread,
           (\E r \in Record : Return(t, r)) \/ RetTail(t) \/ RetNext(t) \/ RetCheck(t)
    PROVE  GetInv(t)' /\ RetInv(t)'
  <1> DEFINE a == array[t]
             l == <<a, tailWord[t].idx>>
  <1>1. /\ TypeOK /\ GetInv(t) /\ RetInv(t) /\ Placement /\ a \in Array
        /\ tailWord[t].version \in Nat /\ tailWord[t].idx \in Idx
        /\ head[a].version \in Nat /\ tail[a].version \in Nat
        /\ \A i \in Idx : next[<<a, i>>].version \in Nat
    BY ThreadTypes, SharedTypes DEF IInv, TypeInv
  <1> USE DEF Goto
  <1>2. CASE \E r \in Record : Return(t, r)
    <2>1. PICK r \in Record : Return(t, r)
      BY <1>2
    <2>2. /\ pc'[t] = "retMark" /\ back'[t] = r /\ array'[t] = r[1] /\ nextWord'[t] = next[r]
          /\ r \in held[t] /\ held' = held /\ next' = next
      BY <1>1, <2>1 DEF Return, TypeOK, queues
    <2>3. GetInv(t)'
      BY <2>2 DEF GetInv, HeadRead, BothRead, TailRead, Returning
    <2>4. RetInv(t)'
      BY <2>2 DEF RetInv, Returning
    <2>5. QED
      BY <2>3, <2>4
  <1>3. CASE RetTail(t)
    <2>1. /\ pc[t] = "retTail" /\ pc'[t] = "retNext" /\ tailWord'[t] = tail[a] /\ array' = array
          /\ back' = back /\ held' = held /\ next' = next /\ tail' = tail
      BY <1>1, <1>3 DEF RetTail, TypeOK, queues, place
    <2>2. Since(tail[a], tail[a])
      BY <1>1, SinceSame
    <2>3. GetInv(t)'
      BY <2>1, <2>2 DEF GetInv, HeadRead, BothRead, TailRead, Returning
    <2>4. back[t][1] = a /\ back[t] \in held[t] /\ next[back[t]].last
      BY <1>1, <2>1 DEF RetInv, Returning
    <2>5. RetInv(t)'
      BY <2>1, <2>4 DEF RetInv, Returning
    <2>6. QED
      BY <2>3, <2>5
  <1>4. CASE RetNext(t)
    <2>1. /\ pc[t] = "retNext" /\ pc'[t] = "retCheck" /\ nextWord'[t] = next[l] /\ array' = array
          /\ back' = back /\ held' = held /\ next' = next /\ tail' = tail /\ tailWord' = tailWord
      BY <1>1, <1>4 DEF RetNext, TypeOK, queues, place
    <2>2. Since(tailWord[t], tail[a])
      BY <1>1, <2>1 DEF GetInv, TailRead, Returning
    <2>3. GetInv(t)'
      BY <2>1, <2>2 DEF GetInv, HeadRead, BothRead, TailRead, Returning
    <2>4. back[t][1] = a /\ back[t] \in held[t] /\ next[back[t]].last
      BY <1>1, <2>1 DEF RetInv, Returning
    <2>5. nextWord'[t].version <= next'[l].version
      BY <1>1, <2>1
    <2>6. RetInv(t)'
      BY <2>1, <2>4, <2>5 DEF RetInv, Returning
    <2>7. QED
      BY <2>3, <2>6
  <1>5. CASE RetCheck(t)
    <2>1. /\ pc[t] = "retCheck" /\ array' = array /\ nextWord' = nextWord /\ tailWord' = tailWord
          /\ back' = back /\ held' = held /\ next' = next /\ tail' = tail
          /\ pc'[t] = IF tailWord[t] # tail[a] THEN "retTail"
                      ELSE IF nextWord[t].last THEN "retCas" ELSE "retAdvance"
      BY <1>1, <1>5 DEF RetCheck, TypeOK, queues, place, words
    <2>2. /\ Since(tailWord[t], tail[a]) /\ back[t][1] = a /\ back[t] \in held[t] /\ next[back[t]].last
          /\ nextWord[t].version <= next[l].version
      BY <1>1, <2>1 DEF GetInv, RetInv, TailRead, Returning
    <2>3. GetInv(t)'
      BY <2>1, <2>2 DEF GetInv, HeadRead, BothRead, TailRead, Returning
    <2>4. CASE tailWord[t] # tail[a]
      BY <2>1, <2>2, <2>3, <2>4 DEF RetInv, Returning
    <2>5. CASE tailWord[t] = tail[a]
      <3>1. /\ tailWord[t].idx \in Free(a)
            /\ next[l] = nextWord[t] \/ (nextWord[t].last /\ nextWord[t].version < next[l].version)
        BY <1>1, <2>1, <2>5, Ends DEF RetInv
      <3>2. Free(a)' = Free(a)
        BY <2>1 DEF Free
      <3>3. CASE nextWord[t].last
        <4>1. pc'[t] = "retCas"
          BY <2>1, <2>5, <3>3
        <4>2. next[l].version = nextWord[t].version => next[l] = nextWord[t]
          BY <1>1, <3>1
        <4>3. RetInv(t)'
          BY <2>1, <2>2, <3>1, <3>2, <3>3, <4>1, <4>2 DEF RetInv, Returning
        <4>4. QED
          BY <2>3, <4>3
      <3>4. CASE ~nextWord[t].last
        <4>1. pc'[t] = "retAdvance" /\ next[l] = nextWord[t]
          BY <2>1, <2>5, <3>1, <3>4
        <4>2. RetInv(t)'
          BY <2>1, <2>2, <3>4, <4>1 DEF RetInv, Returning
        <4>3. QED
          BY <2>3, <4>2
      <3>5. QED
        BY <3>3, <3>4
    <2>6. QED
      BY <2>4, <2>5
  <1>6. QED
    BY <1>2, <1>3, <1>4, <1>5

\* return_Record marks, links and moves the tail.
LEMMA RetWrites ==
    ASSUME IInv, Unwrapped, NEW t \in Thread, RetMark(t) \/ RetAdvance(t) \/ RetCas(t)
    PROVE  GetInv(t)' /\ RetInv(t)'
  <1> DEFINE a == array[t]
             l == <<a, tailWord[t].idx>>
  <1>1. /\ TypeOK /\ GetInv(t) /\ RetInv(t) /\ a \in Array
        /\ tailWord[t].idx \in Idx /\ back[t] \in Record \cup {NoRecord}
    BY ThreadTypes DEF IInv, TypeInv, TypeOK
  <1> USE DEF Goto
  <1>2. CASE RetMark(t)
    <2>1. /\ pc[t] = "retMark" /\ pc'[t] = "retTail" /\ array' = array /\ back' = back /\ held' = held
      BY <1>1, <1>2 DEF RetMark, TypeOK, place
    <2>2. back[t][1] = a /\ back[t] \in held[t]
      BY <1>1, <2>1 DEF RetInv, Returning
    <2>3. next'[back[t]].last
      <3>1. /\ back[t] \in Record /\ next \in [Record -> Next_]
            /\ next' = [next EXCEPT ![back[t]] = Marked(next[back[t]])]
        BY <1>1, <1>2, MarkStep DEF TypeOK
      <3>2. Marked(next[back[t]]).last
        BY <3>1, WordTypes
      <3>3. QED
        BY <3>1, <3>2
    <2>4. GetInv(t)'
      BY <2>1 DEF GetInv, HeadRead, BothRead, TailRead, Returning
    <2>5. RetInv(t)'
      BY <2>1, <2>2, <2>3 DEF RetInv, Returning
    <2>6. QED
      BY <2>4, <2>5
  <1>3. CASE RetAdvance(t)
    <2>1. /\ pc[t] = "retAdvance" /\ pc'[t] = "retTail" /\ array' = array /\ back' = back
          /\ held' = held /\ next' = next
      BY <1>1, <1>3 DEF RetAdvance, TypeOK, place
    <2>2. back[t][1] = a /\ back[t] \in held[t] /\ next[back[t]].last
      BY <1>1, <2>1 DEF RetInv, Returning
    <2>3. GetInv(t)'
      BY <2>1 DEF GetInv, HeadRead, BothRead, TailRead, Returning
    <2>4. RetInv(t)'
      BY <2>1, <2>2 DEF RetInv, Returning
    <2>5. QED
      BY <2>3, <2>4
  <1>4. CASE RetCas(t)
    <2>1. /\ pc[t] = "retCas" /\ array' = array /\ back' = back /\ tailWord' = tailWord /\ tail' = tail
      BY <1>1, <1>4 DEF RetCas, place, words
    <2>2. back[t][1] = a /\ back[t] \in held[t] /\ next[back[t]].last /\ Since(tailWord[t], tail[a])
      BY <1>1, <2>1 DEF RetInv, GetInv, TailRead, Returning
    <2>3. CASE Leaves /\ pc'[t] = "retTail"
      <3>1. GetInv(t)'
        BY <2>1, <2>3 DEF GetInv, HeadRead, BothRead, TailRead, Returning
      <3>2. RetInv(t)'
        BY <2>1, <2>2, <2>3 DEF RetInv, Returning, Leaves
      <3>3. QED
        BY <3>1, <3>2
    <2>4. CASE pc'[t] = "retSwing" /\ ~next'[l].last /\ next'[l].idx = back[t][2]
      <3>1. GetInv(t)'
        BY <2>1, <2>2, <2>4 DEF GetInv, HeadRead, BothRead, TailRead, Returning
      <3>2. RetInv(t)'
        BY <2>1, <2>2, <2>4 DEF RetInv, Returning
      <3>3. QED
        BY <3>1, <3>2
    <2>5. QED
      BY <1>4, <2>3, <2>4, LinkStep
  <1>5. QED
    BY <1>2, <1>3, <1>4

\* What a thread knows after a step of its own.
LEMMA OwnStep ==
    ASSUME IInv, Unwrapped, NEW t \in Thread, Get(t) \/ (\E r \in Record : Return(t, r)) \/ Step(t)
    PROVE  GetInv(t)' /\ RetInv(t)'
  <1>1. TypeOK
    BY DEF IInv, TypeInv
  <1>2. CASE \/ Get(t) \/ Size(t) \/ Take(t) \/ GetTailCas(t) \/ RetSwing(t)
             \/ Grow(t) \/ GrowRead(t) \/ GrowCas(t) \/ GrowNum(t) \/ GrowNumCas(t)
    <2>1. pc'[t] \in Afresh
      <3>1. CASE Get(t) \/ Size(t) \/ Take(t) \/ GetTailCas(t) \/ RetSwing(t)
        BY <1>1, <3>1 DEF Get, Size, Take, GetTailCas, RetSwing, TypeOK, Afresh, Goto
      <3>2. CASE Grow(t) \/ GrowRead(t) \/ GrowCas(t) \/ GrowNum(t) \/ GrowNumCas(t)
        BY <1>1, <3>2 DEF Grow, GrowRead, GrowCas, GrowNum, GrowNumCas, TypeOK, Afresh, Goto
      <3>3. QED
        BY <1>2, <3>1, <3>2
    <2>2. QED
      BY <2>1, AfreshStep
  <1>3. CASE GetHeadCas(t)
    <2>1. pc'[t] \in Afresh
      BY <1>1, <1>3, NextQueueType DEF GetHeadCas, TypeOK, Afresh, Goto
    <2>2. QED
      BY <2>1, AfreshStep
  <1>4. QED
    BY <1>2, <1>3, GetReads, RetReads, RetWrites DEF Step

LEMMA Inductive == IInv /\ Unwrapped /\ [Next]_vars => IInv'
  <1> SUFFICES ASSUME IInv, Unwrapped, [Next]_vars PROVE IInv'
    OBVIOUS
  <1>1. TypeInv' /\ TypeOK'
    BY TypeInductive DEF IInv, TypeInv
  <1>2. CASE UNCHANGED vars
    <2>1. UNCHANGED <<head, tail, next, held, made, pc, array, back, headWord, tailWord, nextWord>>
      BY <1>2 DEF vars, arrays, queues, place, words
    <2>2. Placement' /\ Disjoint'
      BY <2>1, QueuesUnchanged DEF Carried
    <2>3. Unmade'
      BY <2>1 DEF IInv, Unmade
    <2>4. \A t \in Thread : GetInv(t)'
      BY <2>1 DEF IInv, GetInv
    <2>5. \A t \in Thread : RetInv(t)'
      BY <2>1 DEF IInv, RetInv, Free
    <2>6. QED
      BY <1>1, <2>2, <2>3, <2>4, <2>5 DEF IInv
  <1>3. SUFFICES ASSUME NEW t \in Thread, Get(t) \/ (\E r \in Record : Return(t, r)) \/ Step(t)
                 PROVE  IInv'
    BY <1>2 DEF Next
  <1>4. Carried /\ Unmade' /\ \A s \in Thread : s # t => Keeps(s)
    BY <1>3, SharedStep
  <1>5. ASSUME NEW s \in Thread PROVE GetInv(s)' /\ RetInv(s)'
    <2>1. CASE s = t
      BY <1>3, <2>1, OwnStep
    <2>2. CASE s # t
      <3>1. array[s] \in Array
        BY ThreadTypes DEF IInv, TypeInv
      <3>2. QED
        BY <1>1, <1>4, <2>2, <3>1, OtherStep DEF Carried
    <2>3. QED
      BY <2>1, <2>2
  <1>6. QED
    BY <1>1, <1>4, <1>5 DEF IInv, Carried

LEMMA InitInv == Init => IInv
  <1> SUFFICES ASSUME Init PROVE IInv
    OBVIOUS
  <1>1. TypeInv /\ IDXNUM \in Nat \ {0}
    BY TypeInit, RecordAssumption
  <1>2. Disjoint /\ Unmade
    BY DEF Init, Disjoint, Unmade
  <1>3. ASSUME NEW a \in Array PROVE \E p \in [Idx -> Nat], e \in Nat : Placed(a, p, e)
    <2> DEFINE p == [i \in Idx |-> i]
    <2>1. Free(a) = Idx
      BY DEF Init, Free
    <2>2. p \in [Idx -> Nat] /\ IDXNUM - 1 \in Nat /\ 0 \in Idx /\ IDXNUM - 1 \in Idx
      BY <1>1 DEF Idx
    <2>3. /\ head[a] = Zero /\ tail[a] = [version |-> 0, idx |-> IDXNUM - 1]
          /\ \A i \in Idx : next[<<a, i>>] = Last(i)
      BY DEF Init, Record
    <2>4. \A i \in Idx : /\ Last(i).version = 0
                         /\ Last(i).last <=> i = IDXNUM - 1
                         /\ i # IDXNUM - 1 => Last(i).idx = i + 1 /\ i + 1 \in Idx
      <3>1. SUFFICES ASSUME NEW i \in Idx
                     PROVE  i # IDXNUM - 1 => (i + 1) % IDXNUM = i + 1 /\ i + 1 \in Idx
        BY DEF Last
      <3>2. i \in Nat /\ i + 1 \in Nat /\ (i # IDXNUM - 1 => i + 1 < IDXNUM)
        BY <1>1 DEF Idx
      <3>3. QED
        BY <1>1, <3>2, ModRange DEF Idx
    <2>5. Placed(a, p, IDXNUM - 1)
      <3>1. \A i \in Idx : p[i] = i /\ i \in Nat /\ 0 <= i /\ i <= IDXNUM - 1
        BY <1>1 DEF Idx
      <3>2. \A k \in 0 .. IDXNUM - 1 : \E i \in Idx : p[i] = k
        BY <3>1 DEF Idx
      <3>3. Zero.version = 0 /\ Zero.idx = 0
        BY DEF Zero
      <3>4. \A i \in Idx : 0 + IDXNUM - 1 <= IDXNUM - 1
        BY <1>1
      <3> HIDE DEF p
      <3>5. QED
        BY <1>1, <2>1, <2>2, <2>3, <2>4, <3>1, <3>2, <3>3, <3>4 DEF Placed
    <2>6. QED
      BY <2>2, <2>5
  <1>4. ASSUME NEW t \in Thread PROVE GetInv(t) /\ RetInv(t)
    BY DEF Init, GetInv, RetInv, HeadRead, BothRead, TailRead, Returning
  <1>5. QED
    BY <1>1, <1>2, <1>3, <1>4 DEF IInv, Placement

-----------------------------------------------------------------------------
(* The chains.                                                             *)

\* Induction, for a set of numbers.
LEMMA EveryNumber ==
    ASSUME NEW S, S \subseteq Nat, 0 \in S, \A n \in S : n + 1 \in S
    PROVE  S = Nat
  <1> SUFFICES ASSUME S # Nat PROVE FALSE
    OBVIOUS
  <1> DEFINE T == Nat \ S
             R == OpToRel(<, Nat)
  <1>1. T \subseteq Nat /\ T # {} /\ IsWellFoundedOn(R, Nat)
    BY NatLessThanWellFounded
  <1>2. PICK n \in T : \A m \in T : <<m, n>> \notin R
    <2> HIDE DEF R, T
    <2> QED
      BY ONLY <1>1, WFMin
  <1>3. \A m \in T : ~(m < n)
    BY <1>2 DEF OpToRel
  <1>4. n # 0 /\ n - 1 \in Nat /\ n - 1 \notin T
    BY <1>3
  <1>5. QED
    BY <1>4

\* The walk that Chain makes, with k the number of its steps.
Walked(a, f, k) ==
    IF k = 0 THEN head[a].idx
    ELSE LET n == next[<<a, f[k - 1]>>] IN IF n.last THEN f[k - 1] ELSE n.idx

Walk(a, f) == f = [k \in Idx |-> Walked(a, f, k)]

\* There is one walk only, so a chain is what any walk passes.
LEMMA WalkUnique ==
    ASSUME NEW a, NEW f, Walk(a, f), NEW g, Walk(a, g)
    PROVE  f = g
  <1>1. IDXNUM \in Nat \ {0}
    BY RecordAssumption
  <1> DEFINE S == {k \in Nat : k \in Idx => f[k] = g[k]}
  <1>2. 0 \in Idx => f[0] = Walked(a, f, 0) /\ g[0] = Walked(a, g, 0)
    BY DEF Walk
  <1>3. 0 \in S
    BY <1>2 DEF Walked
  <1>4. ASSUME NEW k \in S PROVE k + 1 \in S
    <2>1. SUFFICES ASSUME k + 1 \in Idx PROVE f[k + 1] = g[k + 1]
      OBVIOUS
    <2>2. k \in Nat /\ k \in Idx /\ k + 1 # 0 /\ (k + 1) - 1 = k
      BY <1>1, <2>1 DEF Idx
    <2>3. f[k] = g[k]
      BY <2>2
    <2>4. f[k + 1] = Walked(a, f, k + 1) /\ g[k + 1] = Walked(a, g, k + 1)
      BY <2>1 DEF Walk
    <2>5. QED
      BY <2>2, <2>3, <2>4 DEF Walked
  <1>5. S = Nat
    <2>1. S \subseteq Nat
      OBVIOUS
    <2> HIDE DEF S
    <2>2. QED
      BY <1>3, <1>4, <2>1, EveryNumber
  <1>6. \A k \in Idx : f[k] = g[k]
    BY <1>1, <1>5 DEF Idx
  <1>7. QED
    BY <1>6 DEF Walk

LEMMA ChainWalk ==
    ASSUME NEW a, NEW f, Walk(a, f)
    PROVE  Chain(a) = {<<a, f[k]>> : k \in Idx}
  <1> DEFINE w == CHOOSE g : Walk(a, g)
  <1>1. Chain(a) = {<<a, w[k]>> : k \in Idx}
    BY DEF Chain, Walk, Walked
  <1>2. Walk(a, w)
    BY Zenon
  <1>3. w = f
    <2> HIDE DEF w
    <2> QED
      BY <1>2, WalkUnique
  <1>4. QED
    BY <1>1, <1>3

\* The chain of a queue is made of the Records that no thread holds.
LEMMA ChainIsFree ==
    ASSUME TypeOK, Placement, NEW a \in Array
    PROVE  Chain(a) = {<<a, i>> : i \in Free(a)}
  <1>1. PICK p \in [Idx -> Nat], e \in Nat : Placed(a, p, e)
    BY DEF Placement
  <1> DEFINE v == head[a].version
             at(k) == IF v + k <= e THEN v + k ELSE e
             f == [k \in Idx |-> CHOOSE i \in Free(a) : p[i] = at(k)]
  <1>2. /\ v \in Nat /\ v <= e /\ e - v <= IDXNUM - 1 /\ IDXNUM \in Nat \ {0}
    BY <1>1, FewPlaces, SharedTypes, RecordAssumption
  <1>3. \A k \in Idx : at(k) \in v .. e
    BY <1>2 DEF Idx
  <1>4. \A k \in Idx : f[k] \in Free(a) /\ p[f[k]] = at(k)
    <2>1. SUFFICES ASSUME NEW k \in Idx PROVE \E i \in Free(a) : p[i] = at(k)
      OBVIOUS
    <2>2. QED
      BY <1>1, <1>3 DEF Placed
  <1>5. Walk(a, f)
    <2>1. SUFFICES ASSUME NEW k \in Idx PROVE f[k] = Walked(a, f, k)
      BY DEF Walk
    <2>2. \A i, j \in Free(a) : p[i] = p[j] => i = j
      BY <1>1 DEF Placed
    <2>3. CASE k = 0
      <3>1. head[a].idx \in Free(a) /\ p[head[a].idx] = at(0)
        BY <1>1, <1>2 DEF Placed
      <3>2. f[0] \in Free(a) /\ p[f[0]] = at(0)
        BY <1>4, <2>1, <2>3
      <3> HIDE DEF f, at
      <3>3. f[0] = head[a].idx
        BY <2>2, <3>1, <3>2
      <3>4. QED
        BY <2>3, <3>3 DEF Walked
    <2>4. CASE k # 0
      <3>1. k - 1 \in Idx /\ k \in Nat /\ k - 1 \in Nat
        BY <1>2, <2>4 DEF Idx
      <3>2. /\ f[k] \in Free(a) /\ p[f[k]] = at(k)
            /\ f[k - 1] \in Free(a) /\ p[f[k - 1]] = at(k - 1)
        BY <1>4, <3>1
      <3>3. CASE next[<<a, f[k - 1]>>].last
        <4>1. p[f[k - 1]] = e
          BY <1>1, <3>2, <3>3 DEF Placed
        <4>2. at(k) = e
          BY <1>2, <3>1, <3>2, <4>1
        <4> HIDE DEF f, at
        <4>3. f[k] = f[k - 1]
          BY <2>2, <3>2, <4>1, <4>2
        <4>4. QED
          BY <2>4, <3>3, <4>3 DEF Walked
      <3>4. CASE ~next[<<a, f[k - 1]>>].last
        <4>1. /\ next[<<a, f[k - 1]>>].idx \in Free(a) /\ p[next[<<a, f[k - 1]>>].idx] = p[f[k - 1]] + 1
              /\ p[f[k - 1]] # e
          BY <1>1, <3>2, <3>4 DEF Placed
        <4>2. at(k) = at(k - 1) + 1
          BY SMTT(60), <1>2, <3>1, <3>2, <4>1
        <4> HIDE DEF f, at
        <4>3. f[k] = next[<<a, f[k - 1]>>].idx
          BY <2>2, <3>2, <4>1, <4>2
        <4>4. QED
          BY <2>4, <3>4, <4>3 DEF Walked
      <3>5. QED
        BY <3>3, <3>4
    <2>5. QED
      BY <2>3, <2>4
  <1>6. Chain(a) = {<<a, f[k]>> : k \in Idx}
    <2> HIDE DEF f
    <2> QED
      BY <1>5, ChainWalk
  <1>7. ASSUME NEW i \in Free(a) PROVE \E k \in Idx : f[k] = i
    <2>1. p[i] \in Nat /\ v <= p[i] /\ p[i] <= e
      BY <1>1, <1>7 DEF Placed, Free
    <2>2. p[i] - v \in Idx /\ at(p[i] - v) = p[i]
      BY <1>2, <2>1 DEF Idx
    <2>3. f[p[i] - v] \in Free(a) /\ p[f[p[i] - v]] = p[i]
      BY <1>4, <2>2
    <2> HIDE DEF f
    <2>4. QED
      BY <1>1, <2>2, <2>3 DEF Placed
  <1>8. QED
    <2> HIDE DEF f
    <2> QED
      BY <1>4, <1>6, <1>7

LEMMA Safe == IInv => Exclusive /\ Conserved
  <1> SUFFICES ASSUME IInv PROVE Exclusive /\ Conserved
    OBVIOUS
  <1>1. TypeOK /\ Placement /\ Disjoint
    BY DEF IInv, TypeInv
  <1>2. \A a \in Array : Chain(a) = {<<a, i>> : i \in Free(a)}
    BY <1>1, ChainIsFree
  <1>3. Exclusive
    <2>1. ASSUME NEW t \in Thread, NEW a \in Array PROVE held[t] \cap Chain(a) = {}
      <3>1. \A i \in Free(a) : <<a, i>> \notin held[t]
        BY DEF Free
      <3>2. QED
        BY <1>2, <3>1
    <2>2. QED
      BY <1>1, <2>1 DEF Exclusive, Disjoint
  <1>4. Conserved
    <2>1. SUFFICES ASSUME NEW a \in Array
                   PROVE  /\ \A r \in {a} \X Idx : r \in Chain(a) \/ \E t \in Thread : r \in held[t]
                          /\ <<a, tail[a].idx>> \in Chain(a)
      BY DEF Conserved
    <2>2. tail[a].idx \in Free(a)
      BY <1>1, Ends
    <2>3. QED
      BY <1>2, <2>2 DEF Free
  <1>5. QED
    BY <1>3, <1>4

\* As long as no version has come to its end, however get_Record and
\* return_Record interleave and whoever adds arrays, no Record is with two
\* threads, or with a thread and in a queue: the versions make every CAS fail
\* that is based on a word of the past.
THEOREM HandedOutOnce == Spec /\ []Unwrapped => []Exclusive
  BY InitInv, Inductive, Safe, PTL DEF Spec

\* Under the same condition every Record that no thread holds can be reached from
\* the head of its queue, and so can the one that the tail names.
THEOREM NoneLost == Spec /\ []Unwrapped => []Conserved
  BY InitInv, Inductive, Safe, PTL DEF Spec

-----------------------------------------------------------------------------
(* A run with fewer calls than versions never wraps one.                   *)

Getting == {"size", "take", "getHead", "getTail", "getNext", "getCheck", "getTailCas", "getHeadCas"}
             \cup {"grow"} \cup Growth

\* The calls of get_Record that have returned.
Ended ==
    {c \in Thread \X (1 .. MaxGets) :
        c[2] < gets[c[1]] \/ (c[2] = gets[c[1]] /\ pc[c[1]] \notin Getting)}

\* Every call raises the version of one head at most once.
CountInv ==
    /\ IInv
    /\ \A t \in Thread : pc[t] \in Getting => gets[t] > 0
    /\ \A a \in Array : head[a].version <= Cardinality(Ended)

FewCalls ==
    /\ IsFiniteSet(Thread)
    /\ Cardinality(Thread) * MaxGets + 1 < VERSIONS
    /\ Cardinality(Thread) * MaxGets + 1 < NEXTVERSIONS

LEMMA EndedFinite ==
    ASSUME FewCalls
    PROVE  /\ IsFiniteSet(Ended) /\ Cardinality(Ended) \in Nat
           /\ Cardinality(Ended) <= Cardinality(Thread) * MaxGets
           /\ Cardinality(Thread) * MaxGets \in Nat
  <1> DEFINE C == Thread \X (1 .. MaxGets)
  <1>1. MaxGets \in Nat /\ IsFiniteSet(1 .. MaxGets) /\ Cardinality(1 .. MaxGets) = MaxGets
    BY RecordAssumption, FS_Interval
  <1>2. IsFiniteSet(C) /\ Cardinality(C) = Cardinality(Thread) * MaxGets
    BY <1>1, FS_Product DEF FewCalls
  <1>3. Ended \in SUBSET C
    BY DEF Ended
  <1> HIDE DEF C
  <1>4. IsFiniteSet(Ended) /\ Cardinality(Ended) <= Cardinality(C)
    BY <1>2, <1>3, FS_Subset
  <1>5. Cardinality(Ended) \in Nat /\ Cardinality(C) \in Nat
    BY <1>2, <1>4, FS_CardinalityType
  <1>6. QED
    BY <1>2, <1>4, <1>5

LEMMA CountUnwrapped ==
    ASSUME FewCalls, CountInv
    PROVE  Unwrapped
  <1> SUFFICES ASSUME NEW a \in Array
               PROVE  head[a].version + 1 < VERSIONS /\ head[a].version + 1 < NEXTVERSIONS
    BY DEF Unwrapped
  <1>1. head[a].version <= Cardinality(Ended) /\ head[a].version \in Nat
    BY SharedTypes DEF CountInv, IInv, TypeInv
  <1>2. VERSIONS \in Nat /\ NEXTVERSIONS \in Nat
    BY RecordAssumption
  <1>3. QED
    BY <1>1, <1>2, EndedFinite DEF FewCalls

\* A call that has returned stays so; the head moves only when one returns.
LEMMA EndedStep ==
    ASSUME IInv, Unwrapped, \A s \in Thread : pc[s] \in Getting => gets[s] > 0,
           NEW t \in Thread, Get(t) \/ (\E r \in Record : Return(t, r)) \/ Step(t)
    PROVE  /\ \A s \in Thread : pc'[s] \in Getting => gets'[s] > 0
           /\ Ended \subseteq Ended'
           /\ \/ head' = head
              \/ /\ \A a \in Array : head'[a] = head[a] \/ head'[a].version = head[a].version + 1
                 /\ \E c : c \in Ended' /\ c \notin Ended
  <1>1. TypeOK /\ gets \in [Thread -> 0 .. MaxGets] /\ MaxGets \in Nat /\ pc \in [Thread -> PcLabels]
    BY RecordAssumption DEF IInv, TypeInv, TypeOK
  <1>2. \A s \in Thread : s # t => pc'[s] = pc[s]
    BY <1>1, Frame
  <1>3. CASE Get(t)
    <2>1. /\ pc[t] = "idle" /\ gets' = [gets EXCEPT ![t] = @ + 1] /\ head' = head
      BY <1>3 DEF Get, queues
    <2>2. Ended \subseteq Ended'
      <3>1. SUFFICES ASSUME NEW c \in Thread \X (1 .. MaxGets), c \in Ended PROVE c \in Ended'
        BY DEF Ended
      <3>2. CASE c[1] = t
        <4>1. c[2] <= gets[t] /\ gets'[t] = gets[t] + 1 /\ gets[t] \in Nat /\ c[2] \in Nat
          BY <1>1, <2>1, <3>1, <3>2 DEF Ended
        <4>2. QED
          BY <3>1, <3>2, <4>1 DEF Ended
      <3>3. CASE c[1] # t
        BY <1>1, <1>2, <2>1, <3>1, <3>3 DEF Ended
      <3>4. QED
        BY <3>2, <3>3
    <2>3. \A s \in Thread : pc'[s] \in Getting => gets'[s] > 0
      BY <1>1, <1>2, <2>1
    <2>4. QED
      BY <2>1, <2>2, <2>3
  <1>4. CASE ~Get(t)
    <2>1. gets' = gets /\ (pc'[t] \in Getting => pc[t] \in Getting)
      <3> USE DEF Goto
      <3>1. CASE Size(t) \/ Take(t) \/ GetHead(t) \/ GetTail(t) \/ GetNext(t) \/ GetTailCas(t)
        BY <3>1 DEF Size, Take, GetHead, GetTail, GetNext, GetTailCas, Getting, place
      <3>2. CASE GetCheck(t) \/ GetHeadCas(t)
        BY <3>2 DEF GetCheck, GetHeadCas, Getting
      <3>3. CASE Grow(t) \/ GrowRead(t) \/ GrowCas(t) \/ GrowNum(t) \/ GrowNumCas(t)
        BY <3>3 DEF Grow, GrowRead, GrowCas, GrowNum, GrowNumCas, Getting, Growth
      <3>4. CASE \E r \in Record : Return(t, r)
        BY <1>1, <3>4 DEF Return, Getting, Growth
      <3>5. CASE RetMark(t) \/ RetTail(t) \/ RetNext(t) \/ RetCheck(t)
        BY <1>1, <3>5 DEF RetMark, RetTail, RetNext, RetCheck, Getting, Growth
      <3>6. CASE RetAdvance(t) \/ RetCas(t) \/ RetSwing(t)
        BY <1>1, <3>6 DEF RetAdvance, RetCas, RetSwing, Getting, Growth
      <3>7. QED
        BY <1>4, <3>1, <3>2, <3>3, <3>4, <3>5, <3>6 DEF Step
    <2>2. Ended \subseteq Ended'
      BY <1>2, <2>1 DEF Ended
    <2>3. \A s \in Thread : pc'[s] \in Getting => gets'[s] > 0
      BY <1>2, <2>1
    <2>4. CASE head' # head
      <3>1. GetHeadCas(t)
        <4>1. CASE Reading(t)
          BY <2>4, <4>1 DEF Reading, queues, Get, Size, Take, GetHead, GetTail, GetNext, GetCheck, Grow,
             GrowRead, GrowNum, GrowNumCas, Return, RetTail, RetNext, RetCheck
        <4>2. CASE GrowCas(t)
          BY <2>4, <4>2 DEF GrowCas
        <4>3. CASE GetTailCas(t) \/ RetAdvance(t) \/ RetSwing(t)
          BY <2>4, <4>3 DEF GetTailCas, RetAdvance, RetSwing
        <4>4. CASE RetMark(t) \/ RetCas(t)
          BY <2>4, <4>4 DEF RetMark, RetCas
        <4>5. QED
          BY <4>1, <4>2, <4>3, <4>4 DEF Step, Reading
      <3>2. /\ head[array[t]] = headWord[t] /\ pc[t] = "getHeadCas" /\ pc' = [pc EXCEPT ![t] = "idle"]
            /\ head' = [head EXCEPT ![array[t]] = Moved(headWord[t], nextWord[t].idx)]
        BY <2>4, <3>1 DEF GetHeadCas, Goto
      <3>3. Moved(headWord[t], nextWord[t].idx).version = headWord[t].version + 1
        BY <1>1, <3>2, ThreadTypes, Raised DEF Unwrapped
      <3>4. \A a \in Array : head'[a] = head[a] \/ head'[a].version = head[a].version + 1
        BY <1>1, <3>2, <3>3 DEF TypeOK
      <3> DEFINE c == <<t, gets[t]>>
      <3>5. gets[t] \in 1 .. MaxGets /\ "getHeadCas" \in Getting /\ "idle" \notin Getting
        BY <1>1, <3>2 DEF Getting, Growth
      <3>6. c \in Ended'
        BY <1>1, <2>1, <3>2, <3>5 DEF Ended
      <3>7. c \notin Ended
        BY <1>1, <3>2, <3>5 DEF Ended
      <3>8. QED
        BY <2>2, <2>3, <3>4, <3>6, <3>7
    <2>5. QED
      BY <2>2, <2>3, <2>4
  <1>5. QED
    BY <1>3, <1>4

LEMMA CountInductive ==
    ASSUME FewCalls
    PROVE  CountInv /\ [Next]_vars => CountInv'
  <1> SUFFICES ASSUME CountInv, [Next]_vars PROVE CountInv'
    OBVIOUS
  <1>1. IInv /\ Unwrapped /\ IInv'
    BY CountUnwrapped, Inductive DEF CountInv
  <1>2. CASE UNCHANGED vars
    BY <1>1, <1>2 DEF CountInv, Ended, vars, queues
  <1>3. CASE Next
    <2>1. PICK t \in Thread : Get(t) \/ (\E r \in Record : Return(t, r)) \/ Step(t)
      BY <1>3 DEF Next
    <2>2. /\ \A s \in Thread : pc'[s] \in Getting => gets'[s] > 0
          /\ Ended \subseteq Ended'
          /\ \/ head' = head
             \/ /\ \A a \in Array : head'[a] = head[a] \/ head'[a].version = head[a].version + 1
                /\ \E c : c \in Ended' /\ c \notin Ended
      BY <1>1, <2>1, EndedStep DEF CountInv
    <2>3. IsFiniteSet(Ended) /\ IsFiniteSet(Ended') /\ Cardinality(Ended) \in Nat
          /\ Cardinality(Ended') \in Nat
      <3>1. IsFiniteSet(Ended) /\ Cardinality(Ended) \in Nat
        BY EndedFinite
      <3>2. IsFiniteSet(Ended') /\ Cardinality(Ended') \in Nat
        <4>1. IsFiniteSet(Thread \X (1 .. MaxGets))
          <5>1. MaxGets \in Int /\ 1 \in Int
            BY RecordAssumption
          <5>2. IsFiniteSet(1 .. MaxGets)
            BY <5>1, FS_Interval
          <5>3. QED
            BY <5>2, FS_Product DEF FewCalls
        <4>2. Ended' \in SUBSET (Thread \X (1 .. MaxGets))
          BY DEF Ended
        <4>3. QED
          BY <4>1, <4>2, FS_Subset, FS_CardinalityType
      <3>3. QED
        BY <3>1, <3>2
    <2>4. Cardinality(Ended) <= Cardinality(Ended')
      BY <2>2, <2>3, FS_Subset
    <2>5. (\E c : c \in Ended' /\ c \notin Ended) => Cardinality(Ended) + 1 <= Cardinality(Ended')
      <3>1. SUFFICES ASSUME NEW c, c \in Ended', c \notin Ended
                     PROVE  Cardinality(Ended) + 1 <= Cardinality(Ended')
        OBVIOUS
      <3>2. Cardinality(Ended \cup {c}) = Cardinality(Ended) + 1
        BY <2>3, <3>1, FS_AddElement
      <3>3. Ended \cup {c} \in SUBSET Ended'
        BY <2>2, <3>1
      <3>4. QED
        BY <2>3, <3>2, <3>3, FS_Subset
    <2>6. ASSUME NEW a \in Array PROVE head'[a].version <= Cardinality(Ended')
      <3>1. head[a].version \in Nat /\ head[a].version <= Cardinality(Ended)
        BY <1>1, SharedTypes DEF CountInv, IInv, TypeInv
      <3>2. QED
        BY <2>2, <2>3, <2>4, <2>5, <3>1
    <2>7. QED
      BY <1>1, <2>2, <2>6 DEF CountInv
  <1>4. QED
    BY <1>2, <1>3

LEMMA CountInit ==
    ASSUME FewCalls
    PROVE  Init => CountInv
  <1> SUFFICES ASSUME Init PROVE CountInv
    OBVIOUS
  <1>1. \A t \in Thread : pc[t] \notin Getting
    BY DEF Init, Getting, Growth
  <1>2. \A a \in Array : head[a].version = 0
    BY DEF Init, Zero
  <1>3. QED
    BY <1>1, <1>2, InitInv, EndedFinite DEF CountInv

\* With fewer calls of get_Record than there are versions, no version comes to
\* its end, so no Record is handed out twice and none is lost.
THEOREM SafeForFewCalls ==
    ASSUME FewCalls
    PROVE  Spec => [](Exclusive /\ Conserved)
  <1>1. CountInv => Exclusive /\ Conserved
    BY Safe DEF CountInv
  <1>2. QED
    BY <1>1, CountInit, CountInductive, PTL DEF Spec

=============================================================================
