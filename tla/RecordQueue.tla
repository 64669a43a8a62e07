---------------------------- MODULE RecordQueue ----------------------------
(***************************************************************************)
(* The free list of Records: get_Record and return_Record on ARRAYNUM      *)
(* queues of array indices, one action per access to a shared word.        *)
(* hazardpointer_fast.c and most files have all their arrays from the      *)
(* start; hazard_long2.c and its like add one when all queues are down to  *)
(* their last Record, and give way to a thread that is faster.             *)
(*                                                                         *)
(* A word packs an index, a version that every CAS raises and, in "next",  *)
(* the bit that marks the last Record of a queue.  A queue always keeps    *)
(* its last Record: get_Record takes the one at the head and moves the     *)
(* head to its successor.                                                  *)
(***************************************************************************)
EXTENDS RecordWords, FiniteSets

CONSTANTS
    Thread,     \* the threads that take and return Records
    ARRAYNUM_MAX, \* number of queues, a power of two in the code
    ARRAYNUM,   \* number of queues at the start, in the files that grow
    Growing,    \* the files that run: {FALSE} for a fixed number of queues, {TRUE}, or both
    TAKES,      \* values of recordTake, a multiple of every number of queues
    IDXNUM,     \* number of Records of a queue
    MaxGets,    \* bound: calls of get_Record one thread makes
    NoRecord    \* no Record

ASSUME RecordAssumption ==
    /\ ARRAYNUM_MAX \in Nat /\ ARRAYNUM \in 1 .. ARRAYNUM_MAX
    /\ Growing \subseteq BOOLEAN
    /\ TAKES \in Nat \ {0} /\ \A n \in 1 .. ARRAYNUM_MAX : TAKES % n = 0
    /\ IDXNUM \in Nat \ {0}
    /\ VERSIONS \in Nat \ {0} /\ NEXTVERSIONS \in Nat \ {0}
    /\ MaxGets \in Nat

Array == 0 .. ARRAYNUM_MAX - 1
Idx == 0 .. IDXNUM - 1
Record == Array \X Idx
End == [version : 0 .. VERSIONS - 1, idx : Idx]
Next_ == [version : 0 .. NEXTVERSIONS - 1, last : BOOLEAN, idx : Idx]

VARIABLES
    grows,    \* does the file that runs add arrays?
    arrayNum, \* PSLY_Record_ARRAYNUM
    made,     \* the arrays that psly_Records points at
    head,     \* head[a]: the head word of queue a
    tail,     \* tail[a]: its tail word
    next,     \* next[r]: the next word of Record r
    recordTake, \* where the next get_Record begins
    held,     \* held[t]: the Records thread t has taken
    gets,     \* gets[t]: calls of get_Record thread t has made
    pc,       \* pc[t]: the next access of thread t
    array,    \* locals of get_Record and return_Record: the queue,
    localNum, \*     localArrayNum,
    round,    \*     which of the rounds over the queues,
    tried,    \*     the queues tried in this round,
    back,     \*     the Record that is returned,
    headWord, \*     headIndex, tailIndex and nextIndex
    tailWord,
    nextWord

arrays == <<grows, arrayNum, made>>
queues == <<head, tail, next, recordTake>>
place == <<array, localNum, round, tried>>
words == <<headWord, tailWord, nextWord>>
vars == <<arrays, queues, held, gets, pc, place, back, words>>

Zero == [version |-> 0, idx |-> 0]
Last(i) == [version |-> 0, last |-> i = IDXNUM - 1, idx |-> (i + 1) % IDXNUM]

\* INIT_RESOURCE: every queue is a chain of all its Records.
Init ==
    /\ grows \in Growing
    /\ arrayNum = IF grows THEN ARRAYNUM ELSE ARRAYNUM_MAX
    /\ made = 0 .. arrayNum - 1
    /\ head = [a \in Array |-> Zero]
    /\ tail = [a \in Array |-> [version |-> 0, idx |-> IDXNUM - 1]]
    /\ next = [r \in Record |-> Last(r[2])]
    /\ recordTake = 0
    /\ held = [t \in Thread |-> {}]
    /\ gets = [t \in Thread |-> 0]
    /\ pc = [t \in Thread |-> "idle"]
    /\ array = [t \in Thread |-> 0]
    /\ localNum = [t \in Thread |-> arrayNum]
    /\ round = [t \in Thread |-> "take"]
    /\ tried = [t \in Thread |-> 0]
    /\ back = [t \in Thread |-> NoRecord]
    /\ headWord = [t \in Thread |-> Zero]
    /\ tailWord = [t \in Thread |-> Zero]
    /\ nextWord = [t \in Thread |-> Last(0)]

-----------------------------------------------------------------------------

Goto(t, l) == pc' = [pc EXCEPT ![t] = l]

CasTail(t, i) ==
    LET a == array[t]
    IN  tail' = IF tail[a] = tailWord[t] THEN [tail EXCEPT ![a] = Moved(tailWord[t], i)] ELSE tail

-----------------------------------------------------------------------------
(* get_Record                                                              *)

Get(t) ==
    /\ pc[t] = "idle"
    /\ gets[t] < MaxGets
    /\ gets' = [gets EXCEPT ![t] = @ + 1]
    /\ round' = [round EXCEPT ![t] = "take"]
    /\ tried' = [tried EXCEPT ![t] = 0]
    /\ Goto(t, IF grows THEN "size" ELSE "take")
    /\ UNCHANGED <<arrays, queues, held, array, localNum, back, words>>

\* A file that grows tries the youngest queue first.
Size(t) ==
    /\ pc[t] = "size"
    /\ localNum' = [localNum EXCEPT ![t] = arrayNum]
    /\ array' = [array EXCEPT ![t] = arrayNum - 1]
    /\ round' = [round EXCEPT ![t] = "last"]
    /\ tried' = [tried EXCEPT ![t] = 0]
    /\ Goto(t, "getHead")
    /\ UNCHANGED <<arrays, queues, held, gets, back, words>>

\* Mutant: the mask of recordTake is lost.
Take_NoMask(t) ==
    /\ pc[t] = "take"
    /\ array' = [array EXCEPT ![t] = recordTake]
    /\ recordTake' = recordTake + 1
    /\ Goto(t, "getHead")
    /\ UNCHANGED <<arrays, head, tail, next, held, gets, localNum, round, tried, back, words>>

\* A round over the queues begins where recordTake says.
Take(t) ==
    /\ pc[t] = "take"
    /\ array' = [array EXCEPT ![t] = recordTake % localNum[t]]
    /\ recordTake' = (recordTake + 1) % TAKES
    /\ Goto(t, "getHead")
    /\ UNCHANGED <<arrays, head, tail, next, held, gets, localNum, round, tried, back, words>>

GetHead(t) ==
    /\ pc[t] = "getHead"
    /\ headWord' = [headWord EXCEPT ![t] = head[array[t]]]
    /\ Goto(t, "getTail")
    /\ UNCHANGED <<arrays, queues, held, gets, place, back, tailWord, nextWord>>

GetTail(t) ==
    /\ pc[t] = "getTail"
    /\ tailWord' = [tailWord EXCEPT ![t] = tail[array[t]]]
    /\ Goto(t, "getNext")
    /\ UNCHANGED <<arrays, queues, held, gets, place, back, headWord, nextWord>>

GetNext(t) ==
    /\ pc[t] = "getNext"
    /\ nextWord' = [nextWord EXCEPT ![t] = next[<<array[t], headWord[t].idx>>]]
    /\ Goto(t, "getCheck")
    /\ UNCHANGED <<arrays, queues, held, gets, place, back, headWord, tailWord>>

\* Mutant: the round by index goes on until a Record is found.
NextQueue_NoEnd(t) ==
    LET n == IF round[t] = "last" THEN 0 ELSE (tried[t] + 1) % localNum[t]
        r == IF round[t] = "index" \/ (round[t] = "take" /\ n = 0) THEN "index" ELSE "take"
    IN  /\ tried' = [tried EXCEPT ![t] = n]
        /\ round' = [round EXCEPT ![t] = r]
        /\ array' = [array EXCEPT ![t] = IF r = "take" THEN @ ELSE n]
        /\ Goto(t, IF r = "take" THEN "take" ELSE "getHead")

\* Nothing in this queue: on to the next one, after the last round to NULL or
\* to another array.
NextQueue(t) ==
    LET n == IF round[t] = "last" THEN 0 ELSE (tried[t] + 1) % localNum[t]
        r == IF round[t] = "index" \/ (round[t] = "take" /\ n = 0) THEN "index" ELSE "take"
    IN  /\ tried' = [tried EXCEPT ![t] = n]
        /\ round' = [round EXCEPT ![t] = r]
        /\ array' = [array EXCEPT ![t] = IF r = "take" THEN @ ELSE n]
        /\ Goto(t, IF r = "take" THEN "take"
                   ELSE IF round[t] = "take" \/ n # 0 THEN "getHead"
                   ELSE IF grows THEN "grow" ELSE "idle")

GetCheck(t) ==
    /\ pc[t] = "getCheck"
    /\ \/ /\ headWord[t] # head[array[t]]
          /\ Goto(t, "getHead")
          /\ UNCHANGED <<array, round, tried>>
       \/ /\ headWord[t] = head[array[t]]
          /\ headWord[t].idx = tailWord[t].idx
          /\ nextWord[t].last
          /\ NextQueue(t)
       \/ /\ headWord[t] = head[array[t]]
          /\ headWord[t].idx # tailWord[t].idx \/ ~nextWord[t].last
          /\ Goto(t, IF headWord[t].idx = tailWord[t].idx THEN "getTailCas" ELSE "getHeadCas")
          /\ UNCHANGED <<array, round, tried>>
    /\ UNCHANGED <<arrays, queues, held, gets, localNum, back, words>>

GetTailCas(t) ==
    /\ pc[t] = "getTailCas"
    /\ CasTail(t, nextWord[t].idx)
    /\ Goto(t, "getHead")
    /\ UNCHANGED <<arrays, head, next, recordTake, held, gets, place, back, words>>

\* A CAS that fails is tried again; a file that grows leaves the queue to the
\* other thread, but for the round by index.
GetHeadCas(t) ==
    LET a == array[t]
        won == head[a] = headWord[t]
    IN  /\ pc[t] = "getHeadCas"
        /\ \/ /\ won
              /\ head' = [head EXCEPT ![a] = Moved(headWord[t], nextWord[t].idx)]
              /\ held' = [held EXCEPT ![t] = @ \cup {<<a, headWord[t].idx>>}]
              /\ Goto(t, "idle")
              /\ UNCHANGED <<array, round, tried>>
           \/ /\ ~won /\ (~grows \/ round[t] = "index")
              /\ Goto(t, "getHead")
              /\ UNCHANGED <<head, held, array, round, tried>>
           \/ /\ ~won /\ grows /\ round[t] # "index"
              /\ NextQueue(t)
              /\ UNCHANGED <<head, held>>
        /\ UNCHANGED <<arrays, tail, next, recordTake, gets, localNum, back, words>>

-----------------------------------------------------------------------------
(* Another array                                                           *)

\* All queues are down to their last Record.
Grow(t) ==
    /\ pc[t] = "grow"
    /\ Goto(t, IF localNum[t] = ARRAYNUM_MAX THEN "idle"
               ELSE IF localNum[t] = arrayNum THEN "growRead" ELSE "size")
    /\ UNCHANGED <<arrays, queues, held, gets, place, back, words>>

GrowRead(t) ==
    /\ pc[t] = "growRead"
    /\ Goto(t, IF localNum[t] \in made THEN "growNum" ELSE "growCas")
    /\ UNCHANGED <<arrays, queues, held, gets, place, back, words>>

\* Mutant: a plain store in place of the CAS.
GrowCas_Store(t) ==
    LET a == localNum[t]
    IN  /\ pc[t] = "growCas"
        /\ made' = made \cup {a}
        /\ next' = [r \in Record |-> IF r[1] = a THEN Last(r[2]) ELSE next[r]]
        /\ Goto(t, "growNum")
        /\ UNCHANGED <<grows, arrayNum, head, tail, recordTake, held, gets, place, back, words>>

\* The array, with its Records chained, is the next one unless another thread
\* was faster: then it is freed again.
GrowCas(t) ==
    LET a == localNum[t]
    IN  /\ pc[t] = "growCas"
        /\ made' = made \cup {a}
        /\ next' = IF a \in made THEN next
                   ELSE [r \in Record |-> IF r[1] = a THEN Last(r[2]) ELSE next[r]]
        /\ Goto(t, "growNum")
        /\ UNCHANGED <<grows, arrayNum, head, tail, recordTake, held, gets, place, back, words>>

GrowNum(t) ==
    /\ pc[t] = "growNum"
    /\ Goto(t, IF localNum[t] = arrayNum THEN "growNumCas" ELSE "size")
    /\ UNCHANGED <<arrays, queues, held, gets, place, back, words>>

GrowNumCas(t) ==
    /\ pc[t] = "growNumCas"
    /\ arrayNum' = IF arrayNum = localNum[t] THEN localNum[t] + 1 ELSE arrayNum
    /\ Goto(t, "size")
    /\ UNCHANGED <<grows, made, queues, held, gets, place, back, words>>

-----------------------------------------------------------------------------
(* return_Record                                                           *)

Return(t, r) ==
    /\ pc[t] = "idle"
    /\ r \in held[t]
    /\ back' = [back EXCEPT ![t] = r]
    /\ array' = [array EXCEPT ![t] = r[1]]
    /\ nextWord' = [nextWord EXCEPT ![t] = next[r]]
    /\ Goto(t, "retMark")
    /\ UNCHANGED <<arrays, queues, held, gets, localNum, round, tried, headWord, tailWord>>

\* A plain store of the word that was read, with the bit of the last Record.
RetMark(t) ==
    /\ pc[t] = "retMark"
    /\ next' = [next EXCEPT ![back[t]] = Marked(nextWord[t])]
    /\ Goto(t, "retTail")
    /\ UNCHANGED <<arrays, head, tail, recordTake, held, gets, place, back, words>>

RetTail(t) ==
    /\ pc[t] = "retTail"
    /\ tailWord' = [tailWord EXCEPT ![t] = tail[array[t]]]
    /\ Goto(t, "retNext")
    /\ UNCHANGED <<arrays, queues, held, gets, place, back, headWord, nextWord>>

RetNext(t) ==
    /\ pc[t] = "retNext"
    /\ nextWord' = [nextWord EXCEPT ![t] = next[<<array[t], tailWord[t].idx>>]]
    /\ Goto(t, "retCheck")
    /\ UNCHANGED <<arrays, queues, held, gets, place, back, headWord, tailWord>>

RetCheck(t) ==
    /\ pc[t] = "retCheck"
    /\ Goto(t, IF tailWord[t] # tail[array[t]] THEN "retTail"
               ELSE IF nextWord[t].last THEN "retCas" ELSE "retAdvance")
    /\ UNCHANGED <<arrays, queues, held, gets, place, back, words>>

RetAdvance(t) ==
    /\ pc[t] = "retAdvance"
    /\ CasTail(t, nextWord[t].idx)
    /\ Goto(t, "retTail")
    /\ UNCHANGED <<arrays, head, next, recordTake, held, gets, place, back, words>>

\* The CAS that links the Record behind the last one.
RetCas(t) ==
    LET last == <<array[t], tailWord[t].idx>>
    IN  /\ pc[t] = "retCas"
        /\ IF next[last] = nextWord[t]
              THEN /\ next' = [next EXCEPT ![last] = Linked(nextWord[t], back[t][2])]
                   /\ held' = [held EXCEPT ![t] = @ \ {back[t]}]
                   /\ Goto(t, "retSwing")
              ELSE /\ Goto(t, "retTail")
                   /\ UNCHANGED <<next, held>>
        /\ UNCHANGED <<arrays, head, tail, recordTake, gets, place, back, words>>

RetSwing(t) ==
    /\ pc[t] = "retSwing"
    /\ CasTail(t, back[t][2])
    /\ back' = [back EXCEPT ![t] = NoRecord]
    /\ Goto(t, "idle")
    /\ UNCHANGED <<arrays, head, next, recordTake, held, gets, place, words>>

-----------------------------------------------------------------------------

Step(t) ==
    \/ Size(t) \/ Take(t) \/ GetHead(t) \/ GetTail(t) \/ GetNext(t) \/ GetCheck(t)
    \/ GetTailCas(t) \/ GetHeadCas(t)
    \/ Grow(t) \/ GrowRead(t) \/ GrowCas(t) \/ GrowNum(t) \/ GrowNumCas(t)
    \/ RetMark(t) \/ RetTail(t) \/ RetNext(t) \/ RetCheck(t) \/ RetAdvance(t)
    \/ RetCas(t) \/ RetSwing(t)

Next == \E t \in Thread : Get(t) \/ (\E r \in Record : Return(t, r)) \/ Step(t)

Spec == Init /\ [][Next]_vars

\* The scheduler runs every thread; a call is not obliged to happen.
FairSpec == Spec /\ \A t \in Thread : WF_vars(Step(t))

-----------------------------------------------------------------------------

PcLabels == {"idle", "size", "take", "getHead", "getTail", "getNext", "getCheck", "getTailCas",
             "getHeadCas", "retMark", "retTail", "retNext", "retCheck", "retAdvance",
             "retCas", "retSwing", "grow", "growRead", "growCas", "growNum", "growNumCas"}

\* The type of every variable; a thread reads only queues whose array is there.
TypeOK ==
    /\ grows \in Growing /\ arrayNum \in 1 .. ARRAYNUM_MAX
    /\ made \subseteq Array /\ 0 .. arrayNum - 1 \subseteq made
    /\ head \in [Array -> End]
    /\ tail \in [Array -> End]
    /\ next \in [Record -> Next_]
    /\ recordTake \in 0 .. TAKES - 1
    /\ held \in [Thread -> SUBSET Record]
    /\ gets \in [Thread -> 0 .. MaxGets]
    /\ pc \in [Thread -> PcLabels]
    /\ array \in [Thread -> made]
    /\ localNum \in [Thread -> 1 .. arrayNum]
    /\ round \in [Thread -> {"last", "take", "index"}]
    /\ tried \in [Thread -> Array]
    /\ back \in [Thread -> Record \cup {NoRecord}]
    /\ headWord \in [Thread -> End]
    /\ tailWord \in [Thread -> End]
    /\ nextWord \in [Thread -> Next_]

\* The Records of queue a, from the head to the one with the bit.
Chain(a) ==
    LET walk[k \in Idx] ==
            IF k = 0 THEN head[a].idx
            ELSE LET n == next[<<a, walk[k - 1]>>] IN IF n.last THEN walk[k - 1] ELSE n.idx
    IN  {<<a, walk[k]>> : k \in Idx}

\* No Record is handed to two threads, or handed out and still in a queue.
Exclusive ==
    /\ \A s, t \in Thread : s # t => held[s] \cap held[t] = {}
    /\ \A t \in Thread, a \in Array : held[t] \cap Chain(a) = {}

\* No Record is lost: what no thread holds is in its queue, and the tail, where
\* the next Record will be linked, is there too.
Conserved ==
    \A a \in Array :
        /\ \A r \in {a} \X Idx : r \in Chain(a) \/ \E t \in Thread : r \in held[t]
        /\ <<a, tail[a].idx>> \in Chain(a)

\* Every call returns once the others leave it alone.
Completes == \A t \in Thread : pc[t] # "idle" ~> pc[t] = "idle"

=============================================================================
