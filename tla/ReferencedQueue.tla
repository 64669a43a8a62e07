-------------------------- MODULE ReferencedQueue --------------------------
(***************************************************************************)
(* The queue that frees its nodes, of hazardpointer.c and of every file    *)
(* with a reference map, one action per access to shared memory.  A thread *)
(* that has dequeued a node puts it in its retire list, and scan frees     *)
(* what nobody refers to.                                                  *)
(*                                                                         *)
(* A thread says which nodes it is looking at: the older files write their *)
(* addresses into its two hazard pointers; the others count, psly_record,  *)
(* psly_remove and psly_search being one step each on the number of        *)
(* references to an address.  The files also differ in when a reference is *)
(* given up; "file" is the one that runs.                                  *)
(*                                                                         *)
(* A node is named by its address, and malloc may give out any address     *)
(* that is free.  A thread runs the calls of its Program, as thread_routine*)
(* does: enqueues, then dequeues until one finds the queue empty.          *)
(***************************************************************************)
EXTENDS Integers, Sequences, FiniteSets

CONSTANTS
    Thread,     \* the threads
    Program,    \* Program[t]: the calls of thread t, in order
    Address,    \* bound: the addresses malloc can give out
    Dummy,      \* the address of the node main() allocates
    Files,      \* the files that run (ReferencedQueueFiles); of each,
                \*     THRESHOLD, the retired nodes that make a scan worthwhile,
                \*     and MAXTHRES, the slots of a retire list
    flagRet,    \* whether nodes are retired at all
    Null,       \* the null pointer
    NoCall,     \* the value of the first node, which no call has brought
    None,       \* the answer of a call that is not decided
    Empty       \* the answer -1000000

ASSUME ReferencedAssumption ==
    /\ Program \in [Thread -> Seq({"enqueue", "dequeue"})]
    /\ IsFiniteSet(Address) /\ Dummy \in Address /\ Null \notin Address
    /\ \A f \in Files : f.THRESHOLD \in Nat \ {0} /\ f.MAXTHRES \in Nat \ {0}
    /\ flagRet \in BOOLEAN
    /\ {NoCall, None, Empty} \cap (Thread \X Nat) = {}
    /\ None # Empty

Op == UNION {{t} \X DOMAIN Program[t] : t \in Thread}
Pointer == Address \cup {Null}

VARIABLES
    file,     \* the file that runs
    head,     \* Head and Tail, the ends of the queue
    tail,
    next,     \* next[a]: the next field at address a
    value,    \* value[a]: the value field, named by the enqueue that wrote it
    heap,     \* the addresses that are allocated
    refs,     \* refs[p]: the references psly_record holds for pointer p
    hp,       \* hp[t]: the hazard pointers HP[0] and HP[1] of thread t
    list,     \* list[t]: the retire list of thread t
    calls,    \* calls[t]: calls thread t has begun
    result,   \* result[o]: what dequeue o returns, once it is decided
    pc,       \* pc[t]: the next access of thread t
    drops,    \* drops[t]: the references thread t gives up next, 0 for the
              \*     node at t or h, 1 for next,
    then,     \*     and where it goes after that, or after a scan
    node,     \* locals of enqueue and dequeue: node,
    h,        \*     h,
    tl,       \*     t,
    nx,       \*     next,
    data,     \*     data
    slot,     \* the index of the scan,
    unread,   \*     the hazard pointers it has not read yet,
    seen      \*     and those it has found

Slot == 0 .. file.MAXTHRES - 1

memory == <<file, head, tail, next, value, heap, refs, hp, list>>
history == <<calls, result>>
scanning == <<slot, unread, seen>>
locals == <<node, h, tl, nx, data, scanning>>
vars == <<memory, history, pc, drops, then, locals>>

Current(t) == <<t, calls[t]>>

\* main() and allocateHPRec.
Init ==
    /\ file \in Files
    /\ head = Dummy
    /\ tail = Dummy
    /\ next = [a \in Address |-> Null]
    /\ value = [a \in Address |-> NoCall]
    /\ heap = {Dummy}
    /\ refs = [p \in Pointer |-> 0]
    /\ hp = [t \in Thread |-> [k \in {0, 1} |-> Null]]
    /\ list = [t \in Thread |-> [i \in Slot |-> Null]]
    /\ calls = [t \in Thread |-> 0]
    /\ result = [o \in Op |-> None]
    /\ pc = [t \in Thread |-> "idle"]
    /\ drops = [t \in Thread |-> <<>>]
    /\ then = [t \in Thread |-> "idle"]
    /\ node = [t \in Thread |-> Null]
    /\ h = [t \in Thread |-> Null]
    /\ tl = [t \in Thread |-> Null]
    /\ nx = [t \in Thread |-> Null]
    /\ data = [t \in Thread |-> NoCall]
    /\ slot = [t \in Thread |-> 0]
    /\ unread = [t \in Thread |-> {}]
    /\ seen = [t \in Thread |-> {}]

-----------------------------------------------------------------------------

Goto(t, l) == pc' = [pc EXCEPT ![t] = l] /\ UNCHANGED <<drops, then>>

\* Give up the references ks one by one, and go on at l.
DropThen(t, ks, l) ==
    /\ pc' = [pc EXCEPT ![t] = "drop"]
    /\ drops' = [drops EXCEPT ![t] = ks]
    /\ then' = [then EXCEPT ![t] = l]

CasTail(old, new) == tail' = IF tail = old THEN new ELSE tail

counts == file.protect = "counts"
enqueues(t) == Program[t][calls[t]] = "enqueue"

\* The references thread t has after all its records, in the order in which
\* it gives them up.
Held(t) == IF enqueues(t) THEN <<0>> ELSE file.held

\* A thread that starts over, or is done, leaves its hazard pointers as they
\* are; a count has to be given up.
Leave(t, l) == IF counts THEN DropThen(t, Held(t), l) ELSE Goto(t, l)

LeaveEmpty(t) == IF counts THEN DropThen(t, Held(t), "idle") ELSE Goto(t, "return")

\* psly_record(p), or a store into HP[k]
Record(t, k, p, l) ==
    /\ IF counts
          THEN refs' = [refs EXCEPT ![p] = @ + 1] /\ UNCHANGED hp
          ELSE hp' = [hp EXCEPT ![t][k] = p] /\ UNCHANGED refs
    /\ Goto(t, l)
    /\ UNCHANGED <<file, head, tail, next, value, heap, list, history, locals>>

\* psly_remove of the first pointer in drops[t], or NULL for that HP
Drop(t) ==
    LET k == drops[t][1]
        p == IF k = 1 THEN nx[t] ELSE IF enqueues(t) THEN tl[t] ELSE h[t]
    IN  /\ pc[t] = "drop"
        /\ IF counts
              THEN refs' = [refs EXCEPT ![p] = @ - 1] /\ UNCHANGED hp
              ELSE hp' = [hp EXCEPT ![t][k] = Null] /\ UNCHANGED refs
        /\ drops' = [drops EXCEPT ![t] = Tail(@)]
        /\ pc' = [pc EXCEPT ![t] = IF Len(drops[t]) = 1 THEN then[t] ELSE @]
        /\ UNCHANGED <<file, head, tail, next, value, heap, list, history, then, locals>>

-----------------------------------------------------------------------------
(* enqueue                                                                 *)

Begins(t, k) ==
    /\ pc[t] = "idle"
    /\ calls[t] < Len(Program[t])
    /\ Program[t][calls[t] + 1] = k
    /\ calls' = [calls EXCEPT ![t] = @ + 1]

\* posix_memalign and memset; a node of the queue keeps its fields till then.
EnqAlloc(t) ==
    /\ Begins(t, "enqueue")
    /\ \E a \in Address \ heap :
          /\ heap' = heap \cup {a}
          /\ next' = [next EXCEPT ![a] = Null]
          /\ value' = [value EXCEPT ![a] = <<t, calls[t] + 1>>]
          /\ node' = [node EXCEPT ![t] = a]
    /\ Goto(t, "enqTail")
    /\ UNCHANGED <<file, head, tail, refs, hp, list, result, h, tl, nx, data, scanning>>

EnqTail(t) ==
    /\ pc[t] = "enqTail"
    /\ tl' = [tl EXCEPT ![t] = tail]
    /\ Goto(t, "enqRecord")
    /\ UNCHANGED <<memory, history, node, h, nx, data, scanning>>

EnqRecord(t) == pc[t] = "enqRecord" /\ Record(t, 0, tl[t], "enqCheck")

\* Mutant: the reference is kept when the thread starts over.
EnqCheck_Keep(t) ==
    /\ pc[t] = "enqCheck"
    /\ Goto(t, IF tail = tl[t] THEN "enqNext" ELSE "enqTail")
    /\ UNCHANGED <<memory, history, locals>>

\* The enqueue of hazardpointer.c clears HP[0] before it starts over.
StartOver(t) ==
    IF counts \/ file.clears THEN DropThen(t, <<0>>, "enqTail") ELSE Goto(t, "enqTail")

EnqCheck(t) ==
    /\ pc[t] = "enqCheck"
    /\ IF tail = tl[t] THEN Goto(t, "enqNext") ELSE StartOver(t)
    /\ UNCHANGED <<memory, history, locals>>

EnqNext(t) ==
    /\ pc[t] = "enqNext"
    /\ nx' = [nx EXCEPT ![t] = next[tl[t]]]
    /\ Goto(t, "enqRecheck")
    /\ UNCHANGED <<memory, history, node, h, tl, data, scanning>>

\* A thread that is to move Tail gives up its references before or after that.
BeforeTail(t, l) == IF file.tail = "before" THEN DropThen(t, Held(t), l) ELSE Goto(t, l)
AfterTail(t, l) == IF file.tail = "before" THEN Goto(t, l) ELSE Leave(t, l)

\* Tail is a plain variable, and nothing between the two tests of it makes the
\* compiler read it again: the second may go the way of the first.
EnqRecheck(t) ==
    /\ pc[t] = "enqRecheck"
    /\ \/ /\ tail # tl[t]
          /\ StartOver(t)
       \/ /\ nx[t] # Null
          /\ BeforeTail(t, "enqHelp")
       \/ /\ nx[t] = Null
          /\ Goto(t, "enqLink")
    /\ UNCHANGED <<memory, history, locals>>

EnqHelp(t) ==
    /\ pc[t] = "enqHelp"
    /\ CasTail(tl[t], nx[t])
    /\ AfterTail(t, "enqTail")
    /\ UNCHANGED <<file, head, next, value, heap, refs, hp, list, history, locals>>

\* Mutant: a store in place of the CAS.
EnqLink_Store(t) ==
    /\ pc[t] = "enqLink"
    /\ next' = [next EXCEPT ![tl[t]] = node[t]]
    /\ BeforeTail(t, "enqSwing")
    /\ UNCHANGED <<file, head, tail, value, heap, refs, hp, list, history, locals>>

EnqLink(t) ==
    /\ pc[t] = "enqLink"
    /\ IF next[tl[t]] = Null
          THEN /\ next' = [next EXCEPT ![tl[t]] = node[t]]
               /\ BeforeTail(t, "enqSwing")
          ELSE /\ Leave(t, "enqTail")
               /\ UNCHANGED next
    /\ UNCHANGED <<file, head, tail, value, heap, refs, hp, list, history, locals>>

EnqSwing(t) ==
    /\ pc[t] = "enqSwing"
    /\ CasTail(tl[t], node[t])
    /\ IF file.tail = "before" THEN Goto(t, "idle") ELSE DropThen(t, <<0>>, "idle")
    /\ UNCHANGED <<file, head, next, value, heap, refs, hp, list, history, locals>>

-----------------------------------------------------------------------------
(* dequeue                                                                 *)

\* thread_routine dequeues until the queue is empty.
DeqBegin(t) ==
    /\ Begins(t, "dequeue")
    /\ calls[t] = 0 \/ result[Current(t)] # Empty
    /\ Goto(t, "deqHead")
    /\ UNCHANGED <<memory, result, locals>>

DeqHead(t) ==
    /\ pc[t] = "deqHead"
    /\ h' = [h EXCEPT ![t] = head]
    /\ Goto(t, "deqRecord")
    /\ UNCHANGED <<memory, history, node, tl, nx, data, scanning>>

DeqRecord(t) == pc[t] = "deqRecord" /\ Record(t, 0, h[t], "deqCheck")

\* Mutant: Head is not read again once the reference is recorded.
DeqCheck_Trust(t) ==
    /\ pc[t] = "deqCheck"
    /\ Goto(t, "deqTail")
    /\ UNCHANGED <<memory, history, locals>>

DeqCheck(t) ==
    /\ pc[t] = "deqCheck"
    /\ IF head = h[t] THEN Goto(t, "deqTail")
       ELSE IF counts THEN DropThen(t, <<0>>, "deqHead") ELSE Goto(t, "deqHead")
    /\ UNCHANGED <<memory, history, locals>>

DeqTail(t) ==
    /\ pc[t] = "deqTail"
    /\ tl' = [tl EXCEPT ![t] = tail]
    /\ Goto(t, "deqNext")
    /\ UNCHANGED <<memory, history, node, h, nx, data, scanning>>

\* hazardloop.c gives up its reference to h here, and knows an empty queue.
DeqNext(t) ==
    /\ pc[t] = "deqNext"
    /\ nx' = [nx EXCEPT ![t] = next[h[t]]]
    /\ IF file.held # <<1>> THEN Goto(t, "deqRecordNext") /\ UNCHANGED result
       ELSE /\ DropThen(t, <<0>>, IF nx'[t] = Null THEN "idle" ELSE "deqRecordNext")
            /\ result' = IF nx'[t] = Null THEN [result EXCEPT ![Current(t)] = Empty] ELSE result
    /\ UNCHANGED <<memory, calls, node, h, tl, data, scanning>>

DeqRecordNext(t) == pc[t] = "deqRecordNext" /\ Record(t, 1, nx[t], "deqRecheck")

\* Mutant: the test for an empty queue comes after the one for a lagging tail.
DeqRecheck_Swapped(t) ==
    /\ pc[t] = "deqRecheck"
    /\ \/ /\ head # h[t]
          /\ Leave(t, "deqHead")
          /\ UNCHANGED result
       \/ /\ head = h[t] /\ h[t] = tl[t]
          /\ BeforeTail(t, "deqHelp")
          /\ UNCHANGED result
       \/ /\ head = h[t] /\ h[t] # tl[t] /\ nx[t] = Null
          /\ LeaveEmpty(t)
          /\ result' = [result EXCEPT ![Current(t)] = Empty]
       \/ /\ head = h[t] /\ h[t] # tl[t] /\ nx[t] # Null
          /\ Goto(t, "deqValue")
          /\ UNCHANGED result
    /\ UNCHANGED <<memory, calls, locals>>

DeqRecheck(t) ==
    /\ pc[t] = "deqRecheck"
    /\ \/ /\ head # h[t]
          /\ Leave(t, "deqHead")
          /\ UNCHANGED result
       \/ /\ head = h[t] /\ nx[t] = Null
          /\ LeaveEmpty(t)
          /\ result' = [result EXCEPT ![Current(t)] = Empty]
       \/ /\ head = h[t] /\ nx[t] # Null /\ h[t] = tl[t]
          /\ BeforeTail(t, "deqHelp")
          /\ UNCHANGED result
       \/ /\ head = h[t] /\ nx[t] # Null /\ h[t] # tl[t]
          /\ Goto(t, "deqValue")
          /\ UNCHANGED result
    /\ UNCHANGED <<memory, calls, locals>>

DeqHelp(t) ==
    /\ pc[t] = "deqHelp"
    /\ CasTail(tl[t], nx[t])
    /\ AfterTail(t, "deqHead")
    /\ UNCHANGED <<file, head, next, value, heap, refs, hp, list, history, locals>>

DeqValue(t) ==
    /\ pc[t] = "deqValue"
    /\ data' = [data EXCEPT ![t] = value[nx[t]]]
    /\ IF file.head = "before" THEN DropThen(t, file.held, "deqCas") ELSE Goto(t, "deqCas")
    /\ UNCHANGED <<memory, history, node, h, tl, nx, scanning>>

\* The references are given up before this CAS or after it.
DeqCas(t) ==
    LET l == IF flagRet THEN "retire" ELSE "return"
    IN  /\ pc[t] = "deqCas"
        /\ IF head = h[t]
              THEN /\ head' = nx[t]
                   /\ result' = [result EXCEPT ![Current(t)] = data[t]]
                   /\ IF file.head = "before" THEN Goto(t, l) ELSE DropThen(t, file.held, l)
              ELSE /\ IF file.head = "before" THEN Goto(t, "deqHead") ELSE Leave(t, "deqHead")
                   /\ UNCHANGED <<head, result>>
        /\ UNCHANGED <<file, tail, next, value, heap, refs, hp, list, calls, locals>>

Return(t) ==
    /\ pc[t] = "return"
    /\ Goto(t, "idle")
    /\ UNCHANGED <<memory, history, locals>>

-----------------------------------------------------------------------------
(* retireNode and scan                                                     *)

Used(t) == {i \in Slot : list[t][i] # Null}
Least(S) == CHOOSE i \in S : \A j \in S : i <= j

\* The hazard pointers of the other threads; those of the thread that scans
\* are NULL then.
Others(t) == (Thread \ {t}) \X {0, 1}

\* hazardpointerslow.c first gathers all hazard pointers.
ScanThen(t, l) ==
    /\ pc' = [pc EXCEPT ![t] = IF file.scan = "gathered" THEN "gather" ELSE "scan"]
    /\ then' = [then EXCEPT ![t] = l]
    /\ slot' = [slot EXCEPT ![t] = 0]
    /\ unread' = [unread EXCEPT ![t] = IF file.scan = "gathered" THEN Others(t) ELSE {}]
    /\ seen' = [seen EXCEPT ![t] = {}]
    /\ UNCHANGED drops

\* A full list is scanned until a slot is free.
Retire(t) ==
    /\ pc[t] = "retire"
    /\ IF Used(t) = Slot
          THEN /\ ScanThen(t, "retire")
               /\ UNCHANGED list
          ELSE /\ list' = [list EXCEPT ![t][Least(Slot \ Used(t))] = h[t]]
               /\ IF Cardinality(Used(t)) + 1 >= file.THRESHOLD
                     THEN ScanThen(t, "idle")
                     ELSE Goto(t, "idle") /\ UNCHANGED scanning
    /\ UNCHANGED <<file, head, tail, next, value, heap, refs, hp, history, node, h, tl, nx, data>>

\* When its dequeues are done, thread_routine scans once more, in the files
\* that count.
Finish(t) ==
    /\ pc[t] = "idle"
    /\ counts
    /\ calls[t] # 0 /\ result[Current(t)] = Empty
    /\ ScanThen(t, "done")
    /\ UNCHANGED <<memory, history, node, h, tl, nx, data>>

\* The next hazard pointer the scan of t reads: HP[0] of a thread before HP[1].
ReadNext(t, s, k) == <<s, k>> \in unread[t] /\ (k = 0 \/ <<s, 0>> \notin unread[t])

Gather(t, s, k) ==
    /\ pc[t] = "gather"
    /\ ReadNext(t, s, k)
    /\ seen' = [seen EXCEPT ![t] = @ \cup {hp[s][k]}]
    /\ unread' = [unread EXCEPT ![t] = @ \ {<<s, k>>}]
    /\ Goto(t, IF unread'[t] = {} THEN "scan" ELSE "gather")
    /\ UNCHANGED <<memory, history, node, h, tl, nx, data, slot>>

\* The next node of the list: psly_search for it, or isInpre, or isIn.
Scan(t) ==
    LET rest == {i \in Used(t) : slot[t] <= i}
        i == Least(rest)
        free == IF counts THEN refs[list[t][i]] = 0 ELSE list[t][i] \notin seen[t]
        go(l, n) == Goto(t, l) /\ slot' = [slot EXCEPT ![t] = n]
    IN  /\ pc[t] = "scan"
        /\ \/ /\ rest = {}
              /\ go(then[t], 0)
              /\ seen' = [seen EXCEPT ![t] = {}]
              /\ UNCHANGED unread
           \/ /\ rest # {} /\ file.scan = "each"
              /\ go("isIn", i)
              /\ unread' = [unread EXCEPT ![t] = Others(t)]
              /\ UNCHANGED seen
           \/ /\ rest # {} /\ file.scan # "each"
              /\ IF free THEN go("free", i) ELSE go("scan", i + 1)
              /\ UNCHANGED <<unread, seen>>
        /\ UNCHANGED <<memory, history, node, h, tl, nx, data>>

IsIn(t, s, k) ==
    LET found == hp[s][k] = list[t][slot[t]]
    IN  /\ pc[t] = "isIn"
        /\ ReadNext(t, s, k)
        /\ unread' = [unread EXCEPT ![t] = IF found THEN {} ELSE @ \ {<<s, k>>}]
        /\ slot' = [slot EXCEPT ![t] = IF found THEN @ + 1 ELSE @]
        /\ Goto(t, IF found THEN "scan" ELSE IF unread'[t] = {} THEN "free" ELSE "isIn")
        /\ UNCHANGED <<memory, history, node, h, tl, nx, data, seen>>

Free(t) ==
    /\ pc[t] = "free"
    /\ heap' = heap \ {list[t][slot[t]]}
    /\ list' = [list EXCEPT ![t][slot[t]] = Null]
    /\ slot' = [slot EXCEPT ![t] = @ + 1]
    /\ Goto(t, "scan")
    /\ UNCHANGED <<file, head, tail, next, value, refs, hp, history, node, h, tl, nx, data, unread, seen>>

-----------------------------------------------------------------------------

Step(t) ==
    \/ Drop(t) \/ EnqTail(t) \/ EnqRecord(t) \/ EnqCheck(t) \/ EnqNext(t) \/ EnqRecheck(t)
    \/ EnqHelp(t) \/ EnqLink(t) \/ EnqSwing(t)
    \/ DeqHead(t) \/ DeqRecord(t) \/ DeqCheck(t) \/ DeqTail(t) \/ DeqNext(t)
    \/ DeqRecordNext(t) \/ DeqRecheck(t) \/ DeqHelp(t) \/ DeqValue(t) \/ DeqCas(t) \/ Return(t)
    \/ Retire(t) \/ Finish(t) \/ Scan(t) \/ Free(t)
    \/ \E s \in Thread, k \in {0, 1} : Gather(t, s, k) \/ IsIn(t, s, k)

Next == \E t \in Thread : EnqAlloc(t) \/ DeqBegin(t) \/ Step(t)

Spec == Init /\ [][Next]_vars

-----------------------------------------------------------------------------

PcLabels == {"idle", "done", "drop", "enqTail", "enqRecord", "enqCheck", "enqNext",
             "enqRecheck", "enqHelp", "enqLink", "enqSwing", "deqHead", "deqRecord",
             "deqCheck", "deqTail", "deqNext", "deqRecordNext", "deqRecheck", "deqHelp",
             "deqValue", "deqCas", "return", "retire", "gather", "scan", "isIn", "free"}

\* The type of every variable.
TypeOK ==
    /\ file \in Files
    /\ head \in Address /\ tail \in Address
    /\ next \in [Address -> Pointer]
    /\ value \in [Address -> Op \cup {NoCall}]
    /\ heap \subseteq Address
    /\ refs \in [Pointer -> Nat]
    /\ hp \in [Thread -> [{0, 1} -> Pointer]]
    /\ list \in [Thread -> [Slot -> Pointer]]
    /\ calls \in [Thread -> Nat]
    /\ result \in [Op -> Op \cup {None, Empty}]
    /\ pc \in [Thread -> PcLabels]
    /\ drops \in [Thread -> Seq({0, 1})]
    /\ then \in [Thread -> PcLabels]
    /\ node \in [Thread -> Pointer]
    /\ h \in [Thread -> Pointer] /\ tl \in [Thread -> Pointer] /\ nx \in [Thread -> Pointer]
    /\ data \in [Thread -> Op \cup {NoCall}]
    /\ slot \in [Thread -> 0 .. file.MAXTHRES]
    /\ unread \in [Thread -> SUBSET (Thread \X {0, 1})] /\ seen \in [Thread -> SUBSET Pointer]

\* The node thread t reads or writes in its next step, if there is one.
Touched(t) ==
    IF pc[t] \in {"enqNext", "enqLink"} THEN {tl[t]}
    ELSE IF pc[t] = "deqNext" THEN {h[t]}
    ELSE IF pc[t] = "deqValue" THEN {nx[t]}
    ELSE {}

\* No thread is about to read or write a node that has been freed.
NoUseAfterFree == \A t \in Thread : Touched(t) \subseteq heap

\* The nodes of the queue, the first one included.
Chain ==
    LET walk[k \in 0 .. Cardinality(Address)] ==
            IF k = 0 THEN {head}
            ELSE LET w == walk[k - 1] IN w \cup ({next[a] : a \in w} \ {Null})
    IN  walk[Cardinality(Address)]

\* No node is lost and no reference is left behind: at the end of all threads
\* what is allocated is in the queue or still in a retire list.
NoLeak ==
    (\A t \in Thread : pc[t] \in {"idle", "done"}) =>
        /\ \A p \in Pointer : refs[p] = 0
        /\ flagRet => heap = Chain \cup UNION {{list[t][i] : i \in Used(t)} : t \in Thread}

\* A node is never linked behind itself ("is something wrong!").
NotItself == \A t \in Thread : pc[t] = "drop" /\ then[t] = "enqSwing" => tl[t] # node[t]

=============================================================================
