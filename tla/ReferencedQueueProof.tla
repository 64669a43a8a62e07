------------------------ MODULE ReferencedQueueProof ------------------------
(***************************************************************************)
(* The queue of hazardpointerslow.c, for every number of threads,          *)
(* addresses and calls: no thread reads or writes a node that has been     *)
(* freed, every call is linearizable, and no node is lost.                 *)
(*                                                                         *)
(* What makes it so: the nodes of the queue are numbered by place and      *)
(* taken; a node that is retired has a number below taken.  A hazard       *)
(* pointer protects a node once its thread has found the node in the       *)
(* queue, so no thread begins to protect a node that is retired, and a     *)
(* scan that has read a hazard pointer need not read it again.             *)
(***************************************************************************)
EXTENDS ReferencedQueueHistory, TLAPS, FiniteSetTheorems, WellFoundedInduction

\* The files that keep their hazard pointers until their CASes are done.
KeepsHazards(f) == \A k \in DOMAIN hazardpointerslow : f[k] = hazardpointerslow[k]

-----------------------------------------------------------------------------
(* The invariant.                                                          *)

\* The number of the node at address a: the first one has brought no element.
pos(a) == IF value[a] = NoCall THEN 0 ELSE place[value[a]]

Linked(a) == a \in heap /\ (value[a] = NoCall \/ place[value[a]] # 0)
InQueue(a) == Linked(a) /\ taken <= pos(a)
Gone(a) == Linked(a) /\ pos(a) < taken

EnqPc == {"enqTail", "enqRecord", "enqCheck", "enqNext", "enqRecheck", "enqHelp", "enqLink"}
TailPc == {"enqNext", "enqRecheck", "enqHelp", "enqLink", "enqSwing"}
HeadPc == {"deqTail", "deqNext", "deqRecordNext", "deqRecheck", "deqHelp", "deqValue", "deqCas"}
ScanPc == {"gather", "scan", "free"}

\* Thread t has dequeued the node at h, and has yet to retire it.
Leaves(t) == pc[t] = "retire" \/ (pc[t] \in ScanPc \cup {"drop"} /\ then[t] = "retire")

\* Hazard pointer k of t protects the node at a: t has found the node in the
\* queue since it wrote the address.
Guards(t, k, a) ==
    /\ hp[t][k] = a
    /\ (k = 0 /\ pc[t] \in TailPc \cup HeadPc) \/ (k = 1 /\ pc[t] = "deqValue")

\* One node for an element, one place for a node.
HeapInv ==
    /\ IsFiniteSet({o \in Op : place[o] # 0})
    /\ \A o \in Op : place[o] <= back
    /\ \A o \in Op : place[o] # 0 => o[2] <= calls[o[1]]
    /\ \A o, q \in Op : place[o] = place[q] /\ place[o] # 0 => o = q
    /\ \A a, b \in heap : value[a] = value[b] => a = b
    /\ \A a \in heap : value[a] # NoCall => value[a][2] <= calls[value[a][1]]

\* The nodes of the queue are a chain from Head to back, and Tail lags by one
\* node at most.
ChainInv ==
    /\ Linked(head) /\ pos(head) = taken
    /\ Linked(tail) /\ taken <= pos(tail) /\ back <= pos(tail) + 1
    /\ \A a \in heap : Linked(a) => (next[a] = Null <=> pos(a) = back)
    /\ \A a \in heap : InQueue(a) /\ next[a] # Null =>
         InQueue(next[a]) /\ pos(next[a]) = pos(a) + 1

\* A node that has left the queue is with one thread, or in one slot.
RetireInv ==
    /\ \A t \in Thread : Leaves(t) => Gone(h[t])
    /\ \A t \in Thread, i \in Slot : list[t][i] # Null => Gone(list[t][i])
    /\ \A s, t \in Thread : Leaves(s) /\ Leaves(t) /\ h[s] = h[t] => s = t
    /\ \A s, t \in Thread, i \in Slot : Leaves(s) => h[s] # list[t][i]
    /\ \A s, t \in Thread, i, j \in Slot :
         list[s][i] = list[t][j] /\ list[s][i] # Null => s = t /\ i = j

\* Where a thread goes on.
PathInv(t) ==
    /\ pc[t] \notin {"done", "isIn"}
    /\ then[t] \in {"idle", "retire", "return"}
    /\ pc[t] = "drop" => drops[t] \in {<<0>>, <<0, 1>>, <<1>>}
    /\ pc[t] \in ScanPc => then[t] # "return"

\* What it knows in enqueue.
EnqInv(t) ==
    /\ pc[t] \in EnqPc =>
         /\ node[t] \in heap /\ value[node[t]] = Current(t) /\ Current(t) \in Op
         /\ place[Current(t)] = 0 /\ next[node[t]] = Null
    /\ pc[t] \in TailPc \cup {"enqCheck"} => hp[t][0] = tl[t]
    /\ pc[t] \in TailPc => Linked(tl[t]) /\ pos(tl[t]) <= pos(tail)
    /\ pc[t] \in {"enqRecheck", "enqHelp"} /\ nx[t] # Null => next[tl[t]] = nx[t]
    /\ pc[t] = "enqHelp" => nx[t] # Null
    /\ pc[t] = "enqSwing" => next[tl[t]] = node[t] /\ node[t] # Null

\* What it knows in dequeue.
DeqInv(t) ==
    /\ pc[t] \in HeadPc \cup {"deqCheck"} => hp[t][0] = h[t]
    /\ pc[t] \in HeadPc => Linked(h[t]) /\ pos(h[t]) <= taken
    /\ pc[t] \in HeadPc \ {"deqTail"} /\ tl[t] # h[t] => pos(h[t]) < pos(tail)
    /\ pc[t] \in HeadPc \ {"deqTail", "deqNext"} /\ nx[t] # Null => next[h[t]] = nx[t]
    /\ pc[t] \in {"deqRecheck", "deqValue"} => hp[t][1] = nx[t]
    /\ pc[t] \in {"deqHelp", "deqValue", "deqCas"} => nx[t] # Null
    /\ pc[t] = "deqHelp" => tl[t] = h[t]
    /\ pc[t] \in {"deqValue", "deqCas"} => tl[t] # h[t]
    /\ pc[t] = "deqValue" => nx[t] \in heap
    /\ pc[t] = "deqCas" /\ head = h[t] => data[t] = value[nx[t]]

\* A scan has met, or will meet, every hazard pointer that protects a node it
\* may free.
ScanInv(t) ==
    /\ pc[t] \in ScanPc =>
         \A i \in Slot, s \in Thread \ {t}, k \in {0, 1} :
             slot[t] <= i /\ list[t][i] # Null /\ Guards(s, k, list[t][i]) =>
                 <<s, k>> \in unread[t] \/ list[t][i] \in seen[t]
    /\ pc[t] \in {"scan", "free"} => unread[t] = {}
    /\ pc[t] = "free" => slot[t] \in Slot /\ list[t][slot[t]] # Null
                         /\ list[t][slot[t]] \notin seen[t]

SharedInv ==
    /\ TypeOK /\ KeepsHazards(file)
    /\ place \in [Op -> Nat] /\ taken \in Nat
    /\ HeapInv /\ ChainInv /\ RetireInv

LocalInv(t) == PathInv(t) /\ EnqInv(t) /\ DeqInv(t) /\ ScanInv(t)

IInv == SharedInv /\ \A t \in Thread : LocalInv(t)

-----------------------------------------------------------------------------
(* The file, the calls and the numbers of nodes.                           *)

LEMMA SlowFile ==
    ASSUME KeepsHazards(file)
    PROVE  /\ ~counts
           /\ file.held = <<0, 1>> /\ file.tail = "after" /\ file.head = "after"
           /\ file.scan = "gathered" /\ ~file.clears
  <1>1. {"protect", "held", "tail", "head", "scan", "clears"} \subseteq DOMAIN hazardpointerslow
    BY DEF hazardpointerslow
  <1>2. /\ file.protect = "hazards" /\ file.held = <<0, 1>> /\ file.tail = "after"
        /\ file.head = "after" /\ file.scan = "gathered" /\ file.clears = FALSE
    BY <1>1 DEF KeepsHazards, hazardpointerslow
  <1>3. QED
    BY <1>2 DEF counts

LEMMA OpFacts ==
    /\ \A t \in Thread : Len(Program[t]) \in Nat /\ DOMAIN Program[t] = 1 .. Len(Program[t])
    /\ \A o \in Op : o[1] \in Thread /\ o[2] \in 1 .. Len(Program[o[1]]) /\ o = <<o[1], o[2]>>
    /\ \A o \in Op : o[2] \in Nat /\ o[2] # 0
    /\ \A t \in Thread, k \in Nat : k \in 1 .. Len(Program[t]) => <<t, k>> \in Op
    /\ NoCall \notin Op /\ None \notin Op /\ Empty \notin Op /\ None # Empty
    /\ Null \notin Address
  <1>1. \A t \in Thread : Len(Program[t]) \in Nat /\ DOMAIN Program[t] = 1 .. Len(Program[t])
    BY ReferencedAssumption DEF ReferencedAssumption
  <1>2. \A o \in Op : o[1] \in Thread /\ o[2] \in 1 .. Len(Program[o[1]]) /\ o = <<o[1], o[2]>>
    BY <1>1 DEF Op
  <1>3. \A t \in Thread, k \in Nat : k \in 1 .. Len(Program[t]) => <<t, k>> \in Op
    BY <1>1 DEF Op
  <1>4. ASSUME NEW o \in Op PROVE o[2] \in Nat /\ o[2] # 0 /\ o \in Thread \X Nat
    <2>1. o[1] \in Thread /\ o[2] \in 1 .. Len(Program[o[1]]) /\ Len(Program[o[1]]) \in Nat
      BY <1>1, <1>2
    <2>2. o[2] \in Nat /\ o[2] # 0
      BY <2>1
    <2>3. QED
      BY <1>2, <2>1, <2>2
  <1>5. NoCall \notin Op /\ None \notin Op /\ Empty \notin Op /\ None # Empty /\ Null \notin Address
    <2>1. {NoCall, None, Empty} \cap (Thread \X Nat) = {} /\ None # Empty /\ Null \notin Address
      BY ReferencedAssumption DEF ReferencedAssumption
    <2>2. QED
      BY <1>4, <2>1
  <1>6. QED
    BY <1>1, <1>2, <1>3, <1>4, <1>5

\* A set of numbers has a least one.
LEMMA LeastIn ==
    ASSUME NEW S, S \subseteq Nat, S # {}
    PROVE  Least(S) \in S /\ \A j \in S : Least(S) <= j
  <1> DEFINE R == OpToRel(<, Nat)
  <1>1. S \subseteq Nat /\ S # {} /\ IsWellFoundedOn(R, Nat)
    BY NatLessThanWellFounded
  <1>2. PICK i \in S : \A j \in S : <<j, i>> \notin R
    <2> HIDE DEF R
    <2> QED
      BY ONLY <1>1, WFMin
  <1>3. \A j \in S : i <= j
    <2>1. \A j \in S : ~(j < i)
      BY <1>2 DEF OpToRel
    <2>2. QED
      BY <2>1
  <1>4. QED
    BY <1>3 DEF Least

\* What TypeOK says of single fields.
LEMMA FieldTypes ==
    ASSUME TypeOK
    PROVE  /\ \A a \in heap : a \in Address /\ a # Null
           /\ \A a \in Address : next[a] \in Pointer /\ value[a] \in Op \cup {NoCall}
           /\ file.MAXTHRES \in Nat \ {0} /\ Slot \subseteq Nat
           /\ \A t \in Thread : \A i \in Slot : list[t][i] \in Pointer
           /\ \A t \in Thread : calls[t] \in Nat /\ slot[t] \in Nat /\ slot[t] <= file.MAXTHRES
           /\ \A t \in Thread : h[t] \in Pointer /\ tl[t] \in Pointer /\ nx[t] \in Pointer
                                /\ node[t] \in Pointer
           /\ \A t \in Thread : hp[t][0] \in Pointer /\ hp[t][1] \in Pointer
           /\ \A p \in Pointer : p # Null => p \in Address
  <1>1. file \in Files /\ file.MAXTHRES \in Nat \ {0}
    BY ReferencedAssumption DEF TypeOK, ReferencedAssumption
  <1>2. Slot \subseteq Nat
    BY <1>1 DEF Slot
  <1>3. \A t \in Thread : \A i \in Slot : list[t][i] \in Pointer
    BY DEF TypeOK
  <1>4. ASSUME NEW t \in Thread PROVE slot[t] \in Nat /\ slot[t] <= file.MAXTHRES
    <2>1. slot[t] \in 0 .. file.MAXTHRES
      BY DEF TypeOK
    <2>2. QED
      BY <1>1, <2>1
  <1>5. \A a \in heap : a \in Address /\ a # Null
    BY OpFacts DEF TypeOK
  <1>6. \A t \in Thread : hp[t][0] \in Pointer /\ hp[t][1] \in Pointer
    BY DEF TypeOK
  <1>7. QED
    BY <1>1, <1>2, <1>3, <1>4, <1>5, <1>6 DEF TypeOK, Pointer

\* The numbers of the nodes, and that they tell them apart.
LEMMA Places ==
    ASSUME SharedInv
    PROVE  /\ back \in Nat
           /\ \A a \in heap : pos(a) \in Nat /\ pos(a) <= back
           /\ \A a, b \in heap : Linked(a) /\ Linked(b) /\ pos(a) = pos(b) => a = b
           /\ \A a \in heap : value[a] # NoCall => value[a] \in Op
  <1>1. TypeOK /\ HeapInv /\ place \in [Op -> Nat]
    BY DEF SharedInv
  <1>2. back \in Nat
    BY <1>1, FS_CardinalityType DEF HeapInv, back
  <1>3. \A a \in heap : value[a] # NoCall => value[a] \in Op
    BY <1>1, FieldTypes
  <1>4. \A o \in Op : place[o] \in Nat /\ place[o] <= back
    BY <1>1 DEF HeapInv
  <1>5. \A a \in heap : pos(a) \in Nat /\ pos(a) <= back
    BY <1>2, <1>3, <1>4 DEF pos
  <1>6. ASSUME NEW a \in heap, NEW b \in heap, Linked(a), Linked(b), pos(a) = pos(b)
        PROVE  a = b
    <2>1. value[a] = value[b]
      BY <1>1, <1>3, <1>4, <1>6 DEF HeapInv, pos, Linked
    <2>2. QED
      BY <1>1, <2>1 DEF HeapInv
  <1>7. QED
    BY <1>2, <1>3, <1>5, <1>6

\* Head and Tail are in the queue.
LEMMA Ends ==
    ASSUME SharedInv
    PROVE  /\ head \in heap /\ tail \in heap /\ InQueue(head) /\ InQueue(tail)
           /\ pos(head) = taken /\ pos(tail) \in Nat /\ taken \in Nat
           /\ taken <= pos(tail) /\ pos(tail) <= back /\ taken <= back /\ back <= pos(tail) + 1
  <1>1. /\ Linked(head) /\ pos(head) = taken /\ Linked(tail) /\ taken <= pos(tail)
        /\ back <= pos(tail) + 1 /\ taken \in Nat
    BY DEF SharedInv, ChainInv
  <1>2. head \in heap /\ tail \in heap
    BY <1>1 DEF Linked
  <1>3. QED
    BY <1>1, <1>2, Places DEF InQueue

-----------------------------------------------------------------------------
(* What every step leaves alone.                                           *)

OthersSame(t) ==
    \A u \in Thread \ {t} :
        /\ pc'[u] = pc[u] /\ drops'[u] = drops[u] /\ then'[u] = then[u]
        /\ node'[u] = node[u] /\ h'[u] = h[u] /\ tl'[u] = tl[u] /\ nx'[u] = nx[u]
        /\ data'[u] = data[u] /\ slot'[u] = slot[u] /\ unread'[u] = unread[u]
        /\ seen'[u] = seen[u] /\ hp'[u] = hp[u] /\ list'[u] = list[u] /\ calls'[u] = calls[u]

\* The variables that have a field for each thread.
Fields ==
    /\ pc = [u \in Thread |-> pc[u]] /\ drops = [u \in Thread |-> drops[u]]
    /\ then = [u \in Thread |-> then[u]] /\ node = [u \in Thread |-> node[u]]
    /\ h = [u \in Thread |-> h[u]] /\ tl = [u \in Thread |-> tl[u]]
    /\ nx = [u \in Thread |-> nx[u]] /\ data = [u \in Thread |-> data[u]]
    /\ slot = [u \in Thread |-> slot[u]] /\ unread = [u \in Thread |-> unread[u]]
    /\ seen = [u \in Thread |-> seen[u]] /\ hp = [u \in Thread |-> hp[u]]
    /\ list = [u \in Thread |-> list[u]] /\ calls = [u \in Thread |-> calls[u]]

\* The steps that leave the queue, the heap and the retire lists alone.
Quiet(t) ==
    \/ Drop(t) \/ EnqTail(t) \/ EnqRecord(t) \/ EnqCheck(t) \/ EnqNext(t) \/ EnqRecheck(t)
    \/ DeqHead(t) \/ DeqRecord(t) \/ DeqCheck(t) \/ DeqTail(t) \/ DeqNext(t)
    \/ DeqRecordNext(t) \/ DeqRecheck(t) \/ DeqValue(t) \/ Return(t) \/ Scan(t) \/ DeqBegin(t)
    \/ \E s \in Thread, k \in {0, 1} : Gather(t, s, k)

LEMMA QuietKeeps ==
    ASSUME SharedInv, NEW t \in Thread, Quiet(t)
    PROVE  /\ UNCHANGED <<file, head, tail, next, value, heap, refs, list>>
           /\ OthersSame(t)
           /\ calls[t] <= calls'[t]
  <1>0. TypeOK /\ KeepsHazards(file) /\ calls[t] \in Nat
    BY DEF SharedInv, TypeOK
  <1>1. ~counts /\ Fields /\ calls[t] \in Nat
    BY <1>0, SlowFile DEF TypeOK, Fields
  <1> USE <1>1 DEF Fields, OthersSame, memory, history, scanning, locals, Goto, DropThen
  <1>2. CASE Drop(t)
    BY <1>2 DEF Drop
  <1>3. CASE EnqTail(t) \/ EnqNext(t)
    BY <1>3 DEF EnqTail, EnqNext
  <1>4. CASE EnqRecord(t) \/ DeqRecord(t) \/ DeqRecordNext(t)
    BY <1>4 DEF EnqRecord, DeqRecord, DeqRecordNext, Record
  <1>5. CASE EnqCheck(t) \/ EnqRecheck(t)
    BY <1>0, <1>5, SlowFile DEF EnqCheck, EnqRecheck, StartOver, BeforeTail
  <1>6. CASE DeqHead(t) \/ DeqCheck(t) \/ DeqTail(t) \/ DeqNext(t)
    <2>1. file.held # <<1>>
      BY <1>0, SlowFile
    <2>2. CASE DeqNext(t)
      BY <2>1, <2>2 DEF DeqNext
    <2>3. CASE DeqHead(t) \/ DeqCheck(t) \/ DeqTail(t)
      BY <2>3 DEF DeqHead, DeqCheck, DeqTail
    <2>4. QED
      BY <1>6, <2>2, <2>3
  <1>7. CASE DeqRecheck(t)
    BY <1>0, <1>7, SlowFile DEF DeqRecheck, Leave, LeaveEmpty, BeforeTail
  <1>8. CASE DeqValue(t) \/ Return(t)
    BY <1>0, <1>8, SlowFile DEF DeqValue, Return
  <1>9. CASE Scan(t)
    BY <1>0, <1>9, SlowFile DEF Scan
  <1>10. CASE DeqBegin(t)
    BY <1>10 DEF DeqBegin, Begins
  <1>11. CASE \E s \in Thread, k \in {0, 1} : Gather(t, s, k)
    BY <1>11 DEF Gather
  <1>12. QED
    BY <1>2, <1>3, <1>4, <1>5, <1>6, <1>7, <1>8, <1>9, <1>10, <1>11 DEF Quiet

\* The steps that do not.
LEMMA LoudKeeps ==
    ASSUME SharedInv, NEW t \in Thread,
           \/ EnqAlloc(t) \/ EnqHelp(t) \/ EnqLink(t) \/ EnqSwing(t) \/ DeqHelp(t) \/ DeqCas(t)
           \/ Retire(t) \/ Free(t)
    PROVE  OthersSame(t) /\ file' = file /\ refs' = refs
  <1>0. TypeOK /\ KeepsHazards(file)
    BY DEF SharedInv
  <1>1. ~counts /\ Fields
    BY <1>0, SlowFile DEF TypeOK, Fields
  <1> USE <1>1 DEF Fields, OthersSame, memory, history, scanning, locals, Goto, DropThen
  <1>2. CASE EnqAlloc(t)
    BY <1>2 DEF EnqAlloc, Begins
  <1>3. CASE EnqHelp(t) \/ DeqHelp(t)
    BY <1>0, <1>3, SlowFile DEF EnqHelp, DeqHelp, AfterTail, Leave
  <1>4. CASE EnqLink(t)
    BY <1>0, <1>4, SlowFile DEF EnqLink, BeforeTail, Leave
  <1>5. CASE EnqSwing(t)
    BY <1>0, <1>5, SlowFile DEF EnqSwing
  <1>6. CASE DeqCas(t)
    BY <1>0, <1>6, SlowFile DEF DeqCas, Leave
  <1>7. CASE Retire(t)
    BY <1>7 DEF Retire, ScanThen
  <1>8. CASE Free(t)
    BY <1>8 DEF Free
  <1>9. QED
    BY <1>2, <1>3, <1>4, <1>5, <1>6, <1>7, <1>8

\* A count that is not taken, a scan at the end and the scan that reads the
\* hazard pointers for every node are steps of other files.
LEMMA Steps ==
    ASSUME SharedInv, NEW t \in Thread, LocalInv(t), Step(t)
    PROVE  \/ Quiet(t)
           \/ EnqHelp(t) \/ EnqLink(t) \/ EnqSwing(t) \/ DeqHelp(t) \/ DeqCas(t)
           \/ Retire(t) \/ Free(t)
  <1>1. ~Finish(t)
    BY SlowFile DEF SharedInv, Finish
  <1>2. ASSUME NEW s, NEW k PROVE ~IsIn(t, s, k)
    BY DEF IsIn, LocalInv, PathInv
  <1>3. QED
    BY <1>1, <1>2 DEF Step, Quiet

\* A step that links no node gives no place.
LEMMA NoPlace ==
    ASSUME SharedInv, NEW t \in Thread, OthersSame(t), Watch, pc[t] # "enqLink" \/ next' = next
    PROVE  place' = place /\ back' = back
  <1>1. ASSUME NEW u \in Thread PROVE ~Links(u)
    BY DEF Links, OthersSame
  <1>2. \A o \in Op : place'[o] = place[o]
    BY <1>1 DEF Watch
  <1>3. place' = place
    BY <1>2 DEF Watch, SharedInv
  <1>4. QED
    BY <1>3 DEF back

-----------------------------------------------------------------------------
(* What the other threads know stays true.                                 *)

\* Thread t begins to protect only what is in the queue.
Protects(t) ==
    \A k \in {0, 1}, a \in heap : Guards(t, k, a)' => Guards(t, k, a) \/ InQueue(a)

\* What no step does: free a node that another thread protects, write a node
\* again that has a successor, or move Head to a node that was there before.
Evolves(t) ==
    /\ file' = file
    /\ \A a \in heap : a \notin heap' =>
         Gone(a) /\ \A u \in Thread \ {t}, k \in {0, 1} : ~Guards(u, k, a)
    /\ \A a \in heap \cap heap' : value'[a] = value[a]
    /\ \A a \in heap \cap heap' : next[a] # Null \/ ~Linked(a) => next'[a] = next[a]
    /\ \A a \in heap \cap heap' : Linked(a) => Linked(a)' /\ pos(a)' = pos(a)
    /\ \A o \in Op : o[1] # t => place'[o] = place[o]
    /\ taken' \in Nat /\ taken <= taken'
    /\ pos(tail)' \in Nat /\ pos(tail) <= pos(tail)'
    /\ head' # head => \A a \in heap : Linked(a) /\ pos(a) <= taken => a # head'
    /\ Protects(t)

LEMMA OtherKept ==
    ASSUME SharedInv, NEW t \in Thread, NEW u \in Thread \ {t}, LocalInv(u),
           OthersSame(t), Evolves(t)
    PROVE  LocalInv(u)'
  <1>1. /\ pc'[u] = pc[u] /\ drops'[u] = drops[u] /\ then'[u] = then[u]
        /\ node'[u] = node[u] /\ h'[u] = h[u] /\ tl'[u] = tl[u] /\ nx'[u] = nx[u]
        /\ data'[u] = data[u] /\ slot'[u] = slot[u] /\ unread'[u] = unread[u]
        /\ seen'[u] = seen[u] /\ hp'[u] = hp[u] /\ list'[u] = list[u] /\ calls'[u] = calls[u]
    BY DEF OthersSame
  <1>2. TypeOK /\ ChainInv /\ RetireInv
    BY DEF SharedInv
  <1>3. PathInv(u)'
    BY <1>1 DEF LocalInv, PathInv
  \* A node that u protects stays where it is.
  <1>4. ASSUME NEW a \in heap, Linked(a), NEW k \in {0, 1}, Guards(u, k, a)
        PROVE  /\ a \in heap' /\ Linked(a)' /\ pos(a)' = pos(a) /\ value'[a] = value[a]
               /\ next[a] # Null => next'[a] = next[a]
    BY <1>4 DEF Evolves
  <1>5. EnqInv(u)'
    <2>1. EnqInv(u)
      BY DEF LocalInv
    <2>2. ASSUME pc[u] \in EnqPc
          PROVE  /\ node'[u] \in heap' /\ value'[node'[u]] = Current(u)' /\ Current(u)' \in Op
                 /\ place'[Current(u)'] = 0 /\ next'[node'[u]] = Null
      <3>1. /\ node[u] \in heap /\ value[node[u]] = Current(u) /\ Current(u) \in Op
            /\ place[Current(u)] = 0 /\ next[node[u]] = Null
        BY <2>1, <2>2 DEF EnqInv
      <3>2. ~Linked(node[u])
        BY <3>1, OpFacts DEF Linked
      <3>3. node[u] \in heap' /\ value'[node[u]] = value[node[u]] /\ next'[node[u]] = next[node[u]]
        BY <3>1, <3>2 DEF Evolves, Gone
      <3>4. Current(u)' = Current(u) /\ Current(u)[1] = u /\ u # t
        BY <1>1 DEF Current
      <3>5. place'[Current(u)] = place[Current(u)]
        BY <3>1, <3>4 DEF Evolves
      <3>6. QED
        BY <1>1, <3>1, <3>3, <3>4, <3>5
    <2>3. ASSUME pc[u] \in TailPc
          PROVE  /\ tl[u] \in heap /\ Linked(tl[u])' /\ pos(tl[u])' <= pos(tail)'
                 /\ next[tl[u]] # Null => next'[tl[u]] = next[tl[u]]
      <3>1. PICK a \in heap : a = tl[u]
        BY <2>1, <2>3 DEF EnqInv, Linked
      <3>2. Linked(a) /\ pos(a) <= pos(tail) /\ Guards(u, 0, a)
        BY <2>1, <2>3, <3>1 DEF EnqInv, Guards
      <3>3. Linked(a)' /\ pos(a)' = pos(a) /\ (next[a] # Null => next'[a] = next[a])
        BY <1>4, <3>2
      <3>4. pos(a) \in Nat /\ pos(tail) \in Nat
        BY Places, Ends
      <3>5. pos(tail)' \in Nat /\ pos(tail) <= pos(tail)'
        BY DEF Evolves
      <3>6. pos(a)' <= pos(tail)'
        BY <3>2, <3>3, <3>4, <3>5
      <3>7. tl'[u] = a
        BY <1>1, <3>1
      <3>8. QED
        BY <3>1, <3>3, <3>6, <3>7 DEF Linked, pos
    <2>4. pc[u] \in TailPc \cup {"enqCheck"} => hp'[u][0] = tl'[u]
      BY <1>1, <2>1 DEF EnqInv
    <2>5. pc[u] \in {"enqRecheck", "enqHelp"} /\ nx[u] # Null => next'[tl[u]] = nx[u]
      BY <2>1, <2>3 DEF EnqInv, TailPc
    <2>6. pc[u] = "enqHelp" => nx[u] # Null
      BY <2>1 DEF EnqInv
    <2>7. pc[u] = "enqSwing" => next'[tl[u]] = node[u] /\ node[u] # Null
      BY <2>1, <2>3 DEF EnqInv, TailPc
    <2>8. QED
      BY <1>1, <2>2, <2>3, <2>4, <2>5, <2>6, <2>7 DEF EnqInv
  <1>6. DeqInv(u)'
    <2>1. DeqInv(u)
      BY DEF LocalInv
    <2>2. ASSUME pc[u] \in HeadPc
          PROVE  /\ h[u] \in heap /\ Linked(h[u])' /\ pos(h[u])' = pos(h[u]) /\ pos(h[u]) \in Nat
                 /\ next[h[u]] # Null => next'[h[u]] = next[h[u]]
      <3>1. PICK a \in heap : a = h[u]
        BY <2>1, <2>2 DEF DeqInv, Linked
      <3>2. Linked(a) /\ Guards(u, 0, a)
        BY <2>1, <2>2, <3>1 DEF DeqInv, Guards
      <3>3. Linked(a)' /\ pos(a)' = pos(a) /\ (next[a] # Null => next'[a] = next[a])
        BY <1>4, <3>2
      <3>4. pos(a) \in Nat
        BY Places
      <3>5. h'[u] = a
        BY <1>1, <3>1
      <3>6. QED
        BY <3>1, <3>3, <3>4, <3>5 DEF Linked, pos
    <2>3. /\ taken' \in Nat /\ taken <= taken' /\ pos(tail)' \in Nat /\ pos(tail) <= pos(tail)'
          /\ taken \in Nat /\ pos(tail) \in Nat
      BY Ends DEF Evolves
    <2>4. pc[u] \in HeadPc => Linked(h[u])' /\ pos(h[u])' <= taken'
      BY <2>1, <2>2, <2>3 DEF DeqInv
    <2>5. pc[u] \in HeadPc \ {"deqTail"} /\ tl[u] # h[u] => pos(h[u])' < pos(tail)'
      BY <2>1, <2>2, <2>3 DEF DeqInv
    <2>6. pc[u] \in HeadPc \ {"deqTail", "deqNext"} /\ nx[u] # Null => next'[h[u]] = nx[u]
      BY <2>1, <2>2 DEF DeqInv
    <2>7. pc[u] = "deqValue" => nx[u] \in heap'
      <3>1. pc[u] = "deqValue" => nx[u] \in heap /\ Guards(u, 1, nx[u])
        BY <2>1 DEF DeqInv, Guards
      <3>2. QED
        BY <3>1 DEF Evolves
    <2>8. ASSUME pc[u] = "deqCas", head' = h[u]
          PROVE  data[u] = value'[nx[u]]
      <3>1. pc[u] \in HeadPc /\ h[u] \in heap /\ Linked(h[u]) /\ pos(h[u]) <= taken
        BY <2>1, <2>2, <2>8 DEF DeqInv, HeadPc
      <3>2. head = h[u]
        BY <2>8, <3>1 DEF Evolves
      <3>3. nx[u] # Null /\ next[h[u]] = nx[u] /\ data[u] = value[nx[u]]
        BY <2>1, <2>8, <3>2 DEF DeqInv, HeadPc
      <3>4. InQueue(nx[u])
        BY <1>2, <3>2, <3>3, Ends DEF ChainInv
      <3>5. nx[u] \in heap /\ ~Gone(nx[u])
        <4>1. nx[u] \in heap /\ pos(nx[u]) \in Nat /\ taken <= pos(nx[u])
          BY <3>4, Places DEF InQueue, Linked
        <4>2. QED
          BY <2>3, <4>1 DEF Gone
      <3>6. QED
        BY <3>3, <3>5 DEF Evolves
    <2>9. QED
      BY <1>1, <2>1, <2>4, <2>5, <2>6, <2>7, <2>8 DEF DeqInv
  <1>7. ScanInv(u)'
    <2>1. ScanInv(u)
      BY DEF LocalInv
    <2>2. Slot' = Slot
      BY DEF Evolves, Slot
    <2>3. ASSUME pc[u] \in ScanPc, NEW i \in Slot, NEW s \in Thread \ {u}, NEW k \in {0, 1},
                 slot[u] <= i, list[u][i] # Null, Guards(s, k, list[u][i])'
          PROVE  <<s, k>> \in unread[u] \/ list[u][i] \in seen[u]
      <3>1. PICK a \in heap : a = list[u][i]
        BY <1>2, <2>3 DEF RetireInv, Gone, Linked
      <3>2. Gone(a) /\ ~InQueue(a)
        <4>1. Gone(a) /\ pos(a) \in Nat /\ taken \in Nat
          BY <1>2, <2>3, <3>1, Places, Ends DEF RetireInv
        <4>2. QED
          BY <4>1 DEF Gone, InQueue
      <3>3. Guards(s, k, a)'
        BY <1>1, <2>3, <3>1 DEF Guards
      <3>4. Guards(s, k, a)
        <4>1. CASE s = t
          BY <3>2, <3>3, <4>1 DEF Evolves, Protects
        <4>2. CASE s # t
          BY <3>3, <4>2 DEF Guards, OthersSame
        <4>3. QED
          BY <4>1, <4>2
      <3>5. QED
        BY <2>1, <2>3, <3>1, <3>4 DEF ScanInv
    <2>4. \A i \in Slot', s \in Thread \ {u}, k \in {0, 1} :
             pc'[u] \in ScanPc /\ slot'[u] <= i /\ list'[u][i] # Null /\ Guards(s, k, list[u][i])' =>
                 <<s, k>> \in unread'[u] \/ list'[u][i] \in seen'[u]
      BY <1>1, <2>2, <2>3
    <2>5. QED
      BY <1>1, <2>1, <2>2, <2>4 DEF ScanInv
  <1>8. QED
    BY <1>3, <1>5, <1>6, <1>7 DEF LocalInv

-----------------------------------------------------------------------------
(* The steps that leave the queue, the heap and the retire lists alone.    *)

Calm(t) ==
    /\ UNCHANGED <<file, head, tail, next, value, heap, refs, list>>
    /\ OthersSame(t)
    /\ calls[t] <= calls'[t]

LEMMA CalmMarks ==
    ASSUME SharedInv, NEW t \in Thread, Calm(t), Watch
    PROVE  /\ place' = place /\ taken' = taken /\ back' = back
           /\ \A a : pos(a)' = pos(a) /\ Linked(a)' = Linked(a) /\ InQueue(a)' = InQueue(a)
                     /\ Gone(a)' = Gone(a)
  <1>1. OthersSame(t) /\ UNCHANGED <<head, next, value, heap>>
    BY DEF Calm
  <1>2. place' = place /\ back' = back
    BY <1>1, NoPlace
  <1>3. taken' = taken
    BY <1>1 DEF Watch
  <1>4. QED
    BY <1>1, <1>2, <1>3 DEF pos, Linked, InQueue, Gone

\* What t knows after its own step.
Own(t) ==
    /\ LocalInv(t)'
    /\ Protects(t)
    /\ Leaves(t)' => Leaves(t) /\ h'[t] = h[t]

LEMMA CalmStep ==
    ASSUME IInv, NEW t \in Thread, Calm(t), Watch, TypeOK', Own(t)
    PROVE  IInv'
  <1>1. SharedInv /\ TypeOK
    BY DEF IInv, SharedInv
  <1>2. /\ UNCHANGED <<file, head, tail, next, value, heap, list>>
        /\ OthersSame(t) /\ calls[t] <= calls'[t]
    BY DEF Calm
  <1>3. /\ place' = place /\ taken' = taken /\ back' = back
        /\ \A a : pos(a)' = pos(a) /\ Linked(a)' = Linked(a) /\ InQueue(a)' = InQueue(a)
                  /\ Gone(a)' = Gone(a)
    BY <1>1, CalmMarks
  <1>4. \A u \in Thread : calls[u] \in Nat /\ calls'[u] \in Nat /\ calls[u] <= calls'[u]
    <2>1. ASSUME NEW u \in Thread PROVE calls[u] \in Nat /\ calls'[u] \in Nat
      BY <1>1 DEF TypeOK
    <2>2. ASSUME NEW u \in Thread PROVE calls[u] <= calls'[u]
      BY <1>2, <2>1 DEF OthersSame
    <2>3. QED
      BY <2>1, <2>2
  <1>5. HeapInv'
    <2>1. HeapInv
      BY <1>1 DEF SharedInv
    <2>2. ASSUME NEW o \in Op, o[2] <= calls[o[1]]
          PROVE  o[2] <= calls'[o[1]]
      <3>1. o[1] \in Thread /\ o[2] \in Nat
        BY OpFacts
      <3>2. QED
        BY <1>4, <2>2, <3>1
    <2>3. \A a \in heap : value[a] # NoCall => value[a] \in Op
      BY <1>1, Places
    <2>4. QED
      BY <1>2, <1>3, <2>1, <2>2, <2>3 DEF HeapInv
  <1>6. ChainInv'
    <2>1. ChainInv
      BY <1>1 DEF SharedInv
    <2>2. Linked(head)' = Linked(head) /\ pos(head)' = pos(head)
          /\ Linked(tail)' = Linked(tail) /\ pos(tail)' = pos(tail)
      BY <1>2, <1>3 DEF Linked, pos
    <2>3. \A a \in heap : InQueue(next[a])' = InQueue(next[a]) /\ pos(next[a])' = pos(next[a])
      BY <1>2, <1>3 DEF InQueue, Linked, pos
    <2>4. QED
      BY <1>2, <1>3, <2>1, <2>2, <2>3 DEF ChainInv
  <1>7. RetireInv'
    <2>1. RetireInv
      BY <1>1 DEF SharedInv
    <2>2. \A u \in Thread : Leaves(u)' => Leaves(u) /\ h'[u] = h[u]
      BY <1>2 DEF Own, OthersSame, Leaves
    <2>3. Slot' = Slot
      BY <1>2 DEF Slot
    <2>4. \A u \in Thread : Leaves(u)' => Gone(h[u])'
      <3>1. ASSUME NEW u \in Thread, Leaves(u)' PROVE Gone(h[u])'
        <4>1. Gone(h[u]) /\ h'[u] = h[u]
          BY <2>1, <2>2, <3>1 DEF RetireInv
        <4>2. QED
          BY <1>2, <1>3, <4>1 DEF Gone, Linked, pos
      <3>2. QED
        BY <3>1
    <2>5. \A u \in Thread, i \in Slot : list'[u][i] # Null => Gone(list[u][i])'
      <3>1. ASSUME NEW u \in Thread, NEW i \in Slot, list[u][i] # Null PROVE Gone(list[u][i])'
        <4>1. Gone(list[u][i])
          BY <2>1, <3>1 DEF RetireInv
        <4>2. QED
          BY <1>2, <1>3, <4>1 DEF Gone, Linked, pos
      <3>2. QED
        BY <1>2, <3>1
    <2>6. QED
      BY <1>2, <2>1, <2>2, <2>3, <2>4, <2>5 DEF RetireInv
  <1>8. Evolves(t)
    <2>1. pos(tail)' = pos(tail) /\ pos(tail) \in Nat /\ taken \in Nat
      BY <1>1, <1>2, <1>3, Ends DEF pos
    <2>2. QED
      BY <1>1, <1>2, <1>3, <2>1 DEF Evolves, Own
  <1>9. \A u \in Thread : LocalInv(u)'
    <2>1. ASSUME NEW u \in Thread \ {t} PROVE LocalInv(u)'
      BY <1>1, <1>2, <1>8, OtherKept DEF IInv
    <2>2. QED
      BY <2>1 DEF Own
  <1>10. SharedInv'
    <2>1. KeepsHazards(file)'
      BY <1>1, <1>2 DEF SharedInv, KeepsHazards
    <2>2. place' \in [Op -> Nat] /\ taken' \in Nat
      BY <1>1, <1>3 DEF SharedInv
    <2>3. QED
      BY <1>5, <1>6, <1>7, <2>1, <2>2 DEF SharedInv
  <1>11. QED
    BY <1>9, <1>10 DEF IInv

LEMMA QuietCalm ==
    ASSUME SharedInv, NEW t \in Thread, Quiet(t)
    PROVE  Calm(t)
  BY QuietKeeps DEF Calm

LEMMA EnqTailOwn ==
    ASSUME IInv, NEW t \in Thread, EnqTail(t), Watch
    PROVE  Own(t)
  <1>1. SharedInv /\ TypeOK /\ LocalInv(t) /\ Quiet(t)
    BY DEF IInv, SharedInv, Quiet
  <1>2. /\ UNCHANGED <<file, head, tail, next, value, heap, list>> /\ place' = place /\ taken' = taken
        /\ \A a : pos(a)' = pos(a) /\ Linked(a)' = Linked(a)
    BY <1>1, QuietKeeps, QuietCalm, CalmMarks
  <1>3. /\ pc[t] = "enqTail" /\ pc'[t] = "enqRecord" /\ UNCHANGED <<node, calls, hp, then, h>>
    BY <1>1 DEF EnqTail, Goto, TypeOK, memory, history
  <1>4. QED
    BY <1>1, <1>2, <1>3 DEF Own, LocalInv, PathInv, EnqInv, DeqInv, ScanInv, Protects, Guards, Leaves,
       EnqPc, TailPc, HeadPc, ScanPc, Current

LEMMA EnqRecordOwn ==
    ASSUME IInv, NEW t \in Thread, EnqRecord(t), Watch
    PROVE  Own(t)
  <1>1. SharedInv /\ TypeOK /\ LocalInv(t) /\ Quiet(t)
    BY DEF IInv, SharedInv, Quiet
  <1>2. /\ UNCHANGED <<file, head, tail, next, value, heap, list>> /\ place' = place /\ taken' = taken
        /\ \A a : pos(a)' = pos(a) /\ Linked(a)' = Linked(a)
    BY <1>1, QuietKeeps, QuietCalm, CalmMarks
  <1>3. /\ pc[t] = "enqRecord" /\ pc'[t] = "enqCheck" /\ UNCHANGED <<node, calls, then, h, tl>>
        /\ hp'[t][0] = tl[t]
    BY <1>1, SlowFile DEF EnqRecord, Record, Goto, TypeOK, locals, history, SharedInv
  <1>4. QED
    BY <1>1, <1>2, <1>3 DEF Own, LocalInv, PathInv, EnqInv, DeqInv, ScanInv, Protects, Guards, Leaves,
       EnqPc, TailPc, HeadPc, ScanPc, Current

LEMMA EnqCheckOwn ==
    ASSUME IInv, NEW t \in Thread, EnqCheck(t), Watch
    PROVE  Own(t)
  <1>1. SharedInv /\ TypeOK /\ LocalInv(t) /\ Quiet(t)
    BY DEF IInv, SharedInv, Quiet
  <1>2. /\ UNCHANGED <<file, head, tail, next, value, heap, list>> /\ place' = place /\ taken' = taken
        /\ \A a : pos(a)' = pos(a) /\ Linked(a)' = Linked(a)
    BY <1>1, QuietKeeps, QuietCalm, CalmMarks
  <1>3. /\ pc[t] = "enqCheck" /\ pc'[t] = IF tail = tl[t] THEN "enqNext" ELSE "enqTail"
        /\ UNCHANGED <<node, calls, then, h, tl, hp>>
    BY <1>1, SlowFile DEF EnqCheck, StartOver, Goto, TypeOK, memory, locals, history, SharedInv
  <1>4. InQueue(tail) /\ Linked(tail) /\ pos(tail) \in Nat
    BY <1>1, Ends DEF InQueue
  <1>5. QED
    BY <1>1, <1>2, <1>3, <1>4 DEF Own, LocalInv, PathInv, EnqInv, DeqInv, ScanInv, Protects, Guards, Leaves,
       EnqPc, TailPc, HeadPc, ScanPc, Current

LEMMA EnqNextOwn ==
    ASSUME IInv, NEW t \in Thread, EnqNext(t), Watch
    PROVE  Own(t)
  <1>1. SharedInv /\ TypeOK /\ LocalInv(t) /\ Quiet(t)
    BY DEF IInv, SharedInv, Quiet
  <1>2. /\ UNCHANGED <<file, head, tail, next, value, heap, list>> /\ place' = place /\ taken' = taken
        /\ \A a : pos(a)' = pos(a) /\ Linked(a)' = Linked(a)
    BY <1>1, QuietKeeps, QuietCalm, CalmMarks
  <1>3. /\ pc[t] = "enqNext" /\ pc'[t] = "enqRecheck" /\ nx'[t] = next[tl[t]]
        /\ UNCHANGED <<node, calls, then, h, tl, hp>>
    BY <1>1 DEF EnqNext, Goto, TypeOK, memory, history
  <1>4. QED
    BY <1>1, <1>2, <1>3 DEF Own, LocalInv, PathInv, EnqInv, DeqInv, ScanInv, Protects, Guards, Leaves,
       EnqPc, TailPc, HeadPc, ScanPc, Current

LEMMA EnqRecheckOwn ==
    ASSUME IInv, NEW t \in Thread, EnqRecheck(t), Watch
    PROVE  Own(t)
  <1>1. SharedInv /\ TypeOK /\ LocalInv(t) /\ Quiet(t)
    BY DEF IInv, SharedInv, Quiet
  <1>2. /\ UNCHANGED <<file, head, tail, next, value, heap, list>> /\ place' = place /\ taken' = taken
        /\ \A a : pos(a)' = pos(a) /\ Linked(a)' = Linked(a)
    BY <1>1, QuietKeeps, QuietCalm, CalmMarks
  <1>3. /\ pc[t] = "enqRecheck" /\ UNCHANGED <<node, calls, then, h, tl, hp, nx>>
        /\ pc'[t] = "enqTail" \/ (pc'[t] = "enqHelp" /\ nx[t] # Null) \/ pc'[t] = "enqLink"
    BY <1>1, SlowFile DEF EnqRecheck, StartOver, BeforeTail, Goto, TypeOK, memory, locals, history,
       SharedInv
  <1>4. QED
    BY <1>1, <1>2, <1>3 DEF Own, LocalInv, PathInv, EnqInv, DeqInv, ScanInv, Protects, Guards, Leaves,
       EnqPc, TailPc, HeadPc, ScanPc, Current

LEMMA DeqBeginOwn ==
    ASSUME IInv, NEW t \in Thread, DeqBegin(t), Watch
    PROVE  Own(t)
  <1>1. SharedInv /\ TypeOK /\ LocalInv(t) /\ Quiet(t)
    BY DEF IInv, SharedInv, Quiet
  <1>2. /\ UNCHANGED <<file, head, tail, next, value, heap, list>> /\ place' = place /\ taken' = taken
        /\ \A a : pos(a)' = pos(a) /\ Linked(a)' = Linked(a)
    BY <1>1, QuietKeeps, QuietCalm, CalmMarks
  <1>3. pc[t] = "idle" /\ pc'[t] = "deqHead" /\ UNCHANGED <<then, h, hp>>
    BY <1>1 DEF DeqBegin, Begins, Goto, TypeOK, memory, locals
  <1>4. QED
    BY <1>1, <1>2, <1>3 DEF Own, LocalInv, PathInv, EnqInv, DeqInv, ScanInv, Protects, Guards, Leaves,
       EnqPc, TailPc, HeadPc, ScanPc, Current

LEMMA DeqHeadOwn ==
    ASSUME IInv, NEW t \in Thread, DeqHead(t), Watch
    PROVE  Own(t)
  <1>1. SharedInv /\ TypeOK /\ LocalInv(t) /\ Quiet(t)
    BY DEF IInv, SharedInv, Quiet
  <1>2. /\ UNCHANGED <<file, head, tail, next, value, heap, list>> /\ place' = place /\ taken' = taken
        /\ \A a : pos(a)' = pos(a) /\ Linked(a)' = Linked(a)
    BY <1>1, QuietKeeps, QuietCalm, CalmMarks
  <1>3. pc[t] = "deqHead" /\ pc'[t] = "deqRecord" /\ UNCHANGED <<then, hp>>
    BY <1>1 DEF DeqHead, Goto, TypeOK, memory
  <1>4. QED
    BY <1>1, <1>2, <1>3 DEF Own, LocalInv, PathInv, EnqInv, DeqInv, ScanInv, Protects, Guards, Leaves,
       EnqPc, TailPc, HeadPc, ScanPc, Current

LEMMA DeqRecordOwn ==
    ASSUME IInv, NEW t \in Thread, DeqRecord(t), Watch
    PROVE  Own(t)
  <1>1. SharedInv /\ TypeOK /\ LocalInv(t) /\ Quiet(t)
    BY DEF IInv, SharedInv, Quiet
  <1>2. /\ UNCHANGED <<file, head, tail, next, value, heap, list>> /\ place' = place /\ taken' = taken
        /\ \A a : pos(a)' = pos(a) /\ Linked(a)' = Linked(a)
    BY <1>1, QuietKeeps, QuietCalm, CalmMarks
  <1>3. /\ pc[t] = "deqRecord" /\ pc'[t] = "deqCheck" /\ UNCHANGED <<then, h>>
        /\ hp'[t][0] = h[t]
    BY <1>1, SlowFile DEF DeqRecord, Record, Goto, TypeOK, locals, SharedInv
  <1>4. QED
    BY <1>1, <1>2, <1>3 DEF Own, LocalInv, PathInv, EnqInv, DeqInv, ScanInv, Protects, Guards, Leaves,
       EnqPc, TailPc, HeadPc, ScanPc, Current

LEMMA DeqCheckOwn ==
    ASSUME IInv, NEW t \in Thread, DeqCheck(t), Watch
    PROVE  Own(t)
  <1>1. SharedInv /\ TypeOK /\ LocalInv(t) /\ Quiet(t)
    BY DEF IInv, SharedInv, Quiet
  <1>2. /\ UNCHANGED <<file, head, tail, next, value, heap, list>> /\ place' = place /\ taken' = taken
        /\ \A a : pos(a)' = pos(a) /\ Linked(a)' = Linked(a)
    BY <1>1, QuietKeeps, QuietCalm, CalmMarks
  <1>3. /\ pc[t] = "deqCheck" /\ pc'[t] = IF head = h[t] THEN "deqTail" ELSE "deqHead"
        /\ UNCHANGED <<then, h, tl, hp>>
    BY <1>1, SlowFile DEF DeqCheck, Goto, TypeOK, memory, locals, SharedInv
  <1>4. InQueue(head) /\ Linked(head) /\ pos(head) = taken /\ taken \in Nat
    BY <1>1, Ends DEF InQueue
  <1>5. QED
    BY <1>1, <1>2, <1>3, <1>4 DEF Own, LocalInv, PathInv, EnqInv, DeqInv, ScanInv, Protects, Guards, Leaves,
       EnqPc, TailPc, HeadPc, ScanPc, Current

LEMMA DeqTailOwn ==
    ASSUME IInv, NEW t \in Thread, DeqTail(t), Watch
    PROVE  Own(t)
  <1>1. SharedInv /\ TypeOK /\ LocalInv(t) /\ Quiet(t)
    BY DEF IInv, SharedInv, Quiet
  <1>2. /\ UNCHANGED <<file, head, tail, next, value, heap, list>> /\ place' = place /\ taken' = taken
        /\ \A a : pos(a)' = pos(a) /\ Linked(a)' = Linked(a)
    BY <1>1, QuietKeeps, QuietCalm, CalmMarks
  <1>3. /\ pc[t] = "deqTail" /\ pc'[t] = "deqNext" /\ tl'[t] = tail
        /\ UNCHANGED <<then, h, hp>>
    BY <1>1 DEF DeqTail, Goto, TypeOK, memory
  <1>4. tail # h[t] => pos(h[t]) < pos(tail)
    <2>1. Linked(h[t]) /\ h[t] \in heap /\ pos(h[t]) <= taken
      BY <1>1, <1>3 DEF LocalInv, DeqInv, HeadPc, Linked
    <2>2. Linked(tail) /\ tail \in heap /\ taken <= pos(tail) /\ pos(tail) \in Nat /\ taken \in Nat
      BY <1>1, Ends DEF InQueue
    <2>3. pos(h[t]) \in Nat /\ (pos(h[t]) = pos(tail) => h[t] = tail)
      BY <1>1, <2>1, <2>2, Places
    <2>4. QED
      BY <2>1, <2>2, <2>3
  <1>5. QED
    BY <1>1, <1>2, <1>3, <1>4 DEF Own, LocalInv, PathInv, EnqInv, DeqInv, ScanInv, Protects, Guards, Leaves,
       EnqPc, TailPc, HeadPc, ScanPc, Current

LEMMA DeqNextOwn ==
    ASSUME IInv, NEW t \in Thread, DeqNext(t), Watch
    PROVE  Own(t)
  <1>1. SharedInv /\ TypeOK /\ LocalInv(t) /\ Quiet(t)
    BY DEF IInv, SharedInv, Quiet
  <1>2. /\ UNCHANGED <<file, head, tail, next, value, heap, list>> /\ place' = place /\ taken' = taken
        /\ \A a : pos(a)' = pos(a) /\ Linked(a)' = Linked(a)
    BY <1>1, QuietKeeps, QuietCalm, CalmMarks
  <1>3. /\ pc[t] = "deqNext" /\ pc'[t] = "deqRecordNext" /\ nx'[t] = next[h[t]]
        /\ UNCHANGED <<then, h, tl, hp>>
    <2>1. file.held # <<1>>
      BY <1>1, SlowFile DEF SharedInv
    <2>2. QED
      BY <1>1, <2>1 DEF DeqNext, Goto, TypeOK, memory
  <1>4. QED
    BY <1>1, <1>2, <1>3 DEF Own, LocalInv, PathInv, EnqInv, DeqInv, ScanInv, Protects, Guards, Leaves,
       EnqPc, TailPc, HeadPc, ScanPc, Current

LEMMA DeqRecordNextOwn ==
    ASSUME IInv, NEW t \in Thread, DeqRecordNext(t), Watch
    PROVE  Own(t)
  <1>1. SharedInv /\ TypeOK /\ LocalInv(t) /\ Quiet(t)
    BY DEF IInv, SharedInv, Quiet
  <1>2. /\ UNCHANGED <<file, head, tail, next, value, heap, list>> /\ place' = place /\ taken' = taken
        /\ \A a : pos(a)' = pos(a) /\ Linked(a)' = Linked(a)
    BY <1>1, QuietKeeps, QuietCalm, CalmMarks
  <1>3. /\ pc[t] = "deqRecordNext" /\ pc'[t] = "deqRecheck" /\ UNCHANGED <<then, h, tl, nx>>
        /\ hp'[t][0] = hp[t][0] /\ hp'[t][1] = nx[t]
    BY <1>1, SlowFile DEF DeqRecordNext, Record, Goto, TypeOK, locals, SharedInv
  <1>4. QED
    BY <1>1, <1>2, <1>3 DEF Own, LocalInv, PathInv, EnqInv, DeqInv, ScanInv, Protects, Guards, Leaves,
       EnqPc, TailPc, HeadPc, ScanPc, Current

LEMMA DeqRecheckOwn ==
    ASSUME IInv, NEW t \in Thread, DeqRecheck(t), Watch
    PROVE  Own(t)
  <1>1. SharedInv /\ TypeOK /\ LocalInv(t) /\ Quiet(t)
    BY DEF IInv, SharedInv, Quiet
  <1>2. /\ UNCHANGED <<file, head, tail, next, value, heap, list>> /\ place' = place /\ taken' = taken
        /\ \A a : pos(a)' = pos(a) /\ Linked(a)' = Linked(a)
    BY <1>1, QuietKeeps, QuietCalm, CalmMarks
  <1>3. /\ pc[t] = "deqRecheck" /\ UNCHANGED <<then, h, tl, nx, hp>>
        /\ \/ pc'[t] \in {"deqHead", "return"}
           \/ pc'[t] = "deqHelp" /\ head = h[t] /\ nx[t] # Null /\ h[t] = tl[t]
           \/ pc'[t] = "deqValue" /\ head = h[t] /\ nx[t] # Null /\ h[t] # tl[t]
    BY <1>1, SlowFile DEF DeqRecheck, Leave, LeaveEmpty, BeforeTail, Goto, TypeOK, memory, locals,
       SharedInv
  <1>4. head = h[t] /\ nx[t] # Null => InQueue(nx[t]) /\ nx[t] \in heap
    <2>1. nx[t] # Null => next[h[t]] = nx[t]
      BY <1>1, <1>3 DEF LocalInv, DeqInv, HeadPc
    <2>2. head \in heap /\ InQueue(head) /\ ChainInv
      BY <1>1, Ends DEF SharedInv
    <2>3. QED
      BY <2>1, <2>2 DEF ChainInv, InQueue, Linked
  <1>5. QED
    BY <1>1, <1>2, <1>3, <1>4 DEF Own, LocalInv, PathInv, EnqInv, DeqInv, ScanInv, Protects, Guards, Leaves,
       EnqPc, TailPc, HeadPc, ScanPc, Current

LEMMA DeqValueOwn ==
    ASSUME IInv, NEW t \in Thread, DeqValue(t), Watch
    PROVE  Own(t)
  <1>1. SharedInv /\ TypeOK /\ LocalInv(t) /\ Quiet(t)
    BY DEF IInv, SharedInv, Quiet
  <1>2. /\ UNCHANGED <<file, head, tail, next, value, heap, list>> /\ place' = place /\ taken' = taken
        /\ \A a : pos(a)' = pos(a) /\ Linked(a)' = Linked(a)
    BY <1>1, QuietKeeps, QuietCalm, CalmMarks
  <1>3. /\ pc[t] = "deqValue" /\ pc'[t] = "deqCas" /\ data'[t] = value[nx[t]]
        /\ UNCHANGED <<then, h, tl, nx, hp>>
    BY <1>1, SlowFile DEF DeqValue, Goto, TypeOK, memory, SharedInv
  <1>4. QED
    BY <1>1, <1>2, <1>3 DEF Own, LocalInv, PathInv, EnqInv, DeqInv, ScanInv, Protects, Guards, Leaves,
       EnqPc, TailPc, HeadPc, ScanPc, Current

LEMMA ReturnOwn ==
    ASSUME IInv, NEW t \in Thread, Return(t), Watch
    PROVE  Own(t)
  <1>1. SharedInv /\ TypeOK /\ LocalInv(t) /\ Quiet(t)
    BY DEF IInv, SharedInv, Quiet
  <1>2. /\ UNCHANGED <<file, head, tail, next, value, heap, list>> /\ place' = place /\ taken' = taken
        /\ \A a : pos(a)' = pos(a) /\ Linked(a)' = Linked(a)
    BY <1>1, QuietKeeps, QuietCalm, CalmMarks
  <1>3. pc[t] = "return" /\ pc'[t] = "idle" /\ UNCHANGED <<then, h, hp>>
    BY <1>1 DEF Return, Goto, TypeOK, memory, locals
  <1>4. QED
    BY <1>1, <1>2, <1>3 DEF Own, LocalInv, PathInv, EnqInv, DeqInv, ScanInv, Protects, Guards, Leaves,
       EnqPc, TailPc, HeadPc, ScanPc, Current

LEMMA DropOwn ==
    ASSUME IInv, NEW t \in Thread, Drop(t), Watch
    PROVE  Own(t)
  <1>1. SharedInv /\ TypeOK /\ LocalInv(t) /\ Quiet(t)
    BY DEF IInv, SharedInv, Quiet
  <1>2. /\ UNCHANGED <<file, head, tail, next, value, heap, list>> /\ place' = place /\ taken' = taken
        /\ \A a : pos(a)' = pos(a) /\ Linked(a)' = Linked(a)
    BY <1>1, QuietKeeps, QuietCalm, CalmMarks
  <1>3. /\ pc[t] = "drop" /\ UNCHANGED <<then, h>> /\ drops'[t] = Tail(drops[t])
        /\ pc'[t] = IF Len(drops[t]) = 1 THEN then[t] ELSE "drop"
    BY <1>1 DEF Drop, TypeOK, locals
  <1>4. drops[t] \in {<<0>>, <<0, 1>>, <<1>>}
    BY <1>1, <1>3 DEF LocalInv, PathInv
  <1>5. Len(<<0>>) = 1 /\ Len(<<1>>) = 1 /\ Len(<<0, 1>>) = 2 /\ Tail(<<0, 1>>) = <<1>>
    OBVIOUS
  <1>6. Len(drops[t]) # 1 => drops'[t] = <<1>>
    BY <1>3, <1>4, <1>5
  <1>7. QED
    BY <1>1, <1>2, <1>3, <1>6 DEF Own, LocalInv, PathInv, EnqInv, DeqInv, ScanInv, Protects, Guards, Leaves,
       EnqPc, TailPc, HeadPc, ScanPc, Current

LEMMA ScanOwn ==
    ASSUME IInv, NEW t \in Thread, Scan(t), Watch
    PROVE  Own(t)
  <1>1. SharedInv /\ TypeOK /\ LocalInv(t) /\ Quiet(t)
    BY DEF IInv, SharedInv, Quiet
  <1>2. /\ UNCHANGED <<file, head, tail, next, value, heap, list>> /\ place' = place /\ taken' = taken
        /\ \A a : pos(a)' = pos(a) /\ Linked(a)' = Linked(a)
    BY <1>1, QuietKeeps, QuietCalm, CalmMarks
  <1> DEFINE rest == {j \in Used(t) : slot[t] <= j}
             i == Least(rest)
  <1>3. pc[t] = "scan" /\ UNCHANGED <<h, hp, then>>
    BY <1>1 DEF Scan, Goto, memory
  <1>4. then[t] \in {"idle", "retire"} /\ unread[t] = {}
    BY <1>1, <1>3 DEF LocalInv, PathInv, ScanInv, ScanPc
  <1>5. CASE rest = {}
    <2>1. pc'[t] = then[t]
      BY <1>1, <1>5 DEF Scan, Goto, TypeOK
    <2>2. QED
      BY <1>1, <1>2, <1>3, <1>4, <2>1 DEF Own, LocalInv, PathInv, EnqInv, DeqInv, ScanInv, Protects, Guards, Leaves,
       EnqPc, TailPc, HeadPc, ScanPc, Current
  <1>6. CASE rest # {}
    <2>1. i \in Slot /\ slot[t] <= i /\ list[t][i] # Null /\ i \in Nat /\ slot[t] \in Nat
      <3>1. rest \subseteq Slot /\ Slot \subseteq Nat /\ slot[t] \in Nat
        BY <1>1, FieldTypes DEF Used
      <3>2. i \in rest
        BY <1>6, <3>1, LeastIn
      <3>3. QED
        BY <3>1, <3>2 DEF Used
    <2>2. /\ unread'[t] = unread[t] /\ seen'[t] = seen[t]
          /\ IF list[t][i] \notin seen[t] THEN pc'[t] = "free" /\ slot'[t] = i
             ELSE pc'[t] = "scan" /\ slot'[t] = i + 1
      <3>1. ~counts /\ file.scan # "each"
        BY <1>1, SlowFile DEF SharedInv
      <3> HIDE DEF i
      <3>2. i = Least(rest)
        BY DEF i
      <3>3. QED
        BY <1>1, <1>6, <3>1, <3>2 DEF Scan, Goto, TypeOK
    <2> HIDE DEF i
    <2>3. slot[t] <= slot'[t] /\ slot'[t] \in Nat /\ Slot' = Slot /\ Slot \subseteq Nat
      BY <1>1, <1>2, <2>1, <2>2, FieldTypes DEF Slot
    <2>4. ScanInv(t)
      BY <1>1 DEF LocalInv
    <2>5. ASSUME NEW j \in Slot, NEW s \in Thread \ {t}, NEW k \in {0, 1},
                 slot'[t] <= j, list[t][j] # Null, Guards(s, k, list[t][j])
          PROVE  list[t][j] \in seen[t]
      <3>1. slot[t] <= j
        BY <2>1, <2>3, <2>5
      <3>2. QED
        BY <1>3, <1>4, <2>4, <2>5, <3>1 DEF ScanInv, ScanPc
    <2>6. \A s \in Thread \ {t} : pc'[s] = pc[s]
      BY <1>1, QuietKeeps DEF OthersSame
    <2>7. ScanInv(t)'
      BY <1>2, <1>3, <1>4, <2>1, <2>2, <2>3, <2>5, <2>6 DEF ScanInv, Guards, ScanPc
    <2>8. pc'[t] \in {"free", "scan"}
      BY <2>2
    <2>9. QED
      BY <1>1, <1>2, <1>3, <1>4, <2>7, <2>8 DEF Own, LocalInv, PathInv, EnqInv, DeqInv, Protects, Guards, Leaves,
         EnqPc, TailPc, HeadPc, ScanPc
  <1>7. QED
    BY <1>5, <1>6

LEMMA GatherOwn ==
    ASSUME IInv, NEW t \in Thread, NEW s \in Thread, NEW k \in {0, 1}, Gather(t, s, k), Watch
    PROVE  Own(t)
  <1>1. SharedInv /\ TypeOK /\ LocalInv(t) /\ Quiet(t)
    BY DEF IInv, SharedInv, Quiet
  <1>2. /\ UNCHANGED <<file, head, tail, next, value, heap, list>> /\ place' = place /\ taken' = taken
        /\ \A a : pos(a)' = pos(a) /\ Linked(a)' = Linked(a)
    BY <1>1, QuietKeeps, QuietCalm, CalmMarks
  <1>3. /\ pc[t] = "gather" /\ UNCHANGED <<h, hp, then, slot>>
        /\ seen'[t] = seen[t] \cup {hp[s][k]} /\ unread'[t] = unread[t] \ {<<s, k>>}
        /\ pc'[t] = IF unread'[t] = {} THEN "scan" ELSE "gather"
    BY <1>1 DEF Gather, Goto, TypeOK, memory
  <1>4. then[t] # "return" /\ ScanInv(t)
    BY <1>1, <1>3 DEF LocalInv, PathInv, ScanPc
  <1>5. \A u \in Thread \ {t} : pc'[u] = pc[u]
    BY <1>1, QuietKeeps DEF OthersSame
  <1>6. ASSUME NEW i \in Slot, NEW u \in Thread \ {t}, NEW n \in {0, 1},
               slot[t] <= i, list[t][i] # Null, Guards(u, n, list[t][i])
        PROVE  <<u, n>> \in unread'[t] \/ list[t][i] \in seen'[t]
    <2>1. <<u, n>> \in unread[t] \/ list[t][i] \in seen[t]
      BY <1>3, <1>4, <1>6 DEF ScanInv, ScanPc
    <2>2. CASE u = s /\ n = k
      BY <1>3, <1>6, <2>2 DEF Guards
    <2>3. CASE ~(u = s /\ n = k)
      BY <1>3, <2>1, <2>3
    <2>4. QED
      BY <2>2, <2>3
  <1>7. ScanInv(t)'
    <2>1. Slot' = Slot
      BY <1>2 DEF Slot
    <2>2. QED
      BY <1>2, <1>3, <1>5, <1>6, <2>1 DEF ScanInv, Guards, ScanPc
  <1>8. pc'[t] \in {"gather", "scan"}
    BY <1>3
  <1>9. QED
    BY <1>1, <1>2, <1>3, <1>4, <1>7, <1>8 DEF Own, LocalInv, PathInv, EnqInv, DeqInv, Protects,
       Guards, Leaves, EnqPc, TailPc, HeadPc, ScanPc

\* A pointer written to a hazard pointer, or to a slot.
LEMMA EntryTypes ==
    ASSUME NEW K, NEW f \in [Thread -> [K -> Pointer]], NEW g, NEW t \in Thread, NEW k \in K,
           NEW p \in Pointer, g = [f EXCEPT ![t][k] = p]
    PROVE  g \in [Thread -> [K -> Pointer]]
  <1>1. [f[t] EXCEPT ![k] = p] \in [K -> Pointer]
    OBVIOUS
  <1>2. QED
    BY <1>1

LEMMA QuietTypes ==
    ASSUME IInv, NEW t \in Thread, Quiet(t)
    PROVE  TypeOK'
  <1>1. SharedInv /\ TypeOK /\ LocalInv(t)
    BY DEF IInv, SharedInv
  <1>2. ~counts /\ file.held = <<0, 1>> /\ file.held # <<1>> /\ file.scan = "gathered"
    BY <1>1, SlowFile DEF SharedInv
  <1>3. Slot' = Slot /\ file' = file
    BY <1>1, QuietKeeps DEF Slot
  <1> USE <1>1, <1>2, <1>3 DEF memory, history, scanning, locals, Goto, PcLabels
  <1>4. CASE Drop(t)
    <2>1. /\ then[t] \in PcLabels /\ drops[t] \in {<<0>>, <<0, 1>>, <<1>>}
      BY <1>4 DEF Drop, LocalInv, PathInv
    <2>2. Tail(drops[t]) \in Seq({0, 1}) /\ drops[t][1] \in {0, 1}
      <3>1. <<>> \in Seq({0, 1}) /\ <<1>> \in Seq({0, 1})
        OBVIOUS
      <3>2. Tail(<<0>>) = <<>> /\ Tail(<<1>>) = <<>> /\ Tail(<<0, 1>>) = <<1>>
            /\ <<0>>[1] = 0 /\ <<1>>[1] = 1 /\ <<0, 1>>[1] = 0
        OBVIOUS
      <3>3. QED
        BY <2>1, <3>1, <3>2
    <2>3. pc' \in [Thread -> PcLabels]
      BY <1>4, <2>1 DEF Drop, TypeOK
    <2>4. drops' \in [Thread -> Seq({0, 1})]
      BY <1>4, <2>2 DEF Drop, TypeOK
    <2>5. hp' \in [Thread -> [{0, 1} -> Pointer]] /\ refs' = refs
      <3>1. hp' = [hp EXCEPT ![t][drops[t][1]] = Null] /\ Null \in Pointer /\ refs' = refs
        BY <1>4 DEF Drop, Pointer
      <3>2. hp \in [Thread -> [{0, 1} -> Pointer]]
        BY DEF TypeOK
      <3>3. QED
        BY <2>2, <3>1, <3>2, EntryTypes
    <2>6. UNCHANGED <<file, head, tail, next, value, heap, list, history, then, locals>>
      BY <1>4 DEF Drop
    <2>7. QED
      BY <2>3, <2>4, <2>5, <2>6 DEF TypeOK
  <1>5. CASE EnqTail(t) \/ EnqNext(t)
    <2>1. CASE EnqTail(t)
      BY <2>1 DEF EnqTail, TypeOK, Pointer
    <2>2. CASE EnqNext(t)
      <3>1. tl[t] \in Address
        BY <2>2 DEF EnqNext, LocalInv, EnqInv, TailPc, Linked, TypeOK
      <3>2. next[tl[t]] \in Pointer
        BY <3>1 DEF TypeOK
      <3>3. QED
        BY <2>2, <3>2 DEF EnqNext, TypeOK
    <2>3. QED
      BY <1>5, <2>1, <2>2
  <1>6. CASE EnqRecord(t) \/ DeqRecord(t) \/ DeqRecordNext(t)
    <2>1. PICK k \in {0, 1} : \E p \in Pointer, l \in PcLabels : Record(t, k, p, l)
      <3>1. tl[t] \in Pointer /\ h[t] \in Pointer /\ nx[t] \in Pointer
        BY FieldTypes
      <3>2. QED
        BY <1>6, <3>1 DEF EnqRecord, DeqRecord, DeqRecordNext
    <2>2. PICK p \in Pointer : \E l \in PcLabels : Record(t, k, p, l)
      BY <2>1
    <2>3. PICK l \in PcLabels : Record(t, k, p, l)
      BY <2>2
    <2>4. hp' = [hp EXCEPT ![t][k] = p] /\ hp \in [Thread -> [{0, 1} -> Pointer]]
      BY <2>3 DEF Record, TypeOK
    <2>5. hp' \in [Thread -> [{0, 1} -> Pointer]]
      BY <2>4, EntryTypes
    <2>6. pc' \in [Thread -> PcLabels]
      BY <2>3 DEF Record, TypeOK
    <2>7. UNCHANGED <<file, head, tail, next, value, heap, refs, list, history, drops, then, locals>>
      BY <2>3 DEF Record
    <2>8. QED
      BY <2>5, <2>6, <2>7 DEF TypeOK
  <1>7. CASE EnqCheck(t) \/ EnqRecheck(t)
    <2>1. PICK l \in PcLabels : Goto(t, l)
      BY <1>7, SlowFile DEF EnqCheck, EnqRecheck, StartOver, BeforeTail, SharedInv
    <2>2. UNCHANGED <<memory, history, locals>>
      BY <1>7 DEF EnqCheck, EnqRecheck
    <2>3. QED
      BY <2>1, <2>2 DEF TypeOK
  <1>8. CASE DeqHead(t) \/ DeqCheck(t) \/ DeqTail(t)
    <2>1. head \in Pointer /\ tail \in Pointer
      BY DEF TypeOK, Pointer
    <2>2. PICK l \in PcLabels : Goto(t, l)
      BY <1>8 DEF DeqHead, DeqCheck, DeqTail
    <2>3. UNCHANGED <<memory, history, node, nx, data, scanning>>
      BY <1>8 DEF DeqHead, DeqCheck, DeqTail
    <2>4. h' \in [Thread -> Pointer] /\ tl' \in [Thread -> Pointer]
      <3>1. /\ h' = h \/ h' = [h EXCEPT ![t] = head]
            /\ tl' = tl \/ tl' = [tl EXCEPT ![t] = tail]
        BY <1>8 DEF DeqHead, DeqCheck, DeqTail
      <3>2. h \in [Thread -> Pointer] /\ tl \in [Thread -> Pointer]
        BY DEF TypeOK
      <3>3. QED
        BY <2>1, <3>1, <3>2
    <2>5. QED
      BY <2>2, <2>3, <2>4 DEF TypeOK
  <1>9. CASE DeqNext(t)
    <2>1. h[t] \in Address
      BY <1>9 DEF DeqNext, LocalInv, DeqInv, HeadPc, Linked, TypeOK
    <2>2. next[h[t]] \in Pointer
      BY <2>1 DEF TypeOK
    <2>3. QED
      BY <1>9, <2>2 DEF DeqNext, TypeOK
  <1>10. CASE DeqRecheck(t)
    <2>1. /\ pc' \in [Thread -> PcLabels] /\ result' \in [Op -> Op \cup {None, Empty}]
          /\ UNCHANGED <<drops, then>>
      BY ZenonT(60), <1>10, SlowFile DEF DeqRecheck, Leave, LeaveEmpty, BeforeTail, SharedInv, TypeOK
    <2>2. QED
      BY <1>10, <2>1 DEF DeqRecheck, TypeOK
  <1>11. CASE DeqValue(t) \/ Return(t)
    <2>1. CASE DeqValue(t)
      <3>1. nx[t] \in Address
        BY <2>1 DEF DeqValue, LocalInv, DeqInv, TypeOK
      <3>2. value[nx[t]] \in Op \cup {NoCall}
        BY <3>1 DEF TypeOK
      <3>3. QED
        BY <2>1, <3>2, SlowFile DEF DeqValue, TypeOK, SharedInv
    <2>2. CASE Return(t)
      BY <2>2 DEF Return, TypeOK
    <2>3. QED
      BY <1>11, <2>1, <2>2
  <1>12. CASE Scan(t)
    <2> DEFINE rest == {j \in Used(t) : slot[t] <= j}
               i == Least(rest)
    <2>1. rest # {} => i \in 0 .. file.MAXTHRES /\ i + 1 \in 0 .. file.MAXTHRES
      <3>1. rest \subseteq Slot /\ Slot \subseteq Nat /\ file.MAXTHRES \in Nat
        BY FieldTypes DEF Used
      <3>2. rest # {} => i \in Slot
        BY <3>1, LeastIn
      <3>3. QED
        BY <3>1, <3>2 DEF Slot
    <2>2. 0 \in 0 .. file.MAXTHRES
      BY FieldTypes
    <2>0. then[t] \in PcLabels
      BY DEF TypeOK
    <2> HIDE DEF i
    <2>3. i = Least(rest)
      BY DEF i
    <2>4. /\ slot' \in [Thread -> 0 .. file.MAXTHRES] /\ pc' \in [Thread -> PcLabels]
          /\ seen' \in [Thread -> SUBSET Pointer] /\ unread' = unread
      <3>1. CASE rest = {}
        <4>1. Goto(t, then[t]) /\ slot' = [slot EXCEPT ![t] = 0] /\ seen' = [seen EXCEPT ![t] = {}]
              /\ unread' = unread
          BY <1>12, <3>1 DEF Scan
        <4>2. QED
          BY <2>0, <2>2, <4>1 DEF TypeOK
      <3>2. CASE rest # {}
        <4>1. PICK n \in 0 .. file.MAXTHRES, l \in PcLabels : Goto(t, l) /\ slot' = [slot EXCEPT ![t] = n]
          BY <1>12, <2>1, <2>3, <3>2 DEF Scan
        <4>2. unread' = unread /\ seen' = seen
          BY <1>12, <3>2 DEF Scan
        <4>3. QED
          BY <4>1, <4>2 DEF TypeOK
      <3>3. QED
        BY <3>1, <3>2
    <2>5. UNCHANGED <<memory, history, node, h, tl, nx, data, drops, then>>
      BY <1>12 DEF Scan
    <2>6. QED
      BY <2>4, <2>5 DEF TypeOK
  <1>13. CASE DeqBegin(t)
    <2>1. /\ calls' = [calls EXCEPT ![t] = @ + 1] /\ pc' = [pc EXCEPT ![t] = "deqHead"]
          /\ UNCHANGED <<memory, result, locals, drops, then>>
      BY <1>13 DEF DeqBegin, Begins
    <2>2. calls' \in [Thread -> Nat] /\ pc' \in [Thread -> PcLabels]
      BY <2>1 DEF TypeOK
    <2>3. QED
      BY <2>1, <2>2 DEF TypeOK
  <1>14. CASE \E s \in Thread, k \in {0, 1} : Gather(t, s, k)
    <2>1. PICK s \in Thread, k \in {0, 1} : Gather(t, s, k)
      BY <1>14
    <2>2. hp[s][k] \in Pointer
      BY FieldTypes
    <2>3. seen' \in [Thread -> SUBSET Pointer] /\ unread' \in [Thread -> SUBSET (Thread \X {0, 1})]
          /\ pc' \in [Thread -> PcLabels]
      BY <2>1, <2>2 DEF Gather, TypeOK
    <2>4. QED
      BY <2>1, <2>3 DEF Gather, TypeOK
  <1>15. QED
    BY <1>4, <1>5, <1>6, <1>7, <1>8, <1>9, <1>10, <1>11, <1>12, <1>13, <1>14 DEF Quiet

LEMMA QuietInductive ==
    ASSUME IInv, NEW t \in Thread, Quiet(t), Watch
    PROVE  IInv'
  <1>1. Own(t)
    BY EnqTailOwn, EnqRecordOwn, EnqCheckOwn, EnqNextOwn, EnqRecheckOwn, DeqBeginOwn, DeqHeadOwn,
       DeqRecordOwn, DeqCheckOwn, DeqTailOwn, DeqNextOwn, DeqRecordNextOwn, DeqRecheckOwn,
       DeqValueOwn, ReturnOwn, DropOwn, ScanOwn, GatherOwn DEF Quiet
  <1>2. TypeOK'
    BY QuietTypes
  <1>3. Calm(t)
    BY QuietCalm DEF IInv
  <1>4. QED
    BY <1>1, <1>2, <1>3, CalmStep

-----------------------------------------------------------------------------
(* The steps that change the queue, the heap or a retire list.             *)

LEMMA LoudStep ==
    ASSUME IInv, NEW t \in Thread, OthersSame(t), Evolves(t), SharedInv', LocalInv(t)'
    PROVE  IInv'
  <1>1. ASSUME NEW u \in Thread \ {t} PROVE LocalInv(u)'
    BY OtherKept DEF IInv
  <1>2. QED
    BY <1>1 DEF IInv

\* A CAS on Tail: Tail stays, or moves on by one node.
LEMMA TailStep ==
    ASSUME IInv, NEW t \in Thread, OthersSame(t), Watch, TypeOK', LocalInv(t)', Protects(t),
           UNCHANGED <<file, head, next, value, heap, refs, list, calls, h>>,
           ~Leaves(t)', tail' = tail \/ (next[tail] # Null /\ tail' = next[tail])
    PROVE  IInv'
  <1>1. SharedInv /\ TypeOK /\ HeapInv /\ ChainInv /\ RetireInv
    BY DEF IInv, SharedInv
  <1>2. /\ place' = place /\ back' = back /\ taken' = taken
    BY <1>1, NoPlace DEF Watch
  <1>3. \A a : pos(a)' = pos(a) /\ Linked(a)' = Linked(a) /\ InQueue(a)' = InQueue(a)
               /\ Gone(a)' = Gone(a)
    BY <1>2 DEF pos, Linked, InQueue, Gone
  <1>4. /\ tail' \in heap /\ Linked(tail') /\ taken <= pos(tail') /\ back <= pos(tail') + 1
        /\ pos(tail) <= pos(tail') /\ pos(tail') \in Nat
    <2>1. CASE tail' = tail
      BY <1>1, <2>1, Ends DEF InQueue, pos
    <2>2. CASE next[tail] # Null /\ tail' = next[tail]
      <3>1. tail \in heap /\ InQueue(tail) /\ pos(tail) \in Nat /\ back \in Nat
            /\ back <= pos(tail) + 1
        BY <1>1, Ends, Places
      <3>2. InQueue(next[tail]) /\ pos(next[tail]) = pos(tail) + 1
        BY <1>1, <2>2, <3>1 DEF ChainInv
      <3>3. PICK n \in heap : n = next[tail] /\ tail' = n
        BY <2>2, <3>2 DEF InQueue, Linked
      <3>4. Linked(n) /\ taken <= pos(n) /\ pos(n) = pos(tail) + 1
        BY <3>2, <3>3 DEF InQueue
      <3>5. back <= pos(n) + 1 /\ pos(tail) <= pos(n) /\ pos(n) \in Nat
        BY <3>1, <3>4
      <3>6. QED
        BY <3>3, <3>4, <3>5
    <2>3. QED
      BY <2>1, <2>2
  <1>5. PICK n \in heap : n = tail'
    BY <1>4
  <1>6. /\ Linked(tail)' = Linked(n) /\ pos(tail)' = pos(n)
        /\ Linked(head)' = Linked(head) /\ pos(head)' = pos(head)
        /\ \A a \in heap : InQueue(next[a])' = InQueue(next[a]) /\ pos(next[a])' = pos(next[a])
    BY <1>2, <1>5 DEF Linked, InQueue, pos
  <1>7. ChainInv'
    BY <1>1, <1>2, <1>3, <1>4, <1>5, <1>6 DEF ChainInv
  <1>8. HeapInv'
    BY <1>1, <1>2 DEF HeapInv
  <1>9. RetireInv'
    <2>1. \A u \in Thread : Leaves(u)' => Leaves(u)
      BY DEF OthersSame, Leaves
    <2>2. Slot' = Slot
      BY DEF Slot
    <2>3. \A u \in Thread : Gone(h[u])' = Gone(h[u])
      BY <1>2 DEF Gone, Linked, pos
    <2>4. \A u \in Thread, i \in Slot : Gone(list[u][i])' = Gone(list[u][i])
      BY <1>2 DEF Gone, Linked, pos
    <2>5. QED
      BY <1>1, <2>1, <2>2, <2>3, <2>4 DEF RetireInv
  <1>10. Evolves(t)
    <2>1. taken \in Nat
      BY <1>1 DEF SharedInv
    <2>2. QED
      BY <1>2, <1>3, <1>4, <1>5, <1>6, <2>1 DEF Evolves
  <1>11. SharedInv'
    <2>1. KeepsHazards(file)' /\ place' \in [Op -> Nat] /\ taken' \in Nat
      BY <1>1, <1>2 DEF SharedInv, KeepsHazards
    <2>2. QED
      BY <1>7, <1>8, <1>9, <2>1 DEF SharedInv
  <1>12. QED
    BY <1>10, <1>11, LoudStep

LEMMA EnqHelpStep ==
    ASSUME IInv, NEW t \in Thread, EnqHelp(t), Watch
    PROVE  IInv'
  <1>1. SharedInv /\ TypeOK /\ LocalInv(t) /\ EnqInv(t)
    BY DEF IInv, SharedInv, LocalInv
  <1>2. /\ pc[t] = "enqHelp" /\ tail' = (IF tail = tl[t] THEN nx[t] ELSE tail) /\ Goto(t, "enqTail")
        /\ UNCHANGED <<file, head, next, value, heap, refs, hp, list, history, locals>>
    BY <1>1, SlowFile DEF EnqHelp, CasTail, AfterTail, Leave, SharedInv
  <1>3. nx[t] # Null /\ next[tl[t]] = nx[t] /\ nx[t] \in Address
    <2>1. nx[t] # Null /\ next[tl[t]] = nx[t]
      BY <1>1, <1>2 DEF EnqInv
    <2>2. QED
      BY <1>1, <2>1, FieldTypes
  <1>4. OthersSame(t)
    BY <1>1, LoudKeeps
  <1>5. place' = place
    BY <1>1, <1>2, <1>4, NoPlace
  <1>6. TypeOK'
    BY <1>1, <1>2, <1>3 DEF TypeOK, Goto, PcLabels, history, locals, scanning, Slot
  <1>7. pc'[t] = "enqTail" /\ then' = then /\ UNCHANGED <<node, calls, h, hp>>
    BY <1>1, <1>2 DEF Goto, TypeOK, history, locals
  <1>8. LocalInv(t)' /\ Protects(t) /\ ~Leaves(t)'
    BY <1>1, <1>2, <1>5, <1>7 DEF LocalInv, PathInv, EnqInv, DeqInv, ScanInv, Protects, Guards,
       Leaves, EnqPc, TailPc, HeadPc, ScanPc, Current
  <1>9. QED
    BY <1>2, <1>3, <1>4, <1>6, <1>7, <1>8, TailStep

LEMMA EnqSwingStep ==
    ASSUME IInv, NEW t \in Thread, EnqSwing(t), Watch
    PROVE  IInv'
  <1>1. SharedInv /\ TypeOK /\ LocalInv(t) /\ EnqInv(t)
    BY DEF IInv, SharedInv, LocalInv
  <1>2. /\ pc[t] = "enqSwing" /\ tail' = (IF tail = tl[t] THEN node[t] ELSE tail)
        /\ DropThen(t, <<0>>, "idle")
        /\ UNCHANGED <<file, head, next, value, heap, refs, hp, list, history, locals>>
    BY <1>1, SlowFile DEF EnqSwing, CasTail, SharedInv
  <1>3. node[t] # Null /\ next[tl[t]] = node[t] /\ node[t] \in Address
    <2>1. node[t] # Null /\ next[tl[t]] = node[t]
      BY <1>1, <1>2 DEF EnqInv
    <2>2. QED
      BY <1>1, <2>1, FieldTypes
  <1>4. OthersSame(t)
    BY <1>1, LoudKeeps
  <1>5. TypeOK'
    <2>1. <<0>> \in Seq({0, 1})
      OBVIOUS
    <2>2. QED
      BY <1>1, <1>2, <1>3, <2>1 DEF TypeOK, DropThen, PcLabels, history, locals, scanning, Slot
  <1>6. pc'[t] = "drop" /\ then'[t] = "idle" /\ drops'[t] = <<0>> /\ UNCHANGED <<calls, h, hp>>
    BY <1>1, <1>2 DEF DropThen, TypeOK, history, locals
  <1>7. LocalInv(t)' /\ Protects(t) /\ ~Leaves(t)'
    BY <1>6 DEF LocalInv, PathInv, EnqInv, DeqInv, ScanInv, Protects, Guards,
       Leaves, EnqPc, TailPc, HeadPc, ScanPc
  <1>8. QED
    BY <1>2, <1>3, <1>4, <1>5, <1>6, <1>7, TailStep

LEMMA DeqHelpStep ==
    ASSUME IInv, NEW t \in Thread, DeqHelp(t), Watch
    PROVE  IInv'
  <1>1. SharedInv /\ TypeOK /\ LocalInv(t) /\ DeqInv(t)
    BY DEF IInv, SharedInv, LocalInv
  <1>2. /\ pc[t] = "deqHelp" /\ tail' = (IF tail = tl[t] THEN nx[t] ELSE tail) /\ Goto(t, "deqHead")
        /\ UNCHANGED <<file, head, next, value, heap, refs, hp, list, history, locals>>
    BY <1>1, SlowFile DEF DeqHelp, CasTail, AfterTail, Leave, SharedInv
  <1>3. nx[t] # Null /\ next[tl[t]] = nx[t] /\ nx[t] \in Address
    <2>1. nx[t] # Null /\ next[h[t]] = nx[t] /\ h[t] = tl[t]
      BY <1>1, <1>2 DEF DeqInv, HeadPc
    <2>2. QED
      BY <1>1, <2>1, FieldTypes
  <1>4. OthersSame(t)
    BY <1>1, LoudKeeps
  <1>5. TypeOK'
    BY <1>1, <1>2, <1>3 DEF TypeOK, Goto, PcLabels, history, locals, scanning, Slot
  <1>6. pc'[t] = "deqHead" /\ then' = then /\ UNCHANGED <<calls, h, hp>>
    BY <1>1, <1>2 DEF Goto, TypeOK, history, locals
  <1>7. LocalInv(t)' /\ Protects(t) /\ ~Leaves(t)'
    BY <1>1, <1>2, <1>6 DEF LocalInv, PathInv, EnqInv, DeqInv, ScanInv, Protects, Guards,
       Leaves, EnqPc, TailPc, HeadPc, ScanPc
  <1>8. QED
    BY <1>2, <1>3, <1>4, <1>5, <1>6, <1>7, TailStep

\* A node that is allocated is not in the queue, whatever its address was.
LEMMA EnqAllocStep ==
    ASSUME IInv, NEW t \in Thread, EnqAlloc(t), Watch
    PROVE  IInv'
  <1>1. SharedInv /\ TypeOK /\ LocalInv(t) /\ HeapInv /\ ChainInv /\ RetireInv
    BY DEF IInv, SharedInv, LocalInv
  <1>2. /\ pc[t] = "idle" /\ Goto(t, "enqTail") /\ calls[t] < Len(Program[t])
        /\ calls' = [calls EXCEPT ![t] = @ + 1]
        /\ UNCHANGED <<file, head, tail, refs, hp, list, result, h, tl, nx, data, slot, unread, seen>>
    BY DEF EnqAlloc, Begins, scanning
  <1> DEFINE x == <<t, calls[t] + 1>>
  <1>3. PICK a \in Address \ heap : /\ heap' = heap \cup {a}
                                    /\ next' = [next EXCEPT ![a] = Null]
                                    /\ value' = [value EXCEPT ![a] = x]
                                    /\ node' = [node EXCEPT ![t] = a]
    BY DEF EnqAlloc
  <1>4. calls[t] \in Nat /\ calls'[t] = calls[t] + 1 /\ x \in Op /\ x # NoCall /\ x[1] = t /\ x[2] = calls[t] + 1
    <2>1. calls[t] \in Nat /\ Len(Program[t]) \in Nat
      BY <1>1, OpFacts DEF TypeOK
    <2>2. calls[t] + 1 \in 1 .. Len(Program[t]) /\ calls[t] + 1 \in Nat
      BY <1>2, <2>1
    <2>3. x \in Op
      BY <2>2, OpFacts
    <2>4. QED
      BY <1>1, <1>2, <2>1, <2>3, OpFacts DEF TypeOK
  <1> HIDE DEF x
  <1>5. OthersSame(t)
    BY <1>1, LoudKeeps
  <1>6. place' = place /\ back' = back /\ taken' = taken
    BY <1>1, <1>2, <1>5, NoPlace DEF Watch
  <1>7. place[x] = 0
    <2>1. ~(x[2] <= calls[x[1]])
      BY <1>4
    <2>2. QED
      BY <1>1, <1>4, <2>1 DEF HeapInv
  <1>8. /\ value'[a] = x /\ next'[a] = Null
        /\ \A b \in heap : b # a /\ value'[b] = value[b] /\ next'[b] = next[b] /\ b \in heap'
    BY <1>1, <1>3 DEF TypeOK
  <1>9. /\ \A b : Linked(b)' = Linked(b)
        /\ \A b \in heap : pos(b)' = pos(b)
    <2>1. \A b \in heap : pos(b)' = pos(b) /\ Linked(b)' = Linked(b)
      BY <1>6, <1>8 DEF pos, Linked
    <2>2. ~Linked(a)' /\ ~Linked(a)
      BY <1>3, <1>4, <1>6, <1>7, <1>8 DEF Linked
    <2>3. ASSUME NEW b, b \notin heap, b # a PROVE ~Linked(b)' /\ ~Linked(b)
      BY <1>3, <2>3 DEF Linked
    <2>4. \A b : Linked(b)' \in BOOLEAN /\ Linked(b) \in BOOLEAN
      BY DEF Linked
    <2>5. QED
      BY <2>1, <2>2, <2>3, <2>4
  <1>10. \A b : InQueue(b)' = InQueue(b) /\ Gone(b)' = Gone(b)
    <2>1. ASSUME NEW b \in heap PROVE InQueue(b)' = InQueue(b) /\ Gone(b)' = Gone(b)
      BY <1>6, <1>9 DEF InQueue, Gone
    <2>2. ASSUME NEW b, b \notin heap PROVE ~InQueue(b)' /\ ~InQueue(b) /\ ~Gone(b)' /\ ~Gone(b)
      BY <1>9, <2>2 DEF InQueue, Gone, Linked
    <2>3. \A b : InQueue(b)' \in BOOLEAN /\ InQueue(b) \in BOOLEAN /\ Gone(b)' \in BOOLEAN /\ Gone(b) \in BOOLEAN
      BY DEF InQueue, Gone
    <2>4. QED
      BY <2>1, <2>2, <2>3
  <1>11. TypeOK'
    <2>1. /\ heap' \subseteq Address /\ next' \in [Address -> Pointer]
          /\ value' \in [Address -> Op \cup {NoCall}] /\ node' \in [Thread -> Pointer]
      BY <1>1, <1>3, <1>4 DEF TypeOK, Pointer
    <2>2. calls' \in [Thread -> Nat] /\ pc' \in [Thread -> PcLabels] /\ UNCHANGED <<drops, then>>
      BY <1>1, <1>2, <1>4 DEF TypeOK, Goto, PcLabels
    <2>3. Slot' = Slot
      BY <1>2 DEF Slot
    <2>4. QED
      BY <1>1, <1>2, <2>1, <2>2, <2>3 DEF TypeOK
  <1>12. HeapInv'
    <2>1. ASSUME NEW o \in Op, o[2] <= calls[o[1]]
          PROVE  o[2] <= calls'[o[1]]
      <3>1. o[1] \in Thread /\ o[2] \in Nat /\ calls[o[1]] \in Nat
        BY <1>1, OpFacts DEF TypeOK
      <3>2. calls'[o[1]] = IF o[1] = t THEN calls[t] + 1 ELSE calls[o[1]]
        BY <1>1, <1>2, <3>1 DEF TypeOK
      <3>3. QED
        BY <1>4, <2>1, <3>1, <3>2
    <2>2. \A b \in heap : value[b] # NoCall => value[b] \in Op
      BY <1>1, Places
    <2>3. \A b \in heap : value[b] # x
      <3>1. ASSUME NEW b \in heap, value[b] = x PROVE FALSE
        <4>1. x[2] <= calls[x[1]]
          BY <1>1, <1>4, <3>1 DEF HeapInv
        <4>2. QED
          BY <1>4, <4>1
      <3>2. QED
        BY <3>1
    <2>4. \A b, c \in heap' : value'[b] = value'[c] => b = c
      BY <1>1, <1>3, <1>8, <2>3 DEF HeapInv
    <2>5. \A b \in heap' : value'[b] # NoCall => value'[b][2] <= calls'[value'[b][1]]
      <3>1. x[2] <= calls'[x[1]]
        BY <1>4
      <3>2. ASSUME NEW b \in heap, value[b] # NoCall PROVE value[b][2] <= calls'[value[b][1]]
        BY <1>1, <2>1, <2>2, <3>2 DEF HeapInv
      <3>3. QED
        BY <1>3, <1>8, <3>1, <3>2
    <2>6. \A o \in Op : place[o] # 0 => o[2] <= calls'[o[1]]
      BY <1>1, <2>1 DEF HeapInv
    <2>7. QED
      BY <1>1, <1>6, <2>4, <2>5, <2>6 DEF HeapInv
  <1>13. ChainInv'
    <2>1. head \in heap /\ tail \in heap
      BY <1>1, Ends
    <2>2. Linked(head)' = Linked(head) /\ pos(head)' = pos(head)
          /\ Linked(tail)' = Linked(tail) /\ pos(tail)' = pos(tail)
      BY <1>2, <1>6, <1>8, <2>1 DEF Linked, pos
    <2>3. \A b \in heap' : Linked(b)' => (next'[b] = Null <=> pos(b)' = back')
      BY <1>1, <1>3, <1>6, <1>8, <1>9 DEF ChainInv, Linked
    <2>4. ASSUME NEW b \in heap', InQueue(b)', next'[b] # Null
          PROVE  InQueue(next[b])' /\ pos(next[b])' = pos(b)' + 1
      <3>1. b \in heap /\ InQueue(b) /\ next'[b] = next[b] /\ next[b] # Null
        BY <1>3, <1>8, <1>10, <2>4
      <3>2. InQueue(next[b]) /\ pos(next[b]) = pos(b) + 1 /\ next[b] \in heap
        BY <1>1, <3>1 DEF ChainInv, InQueue, Linked
      <3>3. PICK c \in heap : c = next[b] /\ c = next'[b]
        BY <3>1, <3>2
      <3>4. InQueue(c)' /\ pos(c)' = pos(b)' + 1
        BY <1>9, <1>10, <3>1, <3>2, <3>3
      <3>5. QED
        BY <3>3, <3>4 DEF InQueue, Linked, pos
    <2>5. QED
      BY <1>1, <1>6, <2>2, <2>3, <2>4 DEF ChainInv
  <1>14. RetireInv'
    <2>1. \A u \in Thread : Leaves(u)' => Leaves(u)
      <3>1. pc'[t] = "enqTail"
        BY <1>1, <1>2 DEF Goto, TypeOK
      <3>2. QED
        BY <1>5, <3>1 DEF OthersSame, Leaves, ScanPc
    <2>2. Slot' = Slot
      BY <1>2 DEF Slot
    <2>3. ASSUME NEW b, Gone(b) PROVE Gone(b)'
      BY <1>10, <2>3
    <2>4. \A u \in Thread : Leaves(u)' => Gone(h[u])'
      <3>1. ASSUME NEW u \in Thread, Leaves(u)' PROVE Gone(h[u])'
        <4>1. PICK b \in heap : b = h[u] /\ Gone(b)
          BY <1>1, <2>1, <3>1 DEF RetireInv, Gone, Linked
        <4>2. Gone(b)' /\ h'[u] = b
          BY <1>2, <2>3, <4>1
        <4>3. QED
          BY <4>2 DEF Gone, Linked, pos
      <3>2. QED
        BY <3>1
    <2>5. \A u \in Thread, i \in Slot : list[u][i] # Null => Gone(list[u][i])'
      <3>1. ASSUME NEW u \in Thread, NEW i \in Slot, list[u][i] # Null PROVE Gone(list[u][i])'
        <4>1. PICK b \in heap : b = list[u][i] /\ Gone(b)
          BY <1>1, <3>1 DEF RetireInv, Gone, Linked
        <4>2. Gone(b)' /\ list'[u][i] = b
          BY <1>2, <2>3, <4>1
        <4>3. QED
          BY <4>2 DEF Gone, Linked, pos
      <3>2. QED
        BY <3>1
    <2>6. QED
      BY <1>1, <1>2, <2>1, <2>2, <2>4, <2>5 DEF RetireInv
  <1>15. pc'[t] = "enqTail" /\ then' = then /\ node'[t] = a /\ Current(t)' = x
    BY <1>1, <1>2, <1>3, <1>4 DEF Goto, TypeOK, Current, x
  <1>16. LocalInv(t)' /\ Protects(t)
    BY <1>1, <1>2, <1>3, <1>4, <1>6, <1>7, <1>8, <1>15 DEF LocalInv, PathInv, EnqInv, DeqInv, ScanInv,
       Protects, Guards, EnqPc, TailPc, HeadPc, ScanPc
  <1>17. Evolves(t)
    <2>1. pos(tail)' = pos(tail) /\ pos(tail) \in Nat /\ taken \in Nat
      BY <1>1, <1>2, <1>6, <1>8, Ends DEF pos
    <2>2. QED
      BY <1>2, <1>6, <1>8, <1>9, <1>16, <2>1 DEF Evolves
  <1>18. SharedInv'
    <2>1. KeepsHazards(file)' /\ place' \in [Op -> Nat] /\ taken' \in Nat
      BY <1>1, <1>2, <1>6 DEF SharedInv, KeepsHazards
    <2>2. QED
      BY <1>11, <1>12, <1>13, <1>14, <2>1 DEF SharedInv
  <1>19. QED
    BY <1>5, <1>16, <1>17, <1>18, LoudStep

\* The node of the call becomes the last of the queue.
LEMMA LinkStep ==
    ASSUME IInv, NEW t \in Thread, EnqLink(t), Watch, next[tl[t]] = Null
    PROVE  /\ IInv'
           /\ place' = [place EXCEPT ![Current(t)] = back + 1] /\ back' = back + 1
  <1>1. SharedInv /\ TypeOK /\ LocalInv(t) /\ HeapInv /\ ChainInv /\ RetireInv /\ EnqInv(t)
        /\ place \in [Op -> Nat] /\ taken \in Nat
    BY DEF IInv, SharedInv, LocalInv
  <1>2. /\ pc[t] = "enqLink" /\ Goto(t, "enqSwing") /\ next' = [next EXCEPT ![tl[t]] = node[t]]
        /\ UNCHANGED <<file, head, tail, value, heap, refs, hp, list, history, locals>>
    BY <1>1, SlowFile DEF EnqLink, BeforeTail, SharedInv
  <1>3. /\ node[t] \in heap /\ value[node[t]] = Current(t) /\ Current(t) \in Op
        /\ place[Current(t)] = 0 /\ next[node[t]] = Null
        /\ Linked(tl[t]) /\ pos(tl[t]) <= pos(tail) /\ hp[t][0] = tl[t] /\ tl[t] \in heap
    BY <1>2, <1>1 DEF EnqInv, EnqPc, TailPc, Linked
  <1>4. PICK n \in heap : n = node[t]
    BY <1>3
  <1>5. PICK l \in heap : l = tl[t]
    BY <1>3
  <1>6. PICK o \in Op : o = Current(t)
    BY <1>3
  <1>7. /\ pc[t] = "enqLink" /\ Goto(t, "enqSwing") /\ next' = [next EXCEPT ![l] = n]
        /\ UNCHANGED <<file, head, tail, value, heap, refs, hp, list, history, locals>>
    BY <1>2, <1>4, <1>5
  <1>8. /\ n \in heap /\ value[n] = o /\ o \in Op /\ place[o] = 0 /\ next[n] = Null
        /\ Linked(l) /\ pos(l) <= pos(tail) /\ hp[t][0] = l /\ l \in heap /\ next[l] = Null
    BY <1>3, <1>4, <1>5, <1>6
  <1>9. o # NoCall /\ o[1] = t /\ n \in Address /\ n # Null /\ l \in Address
    BY <1>1, <1>8, <1>6, OpFacts, FieldTypes DEF Current
  <1>10. ~Linked(n) /\ l # n
    BY <1>8, <1>9 DEF Linked
  <1>11. back \in Nat /\ back + 1 # 0 /\ taken <= back /\ pos(l) = back /\ pos(tail) \in Nat
        /\ pos(tail) <= back /\ taken <= pos(tail) /\ pos(tail) = back /\ tail = l /\ tail \in heap
        /\ head \in heap /\ Linked(tail) /\ Linked(head) /\ pos(head) = taken
    <2>1. back \in Nat /\ taken <= back /\ pos(tail) \in Nat /\ pos(tail) <= back
          /\ taken <= pos(tail) /\ head \in heap /\ tail \in heap /\ Linked(tail) /\ Linked(head)
          /\ pos(head) = taken
      BY <1>1, Ends, Places DEF InQueue
    <2>2. pos(l) = back
      BY <1>1, <1>8 DEF ChainInv
    <2>3. pos(tail) = back
      BY <1>8, <2>1, <2>2
    <2>4. tail = l
      BY <1>1, <1>8, <2>1, <2>2, <2>3, Places
    <2>5. QED
      BY <2>1, <2>2, <2>3, <2>4
  <1>12. OthersSame(t)
    BY <1>1, LoudKeeps
  <1>13. UNCHANGED <<node, tl, h, hp, then, calls, result>> /\ pc'[t] = "enqSwing"
    BY <1>1, <1>7 DEF Goto, TypeOK, locals, history
  <1>14. /\ next'[l] = n /\ \A b \in heap : b # l => next'[b] = next[b]
    BY <1>1, <1>7, <1>9 DEF TypeOK
  <1>15. \A q \in Op : place'[q] = IF q = o THEN back + 1 ELSE place[q]
    <2>1. \A u \in Thread : Links(u) <=> u = t
      <3>1. Links(t)
        BY <1>7, <1>8, <1>9, <1>13, <1>14 DEF Links
      <3>2. \A u \in Thread \ {t} : ~Links(u)
        BY <1>12 DEF Links, OthersSame
      <3>3. QED
        BY <3>1, <3>2
    <2>2. \A q : (\E u \in Thread : Links(u) /\ q = Current(u)) <=> q = o
      BY <1>6, <2>1
    <2>3. QED
      BY <2>2 DEF Watch
  <1>16. place' = [place EXCEPT ![o] = back + 1] /\ place' \in [Op -> Nat] /\ taken' = taken
    <2>1. taken' = taken
      BY <1>7 DEF Watch
    <2>2. place' = [q \in Op |-> place'[q]]
      BY DEF Watch
    <2>3. place' = [place EXCEPT ![o] = back + 1]
      BY <1>1, <1>15, <2>2
    <2>4. back + 1 \in Nat
      BY <1>11
    <2>5. QED
      BY <1>1, <2>1, <2>3, <2>4
  <1>17. back' = back + 1 /\ IsFiniteSet({q \in Op : place'[q] # 0})
    <2> DEFINE P == {q \in Op : place[q] # 0}
    <2>1. {q \in Op : place'[q] # 0} = P \cup {o} /\ o \notin P
      BY <1>8, <1>11, <1>15
    <2>2. IsFiniteSet(P)
      BY <1>1 DEF HeapInv
    <2>3. IsFiniteSet(P \cup {o}) /\ Cardinality(P \cup {o}) = Cardinality(P) + 1
      <3> HIDE DEF P
      <3> QED
        BY <2>1, <2>2, FS_AddElement
    <2>4. back = Cardinality(P) /\ back' = Cardinality({q \in Op : place'[q] # 0})
      BY DEF back
    <2>5. QED
      BY <2>1, <2>3, <2>4
  <1>18. \A b \in heap : value[b] = o <=> b = n
    BY <1>1, <1>8 DEF HeapInv
  <1>19. \A b \in heap : value[b] # NoCall => value[b] \in Op
    BY <1>1, Places
  <1>20. \A b \in heap : pos(b)' = IF b = n THEN back + 1 ELSE pos(b)
    BY <1>7, <1>8, <1>9, <1>15, <1>18, <1>19 DEF pos
  <1>21. \A b \in heap : Linked(b)' <=> Linked(b) \/ b = n
    BY <1>7, <1>8, <1>11, <1>15, <1>18, <1>19 DEF Linked
  <1>22. \A b \in heap : pos(b) \in Nat /\ pos(b) <= back
    BY <1>1, Places
  <1>23. TypeOK'
    <2>1. next' \in [Address -> Pointer] /\ pc' \in [Thread -> PcLabels] /\ UNCHANGED <<drops, then>>
      BY <1>1, <1>7, <1>9 DEF TypeOK, Goto, PcLabels, Pointer
    <2>2. Slot' = Slot
      BY <1>7 DEF Slot
    <2>3. QED
      BY <1>1, <1>7, <2>1, <2>2 DEF TypeOK, history, locals, scanning
  <1>24. HeapInv'
    <2>1. \A q \in Op : place'[q] <= back'
      <3>1. ASSUME NEW q \in Op PROVE place'[q] <= back'
        <4>1. place[q] \in Nat /\ place[q] <= back
          BY <1>1 DEF HeapInv
        <4>2. QED
          BY <1>11, <1>15, <1>17, <4>1
      <3>2. QED
        BY <3>1
    <2>2. \A q \in Op : place'[q] # 0 => q[2] <= calls[q[1]]
      <3>1. o[2] <= calls[o[1]]
        BY <1>1, <1>8, <1>9 DEF HeapInv
      <3>2. QED
        BY <1>1, <1>15, <3>1 DEF HeapInv
    <2>3. \A q, r \in Op : place'[q] = place'[r] /\ place'[q] # 0 => q = r
      <3>1. \A q \in Op : place[q] # back + 1
        <4>1. ASSUME NEW q \in Op PROVE place[q] # back + 1
          <5>1. place[q] \in Nat /\ place[q] <= back
            BY <1>1 DEF HeapInv
          <5>2. QED
            BY <1>11, <5>1
        <4>2. QED
          BY <4>1
      <3>2. QED
        BY <1>1, <1>15, <3>1 DEF HeapInv
    <2>4. QED
      BY <1>1, <1>7, <1>13, <1>17, <2>1, <2>2, <2>3 DEF HeapInv
  <1>25. ChainInv'
    <2>1. /\ Linked(head)' /\ pos(head)' = taken' /\ Linked(tail)' /\ pos(tail)' = pos(tail)
          /\ taken' <= pos(tail)' /\ back' <= pos(tail)' + 1
      <3>1. head # n /\ tail # n
        BY <1>10, <1>11
      <3>2. pos(head)' = pos(head) /\ pos(tail)' = pos(tail)
        BY <1>7, <1>11, <1>20, <3>1 DEF pos
      <3>3. Linked(head)' /\ Linked(tail)'
        BY <1>7, <1>11, <1>21 DEF Linked
      <3>4. QED
        BY <1>11, <1>16, <1>17, <3>2, <3>3
    <2>2. ASSUME NEW b \in heap, Linked(b)'
          PROVE  next'[b] = Null <=> pos(b)' = back'
      <3>1. CASE b = n
        BY <1>8, <1>10, <1>14, <1>17, <1>20, <3>1
      <3>2. CASE b = l
        <4>1. pos(b)' = back /\ next'[b] = n
          BY <1>10, <1>11, <1>14, <1>20, <3>2
        <4>2. back # back'
          BY <1>11, <1>17
        <4>3. QED
          BY <1>9, <4>1, <4>2
      <3>3. CASE b # n /\ b # l
        <4>1. Linked(b) /\ next'[b] = next[b] /\ pos(b)' = pos(b)
          BY <1>14, <1>20, <1>21, <2>2, <3>3
        <4>2. pos(b) # back
          BY <1>1, <1>8, <1>11, <3>3, <4>1, Places
        <4>3. next[b] # Null /\ pos(b) # back'
          BY <1>1, <1>11, <1>17, <1>22, <4>1, <4>2 DEF ChainInv
        <4>4. QED
          BY <4>1, <4>3
      <3>4. QED
        BY <3>1, <3>2, <3>3
    <2>3. ASSUME NEW b \in heap, InQueue(b)', next'[b] # Null
          PROVE  InQueue(next[b])' /\ pos(next[b])' = pos(b)' + 1
      <3>1. PICK c \in heap : c = next'[b] /\ InQueue(c)' /\ pos(c)' = pos(b)' + 1
        <4>1. CASE b = l
          <5>1. pos(n)' = back + 1 /\ Linked(n)' /\ pos(b)' = back /\ next'[b] = n
            BY <1>8, <1>10, <1>11, <1>14, <1>20, <1>21, <4>1
          <5>2. taken' <= pos(n)'
            BY <1>1, <1>11, <1>16, <5>1
          <5>3. QED
            BY <1>8, <5>1, <5>2 DEF InQueue
        <4>2. CASE b # l
          <5>1. b # n /\ next'[b] = next[b] /\ next[b] # Null
            BY <1>8, <1>14, <2>3, <4>2
          <5>2. InQueue(b) /\ pos(b)' = pos(b)
            BY <1>16, <1>20, <1>21, <2>3, <5>1 DEF InQueue
          <5>3. InQueue(next[b]) /\ pos(next[b]) = pos(b) + 1
            BY <1>1, <5>1, <5>2 DEF ChainInv
          <5>4. PICK c \in heap : c = next[b]
            BY <5>3 DEF InQueue, Linked
          <5>5. c # n /\ Linked(c) /\ taken <= pos(c)
            BY <1>10, <5>3, <5>4 DEF InQueue
          <5>6. pos(c)' = pos(c) /\ Linked(c)'
            BY <1>20, <1>21, <5>5
          <5>7. QED
            BY <1>16, <5>1, <5>2, <5>3, <5>4, <5>5, <5>6 DEF InQueue
        <4>3. QED
          BY <4>1, <4>2
      <3>2. QED
        BY <3>1 DEF InQueue, Linked, pos
    <2>4. QED
      BY <1>7, <2>1, <2>2, <2>3 DEF ChainInv
  <1>26. \A b \in heap : Gone(b) => Gone(b)'
    BY <1>10, <1>16, <1>20, <1>21 DEF Gone
  <1>27. RetireInv'
    <2>1. \A u \in Thread : Leaves(u)' => Leaves(u)
      BY <1>12, <1>13 DEF OthersSame, Leaves, ScanPc
    <2>2. Slot' = Slot
      BY <1>7 DEF Slot
    <2>3. \A u \in Thread : Leaves(u)' => Gone(h[u])'
      <3>1. ASSUME NEW u \in Thread, Leaves(u)' PROVE Gone(h[u])'
        <4>1. PICK b \in heap : b = h[u] /\ Gone(b)
          BY <1>1, <2>1, <3>1 DEF RetireInv, Gone, Linked
        <4>2. Gone(b)' /\ h'[u] = b
          BY <1>13, <1>26, <4>1
        <4>3. QED
          BY <4>2 DEF Gone, Linked, pos
      <3>2. QED
        BY <3>1
    <2>4. \A u \in Thread, i \in Slot : list[u][i] # Null => Gone(list[u][i])'
      <3>1. ASSUME NEW u \in Thread, NEW i \in Slot, list[u][i] # Null PROVE Gone(list[u][i])'
        <4>1. PICK b \in heap : b = list[u][i] /\ Gone(b)
          BY <1>1, <3>1 DEF RetireInv, Gone, Linked
        <4>2. Gone(b)' /\ list'[u][i] = b
          BY <1>7, <1>26, <4>1
        <4>3. QED
          BY <4>2 DEF Gone, Linked, pos
      <3>2. QED
        BY <3>1
    <2>5. QED
      BY <1>1, <1>7, <1>13, <2>1, <2>2, <2>3, <2>4 DEF RetireInv
  <1>28. LocalInv(t)' /\ Protects(t)
    <2>1. PathInv(t)' /\ DeqInv(t)' /\ ScanInv(t)' /\ Protects(t)
      BY <1>1, <1>7, <1>13 DEF LocalInv, PathInv, DeqInv, ScanInv, Protects, Guards, EnqPc,
         TailPc, HeadPc, ScanPc
    <2>2. Linked(l)' /\ pos(l)' <= pos(tail)'
      BY <1>7, <1>8, <1>11, <1>20, <1>21 DEF pos
    <2>3. EnqInv(t)'
      <3>1. tl'[t] = l /\ node'[t] = n /\ hp'[t][0] = l
        BY <1>8, <1>13, <1>5, <1>4
      <3>2. Linked(tl[t])' /\ pos(tl[t])' <= pos(tail)'
        BY <2>2, <3>1 DEF Linked, pos
      <3>3. QED
        BY <1>9, <1>13, <1>14, <3>1, <3>2 DEF EnqInv, EnqPc, TailPc
    <2>4. QED
      BY <2>1, <2>3 DEF LocalInv
  <1>29. Evolves(t)
    <2>1. pos(tail)' = pos(tail)
      BY <1>7, <1>10, <1>11, <1>20 DEF pos
    <2>2. \A b \in heap : next[b] # Null \/ ~Linked(b) => next'[b] = next[b]
      BY <1>8, <1>14
    <2>3. \A b \in heap : Linked(b) => Linked(b)' /\ pos(b)' = pos(b)
      BY <1>10, <1>20, <1>21
    <2>4. \A q \in Op : q[1] # t => place'[q] = place[q]
      BY <1>9, <1>15
    <2>5. QED
      BY <1>1, <1>7, <1>11, <1>16, <1>28, <2>1, <2>2, <2>3, <2>4 DEF Evolves
  <1>30. SharedInv'
    <2>1. KeepsHazards(file)'
      BY <1>1, <1>7 DEF SharedInv, KeepsHazards
    <2>2. taken' \in Nat
      BY <1>1, <1>16
    <2>3. QED
      BY <1>16, <1>23, <1>24, <1>25, <1>27, <2>1, <2>2 DEF SharedInv
  <1>31. QED
    BY <1>12, <1>16, <1>17, <1>28, <1>29, <1>30, <1>6, LoudStep

LEMMA EnqLinkStep ==
    ASSUME IInv, NEW t \in Thread, EnqLink(t), Watch
    PROVE  IInv'
  <1>1. SharedInv /\ TypeOK /\ LocalInv(t)
    BY DEF IInv, SharedInv
  <1>2. CASE next[tl[t]] = Null
    BY <1>2, LinkStep
  <1>3. CASE next[tl[t]] # Null
    <2>1. /\ pc[t] = "enqLink" /\ Goto(t, "enqTail")
          /\ UNCHANGED <<file, head, tail, next, value, heap, refs, hp, list, history, locals>>
      BY <1>1, <1>3, SlowFile DEF EnqLink, Leave, SharedInv
    <2>2. pc'[t] = "enqTail" /\ UNCHANGED <<node, calls, then, h, hp>> /\ calls[t] <= calls'[t]
      BY <1>1, <2>1 DEF Goto, TypeOK, locals, history
    <2>3. Calm(t)
      BY <1>1, <2>1, <2>2, LoudKeeps DEF Calm
    <2>4. place' = place
      BY <1>1, <2>3, CalmMarks
    <2>5. TypeOK'
      BY <1>1, <2>1 DEF TypeOK, Goto, PcLabels, history, locals, scanning, Slot
    <2>6. Own(t)
      BY <1>1, <2>1, <2>2, <2>4 DEF Own, LocalInv, PathInv, EnqInv, DeqInv, ScanInv, Protects,
         Guards, Leaves, EnqPc, TailPc, HeadPc, ScanPc, Current
    <2>7. QED
      BY <2>3, <2>5, <2>6, CalmStep
  <1>4. QED
    BY <1>2, <1>3

\* The node behind Head becomes Head; the node before it is with thread t.
LEMMA TakeStep ==
    ASSUME IInv, NEW t \in Thread, DeqCas(t), Watch, head = h[t]
    PROVE  /\ IInv'
           /\ place' = place /\ back' = back /\ taken' = taken + 1
           /\ data[t] \in Op /\ place[data[t]] = taken + 1
           /\ result' = [result EXCEPT ![Current(t)] = data[t]]
  <1>1. SharedInv /\ TypeOK /\ LocalInv(t) /\ HeapInv /\ ChainInv /\ RetireInv /\ DeqInv(t)
        /\ place \in [Op -> Nat] /\ taken \in Nat
    BY DEF IInv, SharedInv, LocalInv
  <1>2. /\ pc[t] = "deqCas" /\ head' = nx[t]
        /\ result' = [result EXCEPT ![Current(t)] = data[t]]
        /\ DropThen(t, <<0, 1>>, IF flagRet THEN "retire" ELSE "return")
        /\ UNCHANGED <<file, tail, next, value, heap, refs, hp, list, calls, locals>>
    BY <1>1, SlowFile DEF DeqCas, SharedInv
  <1>3. /\ head \in heap /\ InQueue(head) /\ pos(head) = taken /\ next[head] = nx[t]
        /\ nx[t] # Null /\ tl[t] # head /\ data[t] = value[nx[t]] /\ taken < pos(tail)
    <2>1. head \in heap /\ InQueue(head) /\ pos(head) = taken
      BY <1>1, Ends
    <2>2. QED
      BY <1>1, <1>2, <2>1 DEF DeqInv, HeadPc
  <1>4. InQueue(nx[t]) /\ pos(nx[t]) = taken + 1
    BY <1>1, <1>3 DEF ChainInv
  <1>5. PICK n \in heap : n = nx[t]
    BY <1>4 DEF InQueue, Linked
  <1>6. /\ Linked(n) /\ pos(n) = taken + 1 /\ head' = n /\ n # head /\ data[t] = value[n]
    BY <1>1, <1>2, <1>3, <1>4, <1>5 DEF InQueue
  <1>7. OthersSame(t)
    BY <1>1, LoudKeeps
  <1>8. place' = place /\ back' = back
    BY <1>1, <1>2, <1>7, NoPlace
  <1>9. taken' = taken + 1
    BY <1>6 DEF Watch
  <1>10. \A b : pos(b)' = pos(b) /\ Linked(b)' = Linked(b)
    BY <1>2, <1>8 DEF pos, Linked
  <1>11. \A b \in heap : pos(b) \in Nat
    BY <1>1, Places
  <1>12. value[n] # NoCall /\ value[n] \in Op /\ place[value[n]] = taken + 1
    <2>1. value[n] # NoCall
      BY <1>1, <1>6 DEF pos
    <2>2. QED
      BY <1>1, <1>6, <2>1, Places DEF pos
  <1>13. /\ pc'[t] = "drop" /\ then'[t] = (IF flagRet THEN "retire" ELSE "return")
         /\ drops'[t] = <<0, 1>> /\ UNCHANGED <<h, hp>>
    BY <1>1, <1>2 DEF DropThen, TypeOK, locals
  <1>14. TypeOK'
    <2>1. <<0, 1>> \in Seq({0, 1})
      OBVIOUS
    <2>2. head' \in Address
      BY <1>1, <1>6, FieldTypes
    <2>3. result' \in [Op -> Op \cup {None, Empty}]
      BY <1>1, <1>2, <1>6, <1>12 DEF TypeOK
    <2>4. drops' \in [Thread -> Seq({0, 1})] /\ pc' \in [Thread -> PcLabels]
          /\ then' \in [Thread -> PcLabels]
      BY <1>1, <1>2, <2>1 DEF TypeOK, DropThen, PcLabels
    <2>5. Slot' = Slot
      BY <1>2 DEF Slot
    <2>6. QED
      BY <1>1, <1>2, <2>2, <2>3, <2>4, <2>5 DEF TypeOK, locals, scanning
  <1>15. HeapInv'
    BY <1>1, <1>2, <1>8 DEF HeapInv
  <1>16. ChainInv'
    <2>1. Linked(head)' /\ pos(head)' = taken'
      BY <1>2, <1>6, <1>8, <1>9 DEF Linked, pos
    <2>2. Linked(tail)' /\ pos(tail)' = pos(tail) /\ taken' <= pos(tail) /\ back' <= pos(tail) + 1
      <3>1. pos(tail) \in Nat /\ Linked(tail) /\ back <= pos(tail) + 1
        BY <1>1, Ends DEF InQueue
      <3>2. taken + 1 <= pos(tail)
        BY <1>1, <1>3, <3>1
      <3>3. QED
        BY <1>2, <1>8, <1>9, <3>1, <3>2 DEF Linked, pos
    <2>3. ASSUME NEW b \in heap, InQueue(b)', next[b] # Null
          PROVE  InQueue(next[b])' /\ pos(next[b])' = pos(b)' + 1
      <3>1. InQueue(b) /\ pos(b)' = pos(b) /\ taken + 1 <= pos(b) /\ pos(b) \in Nat
        BY <1>1, <1>9, <1>10, <1>11, <2>3 DEF InQueue
      <3>2. PICK c \in heap : c = next[b] /\ Linked(c) /\ pos(c) = pos(b) + 1
        BY <1>1, <2>3, <3>1 DEF ChainInv, InQueue, Linked
      <3>3. Linked(c)' /\ pos(c)' = pos(b) + 1 /\ taken' <= pos(c)'
        BY <1>1, <1>9, <1>10, <3>1, <3>2
      <3>4. next'[b] = c
        BY <1>2, <3>2
      <3>5. QED
        BY <3>1, <3>3, <3>4 DEF InQueue, Linked, pos
    <2>4. QED
      BY <1>1, <1>2, <1>8, <1>10, <2>1, <2>2, <2>3 DEF ChainInv
  <1>17. \A b : Gone(b) => Gone(b)'
    <2>1. ASSUME NEW b, Gone(b) PROVE Gone(b)'
      <3>1. b \in heap /\ pos(b) \in Nat
        BY <1>11, <2>1 DEF Gone, Linked
      <3>2. QED
        BY <1>1, <1>9, <1>10, <2>1, <3>1 DEF Gone
    <2>2. QED
      BY <2>1
  <1>18. RetireInv'
    <2>1. \A u \in Thread \ {t} : Leaves(u)' = Leaves(u)
      BY <1>7 DEF OthersSame, Leaves
    <2>2. Slot' = Slot
      BY <1>2 DEF Slot
    <2>3. ~Gone(head)
      BY <1>1, <1>3 DEF Gone
    <2>4. ASSUME NEW u \in Thread, Leaves(u)' PROVE Gone(h[u])'
      <3>1. PICK b \in heap : b = h[u] /\ Gone(b)'
        <4>1. CASE u = t
          <5>1. PICK b \in heap : b = head
            BY <1>3
          <5>2. Linked(b)' /\ pos(b)' < taken'
            BY <1>1, <1>3, <1>9, <1>10, <5>1 DEF InQueue
          <5>3. QED
            BY <4>1, <5>1, <5>2 DEF Gone
        <4>2. CASE u # t
          <5>1. Gone(h[u])
            BY <1>1, <2>1, <2>4, <4>2 DEF RetireInv
          <5>2. PICK b \in heap : b = h[u] /\ Gone(b)
            BY <5>1 DEF Gone, Linked
          <5>3. QED
            BY <1>17, <5>2
        <4>3. QED
          BY <4>1, <4>2
      <3>2. h'[u] = b
        BY <1>13, <3>1
      <3>3. QED
        BY <3>1, <3>2 DEF Gone, Linked, pos
    <2>5. ASSUME NEW u \in Thread, NEW i \in Slot, list[u][i] # Null PROVE Gone(list[u][i])'
      <3>1. PICK b \in heap : b = list[u][i] /\ Gone(b)
        BY <1>1, <2>5 DEF RetireInv, Gone, Linked
      <3>2. Gone(b)' /\ list'[u][i] = b
        BY <1>2, <1>17, <3>1
      <3>3. QED
        BY <3>2 DEF Gone, Linked, pos
    <2>6. \A u, v \in Thread : Leaves(u)' /\ Leaves(v)' /\ h[u] = h[v] => u = v
      <3>1. ASSUME NEW u \in Thread \ {t}, Leaves(u)' PROVE h[u] # h[t]
        BY <1>1, <2>1, <2>3, <3>1 DEF RetireInv
      <3>2. \A u, v \in Thread \ {t} : Leaves(u)' /\ Leaves(v)' /\ h[u] = h[v] => u = v
        BY <1>1, <2>1 DEF RetireInv
      <3>3. QED
        BY <3>1, <3>2
    <2>7. \A u, v \in Thread, i \in Slot : Leaves(u)' => h[u] # list[v][i]
      <3>1. \A u \in Thread \ {t}, v \in Thread, i \in Slot : Leaves(u)' => h[u] # list[v][i]
        BY <1>1, <2>1 DEF RetireInv
      <3>2. \A v \in Thread, i \in Slot : h[t] # list[v][i]
        BY <1>1, <1>3, <2>3, FieldTypes DEF RetireInv
      <3>3. QED
        BY <3>1, <3>2
    <2>8. QED
      BY <1>1, <1>2, <1>13, <2>2, <2>4, <2>5, <2>6, <2>7 DEF RetireInv
  <1>19. LocalInv(t)' /\ Protects(t)
    BY <1>1, <1>13 DEF LocalInv, PathInv, EnqInv, DeqInv, ScanInv, Protects, Guards, EnqPc, TailPc,
       HeadPc, ScanPc
  <1>20. Evolves(t)
    <2>1. pos(tail)' = pos(tail) /\ pos(tail) \in Nat
      BY <1>1, <1>2, <1>8, Ends DEF pos
    <2>2. taken' \in Nat /\ taken <= taken'
      BY <1>1, <1>9
    <2>3. \A b \in heap : pos(b) <= taken => b # head'
      BY <1>1, <1>6
    <2>4. QED
      BY <1>2, <1>8, <1>10, <1>19, <2>1, <2>2, <2>3 DEF Evolves
  <1>21. SharedInv'
    <2>1. KeepsHazards(file)' /\ place' \in [Op -> Nat] /\ taken' \in Nat
      BY <1>1, <1>2, <1>8, <1>9 DEF SharedInv, KeepsHazards
    <2>2. QED
      BY <1>14, <1>15, <1>16, <1>18, <2>1 DEF SharedInv
  <1>22. QED
    BY <1>2, <1>6, <1>7, <1>8, <1>9, <1>12, <1>19, <1>20, <1>21, LoudStep

LEMMA DeqCasStep ==
    ASSUME IInv, NEW t \in Thread, DeqCas(t), Watch
    PROVE  IInv'
  <1>1. SharedInv /\ TypeOK /\ LocalInv(t)
    BY DEF IInv, SharedInv
  <1>2. CASE head = h[t]
    BY <1>2, TakeStep
  <1>3. CASE head # h[t]
    <2>1. /\ pc[t] = "deqCas" /\ Goto(t, "deqHead")
          /\ UNCHANGED <<file, head, tail, next, value, heap, refs, hp, list, history, locals>>
      BY <1>1, <1>3, SlowFile DEF DeqCas, Leave, SharedInv, history
    <2>2. pc'[t] = "deqHead" /\ UNCHANGED <<node, calls, then, h, hp>> /\ calls[t] <= calls'[t]
      BY <1>1, <2>1 DEF Goto, TypeOK, locals, history
    <2>3. Calm(t)
      BY <1>1, <2>1, <2>2, LoudKeeps DEF Calm
    <2>4. TypeOK'
      BY <1>1, <2>1 DEF TypeOK, Goto, PcLabels, history, locals, scanning, Slot
    <2>5. Own(t)
      BY <1>1, <2>1, <2>2 DEF Own, LocalInv, PathInv, EnqInv, DeqInv, ScanInv, Protects,
         Guards, Leaves, EnqPc, TailPc, HeadPc, ScanPc
    <2>6. QED
      BY <2>3, <2>4, <2>5, CalmStep
  <1>4. QED
    BY <1>2, <1>3

\* The node at h goes into a free slot; a scan has every hazard pointer of the
\* others before it.
LEMMA RetireStep ==
    ASSUME IInv, NEW t \in Thread, Retire(t), Watch
    PROVE  IInv'
  <1>1. SharedInv /\ TypeOK /\ LocalInv(t) /\ HeapInv /\ ChainInv /\ RetireInv
    BY DEF IInv, SharedInv, LocalInv
  <1>2. /\ pc[t] = "retire" /\ Leaves(t) /\ file.scan = "gathered"
        /\ UNCHANGED <<file, head, tail, next, value, heap, refs, hp, history, node, h, tl, nx, data>>
    BY <1>1, SlowFile DEF Retire, Leaves, SharedInv
  <1>3. OthersSame(t) /\ calls' = calls /\ calls[t] <= calls'[t]
    BY <1>1, <1>2, LoudKeeps DEF history, TypeOK
  <1>4. place' = place /\ back' = back /\ taken' = taken
    BY <1>1, <1>2, <1>3, NoPlace DEF Watch
  <1>5. \A a : /\ pos(a)' = pos(a) /\ Linked(a)' = Linked(a)
               /\ InQueue(a)' = InQueue(a) /\ Gone(a)' = Gone(a)
    BY <1>2, <1>4 DEF pos, Linked, InQueue, Gone
  <1>6. Slot' = Slot /\ Slot \subseteq Nat
    BY <1>1, <1>2, FieldTypes DEF Slot
  <1>7. 0 \in 0 .. file.MAXTHRES
    BY <1>1, FieldTypes
  \* What a scan begins with.
  <1>8. ASSUME NEW l \in {"idle", "retire"}, ScanThen(t, l)
        PROVE  /\ pc'[t] = "gather" /\ then'[t] = l /\ slot'[t] = 0 /\ unread'[t] = Others(t)
               /\ drops' = drops /\ pc' \in [Thread -> PcLabels] /\ then' \in [Thread -> PcLabels]
               /\ slot' \in [Thread -> 0 .. file.MAXTHRES] /\ seen' \in [Thread -> SUBSET Pointer]
               /\ unread' \in [Thread -> SUBSET (Thread \X {0, 1})]
    <2>1. Others(t) \in SUBSET (Thread \X {0, 1})
      BY DEF Others
    <2>2. /\ pc' = [pc EXCEPT ![t] = "gather"] /\ then' = [then EXCEPT ![t] = l]
          /\ slot' = [slot EXCEPT ![t] = 0] /\ unread' = [unread EXCEPT ![t] = Others(t)]
          /\ seen' = [seen EXCEPT ![t] = {}] /\ drops' = drops
      BY <1>2, <1>8 DEF ScanThen
    <2>3. pc' \in [Thread -> PcLabels] /\ then' \in [Thread -> PcLabels]
      BY <1>1, <2>2 DEF TypeOK, PcLabels
    <2>4. slot' \in [Thread -> 0 .. file.MAXTHRES] /\ seen' \in [Thread -> SUBSET Pointer]
          /\ unread' \in [Thread -> SUBSET (Thread \X {0, 1})]
      BY <1>1, <1>7, <2>1, <2>2 DEF TypeOK
    <2>5. QED
      BY <1>1, <2>2, <2>3, <2>4 DEF TypeOK
  <1>9. ASSUME NEW l \in {"idle", "retire"}, ScanThen(t, l)
        PROVE  LocalInv(t)' /\ Protects(t)
    <2>1. pc'[t] = "gather" /\ then'[t] = l /\ unread'[t] = Others(t) /\ UNCHANGED <<h, hp>>
      BY <1>2, <1>8, <1>9
    <2>2. \A s \in Thread \ {t}, k \in {0, 1} : <<s, k>> \in unread'[t]
      BY <2>1 DEF Others
    <2>3. ScanInv(t)'
      BY <2>1, <2>2 DEF ScanInv
    <2>4. QED
      BY <2>1, <2>3 DEF LocalInv, PathInv, EnqInv, DeqInv, Protects, Guards, EnqPc, TailPc, HeadPc,
         ScanPc
  <1>10. CASE Used(t) = Slot
    <2>1. ScanThen(t, "retire") /\ list' = list
      BY <1>10 DEF Retire
    <2>2. Calm(t)
      BY <1>2, <1>3, <2>1 DEF Calm
    <2>3. TypeOK'
      BY <1>1, <1>2, <1>6, <1>8, <2>1 DEF TypeOK, history
    <2>4. Own(t)
      BY <1>2, <1>9, <2>1 DEF Own
    <2>5. QED
      BY <2>2, <2>3, <2>4, CalmStep
  <1>11. CASE Used(t) # Slot
    <2> DEFINE free == Slot \ Used(t)
    <2>1. Least(free) \in free
      BY <1>6, <1>11, LeastIn DEF Used
    <2>2. PICK i \in Slot : i = Least(free) /\ i \notin Used(t)
      BY <2>1
    <2>3. /\ list' = [list EXCEPT ![t][i] = h[t]]
          /\ ScanThen(t, "idle") \/ (Goto(t, "idle") /\ UNCHANGED scanning)
      BY <1>11, <2>2 DEF Retire
    <2>4. list[t][i] = Null /\ Gone(h[t]) /\ h[t] \in heap /\ h[t] # Null
      BY <1>1, <1>2, <2>2, FieldTypes DEF Used, RetireInv, Gone, Linked
    <2>5. /\ \A u \in Thread, j \in Slot : list'[u][j] = IF u = t /\ j = i THEN h[t] ELSE list[u][j]
          /\ list' \in [Thread -> [Slot -> Pointer]]
      <3>1. list \in [Thread -> [Slot -> Pointer]] /\ h[t] \in Pointer
        BY <1>1, FieldTypes DEF TypeOK
      <3>2. list' \in [Thread -> [Slot -> Pointer]]
        BY <2>3, <3>1, EntryTypes
      <3>3. QED
        BY <2>3, <3>1, <3>2
    <2>6. LocalInv(t)' /\ Protects(t) /\ ~Leaves(t)'
      <3>1. CASE ScanThen(t, "idle")
        BY <1>8, <1>9, <3>1 DEF Leaves
      <3>2. CASE Goto(t, "idle") /\ UNCHANGED scanning
        <4>1. pc'[t] = "idle" /\ then' = then /\ UNCHANGED <<h, hp>>
          BY <1>1, <1>2, <3>2 DEF Goto, TypeOK
        <4>2. QED
          BY <1>1, <4>1 DEF LocalInv, PathInv, EnqInv, DeqInv, ScanInv, Protects, Guards, Leaves,
             EnqPc, TailPc, HeadPc, ScanPc
      <3>3. QED
        BY <2>3, <3>1, <3>2
    <2>7. TypeOK'
      <3>1. /\ drops' = drops /\ pc' \in [Thread -> PcLabels] /\ then' \in [Thread -> PcLabels]
            /\ slot' \in [Thread -> 0 .. file.MAXTHRES] /\ seen' \in [Thread -> SUBSET Pointer]
            /\ unread' \in [Thread -> SUBSET (Thread \X {0, 1})]
        <4>1. CASE ScanThen(t, "idle")
          BY <1>8, <4>1
        <4>2. CASE Goto(t, "idle") /\ UNCHANGED scanning
          BY <1>1, <4>2 DEF Goto, TypeOK, PcLabels, scanning
        <4>3. QED
          BY <2>3, <4>1, <4>2
      <3>2. QED
        BY <1>1, <1>2, <1>6, <2>5, <3>1 DEF TypeOK, history
    <2>8. RetireInv'
      <3>1. \A u \in Thread : Leaves(u)' => u # t /\ Leaves(u)
        BY <1>3, <2>6 DEF OthersSame, Leaves
      <3>2. ASSUME NEW u \in Thread, Leaves(u)' PROVE Gone(h[u])'
        <4>1. Gone(h[u]) /\ h'[u] = h[u]
          BY <1>1, <1>2, <3>1, <3>2 DEF RetireInv
        <4>2. QED
          BY <1>2, <1>4, <4>1 DEF Gone, Linked, pos
      <3>3. ASSUME NEW u \in Thread, NEW j \in Slot, list'[u][j] # Null PROVE Gone(list[u][j])'
        <4>1. PICK b \in heap : b = list'[u][j] /\ Gone(b)
          BY <1>1, <2>4, <2>5, <3>3 DEF RetireInv, Gone, Linked
        <4>2. Gone(b)'
          BY <1>5, <4>1
        <4>3. QED
          BY <4>1, <4>2 DEF Gone, Linked, pos
      <3>4. \A u, v \in Thread : Leaves(u)' /\ Leaves(v)' /\ h'[u] = h'[v] => u = v
        BY <1>1, <1>2, <3>1 DEF RetireInv
      <3>5. \A u, v \in Thread, j \in Slot : Leaves(u)' => h'[u] # list'[v][j]
        BY <1>1, <1>2, <2>5, <3>1 DEF RetireInv
      <3>6. \A u, v \in Thread, j, m \in Slot :
              list'[u][j] = list'[v][m] /\ list'[u][j] # Null => u = v /\ j = m
        <4>1. \A v \in Thread, m \in Slot : h[t] # list[v][m]
          BY <1>1, <1>2 DEF RetireInv
        <4>2. \A u, v \in Thread, j, m \in Slot :
                list[u][j] = list[v][m] /\ list[u][j] # Null => u = v /\ j = m
          BY <1>1 DEF RetireInv
        <4>3. QED
          BY <2>5, <4>1, <4>2
      <3>7. QED
        BY <1>6, <3>2, <3>3, <3>4, <3>5, <3>6 DEF RetireInv
    <2>9. HeapInv'
      BY <1>1, <1>2, <1>3, <1>4 DEF HeapInv
    <2>10. ChainInv'
      <3>1. Linked(head)' = Linked(head) /\ pos(head)' = pos(head)
            /\ Linked(tail)' = Linked(tail) /\ pos(tail)' = pos(tail)
            /\ \A a \in heap : InQueue(next[a])' = InQueue(next[a]) /\ pos(next[a])' = pos(next[a])
        BY <1>2, <1>4 DEF Linked, InQueue, pos
      <3>2. QED
        BY <1>1, <1>2, <1>4, <1>5, <3>1 DEF ChainInv
    <2>11. SharedInv'
      <3>1. KeepsHazards(file)' /\ place' \in [Op -> Nat] /\ taken' \in Nat
        BY <1>1, <1>2, <1>4 DEF SharedInv, KeepsHazards
      <3>2. QED
        BY <2>7, <2>8, <2>9, <2>10, <3>1 DEF SharedInv
    <2>12. Evolves(t)
      <3>1. pos(tail)' = pos(tail) /\ pos(tail) \in Nat /\ taken \in Nat
        BY <1>1, <1>2, <1>4, Ends DEF pos
      <3>2. QED
        BY <1>2, <1>4, <1>5, <2>6, <3>1 DEF Evolves
    <2>13. QED
      BY <1>3, <2>6, <2>11, <2>12, LoudStep
  <1>12. QED
    BY <1>10, <1>11

\* A node is freed when no other thread protects it.
LEMMA FreeStep ==
    ASSUME IInv, NEW t \in Thread, Free(t), Watch
    PROVE  IInv'
  <1>1. SharedInv /\ TypeOK /\ LocalInv(t) /\ HeapInv /\ ChainInv /\ RetireInv /\ ScanInv(t) /\ PathInv(t)
        /\ place \in [Op -> Nat] /\ taken \in Nat
    BY DEF IInv, SharedInv, LocalInv
  <1>2. /\ pc[t] = "free" /\ heap' = heap \ {list[t][slot[t]]}
        /\ list' = [list EXCEPT ![t][slot[t]] = Null] /\ slot' = [slot EXCEPT ![t] = @ + 1]
        /\ Goto(t, "scan")
        /\ UNCHANGED <<file, head, tail, next, value, refs, hp, history, node, h, tl, nx, data, unread, seen>>
    BY DEF Free
  <1>3. /\ slot[t] \in Slot /\ list[t][slot[t]] # Null /\ list[t][slot[t]] \notin seen[t]
        /\ unread[t] = {} /\ then[t] # "return"
    BY <1>1, <1>2 DEF ScanInv, PathInv, ScanPc
  <1>4. PICK i \in Slot : i = slot[t]
    BY <1>3
  <1>5. PICK a \in heap : a = list[t][i] /\ Gone(a)
    BY <1>1, <1>3, <1>4 DEF RetireInv, Gone, Linked
  <1>6. /\ heap' = heap \ {a} /\ list' = [list EXCEPT ![t][i] = Null] /\ slot'[t] = i + 1
        /\ i \in Nat /\ i + 1 \in 0 .. file.MAXTHRES /\ Slot' = Slot
    <2>1. heap' = heap \ {a} /\ list' = [list EXCEPT ![t][i] = Null] /\ slot'[t] = i + 1
      BY <1>1, <1>2, <1>4, <1>5 DEF TypeOK
    <2>2. file.MAXTHRES \in Nat
      BY <1>1, FieldTypes
    <2>3. i \in Nat /\ i + 1 \in 0 .. file.MAXTHRES
      BY <2>2 DEF Slot
    <2>4. QED
      BY <1>2, <2>1, <2>3 DEF Slot
  <1>7. OthersSame(t)
    BY <1>1, LoudKeeps
  <1>8. place' = place /\ back' = back /\ taken' = taken
    BY <1>1, <1>2, <1>7, NoPlace DEF Watch
  <1>9. /\ \A b : pos(b)' = pos(b)
        /\ \A b : b # a => (Linked(b)' <=> Linked(b)) /\ (InQueue(b)' <=> InQueue(b))
                           /\ (Gone(b)' <=> Gone(b))
        /\ \A b : Linked(b)' => Linked(b)
    BY <1>2, <1>6, <1>8 DEF pos, Linked, InQueue, Gone
  <1>10. ~InQueue(a)
    <2>1. pos(a) \in Nat
      BY <1>1, Places
    <2>2. QED
      BY <1>1, <1>5, <2>1 DEF Gone, InQueue
  <1>11. \A u \in Thread \ {t}, k \in {0, 1} : ~Guards(u, k, a)
    <2>1. i <= i /\ slot[t] <= i
      BY <1>4, <1>6
    <2>2. QED
      BY <1>1, <1>2, <1>3, <1>4, <1>5, <2>1 DEF ScanInv, ScanPc
  <1>12. /\ \A u \in Thread, j \in Slot : list'[u][j] = IF u = t /\ j = i THEN Null ELSE list[u][j]
         /\ list' \in [Thread -> [Slot -> Pointer]]
    <2>1. list \in [Thread -> [Slot -> Pointer]] /\ Null \in Pointer
      BY <1>1 DEF TypeOK, Pointer
    <2>2. list' \in [Thread -> [Slot -> Pointer]]
      BY <1>6, <2>1, EntryTypes
    <2>3. QED
      BY <1>6, <2>1, <2>2
  <1>13. pc'[t] = "scan" /\ then' = then /\ UNCHANGED <<h, hp>>
    BY <1>1, <1>2 DEF Goto, TypeOK
  <1>14. TypeOK'
    <2>1. heap' \subseteq Address
      BY <1>1, <1>6 DEF TypeOK
    <2>2. slot' \in [Thread -> 0 .. file.MAXTHRES]
      BY <1>1, <1>2, <1>4, <1>6 DEF TypeOK
    <2>3. pc' \in [Thread -> PcLabels] /\ UNCHANGED <<drops, then>>
      BY <1>1, <1>2 DEF TypeOK, Goto, PcLabels
    <2>4. QED
      BY <1>1, <1>2, <1>6, <1>12, <2>1, <2>2, <2>3 DEF TypeOK, history
  <1>15. HeapInv'
    BY <1>1, <1>2, <1>6, <1>8 DEF HeapInv, history
  <1>16. ChainInv'
    <2>1. /\ head \in heap /\ tail \in heap /\ head # a /\ tail # a
      BY <1>1, <1>10, Ends
    <2>2. Linked(head)' = Linked(head) /\ pos(head)' = pos(head)
          /\ Linked(tail)' = Linked(tail) /\ pos(tail)' = pos(tail)
      BY <1>2, <1>6, <1>8, <2>1 DEF Linked, pos
    <2>3. ASSUME NEW b \in heap', InQueue(b)', next[b] # Null
          PROVE  InQueue(next[b])' /\ pos(next[b])' = pos(b)' + 1
      <3>1. b \in heap /\ InQueue(b) /\ pos(b)' = pos(b)
        BY <1>6, <1>9, <2>3
      <3>2. InQueue(next[b]) /\ pos(next[b]) = pos(b) + 1
        BY <1>1, <2>3, <3>1 DEF ChainInv
      <3>3. PICK c \in heap : c = next[b] /\ c # a
        BY <1>10, <3>2 DEF InQueue, Linked
      <3>4. InQueue(c)' /\ pos(c)' = pos(b)' + 1
        BY <1>9, <3>1, <3>2, <3>3
      <3>5. next'[b] = c
        BY <1>2, <3>3
      <3>6. QED
        BY <3>4, <3>5 DEF InQueue, Linked, pos
    <2>4. \A b \in heap' : Linked(b)' => (next'[b] = Null <=> pos(b)' = back')
      BY <1>1, <1>2, <1>6, <1>8, <1>9 DEF ChainInv
    <2>5. QED
      BY <1>1, <1>2, <1>8, <2>2, <2>3, <2>4 DEF ChainInv
  <1>17. RetireInv'
    <2>1. \A u \in Thread : Leaves(u)' => Leaves(u)
      BY <1>2, <1>7, <1>13 DEF OthersSame, Leaves, ScanPc
    <2>2. \A u \in Thread : Leaves(u) => h[u] # a
      BY <1>1, <1>5 DEF RetireInv
    <2>3. ASSUME NEW u \in Thread, Leaves(u)' PROVE Gone(h[u])'
      <3>1. PICK b \in heap : b = h[u] /\ Gone(b) /\ b # a
        BY <1>1, <2>1, <2>2, <2>3 DEF RetireInv, Gone, Linked
      <3>2. Gone(b)' /\ h'[u] = b
        BY <1>9, <1>13, <3>1
      <3>3. QED
        BY <3>2 DEF Gone, Linked, pos
    <2>4. ASSUME NEW u \in Thread, NEW j \in Slot, list'[u][j] # Null PROVE Gone(list[u][j])'
      <3>1. list[u][j] # Null /\ list'[u][j] = list[u][j] /\ ~(u = t /\ j = i)
        BY <1>12, <2>4
      <3>2. list[u][j] # a
        BY <1>1, <1>3, <1>4, <1>5, <3>1 DEF RetireInv
      <3>3. PICK b \in heap : b = list[u][j] /\ Gone(b)
        BY <1>1, <3>1 DEF RetireInv, Gone, Linked
      <3>4. Gone(b)' /\ list'[u][j] = b
        BY <1>9, <3>1, <3>2, <3>3
      <3>5. QED
        BY <3>4 DEF Gone, Linked, pos
    <2>5. \A u, v \in Thread : Leaves(u)' /\ Leaves(v)' /\ h'[u] = h'[v] => u = v
      BY <1>1, <1>13, <2>1 DEF RetireInv
    <2>6. ASSUME NEW u \in Thread, NEW v \in Thread, NEW j \in Slot, Leaves(u)' PROVE h'[u] # list'[v][j]
      <3>1. h[u] # list[v][j] /\ h'[u] = h[u] /\ h[u] # Null
        <4>1. Gone(h[u]) /\ Leaves(u)
          BY <1>1, <2>1, <2>6 DEF RetireInv
        <4>2. h[u] # Null
          BY <1>1, <4>1, FieldTypes DEF Gone, Linked
        <4>3. QED
          BY <1>1, <1>13, <4>1, <4>2 DEF RetireInv
      <3>2. QED
        BY <1>12, <3>1
    <2>7. \A u, v \in Thread, j, m \in Slot :
            list'[u][j] = list'[v][m] /\ list'[u][j] # Null => u = v /\ j = m
      BY <1>1, <1>12 DEF RetireInv
    <2>8. QED
      BY <1>6, <2>3, <2>4, <2>5, <2>6, <2>7 DEF RetireInv
  <1>18. LocalInv(t)' /\ Protects(t)
    <2>1. ScanInv(t)'
      <3>1. ASSUME NEW j \in Slot, NEW s \in Thread \ {t}, NEW k \in {0, 1},
                   i + 1 <= j, list[t][j] # Null, Guards(s, k, list[t][j])
            PROVE  list[t][j] \in seen[t]
        <4>1. slot[t] <= j
          BY <1>4, <1>6, <3>1, FieldTypes, <1>1
        <4>2. QED
          BY <1>1, <1>2, <1>3, <3>1, <4>1 DEF ScanInv, ScanPc
      <3>2. \A s \in Thread \ {t} : pc'[s] = pc[s]
        BY <1>7 DEF OthersSame
      <3>3. \A j \in Slot : i + 1 <= j => list'[t][j] = list[t][j]
        BY <1>6, <1>12
      <3>4. unread'[t] = {} /\ seen'[t] = seen[t]
        BY <1>2, <1>3
      <3>5. QED
        BY <1>2, <1>6, <1>13, <3>1, <3>2, <3>3, <3>4 DEF ScanInv, Guards, ScanPc
    <2>2. QED
      BY <1>1, <1>3, <1>13, <2>1 DEF LocalInv, PathInv, EnqInv, DeqInv, Protects, Guards, EnqPc,
         TailPc, HeadPc, ScanPc
  <1>19. Evolves(t)
    <2>1. pos(tail)' = pos(tail) /\ pos(tail) \in Nat
      BY <1>1, <1>2, <1>8, Ends DEF pos
    <2>2. \A b \in heap : b \notin heap' => b = a
      BY <1>6
    <2>3. \A b \in heap : b \in heap' => b # a
      BY <1>6
    <2>4. QED
      BY <1>1, <1>2, <1>5, <1>8, <1>9, <1>11, <1>18, <2>1, <2>2, <2>3 DEF Evolves
  <1>20. SharedInv'
    <2>1. KeepsHazards(file)' /\ place' \in [Op -> Nat] /\ taken' \in Nat
      BY <1>1, <1>2, <1>8 DEF SharedInv, KeepsHazards
    <2>2. QED
      BY <1>14, <1>15, <1>16, <1>17, <2>1 DEF SharedInv
  <1>21. QED
    BY <1>7, <1>18, <1>19, <1>20, LoudStep

-----------------------------------------------------------------------------
(* The invariant holds.                                                    *)

LEMMA InitInv ==
    ASSUME HInit, KeepsHazards(file)
    PROVE  IInv
  <1> USE DEF HInit, Init
  <1>1. /\ Dummy \in Address /\ Null \notin Address /\ file \in Files
        /\ file.MAXTHRES \in Nat \ {0} /\ Slot \subseteq Nat
    BY ReferencedAssumption DEF ReferencedAssumption, Slot
  <1>2. back = 0 /\ IsFiniteSet({o \in Op : place[o] # 0})
    <2>1. {o \in Op : place[o] # 0} = {}
      OBVIOUS
    <2>2. QED
      BY <2>1, FS_EmptySet DEF back
  <1>3. TypeOK
    <2>1. <<>> \in Seq({0, 1}) /\ 0 \in 0 .. file.MAXTHRES
      BY <1>1
    <2>2. list \in [Thread -> [Slot -> Pointer]] /\ hp \in [Thread -> [{0, 1} -> Pointer]]
      BY DEF Pointer
    <2>3. QED
      BY <1>1, <2>1, <2>2 DEF TypeOK, Pointer, PcLabels
  <1>4. \A a \in heap : a = Dummy /\ value[a] = NoCall /\ pos(a) = 0 /\ Linked(a) /\ next[a] = Null
    BY <1>1 DEF pos, Linked
  <1>5. HeapInv
    BY <1>2, <1>4 DEF HeapInv
  <1>6. ChainInv
    BY <1>2, <1>4 DEF ChainInv
  <1>7. RetireInv
    BY <1>1 DEF RetireInv, Leaves, ScanPc
  <1>8. ASSUME NEW t \in Thread PROVE LocalInv(t)
    BY DEF LocalInv, PathInv, EnqInv, DeqInv, ScanInv, EnqPc, TailPc, HeadPc, ScanPc
  <1>9. QED
    BY <1>3, <1>5, <1>6, <1>7, <1>8 DEF IInv, SharedInv

LEMMA Stutter ==
    ASSUME IInv, UNCHANGED historyVars
    PROVE  IInv'
  <1>1. UNCHANGED <<file, head, tail, next, value, heap, refs, hp, list, calls, result>>
        /\ UNCHANGED <<pc, drops, then, node, h, tl, nx, data, slot, unread, seen>>
        /\ UNCHANGED <<place, taken>>
    BY DEF historyVars, vars, memory, history, locals, scanning
  <1>2. back' = back /\ Slot' = Slot
    BY <1>1 DEF back, Slot
  <1>3. TypeOK'
    BY <1>1, <1>2 DEF IInv, SharedInv, TypeOK
  <1>4. KeepsHazards(file)' /\ place' \in [Op -> Nat] /\ taken' \in Nat
    BY <1>1 DEF IInv, SharedInv, KeepsHazards
  <1>5. HeapInv'
    BY <1>1, <1>2 DEF IInv, SharedInv, HeapInv
  <1>6. ChainInv'
    BY <1>1, <1>2 DEF IInv, SharedInv, ChainInv, Linked, InQueue, pos
  <1>7. RetireInv'
    BY <1>1, <1>2 DEF IInv, SharedInv, RetireInv, Leaves, Gone, Linked, pos
  <1>8. ASSUME NEW t \in Thread PROVE LocalInv(t)'
    <2>1. LocalInv(t)
      BY DEF IInv
    <2>2. PathInv(t)' /\ EnqInv(t)' /\ DeqInv(t)'
      BY <1>1, <2>1 DEF LocalInv, PathInv, EnqInv, DeqInv, Linked, pos, Current
    <2>3. ScanInv(t)'
      BY <1>1, <1>2, <2>1 DEF LocalInv, ScanInv, Guards
    <2>4. QED
      BY <2>2, <2>3 DEF LocalInv
  <1>9. QED
    BY <1>3, <1>4, <1>5, <1>6, <1>7, <1>8 DEF IInv, SharedInv

LEMMA Inductive == IInv /\ [HNext]_historyVars => IInv'
  <1> SUFFICES ASSUME IInv, [HNext]_historyVars PROVE IInv'
    OBVIOUS
  <1>1. CASE HNext
    <2>1. PICK t \in Thread : EnqAlloc(t) \/ DeqBegin(t) \/ Step(t)
      BY <1>1 DEF HNext, Next
    <2>2. Watch
      BY <1>1 DEF HNext
    <2>3. \/ Quiet(t) \/ EnqAlloc(t) \/ EnqHelp(t) \/ EnqLink(t) \/ EnqSwing(t) \/ DeqHelp(t)
          \/ DeqCas(t) \/ Retire(t) \/ Free(t)
      BY <2>1, Steps DEF IInv, Quiet
    <2>4. QED
      BY <2>2, <2>3, QuietInductive, EnqAllocStep, EnqHelpStep, EnqLinkStep, EnqSwingStep,
         DeqHelpStep, DeqCasStep, RetireStep, FreeStep
  <1>2. CASE UNCHANGED historyVars
    BY <1>2, Stutter
  <1>3. QED
    BY <1>1, <1>2

LEMMA Invariance == HSpec /\ KeepsHazards(file) => []IInv
  <1>1. HInit /\ KeepsHazards(file) => IInv
    BY InitInv
  <1>2. QED
    BY <1>1, Inductive, PTL DEF HSpec

\* In hazardpointerslow.c every variable keeps its type.
THEOREM TypeCorrect == HSpec /\ KeepsHazards(file) => []TypeOK
  <1>1. IInv => TypeOK
    BY DEF IInv, SharedInv
  <1>2. QED
    BY <1>1, Invariance, PTL

\* In hazardpointerslow.c no thread is about to read or write a node that scan
\* has freed, however many threads there are, whatever addresses malloc gives
\* out again, and however soon a retired node is scanned.
THEOREM SafeReclamation == HSpec /\ KeepsHazards(file) => []NoUseAfterFree
  <1>1. IInv => NoUseAfterFree
    <2> SUFFICES ASSUME IInv, NEW t \in Thread PROVE Touched(t) \subseteq heap
      BY DEF NoUseAfterFree
    <2>1. EnqInv(t) /\ DeqInv(t)
      BY DEF IInv, LocalInv
    <2>2. QED
      BY <2>1 DEF Touched, EnqInv, DeqInv, TailPc, HeadPc, Linked
  <1>2. QED
    BY <1>1, Invariance, PTL

-----------------------------------------------------------------------------
(* The calls.                                                              *)

DeqPc == HeadPc \cup {"deqHead", "deqRecord", "deqCheck"}

\* How far thread t is in its call.
Mode(t) ==
    IF pc[t] = "idle" THEN "idle"
    ELSE IF pc[t] \in EnqPc THEN "adding"
    ELSE IF pc[t] = "enqSwing" \/ (pc[t] = "drop" /\ then[t] = "idle") THEN "added"
    ELSE IF pc[t] \in DeqPc THEN "polling"
    ELSE "polled"

\* A call is decided once, by its own thread.
CallInv(t) ==
    /\ calls[t] <= Len(Program[t])
    /\ Mode(t) # "idle" => Current(t) \in Op
    /\ Mode(t) \in {"adding", "added"} => enqueues(t)
    /\ Mode(t) \in {"polling", "polled"} => ~enqueues(t)
    /\ Mode(t) = "added" => place[Current(t)] # 0
    /\ Mode(t) = "polling" => result[Current(t)] = None
    /\ Mode(t) = "polled" => result[Current(t)] # None

\* sawEmpty misses no moment of a call, and a null next behind Head is one.
SeenInv(t) ==
    /\ sawEmpty[t] => pc[t] # "idle"
    /\ pc[t] # "idle" /\ taken = back => sawEmpty[t]
    /\ pc[t] \in {"deqRecordNext", "deqRecheck"} /\ nx[t] = Null => sawEmpty[t]

FInv ==
    /\ IInv
    /\ \A o \in Op : o[2] > calls[o[1]] => result[o] = None
    /\ sawEmpty \in [Thread -> BOOLEAN]
    /\ \A t \in Thread : CallInv(t) /\ SeenInv(t)

\* A step that decides nothing.
Plain(t) ==
    /\ UNCHANGED <<calls, result, head>>
    /\ \/ Mode(t)' = Mode(t)
       \/ Mode(t) \in {"added", "polled"} /\ Mode(t)' = "idle"
    /\ pc'[t] \in {"deqRecordNext", "deqRecheck"} => DeqNext(t) \/ DeqRecordNext(t)

\* The dequeue of t finds that there is nothing behind Head.
FindsEmpty(t) == DeqRecheck(t) /\ head = h[t] /\ nx[t] = Null

LEMMA PlainSteps ==
    ASSUME SharedInv, NEW t \in Thread, LocalInv(t), Step(t), ~FindsEmpty(t),
           EnqLink(t) => next[tl[t]] # Null, DeqCas(t) => head # h[t]
    PROVE  /\ Plain(t) /\ OthersSame(t)
           /\ pc[t] # "enqLink" \/ next' = next
           /\ pc[t] # "idle"
  <1>1. pc \in [Thread -> PcLabels] /\ then \in [Thread -> PcLabels] /\ PathInv(t)
    BY DEF SharedInv, TypeOK, LocalInv
  <1>2. /\ ~counts /\ file.held = <<0, 1>> /\ file.tail = "after" /\ file.head = "after"
        /\ file.scan = "gathered" /\ ~file.clears /\ file.held # <<1>>
    BY SlowFile DEF SharedInv
  <1>3. OthersSame(t)
    BY Steps, QuietKeeps, LoudKeeps
  <1> USE <1>1, <1>2 DEF Plain, Mode, EnqPc, DeqPc, HeadPc, PcLabels, Goto, DropThen, memory, history, locals
  <1>4. CASE Drop(t)
    BY <1>3, <1>4 DEF Drop, PathInv
  <1>5. CASE EnqTail(t) \/ EnqNext(t) \/ EnqCheck(t) \/ EnqRecheck(t)
    BY <1>3, <1>5 DEF EnqTail, EnqNext, EnqCheck, EnqRecheck, StartOver, BeforeTail
  <1>6. CASE EnqRecord(t) \/ DeqRecord(t) \/ DeqRecordNext(t)
    BY <1>3, <1>6 DEF EnqRecord, DeqRecord, DeqRecordNext, Record
  <1>7. CASE EnqHelp(t) \/ EnqLink(t) \/ EnqSwing(t)
    BY <1>3, <1>7 DEF EnqHelp, EnqLink, EnqSwing, AfterTail, Leave
  <1>8. CASE DeqHead(t) \/ DeqCheck(t) \/ DeqTail(t) \/ DeqNext(t)
    BY <1>3, <1>8 DEF DeqHead, DeqCheck, DeqTail, DeqNext
  <1>9. CASE DeqRecheck(t)
    BY <1>3, <1>9 DEF DeqRecheck, FindsEmpty, Leave, BeforeTail
  <1>10. CASE DeqHelp(t) \/ DeqValue(t) \/ DeqCas(t) \/ Return(t)
    BY <1>3, <1>10 DEF DeqHelp, DeqValue, DeqCas, Return, AfterTail, Leave
  <1>11. CASE Retire(t)
    BY <1>3, <1>11 DEF Retire, ScanThen
  <1>12. CASE Scan(t)
    BY <1>3, <1>12 DEF Scan, PathInv, ScanPc
  <1>13. CASE Free(t)
    BY <1>3, <1>13 DEF Free
  <1>14. CASE \E s \in Thread, k \in {0, 1} : Gather(t, s, k)
    BY <1>3, <1>14 DEF Gather
  <1>15. ~Finish(t) /\ \A s, k : ~IsIn(t, s, k)
    BY DEF Finish, IsIn, PathInv
  <1>16. QED
    BY <1>4, <1>5, <1>6, <1>7, <1>8, <1>9, <1>10, <1>11, <1>12, <1>13, <1>14, <1>15 DEF Step

\* What inCall is in the states of this file.
LEMMA InCall ==
    /\ IInv => inCall = [t \in Thread |-> pc[t] # "idle"]
    /\ IInv' => inCall' = [t \in Thread |-> pc'[t] # "idle"]
  <1>1. ASSUME IInv PROVE \A t \in Thread : pc[t] # "done" /\ then[t] # "done"
    BY <1>1 DEF IInv, LocalInv, PathInv
  <1>2. ASSUME IInv' PROVE \A t \in Thread : pc'[t] # "done" /\ then'[t] # "done"
    BY <1>2 DEF IInv, LocalInv, PathInv
  <1>3. QED
    BY <1>1, <1>2 DEF inCall

\* What a step of thread t leaves to the other threads.
LEMMA OthersCalls ==
    ASSUME FInv, IInv', Watch, NEW t \in Thread, OthersSame(t),
           \A o \in Op : place[o] # 0 => place'[o] # 0,
           \A o \in Op : o # Current(t) => result'[o] = result[o]
    PROVE  /\ \A u \in Thread \ {t} : CallInv(u)'
           /\ sawEmpty' \in [Thread -> BOOLEAN]
           /\ \A u \in Thread \ {t} : SeenInv(u)'
           /\ sawEmpty'[t] => pc'[t] # "idle"
           /\ pc'[t] # "idle" /\ (sawEmpty[t] \/ taken' = back') => sawEmpty'[t]
  <1>1. ASSUME NEW u \in Thread \ {t} PROVE CallInv(u)'
    <2>1. CallInv(u) /\ pc'[u] = pc[u] /\ then'[u] = then[u] /\ calls'[u] = calls[u]
      BY DEF FInv, OthersSame
    <2>2. Mode(u)' = Mode(u) /\ Current(u)' = Current(u) /\ enqueues(u)' = enqueues(u)
      BY <2>1 DEF Mode, Current, enqueues
    <2>3. Current(u) # Current(t)
      BY DEF Current
    <2>4. ASSUME NEW o \in Op, o = Current(u)
          PROVE  /\ place[o] # 0 => place'[o] # 0
                 /\ result'[o] = result[o]
      BY <2>3, <2>4
    <2>5. QED
      BY <2>1, <2>2, <2>4 DEF CallInv
  <1>2. /\ sawEmpty' = [u \in Thread |-> pc'[u] # "idle" /\ (sawEmpty[u] \/ taken' = back')]
        /\ sawEmpty \in [Thread -> BOOLEAN]
    BY InCall DEF Watch, FInv
  <1>3. \A u \in Thread : sawEmpty'[u] = (pc'[u] # "idle" /\ (sawEmpty[u] \/ taken' = back'))
    BY <1>2
  <1>4. \A u \in Thread : sawEmpty[u] \in BOOLEAN /\ sawEmpty'[u] \in BOOLEAN
    BY <1>2, <1>3
  <1>5. sawEmpty' \in [Thread -> BOOLEAN]
    BY <1>2, <1>4
  <1>6. ASSUME NEW u \in Thread \ {t} PROVE SeenInv(u)'
    <2>1. SeenInv(u) /\ pc'[u] = pc[u] /\ nx'[u] = nx[u]
      BY DEF FInv, OthersSame
    <2>2. QED
      BY <1>3, <2>1 DEF SeenInv
  <1>7. QED
    BY <1>1, <1>3, <1>5, <1>6

-----------------------------------------------------------------------------
(* What the steps are in the abstract queue.                               *)

Kind == [o \in Op |-> IF o[2] <= calls[o[1]] /\ Program[o[1]][o[2]] = "dequeue"
                      THEN "poll" ELSE "add"]

LEMMA QueueOp ==
    /\ Queue!Op = Op
    /\ \A t \in Thread : [u \in Thread |-> Len(Program[u])][t] = Len(Program[t])
  BY OpFacts DEF Queue!Op, Op

\* The kind of the call of a thread.
LEMMA Kinds ==
    ASSUME FInv, NEW t \in Thread, Mode(t) # "idle"
    PROVE  Kind[Current(t)] = (IF enqueues(t) THEN "add" ELSE "poll")
  <1>1. Current(t) \in Op /\ calls[t] \in Nat /\ Current(t)[1] = t /\ Current(t)[2] = calls[t]
    BY DEF FInv, CallInv, IInv, SharedInv, TypeOK, Current
  <1>2. Program[t][calls[t]] \in {"enqueue", "dequeue"}
    <2>1. calls[t] \in 1 .. Len(Program[t])
      BY <1>1, OpFacts
    <2>2. Program[t] \in Seq({"enqueue", "dequeue"})
      BY ReferencedAssumption DEF ReferencedAssumption
    <2>3. QED
      BY <2>1, <2>2
  <1>3. QED
    BY <1>1, <1>2 DEF Kind, enqueues

\* A step that decides nothing is the return of the call, or is not seen.
LEMMA PlainKeeps ==
    ASSUME FInv, IInv', NEW t \in Thread, Step(t), Watch, ~FindsEmpty(t),
           EnqLink(t) => next[tl[t]] # Null, DeqCas(t) => head # h[t]
    PROVE  FInv' /\ (Queue!Return(t) \/ UNCHANGED Queue!vars)
  <1>1. SharedInv /\ LocalInv(t) /\ CallInv(t) /\ SeenInv(t) /\ TypeOK
    BY DEF FInv, IInv, SharedInv
  <1>2. Plain(t) /\ OthersSame(t) /\ (pc[t] # "enqLink" \/ next' = next) /\ pc[t] # "idle"
    BY <1>1, PlainSteps
  <1>3. place' = place /\ back' = back /\ taken' = taken /\ calls' = calls /\ result' = result
    BY <1>1, <1>2, NoPlace DEF Plain, Watch
  <1>4. /\ \A u \in Thread \ {t} : CallInv(u)' /\ SeenInv(u)'
        /\ sawEmpty' \in [Thread -> BOOLEAN]
        /\ sawEmpty'[t] => pc'[t] # "idle"
        /\ pc'[t] # "idle" /\ (sawEmpty[t] \/ taken' = back') => sawEmpty'[t]
    BY <1>2, <1>3, OthersCalls
  <1>5. CallInv(t)'
    BY <1>1, <1>2, <1>3 DEF CallInv, Plain, Current, enqueues
  <1>6. SeenInv(t)'
    <2>1. CASE DeqNext(t)
      <3>1. /\ pc[t] = "deqNext" /\ nx'[t] = next[h[t]] /\ pc'[t] # "idle"
        BY <1>1, <2>1, SlowFile DEF DeqNext, Goto, TypeOK, SharedInv
      <3>2. Linked(h[t]) /\ h[t] \in heap /\ pos(h[t]) <= taken
        BY <1>1, <3>1 DEF LocalInv, DeqInv, HeadPc, Linked
      <3>3. ASSUME next[h[t]] = Null PROVE taken = back
        <4>1. pos(h[t]) = back
          BY <1>1, <3>2, <3>3 DEF SharedInv, ChainInv
        <4>2. back \in Nat /\ taken \in Nat /\ taken <= back
          BY <1>1, Places, Ends
        <4>3. QED
          BY <3>2, <4>1, <4>2
      <3>4. QED
        BY <1>3, <1>4, <3>1, <3>3 DEF SeenInv
    <2>2. CASE DeqRecordNext(t)
      <3>1. pc[t] = "deqRecordNext" /\ nx' = nx /\ pc'[t] # "idle"
        BY <1>1, <2>2 DEF DeqRecordNext, Record, Goto, TypeOK, locals
      <3>2. QED
        BY <1>1, <1>3, <1>4, <3>1 DEF SeenInv
    <2>3. CASE ~DeqNext(t) /\ ~DeqRecordNext(t)
      BY <1>2, <1>4, <2>3 DEF Plain, SeenInv
    <2>4. QED
      BY <2>1, <2>2, <2>3
  <1>7. FInv'
    BY <1>3, <1>4, <1>5, <1>6 DEF FInv
  <1>8. /\ inCall = [u \in Thread |-> pc[u] # "idle"] /\ inCall' = [u \in Thread |-> pc'[u] # "idle"]
    BY InCall DEF FInv
  <1>9. Kind' = Kind
    BY <1>3 DEF Kind
  <1>10. CASE pc'[t] # "idle"
    <2>1. inCall' = inCall
      BY <1>2, <1>8, <1>10 DEF OthersSame
    <2>2. sawEmpty' = sawEmpty
      <3>1. \A u \in Thread : sawEmpty'[u] = (inCall'[u] /\ (sawEmpty[u] \/ taken' = back'))
        BY DEF Watch
      <3>2. \A u \in Thread : inCall[u] = (pc[u] # "idle") /\ SeenInv(u) /\ sawEmpty[u] \in BOOLEAN
        BY <1>8 DEF FInv
      <3>3. \A u \in Thread : sawEmpty'[u] = sawEmpty[u]
        BY <1>3, <2>1, <3>1, <3>2 DEF SeenInv
      <3>4. QED
        BY <1>4, <3>3 DEF FInv
    <2>3. QED
      BY <1>3, <1>7, <1>9, <2>1, <2>2 DEF Queue!vars, Kind
  <1>11. CASE pc'[t] = "idle"
    <2>1. Mode(t) \in {"added", "polled"}
      BY <1>2, <1>11 DEF Plain, Mode
    <2>2. inCall' = [inCall EXCEPT ![t] = FALSE] /\ inCall[t]
      <3>1. \A u \in Thread : pc'[u] # "idle" <=> (IF u = t THEN FALSE ELSE pc[u] # "idle")
        BY <1>2, <1>11 DEF OthersSame
      <3>2. QED
        BY <1>2, <1>8, <3>1
    <2>3. IF Kind[Current(t)] = "add" THEN place[Current(t)] # 0 ELSE result[Current(t)] # None
      BY <1>1, <2>1, Kinds DEF CallInv
    <2>4. QED
      BY <1>3, <1>7, <1>9, <2>2, <2>3 DEF Queue!Return, Queue!Watch, Queue!Current, Current, Watch, Kind
  <1>12. QED
    BY <1>7, <1>10, <1>11

\* A call begins.
LEMMA BeginKeeps ==
    ASSUME FInv, IInv', NEW t \in Thread, EnqAlloc(t) \/ DeqBegin(t), Watch
    PROVE  FInv' /\ \E k \in {"add", "poll"} : Queue!Invoke(t, k)
  <1> DEFINE x == <<t, calls[t] + 1>>
  <1>0. PICK k \in {"add", "poll"} : k = "add" <=> EnqAlloc(t)
    <2>1. CASE EnqAlloc(t)
      BY <2>1
    <2>2. CASE ~EnqAlloc(t)
      BY <2>2
    <2>3. QED
      BY <2>1, <2>2
  <1>1. /\ SharedInv /\ CallInv(t) /\ SeenInv(t) /\ TypeOK /\ calls \in [Thread -> Nat]
        /\ \A o \in Op : result[o] \in Op \cup {None, Empty}
    BY DEF FInv, IInv, SharedInv, TypeOK
  <1>2. /\ pc[t] = "idle" /\ calls[t] < Len(Program[t]) /\ calls' = [calls EXCEPT ![t] = @ + 1]
        /\ head' = head /\ result' = result
        /\ Program[t][calls[t] + 1] = (IF k = "add" THEN "enqueue" ELSE "dequeue")
        /\ pc'[t] = (IF k = "add" THEN "enqTail" ELSE "deqHead")
        /\ k = "poll" => next' = next
    BY <1>0, <1>1 DEF EnqAlloc, DeqBegin, Begins, Goto, TypeOK, memory
  <1>3. OthersSame(t)
    <2>1. CASE EnqAlloc(t)
      BY <1>1, <2>1, LoudKeeps
    <2>2. CASE DeqBegin(t)
      BY <1>1, <2>2, QuietKeeps DEF Quiet
    <2>3. QED
      BY <2>1, <2>2
  <1>4. place' = place /\ back' = back /\ taken' = taken
    BY <1>1, <1>2, <1>3, NoPlace DEF Watch
  <1>5. calls[t] \in Nat /\ Len(Program[t]) \in Nat /\ calls'[t] = calls[t] + 1 /\ x \in Op
        /\ Current(t)' = x /\ Len(Program[t]) = [u \in Thread |-> Len(Program[u])][t]
    <2>1. calls[t] \in Nat /\ Len(Program[t]) \in Nat /\ calls'[t] = calls[t] + 1
      BY <1>1, <1>2, OpFacts
    <2>2. calls[t] + 1 \in 1 .. Len(Program[t]) /\ calls[t] + 1 \in Nat
      BY <1>2, <2>1
    <2>3. QED
      BY <2>1, <2>2, OpFacts DEF Current
  <1>6. /\ \A u \in Thread \ {t} : CallInv(u)' /\ SeenInv(u)'
        /\ sawEmpty' \in [Thread -> BOOLEAN]
        /\ sawEmpty'[t] => pc'[t] # "idle"
        /\ pc'[t] # "idle" /\ (sawEmpty[t] \/ taken' = back') => sawEmpty'[t]
    BY <1>2, <1>3, <1>4, OthersCalls
  <1>7. /\ Mode(t)' = (IF k = "add" THEN "adding" ELSE "polling")
        /\ enqueues(t)' <=> (k = "add")
    <2>1. Mode(t)' = (IF k = "add" THEN "adding" ELSE "polling")
      BY <1>2 DEF Mode, EnqPc, DeqPc, HeadPc
    <2>2. enqueues(t)' <=> (k = "add")
      BY <1>2, <1>5 DEF enqueues
    <2>3. QED
      BY <2>1, <2>2
  <1>8. \A o \in Op : o[2] > calls'[o[1]] => result'[o] = None
    <2>1. \A o \in Op : o[1] \in Thread /\ o[2] \in Nat /\ calls[o[1]] \in Nat
      BY <1>1, OpFacts
    <2>2. \A o \in Op : calls'[o[1]] >= calls[o[1]]
      BY <1>1, <1>2, <2>1
    <2>3. \A o \in Op : calls'[o[1]] \in Nat
      BY <1>1, <1>2, <2>1
    <2>4. QED
      BY <1>2, <2>1, <2>2, <2>3 DEF FInv
  <1>9. result[x] = None
    BY <1>5 DEF FInv
  <1>10. CallInv(t)'
    BY <1>2, <1>5, <1>7, <1>9 DEF CallInv
  <1>11. SeenInv(t)'
    BY <1>2, <1>6 DEF SeenInv
  <1>12. FInv'
    BY <1>6, <1>8, <1>10, <1>11 DEF FInv
  <1>13. inCall' = [inCall EXCEPT ![t] = TRUE] /\ ~inCall[t]
    <2>1. /\ inCall = [u \in Thread |-> pc[u] # "idle"]
          /\ inCall' = [u \in Thread |-> pc'[u] # "idle"]
      BY InCall DEF FInv
    <2>2. \A u \in Thread : pc'[u] # "idle" <=> (IF u = t THEN TRUE ELSE pc[u] # "idle")
      BY <1>2, <1>3 DEF OthersSame
    <2>3. QED
      BY <1>2, <2>1, <2>2
  <1>14. Kind' = [Kind EXCEPT ![x] = k]
    <2>1. ASSUME NEW o \in Op
          PROVE  (o[2] <= calls'[o[1]] /\ Program[o[1]][o[2]] = "dequeue")
                   <=> IF o = x THEN k = "poll"
                       ELSE o[2] <= calls[o[1]] /\ Program[o[1]][o[2]] = "dequeue"
      <3>1. o[1] \in Thread /\ o[2] \in Nat /\ o = <<o[1], o[2]>> /\ calls[o[1]] \in Nat
        BY <1>1, OpFacts
      <3>2. CASE o = x
        BY <1>2, <1>5, <3>2
      <3>3. CASE o # x /\ o[1] = t
        BY <1>5, <3>1, <3>3
      <3>4. CASE o[1] # t
        BY <1>1, <1>2, <3>1, <3>4
      <3>5. QED
        BY <3>2, <3>3, <3>4
    <2>2. QED
      BY <2>1 DEF Kind
  <1>15. Queue!Invoke(t, k)
    BY <1>2, <1>4, <1>5, <1>13, <1>14 DEF Queue!Invoke, Queue!Watch, Watch, Kind
  <1>16. QED
    BY <1>12, <1>15

\* The node of an enqueue is linked.
LEMMA LinkKeeps ==
    ASSUME FInv, IInv', NEW t \in Thread, EnqLink(t), next[tl[t]] = Null, Watch
    PROVE  FInv' /\ Queue!Add(t)
  <1>1. /\ SharedInv /\ CallInv(t) /\ SeenInv(t) /\ TypeOK /\ LocalInv(t) /\ EnqInv(t)
        /\ place \in [Op -> Nat] /\ back \in Nat
    BY Places DEF FInv, IInv, SharedInv, LocalInv
  <1>2. place' = [place EXCEPT ![Current(t)] = back + 1] /\ back' = back + 1 /\ OthersSame(t)
    BY <1>1, LinkStep, LoudKeeps DEF FInv
  <1>3. /\ pc[t] = "enqLink" /\ pc'[t] = "enqSwing" /\ UNCHANGED <<head, calls, result>>
    BY <1>1, SlowFile DEF EnqLink, BeforeTail, Goto, TypeOK, SharedInv, history
  <1>4. taken' = taken
    BY <1>3 DEF Watch
  <1>5. /\ Mode(t) = "adding" /\ Mode(t)' = "added" /\ Current(t) \in Op /\ enqueues(t)
        /\ place[Current(t)] = 0 /\ Current(t)' = Current(t)
    <2>1. Mode(t) = "adding" /\ Mode(t)' = "added" /\ Current(t)' = Current(t)
      BY <1>3 DEF Mode, EnqPc, Current
    <2>2. place[Current(t)] = 0
      BY <1>1, <1>3 DEF EnqInv, EnqPc
    <2>3. QED
      BY <1>1, <2>1, <2>2 DEF CallInv
  <1>6. PICK c \in Op : c = Current(t)
    BY <1>5
  <1>7. place'[c] # 0 /\ \A o \in Op : place[o] # 0 => place'[o] # 0
    BY <1>1, <1>2, <1>6
  <1>8. /\ \A u \in Thread \ {t} : CallInv(u)' /\ SeenInv(u)'
        /\ sawEmpty' \in [Thread -> BOOLEAN]
        /\ sawEmpty'[t] => pc'[t] # "idle"
        /\ pc'[t] # "idle" /\ (sawEmpty[t] \/ taken' = back') => sawEmpty'[t]
    BY <1>2, <1>3, <1>7, OthersCalls
  <1>9. CallInv(t)'
    BY <1>1, <1>3, <1>5, <1>6, <1>7 DEF CallInv, enqueues
  <1>10. SeenInv(t)'
    BY <1>3, <1>8 DEF SeenInv
  <1>11. FInv'
    BY <1>3, <1>8, <1>9, <1>10 DEF FInv
  <1>12. inCall' = inCall /\ inCall[t]
    <2>1. /\ inCall = [u \in Thread |-> pc[u] # "idle"]
          /\ inCall' = [u \in Thread |-> pc'[u] # "idle"]
      BY InCall DEF FInv
    <2>2. \A u \in Thread : pc'[u] # "idle" <=> pc[u] # "idle"
      BY <1>2, <1>3 DEF OthersSame
    <2>3. QED
      BY <1>3, <2>1, <2>2
  <1>13. Kind' = Kind
    BY <1>3 DEF Kind
  <1>14. Kind[Current(t)] = "add"
    BY <1>5, Kinds
  <1>15. Queue!Add(t)
    BY <1>2, <1>3, <1>4, <1>5, <1>12, <1>13, <1>14
       DEF Queue!Add, Queue!Watch, Queue!Current, Current, Watch, Kind
  <1>16. QED
    BY <1>11, <1>15

\* A dequeue is decided: Head moves on, or nothing was behind it.
LEMMA DecideKeeps ==
    ASSUME FInv, IInv', NEW t \in Thread, Watch, OthersSame(t), place' = place, calls' = calls,
           NEW r \in Op \cup {Empty}, result' = [result EXCEPT ![Current(t)] = r],
           Mode(t) = "polling", Mode(t)' = "polled",
           pc'[t] \notin {"deqRecordNext", "deqRecheck"}
    PROVE  /\ FInv'
           /\ inCall' = inCall /\ inCall[t]
           /\ Kind' = Kind /\ Kind[Current(t)] = "poll"
           /\ result[Current(t)] = None
  <1>1. /\ SharedInv /\ CallInv(t) /\ SeenInv(t) /\ result \in [Op -> Op \cup {None, Empty}]
        /\ calls[t] \in Nat
    BY DEF FInv, IInv, SharedInv, TypeOK
  <1>2. /\ Current(t) \in Op /\ ~enqueues(t) /\ result[Current(t)] = None
        /\ Current(t)' = Current(t) /\ pc[t] # "idle" /\ pc'[t] # "idle"
    BY <1>1 DEF CallInv, Current, Mode
  <1>3. PICK c \in Op : c = Current(t)
    BY <1>2
  <1>4. result'[c] = r /\ r # None /\ \A o \in Op : o # Current(t) => result'[o] = result[o]
    BY <1>1, <1>3, OpFacts
  <1>5. /\ \A u \in Thread \ {t} : CallInv(u)' /\ SeenInv(u)'
        /\ sawEmpty' \in [Thread -> BOOLEAN]
        /\ pc'[t] # "idle" /\ (sawEmpty[t] \/ taken' = back') => sawEmpty'[t]
    BY <1>4, OthersCalls
  <1>6. CallInv(t)'
    BY <1>1, <1>2, <1>3, <1>4 DEF CallInv, enqueues
  <1>7. SeenInv(t)'
    BY <1>2, <1>5 DEF SeenInv
  <1>8. \A o \in Op : o[2] > calls'[o[1]] => result'[o] = None
    <2>1. ~(c[2] > calls[c[1]])
      BY <1>1, <1>3 DEF Current
    <2>2. QED
      BY <1>3, <1>4, <2>1 DEF FInv
  <1>9. FInv'
    BY <1>5, <1>6, <1>7, <1>8 DEF FInv
  <1>10. inCall' = inCall /\ inCall[t]
    <2>1. /\ inCall = [u \in Thread |-> pc[u] # "idle"]
          /\ inCall' = [u \in Thread |-> pc'[u] # "idle"]
      BY InCall DEF FInv
    <2>2. \A u \in Thread : pc'[u] # "idle" <=> pc[u] # "idle"
      BY <1>2 DEF OthersSame
    <2>3. QED
      BY <1>2, <2>1, <2>2
  <1>11. Kind' = Kind
    BY DEF Kind
  <1>12. Kind[Current(t)] = "poll"
    BY <1>2, Kinds
  <1>13. QED
    BY <1>2, <1>9, <1>10, <1>11, <1>12

LEMMA TakeKeeps ==
    ASSUME FInv, IInv', NEW t \in Thread, DeqCas(t), head = h[t], Watch
    PROVE  FInv' /\ Queue!Poll(t)
  <1>1. SharedInv /\ TypeOK /\ IInv
    BY DEF FInv, IInv, SharedInv
  <1>2. /\ place' = place /\ back' = back /\ taken' = taken + 1
        /\ data[t] \in Op /\ place[data[t]] = taken + 1
        /\ result' = [result EXCEPT ![Current(t)] = data[t]]
    BY <1>1, TakeStep
  <1>3. OthersSame(t)
    BY <1>1, LoudKeeps
  <1>4. /\ pc[t] = "deqCas" /\ calls' = calls /\ pc'[t] = "drop"
        /\ then'[t] = (IF flagRet THEN "retire" ELSE "return")
    BY <1>1, SlowFile DEF DeqCas, DropThen, TypeOK, SharedInv
  <1>5. Mode(t) = "polling" /\ Mode(t)' = "polled"
    BY <1>4 DEF Mode, EnqPc, DeqPc, HeadPc
  <1>6. PICK r \in Op : r = data[t]
    BY <1>2
  <1>7. result' = [result EXCEPT ![Current(t)] = r] /\ place[r] = taken + 1
    BY <1>2, <1>6
  <1>8. /\ FInv' /\ inCall' = inCall /\ inCall[t] /\ Kind' = Kind /\ Kind[Current(t)] = "poll"
        /\ result[Current(t)] = None
    BY <1>2, <1>3, <1>4, <1>5, <1>7, DecideKeeps
  <1>9. Queue!Poll(t)
    BY <1>2, <1>4, <1>7, <1>8, QueueOp
       DEF Queue!Poll, Queue!Watch, Queue!Current, Current, Watch, Kind
  <1>10. QED
    BY <1>8, <1>9

LEMMA EmptyKeeps ==
    ASSUME FInv, IInv', NEW t \in Thread, FindsEmpty(t), Watch
    PROVE  FInv' /\ Queue!PollEmpty(t)
  <1>1. SharedInv /\ TypeOK /\ SeenInv(t) /\ Quiet(t)
    BY DEF FInv, IInv, SharedInv, FindsEmpty, Quiet
  <1>2. /\ pc[t] = "deqRecheck" /\ nx[t] = Null /\ UNCHANGED <<head, next, calls>> /\ pc'[t] = "return"
        /\ result' = [result EXCEPT ![Current(t)] = Empty]
    BY <1>1, SlowFile DEF FindsEmpty, DeqRecheck, LeaveEmpty, Goto, TypeOK, SharedInv, memory
  <1>3. OthersSame(t)
    BY <1>1, QuietKeeps
  <1>4. place' = place /\ back' = back /\ taken' = taken
    BY <1>1, <1>2, <1>3, NoPlace DEF Watch
  <1>5. Mode(t) = "polling" /\ Mode(t)' = "polled"
    BY <1>2 DEF Mode, EnqPc, DeqPc, HeadPc
  <1>6. /\ FInv' /\ inCall' = inCall /\ inCall[t] /\ Kind' = Kind /\ Kind[Current(t)] = "poll"
        /\ result[Current(t)] = None
    BY <1>2, <1>3, <1>4, <1>5, DecideKeeps
  <1>7. sawEmpty[t]
    BY <1>1, <1>2 DEF SeenInv
  <1>8. Queue!PollEmpty(t)
    BY <1>2, <1>4, <1>6, <1>7 DEF Queue!PollEmpty, Queue!Watch, Queue!Current, Current, Watch, Kind
  <1>9. QED
    BY <1>6, <1>8

LEMMA FInit == HInit /\ KeepsHazards(file) => FInv /\ Queue!Init
  <1> SUFFICES ASSUME HInit, KeepsHazards(file) PROVE FInv /\ Queue!Init
    OBVIOUS
  <1>1. IInv
    BY InitInv
  <1>2. /\ calls = [t \in Thread |-> 0] /\ result = [o \in Op |-> None]
        /\ pc = [t \in Thread |-> "idle"] /\ then = [t \in Thread |-> "idle"]
        /\ place = [o \in Op |-> 0] /\ taken = 0 /\ sawEmpty = [t \in Thread |-> FALSE]
    BY DEF HInit, Init
  <1>3. \A t \in Thread : CallInv(t) /\ SeenInv(t)
    <2>1. \A t \in Thread : Len(Program[t]) \in Nat
      BY OpFacts
    <2>2. QED
      BY <1>2, <2>1 DEF CallInv, SeenInv, Mode
  <1>4. FInv
    BY <1>1, <1>2, <1>3 DEF FInv
  <1>5. back = 0
    <2>1. {o \in Op : place[o] # 0} = {}
      BY <1>2
    <2>2. QED
      BY <2>1, FS_EmptySet DEF back
  <1>6. inCall = [t \in Thread |-> FALSE]
    BY <1>2 DEF inCall
  <1>7. Kind = [o \in Op |-> "add"]
    <2>1. \A o \in Op : ~(o[2] <= calls[o[1]])
      <3>1. \A o \in Op : o[1] \in Thread /\ o[2] \in Nat /\ o[2] # 0
        BY OpFacts
      <3>2. QED
        BY <1>2, <3>1
    <2>2. QED
      BY <2>1 DEF Kind
  <1>8. Queue!Init
    BY <1>2, <1>5, <1>6, <1>7, QueueOp DEF Queue!Init, Kind
  <1>9. QED
    BY <1>4, <1>8

LEMMA FNext == FInv /\ [HNext]_historyVars => FInv' /\ [Queue!Next]_(Queue!vars)
  <1> SUFFICES ASSUME FInv, [HNext]_historyVars PROVE FInv' /\ (Queue!Next \/ UNCHANGED Queue!vars)
    OBVIOUS
  <1>1. IInv'
    BY Inductive DEF FInv
  <1>2. CASE HNext
    <2>1. PICK t \in Thread : EnqAlloc(t) \/ DeqBegin(t) \/ Step(t)
      BY <1>2 DEF HNext, Next
    <2>2. Watch
      BY <1>2 DEF HNext
    <2>3. CASE EnqAlloc(t) \/ DeqBegin(t)
      BY <1>1, <2>2, <2>3, BeginKeeps DEF Queue!Next
    <2>4. CASE EnqLink(t) /\ next[tl[t]] = Null
      BY <1>1, <2>2, <2>4, LinkKeeps DEF Queue!Next
    <2>5. CASE DeqCas(t) /\ head = h[t]
      BY <1>1, <2>2, <2>5, TakeKeeps DEF Queue!Next
    <2>6. CASE FindsEmpty(t)
      BY <1>1, <2>2, <2>6, EmptyKeeps DEF Queue!Next
    <2>7. CASE /\ Step(t) /\ ~FindsEmpty(t) /\ ~(EnqLink(t) /\ next[tl[t]] = Null)
               /\ ~(DeqCas(t) /\ head = h[t])
      BY <1>1, <2>2, <2>7, PlainKeeps DEF Queue!Next
    <2>8. QED
      BY <2>1, <2>3, <2>4, <2>5, <2>6, <2>7
  <1>3. CASE UNCHANGED historyVars
    <2>1. UNCHANGED <<calls, result, pc, then, nx, place, taken, sawEmpty>>
      BY <1>3 DEF historyVars, vars, history, locals
    <2>2. inCall' = inCall /\ back' = back /\ Kind' = Kind
      BY <2>1 DEF inCall, back, Kind
    <2>3. \A t \in Thread : CallInv(t)' /\ SeenInv(t)'
      BY <2>1, <2>2 DEF FInv, CallInv, SeenInv, Mode, Current, enqueues
    <2>4. FInv'
      BY <1>1, <2>1, <2>3 DEF FInv
    <2>5. QED
      BY <2>1, <2>2, <2>4 DEF Queue!vars, Kind
  <1>4. QED
    BY <1>2, <1>3

\* The queue of hazardpointerslow.c is linearizable although its nodes are freed
\* and their addresses come back: an enqueue takes effect when its node is
\* linked, a dequeue when Head moves on, and a dequeue that finds nothing has
\* seen the queue empty during its own call.
THEOREM ImplementsFifo == HSpec /\ KeepsHazards(file) => FifoSpec
  <1>1. QED
    BY FInit, FNext, PTL DEF HSpec, FifoSpec, Queue!Spec

\* The next call of a thread is a call of the behaviour.
LEMMA NextCall ==
    ASSUME Queue!QueueAssumption, NEW t \in Thread, calls[t] \in Nat, calls[t] < Len(Program[t])
    PROVE  <<t, calls[t] + 1>> \in Queue!Op
<1>1. calls[t] + 1 \in 1 .. Len(Program[t])
  BY DEF Queue!QueueAssumption
<1>2. <<t, calls[t] + 1>> \in {t} \X (1 .. Len(Program[t]))
  BY <1>1
<1>3. QED
  BY <1>2 DEF Queue!Op

\* The abstract queue, as this module instantiates it, polls no element twice, and
\* none before one in front of it, whatever the number of threads and calls.
LEMMA NoElementTwice ==
    ASSUME Queue!QueueAssumption
    PROVE  Queue!Spec => []Queue!TakenInOrder
<1> DEFINE Inv == Queue!TypeInv /\ Queue!PlaceInv
<1>0. None \notin Queue!Op /\ Empty \notin Queue!Op /\ None # Empty
  BY DEF Queue!QueueAssumption
<1>1. Queue!Init => Inv
  BY <1>0 DEF Queue!Init, Queue!TypeInv, Queue!PlaceInv, Queue!TakenInOrder
<1>2. Inv /\ [Queue!Next]_(Queue!vars) => Inv'
  <2> SUFFICES ASSUME Queue!TypeInv, Queue!PlaceInv, [Queue!Next]_(Queue!vars) PROVE Inv'
    OBVIOUS
  <2>1. ASSUME NEW t \in Thread, NEW k \in {"add", "poll"}, Queue!Invoke(t, k)
        PROVE  Inv'
    <3>1. <<t, calls[t] + 1>> \in Queue!Op
      BY <2>1, NextCall DEF Queue!Invoke, Queue!TypeInv
    <3>2. Queue!TypeInv'
      <4>1. calls' \in [Thread -> Nat] /\ inCall' \in [Thread -> BOOLEAN]
        BY <2>1 DEF Queue!Invoke, Queue!TypeInv
      <4>2. Kind' \in [Queue!Op -> {"add", "poll"}]
        BY <2>1 DEF Queue!Invoke, Queue!TypeInv, Kind
      <4>3. \A u \in Thread : inCall'[u] => <<u, calls'[u]>> \in Queue!Op
        <5>1. /\ calls' = [calls EXCEPT ![t] = calls[t] + 1] /\ inCall' = [inCall EXCEPT ![t] = TRUE]
              /\ calls \in [Thread -> Nat] /\ inCall \in [Thread -> BOOLEAN]
              /\ \A u \in Thread : inCall[u] => <<u, calls[u]>> \in Queue!Op
          BY <2>1 DEF Queue!Invoke, Queue!TypeInv, Queue!Current
        <5>2. QED
          BY <3>1, <5>1
      <4>4. QED
        BY <2>1, <4>1, <4>2, <4>3 DEF Queue!Invoke, Queue!TypeInv, Queue!Current, Kind
    <3>3. Queue!PlaceInv'
      BY <2>1 DEF Queue!Invoke, Queue!PlaceInv, Queue!TakenInOrder
    <3>4. QED
      BY <3>2, <3>3
  <2>2. ASSUME NEW t \in Thread, Queue!Add(t)
        PROVE  Inv'
    <3>1. Queue!Current(t) \in Queue!Op /\ Queue!Current(t)' = Queue!Current(t)
      BY <2>2 DEF Queue!Add, Queue!TypeInv, Queue!Current
    <3>2. Queue!TypeInv'
      BY <2>2, <3>1 DEF Queue!Add, Queue!TypeInv, Queue!Current
    <3>3. \A o \in Queue!Op : place'[o] = IF o = Queue!Current(t) THEN back + 1 ELSE place[o]
      BY <2>2, <3>1 DEF Queue!Add, Queue!TypeInv
    <3>4. \A x \in Queue!Op : place'[x] \in 1 .. taken <=> place[x] \in 1 .. taken
      BY <2>2, <3>1, <3>3 DEF Queue!Add, Queue!TypeInv, Queue!PlaceInv
    <3>5. Queue!PlaceInv'
      BY <2>2, <3>1, <3>3, <3>4 DEF Queue!Add, Queue!PlaceInv, Queue!TakenInOrder, Queue!TypeInv
    <3>6. QED
      BY <3>2, <3>5
  <2>3. ASSUME NEW t \in Thread, Queue!Poll(t)
        PROVE  Inv'
    <3>0. PICK x \in Queue!Op : /\ place[x] = taken + 1
                          /\ result' = [result EXCEPT ![Queue!Current(t)] = x]
      BY <2>3 DEF Queue!Poll
    <3>1. Queue!Current(t) \in Queue!Op /\ Queue!Current(t)' = Queue!Current(t)
      BY <2>3 DEF Queue!Poll, Queue!TypeInv, Queue!Current
    <3>2. Queue!TypeInv'
      BY <2>3, <3>0, <3>1 DEF Queue!Poll, Queue!TypeInv, Queue!Current
    <3>3. \A o \in Queue!Op : result'[o] = IF o = Queue!Current(t) THEN x ELSE result[o]
      BY <3>0, <3>1 DEF Queue!TypeInv
    <3>4. result[Queue!Current(t)] = None /\ \A o \in Queue!Op : result[o] # x
      BY <2>3, <3>0 DEF Queue!Poll, Queue!PlaceInv, Queue!TakenInOrder, Queue!TypeInv
    <3>5. \A f \in Queue!Op : place[f] \in 1 .. taken' <=> place[f] \in 1 .. taken \/ f = x
      <4>1. taken \in Nat /\ taken' = taken + 1 /\ \A f \in Queue!Op : place[f] \in Nat
        BY <2>3 DEF Queue!Poll, Queue!TypeInv
      <4>2. \A f \in Queue!Op : place[f] = taken + 1 => f = x
        BY <3>0, <4>1 DEF Queue!PlaceInv
      <4>3. QED
        BY <3>0, <4>1, <4>2
    <3>6. \A f \in Queue!Op : (\E o \in Queue!Op : result'[o] = f) <=> (\E o \in Queue!Op : result[o] = f) \/ f = x
      BY <1>0, <3>1, <3>3, <3>4
    <3>7. Queue!PlaceInv'
      BY <2>3, <3>3, <3>4, <3>5, <3>6 DEF Queue!Poll, Queue!PlaceInv, Queue!TakenInOrder
    <3>8. QED
      BY <3>2, <3>7
  <2>4. ASSUME NEW t \in Thread, Queue!PollEmpty(t)
        PROVE  Inv'
    <3>1. Queue!Current(t) \in Queue!Op /\ Queue!Current(t)' = Queue!Current(t)
      BY <2>4 DEF Queue!PollEmpty, Queue!TypeInv, Queue!Current
    <3>2. Queue!TypeInv'
      BY <2>4, <3>1 DEF Queue!PollEmpty, Queue!TypeInv, Queue!Current
    <3>3. \A o \in Queue!Op : result'[o] = IF o = Queue!Current(t) THEN Empty ELSE result[o]
      BY <2>4, <3>1 DEF Queue!PollEmpty, Queue!TypeInv
    <3>4. result[Queue!Current(t)] = None
      BY <2>4 DEF Queue!PollEmpty
    <3>5. Queue!PlaceInv'
      BY <1>0, <2>4, <3>1, <3>3, <3>4 DEF Queue!PollEmpty, Queue!PlaceInv, Queue!TakenInOrder
    <3>6. QED
      BY <3>2, <3>5
  <2>5. ASSUME NEW t \in Thread, Queue!Return(t)
        PROVE  Inv'
    BY <2>5 DEF Queue!Return, Queue!TypeInv, Queue!PlaceInv, Queue!TakenInOrder, Queue!Current
  <2>6. CASE UNCHANGED Queue!vars
    BY <2>6 DEF Queue!vars, Queue!TypeInv, Queue!PlaceInv, Queue!TakenInOrder, Queue!Current
  <2>7. QED
    BY <2>1, <2>2, <2>3, <2>4, <2>5, <2>6 DEF Queue!Next
<1>3. Inv => Queue!TakenInOrder
  BY DEF Queue!PlaceInv
<1>4. QED
  BY <1>1, <1>2, <1>3, PTL DEF Queue!Spec

\* So no element is dequeued twice, or before one that was enqueued before it.
COROLLARY ElementsInOrder == HSpec /\ KeepsHazards(file) => []Queue!TakenInOrder
  <1>1. Queue!QueueAssumption
    BY OpFacts, QueueOp DEF Queue!QueueAssumption
  <1>2. Queue!Spec => []Queue!TakenInOrder
    BY <1>1, NoElementTwice
  <1>3. QED
    BY <1>2, ImplementsFifo, PTL DEF FifoSpec

-----------------------------------------------------------------------------
(* What is allocated.                                                      *)

\* The node at a is on its way into the queue or out of it, with thread t.
Owns(t, a) == (pc[t] \in EnqPc /\ node[t] = a) \/ (Leaves(t) /\ h[t] = a)

Kept(a) ==
    \/ InQueue(a)
    \/ \E t \in Thread : Owns(t, a)
    \/ \E t \in Thread, i \in Slot : list[t][i] = a

\* No node is lost: not one of the queue, and not one that has left it.
KeptInv ==
    /\ refs = [p \in Pointer |-> 0]
    /\ \A k \in taken .. back : \E a \in heap : Linked(a) /\ pos(a) = k
    /\ flagRet => \A a \in heap : Kept(a)

KInv == IInv /\ KeptInv

\* What a step of t has to see to.
LEMMA KeptStep ==
    ASSUME KInv, IInv', NEW t \in Thread, OthersSame(t), file' = file, refs' = refs, taken <= taken',
           \A a \in heap : a \in heap' => pos(a)' = pos(a) /\ (Linked(a) => Linked(a)'),
           \A a \in heap : a \in heap' \/ pos(a) < taken,
           \A k \in taken' .. back' :
               k \in taken .. back \/ \E a \in heap' : Linked(a)' /\ pos(a)' = k,
           \A i \in Slot : list[t][i] \in heap' => list'[t][i] = list[t][i],
           flagRet => \A a \in heap' : a \notin heap \/ Owns(t, a) \/ (InQueue(a) /\ pos(a) < taken') =>
               InQueue(a)' \/ Owns(t, a)' \/ \E i \in Slot : list'[t][i] = a
    PROVE  KInv'
  <1>1. /\ SharedInv /\ SharedInv' /\ TypeOK /\ taken \in Nat /\ taken' \in Nat /\ back \in Nat
        /\ \A a \in heap : pos(a) \in Nat
    BY Places DEF KInv, IInv, SharedInv
  <1>2. refs' = [p \in Pointer |-> 0] /\ Slot' = Slot
    BY DEF KInv, KeptInv, Slot
  <1>3. ASSUME NEW k \in taken' .. back'
        PROVE  \E a \in heap' : Linked(a)' /\ pos(a)' = k
    <2>1. CASE k \in taken .. back
      <3>1. PICK a \in heap : Linked(a) /\ pos(a) = k
        BY <2>1 DEF KInv, KeptInv
      <3>2. a \in heap'
        BY <1>1, <2>1, <3>1
      <3>3. QED
        BY <3>1, <3>2
    <2>2. QED
      BY <2>1
  <1>4. ASSUME flagRet, NEW a \in heap' PROVE Kept(a)'
    <2>1. CASE a \notin heap \/ Owns(t, a) \/ (InQueue(a) /\ pos(a) < taken')
      BY <1>2, <1>4, <2>1 DEF Kept
    <2>2. CASE a \in heap /\ InQueue(a) /\ ~(pos(a) < taken')
      <3>1. InQueue(a)'
        BY <1>1, <1>4, <2>2 DEF InQueue
      <3>2. QED
        BY <3>1 DEF Kept
    <2>3. CASE a \in heap /\ ~InQueue(a) /\ \E u \in Thread : u # t /\ Owns(u, a)
      <3>1. PICK u \in Thread : u # t /\ Owns(u, a)
        BY <2>3
      <3>2. Owns(u, a)'
        BY <3>1 DEF Owns, Leaves, OthersSame
      <3>3. QED
        BY <3>2 DEF Kept
    <2>4. CASE a \in heap /\ \E u \in Thread, i \in Slot : list[u][i] = a
      <3>1. PICK u \in Thread, i \in Slot : list[u][i] = a
        BY <2>4
      <3>2. list'[u][i] = a
        BY <1>4, <3>1 DEF OthersSame
      <3>3. QED
        BY <1>2, <3>2 DEF Kept
    <2>5. QED
      BY <1>4, <2>1, <2>2, <2>3, <2>4 DEF KInv, KeptInv, Kept
  <1>5. QED
    BY <1>2, <1>3, <1>4 DEF KInv, KeptInv

\* A step that neither takes a node in nor gives one up.
LEMMA KeptCalm ==
    ASSUME KInv, IInv', NEW t \in Thread, OthersSame(t), Watch, UNCHANGED <<file, head, next, value, heap, refs>>,
           \A i \in Slot : list[t][i] # Null => list'[t][i] = list[t][i],
           \A a \in heap : Owns(t, a) => Owns(t, a)' \/ InQueue(a) \/ \E i \in Slot : list'[t][i] = a
    PROVE  KInv'
  <1>1. SharedInv /\ TypeOK /\ taken \in Nat
    BY DEF KInv, IInv, SharedInv
  <1>2. place' = place /\ back' = back /\ taken' = taken
    BY <1>1, NoPlace DEF Watch
  <1>3. \A a : pos(a)' = pos(a) /\ Linked(a)' = Linked(a) /\ InQueue(a)' = InQueue(a)
    BY <1>2 DEF pos, Linked, InQueue
  <1>4. \A a \in heap : a # Null
    BY <1>1, FieldTypes
  <1>5. \A a \in heap : InQueue(a) => ~(pos(a) < taken)
    BY <1>1, Places DEF InQueue
  <1>6. QED
    BY <1>1, <1>2, <1>3, <1>4, <1>5, KeptStep

LEMMA QuietKept ==
    ASSUME KInv, IInv', NEW t \in Thread, Quiet(t), Watch
    PROVE  KInv'
  <1>1. SharedInv /\ TypeOK /\ PathInv(t)
    BY DEF KInv, IInv, SharedInv, LocalInv
  <1>2. UNCHANGED <<file, head, tail, next, value, heap, refs, list>> /\ OthersSame(t)
    BY <1>1, QuietKeeps
  <1>3. pc \in [Thread -> PcLabels] /\ then \in [Thread -> PcLabels]
    BY <1>1 DEF TypeOK
  <1>4. /\ ~counts /\ file.held = <<0, 1>> /\ file.tail = "after" /\ file.head = "after"
        /\ file.scan = "gathered" /\ ~file.clears /\ file.held # <<1>>
    BY <1>1, SlowFile DEF SharedInv
  <1>5. /\ pc[t] \in EnqPc => (pc'[t] \in EnqPc /\ node'[t] = node[t])
        /\ Leaves(t) => (Leaves(t)' /\ h'[t] = h[t])
    <2> USE <1>1, <1>3, <1>4 DEF Leaves, EnqPc, ScanPc, PcLabels, Goto, DropThen, memory, history, locals
    <2>1. CASE Drop(t)
      BY <2>1 DEF Drop, PathInv
    <2>2. CASE EnqTail(t) \/ EnqNext(t) \/ EnqCheck(t) \/ EnqRecheck(t)
      BY <2>2 DEF EnqTail, EnqNext, EnqCheck, EnqRecheck, StartOver, BeforeTail
    <2>3. CASE EnqRecord(t) \/ DeqRecord(t) \/ DeqRecordNext(t)
      BY <2>3 DEF EnqRecord, DeqRecord, DeqRecordNext, Record
    <2>4. CASE DeqBegin(t) \/ DeqHead(t) \/ DeqCheck(t) \/ DeqTail(t) \/ DeqNext(t)
      BY <2>4 DEF DeqBegin, Begins, DeqHead, DeqCheck, DeqTail, DeqNext
    <2>5. CASE DeqRecheck(t) \/ DeqValue(t) \/ Return(t)
      BY <2>5 DEF DeqRecheck, DeqValue, Return, Leave, LeaveEmpty, BeforeTail
    <2>6. CASE Scan(t)
      BY <2>6 DEF Scan
    <2>7. CASE \E s \in Thread, k \in {0, 1} : Gather(t, s, k)
      BY <2>7 DEF Gather
    <2>8. QED
      BY <2>1, <2>2, <2>3, <2>4, <2>5, <2>6, <2>7 DEF Quiet
  <1>6. \A a \in heap : Owns(t, a) => Owns(t, a)'
    BY <1>5 DEF Owns
  <1>7. QED
    BY <1>2, <1>6, KeptCalm

\* The CASes on Tail.
LEMMA TailKept ==
    ASSUME KInv, IInv', NEW t \in Thread, EnqHelp(t) \/ EnqSwing(t) \/ DeqHelp(t), Watch
    PROVE  KInv'
  <1>1. SharedInv /\ TypeOK
    BY DEF KInv, IInv, SharedInv
  <1>2. OthersSame(t) /\ UNCHANGED <<file, head, next, value, heap, refs, list, node, h>>
    BY <1>1, LoudKeeps DEF EnqHelp, EnqSwing, DeqHelp, locals
  <1>3. /\ pc[t] \in {"enqHelp", "enqSwing", "deqHelp"}
        /\ pc[t] = "enqHelp" => pc'[t] = "enqTail"
    BY <1>1, SlowFile DEF EnqHelp, EnqSwing, DeqHelp, AfterTail, Leave, Goto, TypeOK, SharedInv
  <1>4. \A a \in heap : Owns(t, a) => Owns(t, a)'
    BY <1>2, <1>3 DEF Owns, Leaves, EnqPc, ScanPc
  <1>5. QED
    BY <1>2, <1>4, KeptCalm

LEMMA RetireKept ==
    ASSUME KInv, IInv', NEW t \in Thread, Retire(t), Watch
    PROVE  KInv'
  <1>1. SharedInv /\ TypeOK /\ OthersSame(t)
    BY LoudKeeps DEF KInv, IInv, SharedInv
  <1>2. pc[t] = "retire" /\ UNCHANGED <<file, head, next, value, heap, refs, node, h>>
    BY DEF Retire
  <1>3. CASE Used(t) = Slot
    <2>1. list' = list /\ pc'[t] = "gather" /\ then'[t] = "retire"
      BY <1>1, <1>3, SlowFile DEF Retire, ScanThen, TypeOK, SharedInv
    <2>2. \A a \in heap : Owns(t, a) => Owns(t, a)'
      BY <1>2, <2>1 DEF Owns, Leaves, EnqPc, ScanPc
    <2>3. QED
      BY <1>1, <1>2, <2>1, <2>2, KeptCalm
  <1>4. CASE Used(t) # Slot
    <2>1. Slot \ Used(t) \subseteq Nat /\ Slot \ Used(t) # {}
      BY <1>1, <1>4, FieldTypes DEF Used
    <2>2. PICK i \in Slot : i = Least(Slot \ Used(t)) /\ list[t][i] = Null
      BY <2>1, LeastIn DEF Used
    <2>3. list' = [list EXCEPT ![t][i] = h[t]]
      BY <1>4, <2>2 DEF Retire
    <2>4. list'[t][i] = h[t] /\ \A j \in Slot : j # i => list'[t][j] = list[t][j]
      BY <1>1, <2>3 DEF TypeOK
    <2>5. \A j \in Slot : list[t][j] # Null => list'[t][j] = list[t][j]
      BY <2>2, <2>4
    <2>6. \A a \in heap : Owns(t, a) => list'[t][i] = a
      BY <1>2, <2>4 DEF Owns, EnqPc
    <2>7. QED
      BY <1>1, <1>2, <2>5, <2>6, KeptCalm
  <1>5. QED
    BY <1>3, <1>4

LEMMA FreeKept ==
    ASSUME KInv, IInv', NEW t \in Thread, Free(t), Watch
    PROVE  KInv'
  <1>1. SharedInv /\ TypeOK /\ OthersSame(t) /\ RetireInv /\ ScanInv(t) /\ taken \in Nat
    BY LoudKeeps DEF KInv, IInv, SharedInv, LocalInv
  <1>2. /\ pc[t] = "free" /\ heap' = heap \ {list[t][slot[t]]}
        /\ list' = [list EXCEPT ![t][slot[t]] = Null] /\ pc'[t] = "scan"
        /\ UNCHANGED <<file, head, next, value, refs, node, h>> /\ then' = then
    BY <1>1 DEF Free, Goto, TypeOK
  <1>3. PICK i \in Slot : i = slot[t] /\ list[t][i] # Null
    BY <1>1, <1>2 DEF ScanInv
  <1>4. Gone(list[t][i])
    BY <1>1, <1>3 DEF RetireInv
  <1>5. PICK a \in heap : a = list[t][i] /\ pos(a) < taken
    BY <1>4 DEF Gone, Linked
  <1>6. heap' = heap \ {a} /\ list' = [list EXCEPT ![t][i] = Null]
    BY <1>2, <1>3, <1>5
  <1>7. place' = place /\ back' = back /\ taken' = taken
    BY <1>1, <1>2, NoPlace DEF Watch
  <1>8. \A b \in heap : b \in heap' => pos(b)' = pos(b) /\ (Linked(b) => Linked(b)')
    BY <1>2, <1>7 DEF pos, Linked
  <1>9. \A b \in heap : b \in heap' \/ pos(b) < taken
    BY <1>5, <1>6
  <1>10. \A j \in Slot : list[t][j] \in heap' => list'[t][j] = list[t][j]
    BY <1>1, <1>5, <1>6 DEF TypeOK
  <1>11. \A b \in heap : Owns(t, b) => Owns(t, b)'
    BY <1>2 DEF Owns, Leaves, EnqPc, ScanPc
  <1>12. \A b \in heap : InQueue(b) => ~(pos(b) < taken)
    BY <1>1, Places DEF InQueue
  <1>13. heap' \subseteq heap
    BY <1>6
  <1>14. QED
    BY <1>1, <1>2, <1>7, <1>8, <1>9, <1>10, <1>11, <1>12, <1>13, KeptStep

LEMMA AllocKept ==
    ASSUME KInv, IInv', NEW t \in Thread, EnqAlloc(t), Watch
    PROVE  KInv'
  <1>1. SharedInv /\ TypeOK /\ OthersSame(t) /\ taken \in Nat
    BY LoudKeeps DEF KInv, IInv, SharedInv
  <1>2. /\ pc[t] = "idle" /\ pc'[t] = "enqTail" /\ UNCHANGED <<file, head, refs, list>>
    BY <1>1 DEF EnqAlloc, Begins, Goto, TypeOK
  <1>3. PICK a \in Address \ heap : /\ heap' = heap \cup {a}
                                    /\ value' = [value EXCEPT ![a] = <<t, calls[t] + 1>>]
                                    /\ node' = [node EXCEPT ![t] = a]
    BY DEF EnqAlloc
  <1>4. place' = place /\ back' = back /\ taken' = taken
    BY <1>1, <1>2, NoPlace DEF Watch
  <1>5. \A b \in heap : value'[b] = value[b] /\ b \in heap'
    BY <1>1, <1>3 DEF TypeOK
  <1>6. \A b \in heap : pos(b)' = pos(b) /\ (Linked(b) => Linked(b)')
    BY <1>4, <1>5 DEF pos, Linked
  <1>7. Owns(t, a)'
    <2>1. node'[t] = a
      BY <1>1, <1>3 DEF TypeOK
    <2>2. QED
      BY <1>2, <2>1 DEF Owns, EnqPc
  <1>8. \A b \in heap : ~Owns(t, b)
    BY <1>2 DEF Owns, Leaves, EnqPc, ScanPc
  <1>9. \A b \in heap : InQueue(b) => ~(pos(b) < taken)
    BY <1>1, Places DEF InQueue
  <1>10. \A b \in heap' : b \in heap \/ b = a
    BY <1>3
  <1>11. QED
    BY <1>1, <1>2, <1>4, <1>5, <1>6, <1>7, <1>8, <1>9, <1>10, KeptStep

LEMMA LinkKept ==
    ASSUME KInv, IInv', NEW t \in Thread, EnqLink(t), Watch
    PROVE  KInv'
  <1>1. /\ SharedInv /\ TypeOK /\ OthersSame(t) /\ EnqInv(t) /\ taken \in Nat /\ back \in Nat
        /\ place \in [Op -> Nat] /\ HeapInv
    BY LoudKeeps, Places DEF KInv, IInv, SharedInv, LocalInv
  <1>2. /\ pc[t] = "enqLink" /\ UNCHANGED <<file, head, value, heap, refs, list, node, h>>
        /\ pc'[t] = (IF next[tl[t]] = Null THEN "enqSwing" ELSE "enqTail")
        /\ next[tl[t]] # Null => next' = next
    BY <1>1, SlowFile DEF EnqLink, BeforeTail, Leave, Goto, TypeOK, SharedInv, locals
  <1>3. CASE next[tl[t]] # Null
    <2>1. \A a \in heap : Owns(t, a) => Owns(t, a)'
      BY <1>2, <1>3 DEF Owns, Leaves, EnqPc, ScanPc
    <2>2. QED
      BY <1>1, <1>2, <1>3, <2>1, KeptCalm
  <1>4. CASE next[tl[t]] = Null
    <2>1. place' = [place EXCEPT ![Current(t)] = back + 1] /\ back' = back + 1
      BY <1>4, LinkStep DEF KInv
    <2>2. taken' = taken
      BY <1>2 DEF Watch
    <2>3. /\ node[t] \in heap /\ value[node[t]] = Current(t) /\ Current(t) \in Op
          /\ place[Current(t)] = 0
      BY <1>1, <1>2 DEF EnqInv, EnqPc
    <2>4. PICK n \in heap, c \in Op : n = node[t] /\ c = Current(t)
      BY <2>3
    <2>5. value[n] = c /\ place[c] = 0 /\ c # NoCall
      BY <2>3, <2>4, OpFacts
    <2>6. /\ place'[c] = back + 1
          /\ \A o \in Op : o # c => place'[o] = place[o]
      BY <1>1, <2>1, <2>4
    <2>7. /\ \A a \in heap : a # n => value[a] # c
          /\ \A a \in heap : value[a] # NoCall => value[a] \in Op
      BY <1>1, <2>5, Places DEF HeapInv
    <2>8. pos(n)' = back + 1 /\ Linked(n)'
      BY <1>1, <1>2, <2>5, <2>6 DEF pos, Linked
    <2>9. \A a \in heap : a # n => pos(a)' = pos(a) /\ (Linked(a) => Linked(a)')
      BY <1>2, <2>6, <2>7 DEF pos, Linked
    <2>10. ~Linked(n) /\ ~InQueue(n)
      BY <2>5 DEF Linked, InQueue
    <2>11. InQueue(n)'
      <3>1. taken <= back + 1
        BY <1>1, Ends
      <3>2. QED
        BY <2>2, <2>8, <3>1 DEF InQueue
    <2>12. \A a \in heap : Owns(t, a) => a = n
      BY <1>2, <2>4 DEF Owns, Leaves, ScanPc
    <2>13. \A a \in heap : InQueue(a) => ~(pos(a) < taken)
      BY <1>1, Places DEF InQueue
    <2>14. /\ IInv' /\ KInv /\ refs' = [p \in Pointer |-> 0] /\ Slot' = Slot
      BY <1>2 DEF KInv, KeptInv, Slot
    <2>15. ASSUME NEW k \in taken' .. back'
           PROVE  \E a \in heap' : Linked(a)' /\ pos(a)' = k
      <3>1. CASE k = back + 1
        BY <1>2, <2>8, <3>1
      <3>2. CASE k # back + 1
        <4>1. k \in taken .. back
          BY <1>1, <2>1, <2>2, <3>2
        <4>2. PICK a \in heap : Linked(a) /\ pos(a) = k
          BY <4>1 DEF KInv, KeptInv
        <4>3. a # n
          BY <2>10, <4>2
        <4>4. QED
          BY <1>2, <2>9, <4>2, <4>3
      <3>3. QED
        BY <3>1, <3>2
    <2>16. ASSUME flagRet, NEW a \in heap PROVE Kept(a)'
      <3>1. CASE a = n
        BY <2>11, <3>1 DEF Kept
      <3>2. CASE a # n /\ InQueue(a)
        <4>1. InQueue(a)'
          BY <2>2, <2>9, <3>2 DEF InQueue
        <4>2. QED
          BY <4>1 DEF Kept
      <3>3. CASE \E u \in Thread : u # t /\ Owns(u, a)
        <4>1. PICK u \in Thread : u # t /\ Owns(u, a)
          BY <3>3
        <4>2. Owns(u, a)'
          BY <1>1, <4>1 DEF Owns, Leaves, OthersSame
        <4>3. QED
          BY <4>2 DEF Kept
      <3>4. CASE \E u \in Thread, i \in Slot : list[u][i] = a
        BY <1>2, <2>14, <3>4 DEF Kept
      <3>5. QED
        BY <2>12, <2>14, <2>16, <3>1, <3>2, <3>3, <3>4 DEF KInv, KeptInv, Kept
    <2>17. QED
      BY <1>2, <2>14, <2>15, <2>16 DEF KInv, KeptInv
  <1>5. QED
    BY <1>3, <1>4

LEMMA TakeKept ==
    ASSUME KInv, IInv', NEW t \in Thread, DeqCas(t), Watch
    PROVE  KInv'
  <1>1. SharedInv /\ TypeOK /\ OthersSame(t) /\ taken \in Nat /\ back \in Nat
    BY LoudKeeps, Places DEF KInv, IInv, SharedInv
  <1>2. /\ pc[t] = "deqCas" /\ UNCHANGED <<file, next, value, heap, refs, list, node, h>>
        /\ head # h[t] => head' = head
        /\ head = h[t] => pc'[t] = "drop" /\ then'[t] = (IF flagRet THEN "retire" ELSE "return")
    BY <1>1, SlowFile DEF DeqCas, DropThen, TypeOK, SharedInv, locals
  <1>3. \A a \in heap : ~Owns(t, a)
    BY <1>2 DEF Owns, Leaves, EnqPc, ScanPc
  <1>4. CASE head # h[t]
    BY <1>1, <1>2, <1>3, <1>4, KeptCalm
  <1>5. CASE head = h[t]
    <2>1. place' = place /\ back' = back /\ taken' = taken + 1
      BY <1>5, TakeStep DEF KInv
    <2>2. \A a : pos(a)' = pos(a) /\ Linked(a)' = Linked(a)
      BY <1>2, <2>1 DEF pos, Linked
    <2>3. \A a \in heap : InQueue(a) /\ pos(a) < taken + 1 => a = head
      <3>1. head \in heap /\ Linked(head) /\ pos(head) = taken
        BY <1>1, Ends DEF InQueue
      <3>2. \A a \in heap : InQueue(a) /\ pos(a) < taken + 1 => Linked(a) /\ pos(a) = taken
        BY <1>1, Places DEF InQueue
      <3>3. \A a, b \in heap : Linked(a) /\ Linked(b) /\ pos(a) = pos(b) => a = b
        BY <1>1, Places
      <3>4. PICK b \in heap : b = head
        BY <3>1
      <3>5. QED
        BY <3>1, <3>2, <3>3, <3>4
    <2>4. flagRet => \A a \in heap : a = head => Owns(t, a)'
      BY <1>2, <1>5 DEF Owns, Leaves
    <2>5. \A k \in taken' .. back' : k \in taken .. back
      BY <1>1, <2>1
    <2>6. QED
      BY <1>1, <1>2, <1>3, <2>1, <2>2, <2>3, <2>4, <2>5, KeptStep
  <1>6. QED
    BY <1>4, <1>5

\* No node is lost, in any step.
LEMMA KeptInductive == KInv /\ [HNext]_historyVars => KInv'
  <1> SUFFICES ASSUME KInv, [HNext]_historyVars PROVE KInv'
    OBVIOUS
  <1>1. IInv'
    BY Inductive DEF KInv
  <1>2. CASE HNext
    <2>1. PICK t \in Thread : EnqAlloc(t) \/ DeqBegin(t) \/ Step(t)
      BY <1>2 DEF HNext, Next
    <2>2. Watch
      BY <1>2 DEF HNext
    <2>3. \/ Quiet(t) \/ EnqAlloc(t) \/ EnqHelp(t) \/ EnqLink(t) \/ EnqSwing(t) \/ DeqHelp(t)
          \/ DeqCas(t) \/ Retire(t) \/ Free(t)
      BY <2>1, Steps DEF KInv, IInv, Quiet
    <2>4. QED
      BY <1>1, <2>2, <2>3, QuietKept, AllocKept, TailKept, LinkKept, TakeKept, RetireKept, FreeKept
  <1>3. CASE UNCHANGED historyVars
    <2>1. UNCHANGED <<file, head, next, value, heap, refs, list, pc, then, node, h, place, taken>>
      BY <1>3 DEF historyVars, vars, memory, locals
    <2>2. back' = back /\ Slot' = Slot
      BY <2>1 DEF back, Slot
    <2>3. KeptInv'
      BY <2>1, <2>2 DEF KInv, KeptInv, Kept, Owns, Leaves, InQueue, Linked, pos
    <2>4. QED
      BY <1>1, <2>3 DEF KInv
  <1>4. QED
    BY <1>2, <1>3

LEMMA KeptInit == HInit /\ KeepsHazards(file) => KInv
  <1> SUFFICES ASSUME HInit, KeepsHazards(file) PROVE KInv
    OBVIOUS
  <1>1. IInv
    BY InitInv
  <1>2. /\ refs = [p \in Pointer |-> 0] /\ heap = {Dummy} /\ head = Dummy /\ taken = 0
        /\ place = [o \in Op |-> 0]
    BY DEF HInit, Init
  <1>3. Linked(head) /\ pos(head) = 0 /\ InQueue(head) /\ head \in heap
    BY <1>1, <1>2, Ends DEF IInv, SharedInv, ChainInv
  <1>4. back = 0
    <2>1. {o \in Op : place[o] # 0} = {}
      BY <1>2
    <2>2. QED
      BY <2>1, FS_EmptySet DEF back
  <1>5. \A a \in heap : a = head
    BY <1>2
  <1>6. \A a \in heap : Kept(a)
    BY <1>3, <1>5 DEF Kept
  <1>7. \A k \in taken .. back : \E a \in heap : Linked(a) /\ pos(a) = k
    BY <1>2, <1>3, <1>4
  <1>8. QED
    BY <1>1, <1>2, <1>6, <1>7 DEF KInv, KeptInv

-----------------------------------------------------------------------------
(* The nodes of the queue.                                                 *)

\* Induction, for a set of numbers.
LEMMA EveryNumber ==
    ASSUME NEW S, S \subseteq Nat, 0 \in S, \A n \in S : n + 1 \in S
    PROVE  S = Nat
  <1> SUFFICES ASSUME S # Nat PROVE FALSE
    OBVIOUS
  <1> DEFINE T == Nat \ S
  <1>1. T \subseteq Nat /\ T # {}
    OBVIOUS
  <1>2. Least(T) \in T /\ \A m \in T : Least(T) <= m
    <2> HIDE DEF T
    <2> QED
      BY <1>1, LeastIn
  <1>3. PICK n \in T : \A m \in T : n <= m
    BY <1>2
  <1>4. n # 0 /\ n - 1 \in Nat /\ n - 1 \notin T
    BY <1>3
  <1>5. QED
    BY <1>4

\* The walk that Chain makes, with k the number of its steps.
Walked(f, k) ==
    IF k = 0 THEN {head}
    ELSE LET w == f[k - 1] IN w \cup ({next[a] : a \in w} \ {Null})

Walk(f) == f = [k \in 0 .. Cardinality(Address) |-> Walked(f, k)]

\* There is one walk only, so Chain is where any walk ends.
LEMMA WalkUnique ==
    ASSUME NEW f, Walk(f), NEW g, Walk(g), Cardinality(Address) \in Nat
    PROVE  f = g
  <1> DEFINE S == {k \in Nat : k \in 0 .. Cardinality(Address) => f[k] = g[k]}
  <1>1. 0 \in S
    <2>1. f[0] = Walked(f, 0) /\ g[0] = Walked(g, 0)
      BY DEF Walk
    <2>2. QED
      BY <2>1 DEF Walked
  <1>2. ASSUME NEW k \in S PROVE k + 1 \in S
    <2>1. SUFFICES ASSUME k + 1 \in 0 .. Cardinality(Address) PROVE f[k + 1] = g[k + 1]
      OBVIOUS
    <2>2. k \in Nat /\ k \in 0 .. Cardinality(Address) /\ k + 1 # 0 /\ (k + 1) - 1 = k
      BY <2>1
    <2>3. f[k] = g[k]
      BY <2>2
    <2>4. f[k + 1] = Walked(f, k + 1) /\ g[k + 1] = Walked(g, k + 1)
      BY <2>1 DEF Walk
    <2>5. QED
      BY <2>2, <2>3, <2>4 DEF Walked
  <1>3. S = Nat
    <2>1. S \subseteq Nat
      OBVIOUS
    <2> HIDE DEF S
    <2>2. QED
      BY <1>1, <1>2, <2>1, EveryNumber
  <1>4. \A k \in 0 .. Cardinality(Address) : f[k] = g[k]
    BY <1>3
  <1>5. QED
    BY <1>4 DEF Walk

LEMMA ChainWalk ==
    ASSUME NEW f, Walk(f), Cardinality(Address) \in Nat
    PROVE  Chain = f[Cardinality(Address)]
  <1> DEFINE w == CHOOSE g : Walk(g)
  <1>1. Chain = w[Cardinality(Address)]
    BY DEF Chain, Walk, Walked
  <1>2. Walk(w)
    BY Zenon
  <1>3. w = f
    <2> HIDE DEF w
    <2> QED
      BY <1>2, WalkUnique
  <1>4. QED
    BY <1>1, <1>3

\* The queue is no longer than there are addresses.
LEMMA FewNodes ==
    ASSUME KInv
    PROVE  Cardinality(Address) \in Nat /\ back - taken < Cardinality(Address)
  <1>1. /\ SharedInv /\ TypeOK /\ taken \in Nat /\ back \in Nat /\ taken <= back
        /\ IsFiniteSet(Address) /\ Cardinality(Address) \in Nat
    BY Places, Ends, ReferencedAssumption, FS_CardinalityType
       DEF KInv, IInv, SharedInv, ReferencedAssumption
  <1> DEFINE at(k) == CHOOSE a \in heap : Linked(a) /\ pos(a) = k
             f == [k \in taken .. back |-> at(k)]
  <1>2. \A k \in taken .. back : at(k) \in heap /\ pos(at(k)) = k
    BY DEF KInv, KeptInv
  <1>3. f \in Injection(taken .. back, Address)
    <2>1. \A k \in taken .. back : f[k] \in Address /\ pos(f[k]) = k
      BY <1>1, <1>2, FieldTypes
    <2> HIDE DEF f
    <2>2. \A j, k \in taken .. back : f[j] = f[k] => j = k
      BY <2>1
    <2>3. f \in [taken .. back -> Address]
      BY <2>1 DEF f
    <2>4. QED
      BY <2>2, <2>3 DEF Injection, IsInjective
  <1>4. Cardinality(taken .. back) <= Cardinality(Address)
    <2> HIDE DEF f
    <2> QED
      BY <1>1, <1>3, FS_Injection
  <1>5. Cardinality(taken .. back) = back - taken + 1
    BY <1>1, FS_Interval
  <1>6. QED
    BY <1>1, <1>4, <1>5

\* Chain is made of the nodes whose numbers are from taken on.
LEMMA ChainIsQueue ==
    ASSUME KInv
    PROVE  Chain = {a \in heap : InQueue(a)}
  <1>1. /\ SharedInv /\ TypeOK /\ ChainInv /\ taken \in Nat /\ back \in Nat /\ taken <= back
        /\ Cardinality(Address) \in Nat /\ back - taken < Cardinality(Address)
    BY Places, Ends, FewNodes DEF KInv, IInv, SharedInv
  <1>2. /\ \A a \in heap : pos(a) \in Nat /\ pos(a) <= back /\ a # Null
        /\ \A a, b \in heap : Linked(a) /\ Linked(b) /\ pos(a) = pos(b) => a = b
        /\ head \in heap /\ InQueue(head) /\ pos(head) = taken
    BY <1>1, Places, Ends, FieldTypes
  <1> DEFINE N == Cardinality(Address)
             W(k) == {a \in heap : InQueue(a) /\ pos(a) <= taken + k}
             f == [k \in 0 .. N |-> W(k)]
  <1>3. W(0) = {head}
    <2>1. \A a \in heap : InQueue(a) /\ pos(a) <= taken => a = head
      BY <1>1, <1>2 DEF InQueue
    <2>2. QED
      BY <1>1, <1>2, <2>1
  <1>4. ASSUME NEW k \in 1 .. N
        PROVE  W(k) = W(k - 1) \cup ({next[a] : a \in W(k - 1)} \ {Null})
    <2>1. k \in Nat /\ k - 1 \in Nat /\ k # 0
      OBVIOUS
    <2>2. ASSUME NEW a \in W(k - 1), next[a] # Null PROVE next[a] \in W(k)
      <3>1. InQueue(next[a]) /\ pos(next[a]) = pos(a) + 1 /\ next[a] \in heap
        BY <1>1, <2>2 DEF ChainInv, InQueue, Linked
      <3>2. QED
        BY <1>1, <1>2, <2>1, <2>2, <3>1
    <2>3. W(k - 1) \subseteq W(k)
      BY <1>1, <1>2, <2>1
    <2>4. ASSUME NEW b \in W(k), b \notin W(k - 1) PROVE \E a \in W(k - 1) : next[a] = b
      <3>1. pos(b) = taken + k /\ b \in heap /\ Linked(b) /\ pos(b) <= back
        BY <1>1, <1>2, <2>1, <2>4 DEF InQueue
      <3>2. taken + (k - 1) \in taken .. back /\ taken + (k - 1) # back
        BY <1>1, <2>1, <3>1
      <3>3. PICK a \in heap : Linked(a) /\ pos(a) = taken + (k - 1)
        BY <3>2 DEF KInv, KeptInv
      <3>4. InQueue(a) /\ next[a] # Null
        BY <1>1, <2>1, <3>2, <3>3 DEF ChainInv, InQueue
      <3>5. Linked(next[a]) /\ pos(next[a]) = pos(a) + 1 /\ next[a] \in heap
        BY <1>1, <3>4 DEF ChainInv, InQueue, Linked
      <3>6. pos(next[a]) = pos(b)
        BY <1>1, <2>1, <3>1, <3>3, <3>5
      <3>7. next[a] = b
        <4>1. PICK c \in heap : c = next[a]
          BY <3>5
        <4>2. QED
          BY <1>2, <3>1, <3>5, <3>6, <4>1
      <3>8. a \in W(k - 1)
        BY <1>1, <2>1, <3>3, <3>4
      <3>9. QED
        BY <3>7, <3>8
    <2>5. \A b \in W(k) : b # Null
      BY <1>2
    <2> HIDE DEF W
    <2>6. QED
      BY <2>2, <2>3, <2>4, <2>5
  <1>5. Walk(f)
    <2>1. ASSUME NEW k \in 0 .. N PROVE f[k] = Walked(f, k)
      <3>1. CASE k = 0
        BY <1>3, <3>1 DEF Walked
      <3>2. CASE k # 0
        <4>1. k \in 1 .. N /\ k - 1 \in 0 .. N
          BY <1>1, <3>2
        <4>2. f[k] = W(k) /\ f[k - 1] = W(k - 1)
          BY <4>1
        <4> HIDE DEF W, f
        <4>3. QED
          BY <1>4, <3>2, <4>1, <4>2 DEF Walked
      <3>3. QED
        BY <3>1, <3>2
    <2> HIDE DEF W
    <2>2. QED
      BY <2>1 DEF Walk
  <1>6. Chain = W(N)
    <2>1. Chain = f[N]
      <3> HIDE DEF f
      <3> QED
        BY <1>1, <1>5, ChainWalk
    <2>2. QED
      BY <1>1, <2>1
  <1>7. \A a \in heap : pos(a) <= taken + N
    BY <1>1, <1>2
  <1>8. QED
    BY <1>6, <1>7

\* In hazardpointerslow.c no node is lost: when no thread is inside a call, what
\* is allocated is in the queue or waits in a retire list.
THEOREM NothingLost == HSpec /\ KeepsHazards(file) => []NoLeak
  <1>1. KInv => NoLeak
    <2> SUFFICES ASSUME KInv, \A t \in Thread : pc[t] \in {"idle", "done"}
                 PROVE  /\ \A p \in Pointer : refs[p] = 0
                        /\ flagRet => heap = Chain \cup UNION {{list[t][i] : i \in Used(t)} : t \in Thread}
      BY DEF NoLeak
    <2>1. \A p \in Pointer : refs[p] = 0
      BY DEF KInv, KeptInv
    <2>2. RetireInv /\ SharedInv /\ TypeOK
      BY DEF KInv, IInv, SharedInv
    <2>3. \A t \in Thread, a \in heap : ~Owns(t, a)
      BY DEF Owns, Leaves, EnqPc, ScanPc
    <2>4. \A t \in Thread : \A i \in Used(t) : list[t][i] \in heap
      BY <2>2 DEF RetireInv, Used, Gone, Linked
    <2>5. \A a \in heap : a # Null
      BY <2>2, FieldTypes
    <2>6. ASSUME flagRet, NEW a \in heap, ~InQueue(a)
          PROVE  \E t \in Thread : \E i \in Used(t) : list[t][i] = a
      BY <2>3, <2>5, <2>6 DEF KInv, KeptInv, Kept, Used
    <2>7. Chain = {a \in heap : InQueue(a)}
      BY ChainIsQueue
    <2>8. ASSUME flagRet
          PROVE  heap = Chain \cup UNION {{list[t][i] : i \in Used(t)} : t \in Thread}
      <3>1. \A a \in heap : a \in Chain \/ \E t \in Thread : a \in {list[t][i] : i \in Used(t)}
        BY <2>6, <2>7, <2>8
      <3>2. \A t \in Thread : {list[t][i] : i \in Used(t)} \subseteq heap
        BY <2>4
      <3>3. Chain \subseteq heap
        BY <2>7
      <3>4. QED
        BY <3>1, <3>2, <3>3
    <2>9. QED
      BY <2>1, <2>8
  <1>2. HSpec /\ KeepsHazards(file) => []KInv
    BY KeptInit, KeptInductive, PTL DEF HSpec
  <1>3. QED
    BY <1>1, <1>2, PTL

=============================================================================
