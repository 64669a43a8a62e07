--------------------------- MODULE WaitFreeQueue ----------------------------
(***************************************************************************)
(* The wait-free queue on cells of WaitFreeQueue.java, one action per      *)
(* access to a shared field.                                               *)
(*                                                                         *)
(* An enqueue draws an index from putIndex and puts its item in the cell   *)
(* of that index; a dequeue draws one from popIndex and takes the item     *)
(* from there, or seals the cell.  A call that fails makes a request, the  *)
(* Enq or Deq of its Handle, which the others help: the handles form a     *)
(* ring.                                                                   *)
(*                                                                         *)
(* The cells are in nodes of CELLS_SIZE that findCell links one behind the *)
(* other.  A node is named by its id, a cell by its number, an item by the *)
(* call that brings it.                                                    *)
(***************************************************************************)
EXTENDS Integers, Sequences

CONSTANTS
    Thread,     \* the threads, each with its Handle
    Programs,   \* bound: what the threads may call, in order
    MaxCalls,   \* bound: calls of a thread
    CELLS_SIZE, \* cells of a node
    Cells,      \* bound: cells of a behaviour
    Used,       \* elements that went through the queue before
    Old,        \* the items they were
    Null,       \* the null pointer
    Top,        \* TOP_VAL, TOP_ENQ and TOP_DEQ
    Bot,        \* BOT_VAL
    None        \* the answer of a dequeue that has not returned

Op == Thread \X (1 .. MaxCalls)
Item == Op \cup {Old}
Cell == [val : Item \cup {Null, Top}, enq : Thread \cup {Null, Top}, deq : Thread \cup {Null, Top}]

ASSUME CellsAssumption ==
    /\ MaxCalls \in Nat
    /\ \A p \in Programs : /\ p \in [Thread -> Seq({"enqueue", "dequeue"})]
                          /\ \A t \in Thread : Len(p[t]) <= MaxCalls
    /\ CELLS_SIZE \in Nat \ {0} /\ Cells \in Nat /\ Used \in 0 .. Cells
    /\ {Old, Null, Top, Bot, None} \cap (Thread \cup Thread \X Nat) = {}
    /\ Top \notin {Null, Bot, Old} /\ Bot \notin {Null, Old} /\ Old # Null
    /\ Null \notin Cell

VARIABLES
    putIndex,  \* the next index of an enqueue
    popIndex,  \* and of a dequeue
    cells,     \* cells[i]: cell number i, or Null
    ring,      \* the handles, from ringTail on
    nodes,     \* putNode and popNode of the queue, for handles to come
    putNode,   \* putNode[t]: the node in the handle of t
    popNode,   \* popNode[t]: the same for dequeues; helpers read it
    enq,       \* enq[t]: id and val of the Enq of t
    deq,       \* deq[t]: id and idx of the Deq of t
    eh,        \* eh[t]: the handle whose enqueue t helps next
    dh,        \* dh[t]: and whose dequeue
    program,   \* the calls of this behaviour
    calls,     \* calls[t]: calls thread t has begun
    result,    \* result[o]: what dequeue o has returned
    pc,        \* pc[t]: the next access of thread t
    local      \* local[t]: the locals of the methods t is in

shared == <<putIndex, popIndex, cells, ring, nodes, putNode, popNode, enq, deq>>
handles == <<eh, dh>>
history == <<program, calls, result>>
vars == <<shared, handles, history, pc, local>>

Current(t) == <<t, calls[t]>>
Empty(c) == cells[c] = Null

\* The locals of enqueue and dequeue (index, and the node that is reserved),
\* of help_enq (cell, i, the Enq, its id and val, and what moves eh on) and of
\* help_deq (whose request, and its loop).
Blank == [index |-> 0, reserve |-> 0, val |-> Null,
          back |-> "idle", cell |-> 0, i |-> 0, e |-> Null, ei |-> 0, ev |-> Null,
          pe |-> Null, id |-> 0, outer |-> FALSE,
          ph |-> Null, then |-> "idle", did |-> 0, idx |-> 0, old |-> 0, new |-> 0, dp |-> 0]

Segment(i) == i \div CELLS_SIZE
Later(a, b) == IF a < b THEN b ELSE a

\* findCell: the node of index i, or the one it starts from if that is later.
\* Nodes that are missing are linked on the way, once each.
FindCell(n, i) == Later(n, Segment(i))
At(n, i) == n * CELLS_SIZE + (i % CELLS_SIZE)

Init ==
    /\ putIndex = Used
    /\ popIndex = Used
    /\ cells = [i \in 0 .. Cells - 1 |->
                   IF i < Used THEN [val |-> Old, enq |-> Null, deq |-> Top] ELSE Null]
    /\ ring = <<>>
    /\ nodes = LET n == Segment(Later(Used - 1, 0)) IN [put |-> n, pop |-> n]
    /\ putNode = [t \in Thread |-> 0]
    /\ popNode = [t \in Thread |-> 0]
    /\ enq = [t \in Thread |-> [id |-> 0, val |-> Null]]
    /\ deq = [t \in Thread |-> [id |-> 0, idx |-> -1]]
    /\ eh = [t \in Thread |-> t]
    /\ dh = [t \in Thread |-> t]
    /\ program \in Programs
    /\ calls = [t \in Thread |-> 0]
    /\ result = [o \in Op |-> None]
    /\ pc = [t \in Thread |-> "new"]
    /\ local = [t \in Thread |-> Blank]

-----------------------------------------------------------------------------

Goto(t, l) == pc' = [pc EXCEPT ![t] = l]
Keep(t, l) == Goto(t, l) /\ UNCHANGED local

\* The call is over.
Return(t) == Goto(t, "idle") /\ local' = [local EXCEPT ![t] = Blank]

Raise(index, i) == Later(index, i + 1)

\* compareAndSet on a field of cell c, from null.
Cas(c, field, v) == cells' = IF cells[c][field] = Null THEN [cells EXCEPT ![c][field] = v] ELSE cells

NewCell(v, e) == [val |-> v, enq |-> e, deq |-> Null]

\* The handle behind that of t in the ring.
NextHandle(t) ==
    LET k == CHOOSE j \in 1 .. Len(ring) : ring[j] = t IN ring[(k % Len(ring)) + 1]

-----------------------------------------------------------------------------
(* register                                                                *)

RegisterPut(t) ==
    /\ pc[t] = "new"
    /\ putNode' = [putNode EXCEPT ![t] = nodes.put]
    /\ Keep(t, "registerPop")
    /\ UNCHANGED <<putIndex, popIndex, cells, ring, nodes, popNode, enq, deq, handles, history>>

RegisterPop(t) ==
    /\ pc[t] = "registerPop"
    /\ popNode' = [popNode EXCEPT ![t] = nodes.pop]
    /\ Keep(t, "registerRing")
    /\ UNCHANGED <<putIndex, popIndex, cells, ring, nodes, putNode, enq, deq, handles, history>>

\* Every handle but the first is put behind the first.
RegisterRing(t) ==
    /\ pc[t] = "registerRing"
    /\ ring' = IF ring = <<>> THEN <<t>> ELSE <<ring[1], t>> \o Tail(ring)
    /\ Keep(t, "registerHelp")
    /\ UNCHANGED <<putIndex, popIndex, cells, nodes, putNode, popNode, enq, deq, handles, history>>

RegisterHelp(t) ==
    /\ pc[t] = "registerHelp"
    /\ eh' = [eh EXCEPT ![t] = NextHandle(t)]
    /\ Keep(t, "registerDeq")
    /\ UNCHANGED <<shared, dh, history>>

RegisterDeq(t) ==
    /\ pc[t] = "registerDeq"
    /\ dh' = [dh EXCEPT ![t] = NextHandle(t)]
    /\ Keep(t, "idle")
    /\ UNCHANGED <<shared, eh, history>>

Begins(t, k) ==
    /\ pc[t] = "idle"
    /\ calls[t] < Len(program[t])
    /\ program[t][calls[t] + 1] = k
    /\ calls' = [calls EXCEPT ![t] = @ + 1]

-----------------------------------------------------------------------------
(* enqueue                                                                 *)

\* Draw an index and find its cell; a node that is newer than the one in the
\* handle is noted there, and then in the queue.
Draw(t, l, reserve) ==
    LET n == FindCell(putNode[t], putIndex)
    IN  /\ putIndex' = putIndex + 1
        /\ putNode' = [putNode EXCEPT ![t] = n]
        /\ local' = [local EXCEPT ![t].index = putIndex, ![t].cell = At(n, putIndex),
                                  ![t].back = l, ![t].reserve = reserve]
        /\ Goto(t, IF putNode[t] < n THEN "chasePut" ELSE l)
        /\ UNCHANGED <<popIndex, cells, ring, nodes, popNode, enq, deq, handles, program, result>>

Enqueue(t) == Begins(t, "enqueue") /\ Draw(t, "putCell", 0)

ChasePut(t) ==
    /\ pc[t] = "chasePut"
    /\ nodes' = [nodes EXCEPT !.put = Later(@, putNode[t])]
    /\ Keep(t, local[t].back)
    /\ UNCHANGED <<putIndex, popIndex, cells, ring, putNode, popNode, enq, deq, handles, history>>

PutCell(t) ==
    LET c == local[t].cell
    IN  /\ pc[t] = "putCell"
        /\ Keep(t, IF Empty(c) THEN "putNew" ELSE "putVal")
        /\ UNCHANGED <<shared, handles, history>>

PutNew(t) ==
    LET c == local[t].cell
    IN  /\ pc[t] = "putNew"
        /\ IF Empty(c)
              THEN /\ cells' = [cells EXCEPT ![c] = NewCell(Current(t), Null)]
                   /\ Return(t)
              ELSE Keep(t, "putVal") /\ UNCHANGED cells
        /\ UNCHANGED <<putIndex, popIndex, ring, nodes, putNode, popNode, enq, deq, handles, history>>

PutVal(t) ==
    /\ pc[t] = "putVal"
    /\ Keep(t, IF cells[local[t].cell].val = Null THEN "putCas" ELSE "slowVal")
    /\ UNCHANGED <<shared, handles, history>>

PutCas(t) ==
    LET c == local[t].cell
    IN  /\ pc[t] = "putCas"
        /\ Cas(c, "val", Current(t))
        /\ IF cells[c].val = Null THEN Return(t) ELSE Keep(t, "slowVal")
        /\ UNCHANGED <<putIndex, popIndex, ring, nodes, putNode, popNode, enq, deq, handles, history>>

\* The slow path: a request with the index that failed.
SlowVal(t) ==
    /\ pc[t] = "slowVal"
    /\ enq' = [enq EXCEPT ![t].val = Current(t)]
    /\ local' = [local EXCEPT ![t].reserve = putNode[t], ![t].id = local[t].index]
    /\ Goto(t, "slowId")
    /\ UNCHANGED <<putIndex, popIndex, cells, ring, nodes, putNode, popNode, deq, handles, history>>

SlowId(t) ==
    /\ pc[t] = "slowId"
    /\ enq' = [enq EXCEPT ![t].id = local[t].index]
    /\ Keep(t, "slowTest")
    /\ UNCHANGED <<putIndex, popIndex, cells, ring, nodes, putNode, popNode, deq, handles, history>>

SlowTest(t) ==
    /\ pc[t] = "slowTest"
    /\ Keep(t, IF enq[t].id > 0 THEN "slowPut" ELSE "slowEnd")
    /\ UNCHANGED <<shared, handles, history>>

SlowPut(t) == pc[t] = "slowPut" /\ Draw(t, "slowCell", local[t].reserve) /\ UNCHANGED calls

SlowCell(t) ==
    /\ pc[t] = "slowCell"
    /\ Keep(t, IF Empty(local[t].cell) THEN "slowNew" ELSE "slowEnq")
    /\ UNCHANGED <<shared, handles, history>>

SlowNew(t) ==
    LET c == local[t].cell
    IN  /\ pc[t] = "slowNew"
        /\ cells' = IF Empty(c) THEN [cells EXCEPT ![c] = NewCell(Top, t)] ELSE cells
        /\ Keep(t, IF Empty(c) THEN "slowClaim" ELSE "slowEnq")
        /\ UNCHANGED <<putIndex, popIndex, ring, nodes, putNode, popNode, enq, deq, handles, history>>

\* The enq of a cell changes once, from null: it need not be read again.
SlowEnq(t) ==
    LET e == cells[local[t].cell].enq
    IN  /\ pc[t] = "slowEnq"
        /\ Keep(t, IF e = Null THEN "slowCas" ELSE IF e = t THEN "slowClaim" ELSE "slowTest")
        /\ UNCHANGED <<shared, handles, history>>

SlowCas(t) ==
    LET c == local[t].cell
    IN  /\ pc[t] = "slowCas"
        /\ Cas(c, "enq", t)
        /\ Keep(t, IF cells'[c].enq = t THEN "slowClaim" ELSE "slowTest")
        /\ UNCHANGED <<putIndex, popIndex, ring, nodes, putNode, popNode, enq, deq, handles, history>>

SlowClaim(t) ==
    /\ pc[t] = "slowClaim"
    /\ enq' = [enq EXCEPT ![t].id = IF @ = local[t].id THEN -local[t].index ELSE @]
    /\ Keep(t, "slowEnd")
    /\ UNCHANGED <<putIndex, popIndex, cells, ring, nodes, putNode, popNode, deq, handles, history>>

\* The cell the request was given, by whomever, sought from node n on.
SlowEndFrom(t, n) ==
    LET i == -enq[t].id
    IN  /\ pc[t] = "slowEnd"
        /\ local' = [local EXCEPT ![t].i = i, ![t].cell = At(FindCell(n, i), i)]
        /\ Goto(t, IF i > local[t].index THEN "slowRaise" ELSE "slowSet")
        /\ UNCHANGED <<shared, handles, history>>

\* Mutant: from the node in the handle, which may be past the cell.
SlowEnd_NewNode(t) == SlowEndFrom(t, putNode[t])

SlowEnd(t) == SlowEndFrom(t, local[t].reserve)

SlowRaise(t) ==
    /\ pc[t] = "slowRaise"
    /\ putIndex' = Raise(putIndex, local[t].i)
    /\ Keep(t, "slowSet")
    /\ UNCHANGED <<popIndex, cells, ring, nodes, putNode, popNode, enq, deq, handles, history>>

\* Without a cell the program ends.
SlowSet(t) ==
    LET c == local[t].cell
    IN  /\ pc[t] = "slowSet"
        /\ IF Empty(c) THEN Keep(t, "exit") /\ UNCHANGED cells
           ELSE cells' = [cells EXCEPT ![c].val = Current(t)] /\ Return(t)
        /\ UNCHANGED <<putIndex, popIndex, ring, nodes, putNode, popNode, enq, deq, handles, history>>

-----------------------------------------------------------------------------
(* help_enq, for cell c and index i                                        *)

\* help_enq returns v.
Gives(t, v) ==
    /\ local' = [local EXCEPT ![t].val = v, ![t].e = Null, ![t].ei = 0, ![t].ev = Null,
                              ![t].pe = Null, ![t].id = 0, ![t].outer = FALSE]
    /\ Goto(t, local[t].back)

\* The hundred reads of val end with the first that finds something, or with
\* the last one.
HelpVal(t) ==
    LET v == cells[local[t].cell].val
    IN  /\ pc[t] = "helpVal"
        /\ IF v \in {Null, Top} THEN Keep(t, IF v = Null THEN "helpSeal" ELSE "helpEnq")
           ELSE Gives(t, v)
        /\ UNCHANGED <<shared, handles, history>>

HelpSeal(t) ==
    LET c == local[t].cell
    IN  /\ pc[t] = "helpSeal"
        /\ Cas(c, "val", Top)
        /\ Keep(t, IF cells[c].val = Null THEN "helpEnq" ELSE "helpLost")
        /\ UNCHANGED <<putIndex, popIndex, ring, nodes, putNode, popNode, enq, deq, handles, history>>

HelpLost(t) ==
    LET v == cells[local[t].cell].val
    IN  /\ pc[t] = "helpLost"
        /\ IF v = Top THEN Keep(t, "helpEnq") ELSE Gives(t, v)
        /\ UNCHANGED <<shared, handles, history>>

\* Where help_enq goes with what it has found in enq.
Found(t, e) == IF e = Top THEN Keep(t, "helpEmpty")
               ELSE local' = [local EXCEPT ![t].e = e] /\ Goto(t, "helpId")

HelpEnq(t) ==
    LET e == cells[local[t].cell].enq
    IN  /\ pc[t] = "helpEnq"
        /\ IF e = Null THEN Keep(t, "helpPeer") ELSE Found(t, e)
        /\ UNCHANGED <<shared, handles, history>>

HelpPeer(t) ==
    LET id == enq[eh[t]].id
        fits == id > 0 /\ id <= local[t].i
    IN  /\ pc[t] = "helpPeer"
        /\ local' = [local EXCEPT ![t].pe = eh[t], ![t].id = id, ![t].outer = ~fits]
        /\ Goto(t, IF fits THEN "helpOffer" ELSE "helpClose")
        /\ UNCHANGED <<shared, handles, history>>

HelpOffer(t) ==
    LET c == local[t].cell
    IN  /\ pc[t] = "helpOffer"
        /\ Cas(c, "enq", local[t].pe)
        /\ Found(t, cells'[c].enq)
        /\ UNCHANGED <<putIndex, popIndex, ring, nodes, putNode, popNode, enq, deq, handles, history>>

HelpClose(t) ==
    LET c == local[t].cell
    IN  /\ pc[t] = "helpClose"
        /\ Cas(c, "enq", Top)
        /\ Found(t, cells'[c].enq)
        /\ eh' = IF cells'[c].enq = Top THEN [eh EXCEPT ![t] = NextHandle(@)] ELSE eh
        /\ UNCHANGED <<putIndex, popIndex, ring, nodes, putNode, popNode, enq, deq, dh, history>>

\* Nobody will fill this cell: the queue is empty if no enqueue has come so far.
HelpEmpty(t) ==
    /\ pc[t] = "helpEmpty"
    /\ Gives(t, IF putIndex <= local[t].i THEN Bot ELSE Top)
    /\ UNCHANGED <<shared, handles, history>>

HelpId(t) ==
    /\ pc[t] = "helpId"
    /\ local' = [local EXCEPT ![t].ei = enq[local[t].e].id]
    /\ Goto(t, "helpEv")
    /\ UNCHANGED <<shared, handles, history>>

HelpEv(t) ==
    /\ pc[t] = "helpEv"
    /\ local' = [local EXCEPT ![t].ev = enq[local[t].e].val]
    /\ Goto(t, IF local[t].ei > 0 THEN "helpClaim" ELSE "helpId2")
    /\ UNCHANGED <<shared, handles, history>>

HelpClaim(t) ==
    LET e == local[t].e
    IN  /\ pc[t] = "helpClaim"
        /\ enq' = [enq EXCEPT ![e].id = IF @ = local[t].ei THEN -local[t].i ELSE @]
        /\ Keep(t, IF enq[e].id = local[t].ei THEN "helpRaise" ELSE "helpId2")
        /\ UNCHANGED <<putIndex, popIndex, cells, ring, nodes, putNode, popNode, deq, handles, history>>

HelpId2(t) ==
    /\ pc[t] = "helpId2"
    /\ Keep(t, IF enq[local[t].e].id = -local[t].i THEN "helpVal2" ELSE "helpNext")
    /\ UNCHANGED <<shared, handles, history>>

HelpVal2(t) ==
    /\ pc[t] = "helpVal2"
    /\ Keep(t, IF cells[local[t].cell].val = Top THEN "helpRaise" ELSE "helpNext")
    /\ UNCHANGED <<shared, handles, history>>

HelpRaise(t) ==
    /\ pc[t] = "helpRaise"
    /\ putIndex' = Raise(putIndex, local[t].i)
    /\ Keep(t, "helpSet")
    /\ UNCHANGED <<popIndex, cells, ring, nodes, putNode, popNode, enq, deq, handles, history>>

\* Mutant: the item is left to the enqueuer to write.
HelpSet_Left(t) ==
    /\ pc[t] = "helpSet"
    /\ Keep(t, "helpNext")
    /\ UNCHANGED <<shared, handles, history>>

HelpSet(t) ==
    /\ pc[t] = "helpSet"
    /\ cells' = [cells EXCEPT ![local[t].cell].val = local[t].ev]
    /\ Keep(t, "helpNext")
    /\ UNCHANGED <<putIndex, popIndex, ring, nodes, putNode, popNode, enq, deq, handles, history>>

HelpNext(t) ==
    LET id == local[t].id
        on == local[t].outer \/ (id > 0 /\ id # enq[local[t].pe].id)
    IN  /\ pc[t] = "helpNext"
        /\ eh' = IF on THEN [eh EXCEPT ![t] = NextHandle(@)] ELSE eh
        /\ Keep(t, "helpDone")
        /\ UNCHANGED <<shared, dh, history>>

HelpDone(t) ==
    /\ pc[t] = "helpDone"
    /\ Gives(t, cells[local[t].cell].val)
    /\ UNCHANGED <<shared, handles, history>>

-----------------------------------------------------------------------------
(* dequeue and deq_slow                                                    *)

Dequeue(t) ==
    /\ Begins(t, "dequeue")
    /\ popIndex' = popIndex + 1
    /\ local' = [local EXCEPT ![t].index = popIndex, ![t].i = popIndex,
                              ![t].dp = FindCell(popNode[t], popIndex),
                              ![t].cell = At(FindCell(popNode[t], popIndex), popIndex),
                              ![t].back = "popDeq"]
    /\ Goto(t, "popCell")
    /\ UNCHANGED <<putIndex, cells, ring, nodes, putNode, popNode, enq, deq, handles, program, result>>

\* A node that is newer than the one in the handle is noted there.
PopOn(t, l) == IF popNode[t] < local[t].dp THEN "popNode" ELSE l

PopCell(t) ==
    /\ pc[t] = "popCell"
    /\ Keep(t, IF Empty(local[t].cell) THEN "popNew" ELSE PopOn(t, "helpVal"))
    /\ UNCHANGED <<shared, handles, history>>

PopNew(t) ==
    LET c == local[t].cell
    IN  /\ pc[t] = "popNew"
        /\ cells' = IF Empty(c) THEN [cells EXCEPT ![c] = NewCell(Null, Null)] ELSE cells
        /\ Keep(t, PopOn(t, "helpVal"))
        /\ UNCHANGED <<putIndex, popIndex, ring, nodes, putNode, popNode, enq, deq, handles, history>>

PopNode(t) ==
    /\ pc[t] = "popNode"
    /\ popNode' = [popNode EXCEPT ![t] = local[t].dp]
    /\ Keep(t, "chasePop")
    /\ UNCHANGED <<putIndex, popIndex, cells, ring, nodes, putNode, enq, deq, handles, history>>

ChasePop(t) ==
    /\ pc[t] = "chasePop"
    /\ nodes' = [nodes EXCEPT !.pop = Later(@, popNode[t])]
    /\ Keep(t, IF local[t].then = "slowGot" THEN "slowGot" ELSE "helpVal")
    /\ UNCHANGED <<putIndex, popIndex, cells, ring, putNode, popNode, enq, deq, handles, history>>

\* Bot becomes the null that dequeue returns; with an item, help the dequeue of
\* another thread first.
Got(t, v) ==
    /\ result' = [result EXCEPT ![Current(t)] = IF v = Bot THEN Null ELSE v]
    /\ IF v = Bot THEN Return(t)
       ELSE /\ local' = [local EXCEPT ![t] = [Blank EXCEPT !.ph = dh[t], !.then = "dequeued"]]
            /\ Goto(t, "askIdx")

\* An item belongs to the first who signs its cell.
PopDeq(t) ==
    LET c == local[t].cell
        v == local[t].val
        unsigned == cells[c].deq = Null
    IN  /\ pc[t] = "popDeq"
        /\ IF v \in {Top, Bot} THEN UNCHANGED cells ELSE Cas(c, "deq", Top)
        /\ IF v = Bot \/ (v # Top /\ unsigned) THEN Got(t, v)
           ELSE Keep(t, "slowDeqId") /\ UNCHANGED result
        /\ UNCHANGED <<putIndex, popIndex, ring, nodes, putNode, popNode, enq, deq, handles, program, calls>>

SlowDeqId(t) ==
    /\ pc[t] = "slowDeqId"
    /\ deq' = [deq EXCEPT ![t].id = local[t].index]
    /\ Keep(t, "slowDeqIdx")
    /\ UNCHANGED <<putIndex, popIndex, cells, ring, nodes, putNode, popNode, enq, handles, history>>

SlowDeqIdx(t) ==
    /\ pc[t] = "slowDeqIdx"
    /\ deq' = [deq EXCEPT ![t].idx = local[t].index]
    /\ local' = [local EXCEPT ![t] = [Blank EXCEPT !.ph = t, !.then = "slowDone"]]
    /\ Goto(t, "askIdx")
    /\ UNCHANGED <<putIndex, popIndex, cells, ring, nodes, putNode, popNode, enq, handles, history>>

\* The cell the request was given.
SlowDone(t) ==
    LET i == -deq[t].idx
        n == FindCell(popNode[t], i)
    IN  /\ pc[t] = "slowDone"
        /\ local' = [local EXCEPT ![t] = [Blank EXCEPT !.dp = n, !.cell = At(n, i), !.then = "slowGot"]]
        /\ Goto(t, IF Empty(At(n, i)) THEN "exit" ELSE IF popNode[t] < n THEN "popNode" ELSE "slowGot")
        /\ UNCHANGED <<shared, handles, history>>

SlowGot(t) ==
    LET v == cells[local[t].cell].val
    IN  /\ pc[t] = "slowGot"
        /\ Got(t, IF v = Top THEN Bot ELSE v)
        /\ UNCHANGED <<shared, handles, program, calls>>

\* help_deq has returned.
Dequeued(t) ==
    /\ pc[t] = "dequeued"
    /\ dh' = [dh EXCEPT ![t] = NextHandle(@)]
    /\ Return(t)
    /\ UNCHANGED <<shared, eh, history>>

-----------------------------------------------------------------------------
(* help_deq, for the Deq of ph                                             *)

\* help_deq returns.
Leave(t) ==
    /\ Goto(t, local[t].then)
    /\ local' = [local EXCEPT ![t] = Blank]

AskIdx(t) ==
    /\ pc[t] = "askIdx"
    /\ local' = [local EXCEPT ![t].idx = deq[local[t].ph].idx]
    /\ Goto(t, "askId")
    /\ UNCHANGED <<shared, handles, history>>

AskId(t) ==
    LET id == deq[local[t].ph].id
    IN  /\ pc[t] = "askId"
        /\ IF local[t].idx < id THEN Leave(t)
           ELSE local' = [local EXCEPT ![t].did = id] /\ Goto(t, "askNode")
        /\ UNCHANGED <<shared, handles, history>>

AskNode(t) ==
    /\ pc[t] = "askNode"
    /\ local' = [local EXCEPT ![t].dp = popNode[local[t].ph]]
    /\ Goto(t, "askAgain")
    /\ UNCHANGED <<shared, handles, history>>

\* One more round of the inner loop, for index i, if idx has not changed;
\* otherwise see what it has become.
Round(t, idx, old, i) ==
    LET n == FindCell(local[t].dp, i)
    IN  IF idx = old
           THEN /\ local' = [local EXCEPT ![t].idx = idx, ![t].old = old, ![t].i = i,
                                          ![t].dp = n, ![t].cell = At(n, i), ![t].back = "seekDeq"]
                /\ Goto(t, "seekCell")
           ELSE /\ local' = [local EXCEPT ![t].idx = idx, ![t].old = old, ![t].i = i]
                /\ Goto(t, "moved")

AskAgain(t) ==
    /\ pc[t] = "askAgain"
    /\ Round(t, deq[local[t].ph].idx, local[t].did, local[t].did + 1)
    /\ UNCHANGED <<shared, handles, history>>

SeekCell(t) ==
    /\ pc[t] = "seekCell"
    /\ Keep(t, IF Empty(local[t].cell) THEN "seekNew" ELSE "seekRaise")
    /\ UNCHANGED <<shared, handles, history>>

SeekNew(t) ==
    LET c == local[t].cell
    IN  /\ pc[t] = "seekNew"
        /\ cells' = IF Empty(c) THEN [cells EXCEPT ![c] = NewCell(Null, Null)] ELSE cells
        /\ Keep(t, "seekRaise")
        /\ UNCHANGED <<putIndex, popIndex, ring, nodes, putNode, popNode, enq, deq, handles, history>>

SeekRaise(t) ==
    /\ pc[t] = "seekRaise"
    /\ popIndex' = Raise(popIndex, local[t].i)
    /\ Keep(t, "helpVal")
    /\ UNCHANGED <<putIndex, cells, ring, nodes, putNode, popNode, enq, deq, handles, history>>

\* An empty queue answers the request; an item nobody else has is a candidate.
SeekDeq(t) ==
    LET v == local[t].val
        r == local[t].ph
        free == cells[local[t].cell].deq \in {Null, r}
    IN  /\ pc[t] = "seekDeq"
        /\ deq' = IF v = Bot /\ deq[r].idx = local[t].idx
                     THEN [deq EXCEPT ![r].idx = -local[t].i] ELSE deq
        /\ IF deq' # deq THEN Leave(t)
           ELSE IF v \notin {Top, Bot} /\ free
              THEN local' = [local EXCEPT ![t].new = local[t].i] /\ Goto(t, "offerIdx")
           ELSE Keep(t, "seekAgain")
        /\ UNCHANGED <<putIndex, popIndex, cells, ring, nodes, putNode, popNode, enq, handles, history>>

SeekAgainAt(t, i) ==
    /\ pc[t] = "seekAgain"
    /\ Round(t, deq[local[t].ph].idx, local[t].old, i)
    /\ UNCHANGED <<shared, handles, history>>

\* Mutant: the loop stays at a cell that has nothing to give.
SeekAgain_Same(t) == SeekAgainAt(t, local[t].i)

SeekAgain(t) == SeekAgainAt(t, local[t].i + 1)

\* Note the candidate in the request, unless a later one is there.
OfferIdx(t) ==
    LET idx == deq[local[t].ph].idx
    IN  /\ pc[t] = "offerIdx"
        /\ IF idx < 0 THEN Leave(t)
           ELSE local' = [local EXCEPT ![t].idx = idx] /\ Goto(t, "offerId")
        /\ UNCHANGED <<shared, handles, history>>

\* Sign the cell of index idx next.
Take(t, idx) ==
    LET n == FindCell(local[t].dp, idx)
    IN  /\ local' = [local EXCEPT ![t].idx = idx, ![t].dp = n, ![t].cell = At(n, idx), ![t].new = 0]
        /\ Goto(t, "take")

OfferId(t) ==
    /\ pc[t] = "offerId"
    /\ IF deq[local[t].ph].id # local[t].did THEN Leave(t)
       ELSE IF local[t].idx >= local[t].new THEN Take(t, local[t].idx)
       ELSE Keep(t, "offerCas")
    /\ UNCHANGED <<shared, handles, history>>

OfferCas(t) ==
    LET r == local[t].ph
    IN  /\ pc[t] = "offerCas"
        /\ IF deq[r].idx = local[t].idx
              THEN /\ deq' = [deq EXCEPT ![r].idx = local[t].new]
                   /\ Take(t, local[t].new)
              ELSE Keep(t, "offerIdx") /\ UNCHANGED deq
        /\ UNCHANGED <<putIndex, popIndex, cells, ring, nodes, putNode, popNode, enq, handles, history>>

\* Another helper has changed idx.
Moved(t) ==
    LET idx == local[t].idx
    IN  /\ pc[t] = "moved"
        /\ IF idx < 0 \/ deq[local[t].ph].id # local[t].did THEN Leave(t)
           ELSE IF idx < local[t].i THEN Round(t, idx, idx, local[t].i)
           ELSE Take(t, idx)
        /\ UNCHANGED <<shared, handles, history>>

TakeCell(t) ==
    LET c == local[t].cell
    IN  /\ pc[t] = "take"
        /\ IF Empty(c) THEN Keep(t, "exit") /\ UNCHANGED cells
           ELSE /\ Cas(c, "deq", local[t].ph)
                /\ IF cells'[c].deq = local[t].ph THEN Keep(t, "finish")
                   ELSE Round(t, local[t].idx, local[t].idx, local[t].idx + 1)
        /\ UNCHANGED <<putIndex, popIndex, ring, nodes, putNode, popNode, enq, deq, handles, history>>

Finish(t) ==
    LET idx == local[t].idx
    IN  /\ pc[t] = "finish"
        /\ deq' = [deq EXCEPT ![local[t].ph].idx = IF @ = idx THEN -idx ELSE @]
        /\ Leave(t)
        /\ UNCHANGED <<putIndex, popIndex, cells, ring, nodes, putNode, popNode, enq, handles, history>>

-----------------------------------------------------------------------------

Step(t) ==
    \/ RegisterPut(t) \/ RegisterPop(t) \/ RegisterRing(t) \/ RegisterHelp(t) \/ RegisterDeq(t)
    \/ ChasePut(t) \/ PutCell(t) \/ PutNew(t) \/ PutVal(t) \/ PutCas(t)
    \/ SlowVal(t) \/ SlowId(t) \/ SlowTest(t) \/ SlowPut(t) \/ SlowCell(t) \/ SlowNew(t)
    \/ SlowEnq(t) \/ SlowCas(t) \/ SlowClaim(t) \/ SlowEnd(t) \/ SlowRaise(t) \/ SlowSet(t)
    \/ HelpVal(t) \/ HelpSeal(t) \/ HelpLost(t) \/ HelpEnq(t) \/ HelpPeer(t) \/ HelpOffer(t)
    \/ HelpClose(t) \/ HelpEmpty(t) \/ HelpId(t) \/ HelpEv(t) \/ HelpClaim(t) \/ HelpId2(t)
    \/ HelpVal2(t) \/ HelpRaise(t) \/ HelpSet(t) \/ HelpNext(t) \/ HelpDone(t)
    \/ PopCell(t) \/ PopNew(t) \/ PopNode(t) \/ ChasePop(t) \/ PopDeq(t)
    \/ SlowDeqId(t) \/ SlowDeqIdx(t) \/ SlowDone(t) \/ SlowGot(t) \/ Dequeued(t)
    \/ AskIdx(t) \/ AskId(t) \/ AskNode(t) \/ AskAgain(t) \/ SeekCell(t) \/ SeekNew(t)
    \/ SeekRaise(t) \/ SeekDeq(t) \/ SeekAgain(t) \/ OfferIdx(t) \/ OfferId(t) \/ OfferCas(t)
    \/ Moved(t) \/ TakeCell(t) \/ Finish(t)

Next == \E t \in Thread : Enqueue(t) \/ Dequeue(t) \/ Step(t)

Spec == Init /\ [][Next]_vars

PcLabels ==
    {"new", "registerPop", "registerRing", "registerHelp", "registerDeq", "idle",
     "chasePut", "putCell", "putNew", "putVal", "putCas", "slowVal", "slowId", "slowTest",
     "slowPut", "slowCell", "slowNew", "slowEnq", "slowCas", "slowClaim", "slowEnd", "slowRaise",
     "slowSet", "helpVal", "helpSeal", "helpLost", "helpEnq", "helpPeer", "helpOffer",
     "helpClose", "helpEmpty", "helpId", "helpEv", "helpClaim", "helpId2", "helpVal2",
     "helpRaise", "helpSet", "helpNext", "helpDone", "popCell", "popNew", "popNode",
     "chasePop", "popDeq", "slowDeqId", "slowDeqIdx", "slowDone", "slowGot", "dequeued",
     "askIdx", "askId", "askNode", "askAgain", "seekCell", "seekNew", "seekRaise", "seekDeq",
     "seekAgain", "offerIdx", "offerId", "offerCas", "moved", "take", "finish"}

\* No thread is at "exit": a request is answered with a cell that exists, and
\* the null tests before System.exit (WaitFreeQueue.java:174 and 390) fail.
TypeOK ==
    /\ putIndex \in Used .. Cells
    /\ popIndex \in Used .. Cells
    /\ cells \in [0 .. Cells - 1 -> Cell \cup {Null}]
    /\ {ring[k] : k \in DOMAIN ring} \subseteq Thread
    /\ nodes \in [put : 0 .. Segment(Cells), pop : 0 .. Segment(Cells)]
    /\ putNode \in [Thread -> 0 .. Segment(Cells)]
    /\ popNode \in [Thread -> 0 .. Segment(Cells)]
    /\ enq \in [Thread -> [id : -Cells .. Cells, val : Item \cup {Null}]]
    /\ deq \in [Thread -> [id : 0 .. Cells, idx : -Cells .. Cells]]
    /\ eh \in [Thread -> Thread]
    /\ dh \in [Thread -> Thread]
    /\ result \in [Op -> Item \cup {Null, None}]
    /\ pc \in [Thread -> PcLabels]

=============================================================================
