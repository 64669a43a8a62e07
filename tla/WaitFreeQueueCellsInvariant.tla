-------------------- MODULE WaitFreeQueueCellsInvariant ---------------------
(***************************************************************************)
(* The queue on cells: what holds in every state of WaitFreeQueue, of what *)
(* is shared, of each thread, and of what a thread has read.               *)
(***************************************************************************)
EXTENDS WaitFreeQueue

-----------------------------------------------------------------------------
(* Where a thread is.                                                      *)

\* The access of the enqueue that comes next, or that comes after chasePut.
Pc(t) == IF pc[t] = "chasePut" THEN local[t].back ELSE pc[t]

FastPcs == {"putCell", "putNew", "putVal", "putCas", "slowVal", "slowId"}
OpenPcs == {"slowTest", "slowPut", "slowCell", "slowNew", "slowEnq", "slowCas", "slowClaim",
            "slowEnd", "slowRaise", "slowSet"}
HelpPcs == {"helpVal", "helpSeal", "helpLost", "helpEnq", "helpPeer", "helpOffer", "helpClose",
            "helpEmpty", "helpId", "helpEv", "helpClaim", "helpId2", "helpVal2", "helpRaise",
            "helpSet", "helpNext", "helpDone"}
SeekPcs == {"askIdx", "askId", "askNode", "askAgain", "seekCell", "seekNew", "seekRaise",
            "seekDeq", "seekAgain", "offerIdx", "offerId", "offerCas", "moved", "take", "finish"}
NodePcs == {"popNode", "chasePop"}
RegisterPcs == {"new", "registerPop", "registerRing", "registerHelp", "registerDeq"}

\* In an enqueue: no request so far; with a request, open or answered.
Fast(t) == Pc(t) \in FastPcs
Open(t) == Pc(t) \in OpenPcs
InPut(t) == Fast(t) \/ Open(t)
Away(t) == pc[t] # "chasePut" /\ ~InPut(t)

\* In help_deq; in a dequeue with an index and no request; with a request of its
\* own that is answered for sure; with any request of its own.
Helping(t) == pc[t] \in SeekPcs \/ (pc[t] \in HelpPcs /\ local[t].back = "seekDeq")
Drawn(t) ==
    \/ pc[t] \in {"popCell", "popNew", "popDeq", "slowDeqId"}
    \/ pc[t] \in HelpPcs /\ local[t].back = "popDeq"
    \/ pc[t] \in NodePcs /\ local[t].then # "slowGot"
Answering(t) ==
    \/ pc[t] \in {"slowDone", "slowGot"}
    \/ pc[t] \in NodePcs /\ local[t].then = "slowGot"
Asking(t) == (Helping(t) /\ local[t].then = "slowDone") \/ Answering(t)

Registered(t) == pc[t] \notin {"new", "registerPop", "registerRing"}
InCall(t) == Registered(t) /\ pc[t] \notin {"registerHelp", "registerDeq", "idle"}

-----------------------------------------------------------------------------
(* What the code goes by although it read it some time ago.  Each of the   *)
(* three can fail if a thread enqueues twice: the README has a behaviour   *)
(* for each.                                                               *)

\* help_enq gives a request no cell before its first index (WaitFreeQueue.java:238).
ClaimsFit == \A t \in Thread :
    pc[t] = "helpClaim" /\ enq[local[t].e].id = local[t].ei => local[t].ei <= local[t].i

\* What it writes for a request that was given this cell is the item of that
\* request, not of the one before (WaitFreeQueue.java:236-243).
ItemsFit == \A t \in Thread :
    pc[t] = "helpVal2" /\ cells[local[t].cell].val = Top => local[t].ev = enq[local[t].e].val

\* help_deq replaces a candidate only if another has signed its cell (370).
OffersFit == \A t \in Thread :
    pc[t] = "offerCas" /\ deq[local[t].ph].idx = local[t].idx
        => local[t].idx = local[t].did \/ cells[local[t].idx].deq \notin {Null, local[t].ph}

\* The behaviour has cells enough: a bound of the model.
Bounded == putIndex < Cells /\ popIndex < Cells

Fits == Bounded /\ ClaimsFit /\ ItemsFit /\ OffersFit

-----------------------------------------------------------------------------
(* The invariant: types.                                                   *)

Number == 0 .. Cells - 1

Local == [index : Int, reserve : Nat, val : Item \cup {Null, Top, Bot},
          back : PcLabels, cell : Int, i : Int, e : Thread \cup {Null, Top}, ei : Int,
          ev : Item \cup {Null}, pe : Thread \cup {Null}, id : Int, outer : BOOLEAN,
          ph : Thread \cup {Null}, then : PcLabels, did : Int, idx : Int, old : Int, new : Int,
          dp : Nat]

TypeInv ==
    /\ putIndex \in Nat /\ popIndex \in Nat /\ Used <= putIndex /\ Used <= popIndex
    /\ cells \in [Number -> Cell \cup {Null}]
    /\ ring \in Seq(Thread)
    /\ nodes \in [put : Nat, pop : Nat]
    /\ putNode \in [Thread -> Nat]
    /\ popNode \in [Thread -> Nat]
    /\ enq \in [Thread -> [id : Int, val : Item \cup {Null}]]
    /\ deq \in [Thread -> [id : Nat, idx : Int]]
    /\ eh \in [Thread -> Thread]
    /\ dh \in [Thread -> Thread]
    /\ program \in Programs
    /\ calls \in [Thread -> 0 .. MaxCalls]
    /\ result \in [Op -> Item \cup {Null, None}]
    /\ pc \in [Thread -> PcLabels]
    /\ local \in [Thread -> Local]
    /\ \A t \in Thread : InCall(t) => calls[t] # 0

-----------------------------------------------------------------------------
(* The invariant: enqueues.                                                *)

\* An index that was drawn belongs to one enqueue, and the cell of it is where
\* the handle says.
PutInv(t) ==
    /\ putNode[t] <= Segment(putIndex)
    /\ pc[t] = "chasePut" => local[t].back \in {"putCell", "slowCell"}
    /\ InPut(t) =>
        /\ local[t].index \in Used .. putIndex - 1
        /\ putNode[t] <= Segment(local[t].index)
        /\ \A u \in Thread \ {t} : InPut(u) => local[u].index # local[t].index
    /\ Pc(t) \in {"putCell", "putNew", "putVal", "putCas", "slowCell", "slowNew", "slowEnq",
                  "slowCas", "slowClaim"} => local[t].cell = local[t].index
    /\ Pc(t) \in {"putVal", "putCas", "slowEnq", "slowCas", "slowClaim"}
            => cells[local[t].index] # Null
    /\ Pc(t) = "slowClaim" => cells[local[t].index].enq = t

\* The request of t has been given a cell, not before its first index.
Claimed(t) ==
    LET c == -enq[t].id
    IN  /\ c \in Number /\ c > 0 /\ c >= local[t].id
        /\ cells[c] # Null
        /\ cells[c].enq = t
        /\ cells[c].val \in {Null, Top, Current(t)}

\* A request is open or has a cell; without one, the last has its item in its cell.
ReqInv(t) ==
    /\ ~Open(t) => /\ enq[t].id <= 0
                   /\ enq[t].id < 0 => /\ -enq[t].id \in Number
                                       /\ cells[-enq[t].id] # Null
                                       /\ cells[-enq[t].id].val \in Op
    /\ pc[t] = "slowId" => /\ enq[t].val = Current(t)
                           /\ local[t].id = local[t].index
                           /\ local[t].reserve <= Segment(local[t].id)
    /\ Open(t) => /\ enq[t].val = Current(t)
                  /\ local[t].id \in Used .. local[t].index
                  /\ local[t].reserve <= Segment(local[t].id)
                  /\ enq[t].id = local[t].id \/ Claimed(t)
    /\ pc[t] \in {"slowEnd", "slowRaise", "slowSet"} => enq[t].id < 0
    /\ pc[t] \in {"slowRaise", "slowSet"} => local[t].i = -enq[t].id /\ local[t].cell = local[t].i
    /\ pc[t] = "slowSet" => local[t].i < putIndex

\* The item of a call is in the cell of its request or nowhere; items of earlier
\* calls are behind.
Placed(t, c) == InPut(t) =>
    /\ cells[c].val = Current(t) => Open(t) /\ enq[t].id = -c
    /\ cells[c].val \in Op /\ cells[c].val # Current(t) /\ cells[c].enq = t
            => c < IF Open(t) THEN local[t].id ELSE local[t].index
    /\ cells[c].val \in Op /\ cells[c].enq = Null => local[t].index # c
    /\ cells[c].val = Null /\ cells[c].enq \in Thread \ {t} => local[t].index # c

ItemAt(c) ==
    /\ cells[c].enq = Top => cells[c].val = Top
    /\ cells[c].val = Null /\ cells[c].enq \in Thread => c < putIndex
    /\ cells[c].val = Old => c < Used
    /\ cells[c].val \in Op => c < putIndex /\ cells[c].val[2] <= calls[cells[c].val[1]]
    /\ \A t \in Thread : Placed(t, c)

ItemInv == \A c \in Number : cells[c] # Null => ItemAt(c)

OneCell ==
    \A c1, c2 \in Number :
        cells[c1] # Null /\ cells[c2] # Null /\ cells[c1].val \in Op /\ cells[c1].val = cells[c2].val
            => c1 = c2

-----------------------------------------------------------------------------
(* The invariant: help_enq.                                                *)

\* An id that was read: the next request of e has a greater one.
Known(e, x) ==
    /\ x < putIndex
    /\ Open(e) => x <= local[e].id
    /\ Fast(e) => x < local[e].index

\* What a helper has in hand for cell c is there, or is the item of the request.
Due(e, c, v) ==
    \/ v \in Op /\ cells[c].val = v
    \/ Open(e) /\ enq[e].id = -c /\ v = Current(e)

HelpAt(l, f) == l \in HelpPcs =>
    LET c == f.i
        e == f.e
    IN  /\ c \in 1 .. Cells - 1 /\ f.cell = c
        /\ f.back \in {"popDeq", "seekDeq"}
        /\ cells[c] # Null
        /\ l \notin {"helpVal", "helpSeal"} => cells[c].val # Null
        /\ l \in {"helpEnq", "helpPeer", "helpOffer", "helpClose"}
                => (cells[c].enq = Null => cells[c].val = Top)
        /\ l = "helpOffer" => f.pe \in Thread
        /\ l = "helpEmpty" => cells[c].enq = Top
        /\ l \in {"helpId", "helpEv", "helpClaim", "helpId2", "helpVal2", "helpRaise", "helpSet"}
                => e \in Thread /\ cells[c].enq = e
        /\ l \in {"helpEv", "helpClaim"} => (f.ei > 0 => Known(e, f.ei))
        /\ l = "helpClaim" => /\ f.ei > 0
                              /\ enq[e].id = f.ei => f.ev = enq[e].val
        /\ l = "helpVal2" => (cells[c].val = Top => Open(e) /\ enq[e].id = -c)
        /\ l \in {"helpRaise", "helpSet"} => Due(e, c, f.ev)
        /\ l = "helpSet" => c < putIndex

HelpInv(t) == HelpAt(pc[t], local[t])

\* Its answer is the item of the cell, or that the cell is closed.
ValAt(l, f) == l \in {"popDeq", "seekDeq"} =>
    LET c == f.i
    IN  /\ c \in 1 .. Cells - 1 /\ f.cell = c
        /\ cells[c] # Null
        /\ f.val \in Op => cells[c].val = f.val
        /\ f.val = Bot => cells[c].val = Top /\ cells[c].enq = Top

ValInv(t) == ValAt(pc[t], local[t])

-----------------------------------------------------------------------------
(* The invariant: dequeues.                                                *)

DrawInv(t) ==
    /\ popNode[t] <= Segment(popIndex)
    /\ pc[t] \in RegisterPcs \cup {"idle"} => local[t] = Blank
    /\ Drawn(t) =>
        /\ local[t].index \in Used .. popIndex - 1
        /\ popNode[t] <= Segment(local[t].index)
        /\ deq[t].idx < 0 /\ deq[t].id < local[t].index
        /\ local[t].i = local[t].index /\ local[t].cell = local[t].index
        /\ local[t].dp = Segment(local[t].index)
        /\ local[t].then = "idle" /\ local[t].back = "popDeq"
        /\ pc[t] \notin {"popCell", "popNew"} => cells[local[t].index] # Null

\* The request of t has been answered with a cell behind its index, which t has
\* signed, or which will stay closed.
Answered(t) ==
    LET c == -deq[t].idx
    IN  /\ deq[t].id < c /\ c < popIndex
        /\ cells[c] # Null
        /\ cells[c].deq = t \/ (cells[c].val = Top /\ cells[c].enq = Top)

\* The request of t is open, with its own index or a candidate behind it.
Pending(t) ==
    /\ deq[t].idx \in deq[t].id .. popIndex - 1
    /\ deq[t].idx > deq[t].id => cells[deq[t].idx] # Null

DeqInv(t) ==
    /\ deq[t].id < popIndex /\ deq[t].idx >= -popIndex
    /\ deq[t].idx >= 0 => Asking(t) /\ Pending(t)
    /\ pc[t] = "slowDeqIdx" => /\ local[t].index = deq[t].id
                               /\ deq[t].id >= Used
                               /\ deq[t].idx < 0
                               /\ popNode[t] <= Segment(deq[t].id)
    /\ Asking(t) => /\ deq[t].id >= Used
                    /\ deq[t].idx < 0 => Answered(t)
                    /\ Helping(t) \/ pc[t] = "slowDone" => popNode[t] <= Segment(deq[t].id)
    /\ Answering(t) => deq[t].idx < 0
    /\ Answering(t) /\ pc[t] # "slowDone" => /\ local[t].cell = -deq[t].idx
                                             /\ local[t].dp = Segment(-deq[t].idx)

\* An idx that was read from the request of p, or a cell that it was given: the
\* next request of p begins behind it.
Prior(p, x) ==
    /\ x < popIndex
    /\ Drawn(p) => x < local[p].index
    /\ pc[p] = "slowDeqIdx" => x < deq[p].id

Bound(p, id, x) ==
    /\ x < popIndex
    /\ deq[p].id = id /\ Drawn(p) => x < local[p].index
    /\ deq[p].id # id => x < deq[p].id

\* A candidate stands until the request is answered or another has signed its cell.
Cand(p, x) == deq[p].idx = x \/ deq[p].idx < 0 \/ cells[x].deq \notin {Null, p}

SeekAt(t, l, f) ==
    LET p == f.ph
        id == f.did
        x == f.idx
        i == f.i
    IN  /\ p \in Thread /\ f.then \in {"slowDone", "dequeued"}
        /\ f.then = "slowDone" => p = t
        /\ l = "askId" =>
            /\ x >= 0 => Prior(p, x)
            /\ f.then = "slowDone" /\ x < deq[t].id => deq[t].idx < 0
        /\ l \notin {"askIdx", "askId"} =>
            /\ id \in 0 .. deq[p].id
            /\ f.then = "slowDone" => id = deq[t].id
            /\ id = deq[p].id => pc[p] # "slowDeqIdx"
        /\ l \in {"seekCell", "seekNew", "seekRaise", "seekDeq", "seekAgain", "offerId", "offerCas",
                  "moved", "take", "finish"} \cup HelpPcs =>
            (deq[p].id = id /\ x > id => deq[p].idx # id)
        /\ l = "askAgain" =>
            (deq[p].id = id /\ deq[p].idx >= 0 => f.dp <= Segment(id))
        /\ l \in {"seekCell", "seekNew", "seekRaise", "seekDeq", "seekAgain"} \cup HelpPcs =>
            /\ i \in id + 1 .. popIndex
            /\ f.dp = Segment(i) /\ f.cell = i
            /\ x = f.old /\ x >= 0 /\ Bound(p, id, x)
            /\ deq[p].id = id => x >= id
            /\ f.back = "seekDeq"
        /\ l \in {"seekRaise", "seekDeq", "seekAgain"} \cup HelpPcs => cells[i] # Null
        /\ l \in {"seekDeq", "seekAgain"} \cup HelpPcs => i < popIndex
        /\ l \in {"offerIdx", "offerId", "offerCas"} =>
            /\ f.new = i /\ i \in id + 1 .. popIndex - 1
            /\ cells[i] # Null /\ f.dp <= Segment(i)
        /\ l = "offerId" =>
            /\ x >= 0
            /\ deq[p].id = id => /\ x >= id /\ Bound(p, id, x)
                                 /\ x > id => cells[x] # Null /\ Cand(p, x)
        /\ l = "offerCas" => x >= 0 /\ x < i /\ Bound(p, id, x)
        /\ l = "moved" =>
            /\ i \in id + 1 .. popIndex
            /\ f.then = "slowDone" /\ x < 0 => deq[t].idx < 0
            /\ deq[p].id = id /\ x >= 0 =>
                /\ f.dp <= Segment(i)
                /\ x > id /\ Bound(p, id, x)
                /\ cells[x] # Null /\ Cand(p, x)
        /\ l \in {"take", "finish"} =>
            /\ x > id /\ Bound(p, id, x)
            /\ cells[x] # Null
            /\ f.cell = x /\ f.dp = Segment(x)
            /\ deq[p].id = id => Cand(p, x)
        /\ l = "finish" => cells[x].deq = p

SeekInv(t) == Helping(t) => SeekAt(t, pc[t], local[t])

\* A cell that was given out to p is before its next request.
Bar(p, c) ==
    /\ c < popIndex
    /\ Drawn(p) => c < local[p].index
    /\ pc[p] = "slowDeqIdx" \/ Asking(p) => c < deq[p].id

Given(v) == \E c \in Number :
    /\ cells[c] # Null /\ cells[c].val = v /\ cells[c].deq # Null
    /\ \A p \in Thread : cells[c].deq = p => Bar(p, c)

TakenInv == \A o \in Op : result[o] \in Op => Given(result[o])

\* No element is handed out twice.
TakenOnce ==
    \A o1, o2 \in Op : result[o1] \in Op /\ result[o1] = result[o2] => o1 = o2

-----------------------------------------------------------------------------

RingSet == {ring[k] : k \in 1 .. Len(ring)}

RingInv == \A t \in Thread :
    /\ Registered(t) => {t, eh[t], dh[t]} \subseteq RingSet
    /\ ~Registered(t) => eh[t] = t /\ dh[t] = t

NodesInv == nodes.put <= Segment(putIndex) /\ nodes.pop <= Segment(popIndex)

Own(t) == /\ PutInv(t) /\ ReqInv(t) /\ HelpInv(t) /\ ValInv(t)
          /\ DrawInv(t) /\ DeqInv(t) /\ SeekInv(t)

Whole == ItemInv /\ OneCell /\ TakenInv /\ TakenOnce /\ RingInv /\ NodesInv

IInv == TypeInv /\ Whole /\ \A t \in Thread : Own(t)

-----------------------------------------------------------------------------
(* The invariant: what follows if no thread makes a second request for an  *)
(* enqueue.                                                                *)

OneRequest == \A t \in Thread : pc[t] \in {"slowVal", "slowId"} => enq[t].id = 0

\* A cell that nobody will put an item in; a cell that has one.
Dead(c) ==
    /\ c \in Number /\ cells[c] # Null /\ cells[c].val = Top
    /\ \/ cells[c].enq = Top
       \/ /\ cells[c].enq \in Thread
          /\ enq[cells[c].enq].id < 0 /\ enq[cells[c].enq].id # -c
Full(c) == c \in Number /\ cells[c] # Null /\ cells[c].val \notin {Null, Top}

\* Cells that have nothing to give to p, now and later.
Passed(p, c) ==
    /\ c \in Number /\ cells[c] # Null
    /\ Dead(c) \/ cells[c].deq \notin {Null, p}
PassedTo(p, id, hi) == \A c \in Number : id < c /\ c < hi => Passed(p, c)

\* A cell is signed for a request that was made, not before its first index.
SignedAt(c) == cells[c] # Null /\ cells[c].enq \in Thread =>
    enq[cells[c].enq].id # 0 /\ enq[cells[c].enq].id <= c

Signed == \A c \in Number : SignedAt(c)

\* help_enq: what was read of a request holds until it is answered.
ReadAt(l, f) ==
    /\ l = "helpOffer" => enq[f.pe].id # 0 /\ enq[f.pe].id <= f.i
    /\ l \in {"helpEv", "helpClaim"} => enq[f.e].id < 0 \/ enq[f.e].id = f.ei
    /\ l \in {"helpClaim", "helpId2", "helpVal2"} => f.ev = enq[f.e].val
    /\ l = "helpId2" => enq[f.e].id < 0
    /\ l \in {"helpNext", "helpDone"} => (cells[f.i].val = Top => Dead(f.i))
    /\ l = "seekDeq" => IF f.val \in {Top, Bot} THEN Dead(f.i) ELSE Full(f.i)

\* help_deq: every cell behind the index of the request and before the one it
\* is at, or has found in the request, has nothing to give.
SoughtAt(l, f) ==
    LET p == f.ph
        id == f.did
    IN  /\ l \in {"seekCell", "seekNew", "seekRaise", "seekDeq", "seekAgain", "moved",
                   "offerIdx", "offerId", "offerCas"} => PassedTo(p, id, f.i)
        /\ l \in HelpPcs /\ f.back = "seekDeq" => PassedTo(p, id, f.i)
        /\ l = "seekAgain" => Passed(p, f.i)
        /\ l \in {"offerIdx", "offerId", "offerCas"} => Full(f.i)
        /\ l \in {"moved", "offerId"} /\ deq[p].id = id => PassedTo(p, id, f.idx)
        /\ l = "take" => PassedTo(p, id, f.idx)

\* A candidate has an item, and the cells before it have nothing to give.
WantedAt(p) == deq[p].idx > deq[p].id =>
    Full(deq[p].idx) /\ PassedTo(p, deq[p].id, deq[p].idx)

Sought == \A t \in Thread :
    ReadAt(pc[t], local[t]) /\ SoughtAt(pc[t], local[t]) /\ WantedAt(t)

-----------------------------------------------------------------------------
(* The programs of the theorems.                                           *)

\* No thread enqueues twice; it may dequeue as often as it likes.
OneEnqueue ==
    \A p \in Programs, t \in Thread : \A j, k \in 1 .. Len(p[t]) :
        p[t][j] = "enqueue" /\ p[t][k] = "enqueue" => j = k

\* A request comes from an enqueue that was made.
MadeInv(t) ==
    /\ InPut(t) => calls[t] \in 1 .. Len(program[t]) /\ program[t][calls[t]] = "enqueue"
    /\ Fast(t) => enq[t].id = 0
    /\ enq[t].id # 0 => \E k \in 1 .. calls[t] : program[t][k] = "enqueue"

MadeOnce == \A t \in Thread : MadeInv(t)

OnceInv == IInv /\ Signed /\ Sought /\ MadeOnce

=============================================================================
